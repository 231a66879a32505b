------------------------------ MODULE Listing ------------------------------
(* The list endpoints: a user reads the pages of one list after the other, every   *)
(* page a request of its own that first reads its table and then what is in       *)
(* memory, while clients, groups and rights may change. Also who reaches a stored *)
(* schedule. setup.list is the endpoint and setup.query what the user asks for;   *)
(* setup.page stands for the limits of the endpoint, 100 or 500 entries at most.  *)
EXTENDS Service, ClientGroups
LOCAL INSTANCE SequencesExt

ListColumns == {"id", "name", "tags"}

(* What each endpoint sorts and filters by; pages of all of them are limited.     *)
Supported(list) ==
    LET of(sorts, filters, fields) ==
            [sorts |-> sorts, filters |-> {<<c, "">> : c \in filters}, fields |-> fields, page |-> <<setup.page>>]
    IN  CASE list = "commands" -> of(ListColumns, ListColumns, [commands |-> ListColumns])
          [] list = "scripts" -> of(ListColumns, ListColumns, [scripts |-> ListColumns])
          [] list = "schedules" -> of({"id", "name"}, {"id", "name", "client_ids", "group_ids"}, <<>>)
          [] list = "clients" -> of({"id", "name"}, ListColumns \cup {"groups"}, [clients |-> ListColumns])
          [] list = "tags" -> of({}, {}, [client_tags |-> {"tag", "client_ids"}])
          [] list = "groups" -> of({"id", "name"}, {"id", "name"}, [client_groups |-> ListColumns])
          [] list = "credentials" -> of({}, {"id"}, <<>>)

(* ListColumns that the database cannot compare, because they hold lists.             *)
ManualFilters == {"tags", "client_ids", "group_ids"}

SortsDefault(list) == IF list = "groups" THEN <<[column |-> "id", asc |-> TRUE]>> ELSE <<>>

ListingInit(deployments) ==
    /\ Started(deployments)
    /\ db = [rows |-> setup.rows, groups |-> setup.groups,
             schedules |-> LET o == getOrderedClientsWithValidation(setup.clients, setup.groups, setup.targets)
                           IN  IF o.status = 200 /\ (setup.creator # setup.user.name \/ CheckClientsAccess(setup.clients, Range(o.clients), setup.user, setup.groups))
                               THEN <<"a">> :> ([by |-> setup.creator] @@ setup.targets) ELSE <<>>]
    /\ mem = [clients |-> setup.clients]
    /\ ghost = [walks |-> {}, failed |-> FALSE, revoked |-> FALSE, joined |-> FALSE]

(* ---- the answers ----------------------------------------------------------------- *)
(* The lists of commands, scripts and schedules: plain columns are compared by the *)
(* database, filters that name a list column as a whole in memory.                *)
List(o, rows) ==
    LET split == SplitFilters(o.filters, ManualFilters)
        entries == AddOrderBy(SetToSeq({x \in DOMAIN rows : AddWhere(rows[x], split.db)}), rows, o.sorts)
        shown == [x \in Range(entries) |-> ReplaceStarSelect(rows[x], o.fields)]
    IN  IF \E x \in DOMAIN shown : FilterError(shown[x], split.manual) THEN [status |-> 500]
        ELSE Sliced(SelectSeq(entries, LAMBDA x : MatchesFilters(shown[x], split.manual)), o.page)

ListScripts(o, rows) == List(o, rows)

ScheduleRow(x, p) == [id |-> <<x>>, name |-> <<x>>, client_ids |-> Named(p.ids), group_ids |-> Named(p.groups)]

ToCalculated(c, client, groups) ==
    [id |-> <<c>>, name |-> <<client.name>>, tags |-> client.tags,
     groups |-> SetToSeq({g \in DOMAIN groups : BelongsTo(client, groups[g])})]

GetFilteredUserClients(o, groups) ==
    {c \in getNonObsoleteClientsByUser(mem.clients, setup.user, groups) :
        MatchesFilters(ToCalculated(c, mem.clients[c], groups), o.filters)}

(* Clients are sorted by one column without regard to case, and by identifier.    *)
SortClients(found, sorts) ==
    LET key(c) == IF sorts = <<>> \/ sorts[1].column = "id" THEN <<>> ELSE ToLower(mem.clients[c].name)
        less(c, d) == Before(key(c), key(d)) \/ (key(c) = key(d) /\ Before(ToLower(c), ToLower(d)))
    IN  SetToSortSeq(found, LAMBDA c, d : IF sorts # <<>> /\ ~ sorts[1].asc THEN less(d, c) ELSE less(c, d))

(* The fields of an entry that are sent: all of them unless some were asked for.  *)
ConvertToClientPayload(fields) == IF fields = <<>> THEN ListColumns ELSE RequestedFields(fields, "clients") \cap ListColumns
convertToClientTagPayload(fields) ==
    IF fields = <<>> THEN {"tag", "client_ids"} ELSE RequestedFields(fields, "client_tags") \cap {"tag", "client_ids"}
convertToClientGroupPayload(requested) == IF requested = {} THEN ListColumns ELSE requested \cap ListColumns

(* One client is opened: its rights are checked first, then it is looked up.       *)
wrapClientAccessMiddleware(c, groups) == CheckClientAccess(mem.clients, c, setup.user, groups)

handleGetClient(c, o, groups) ==
    /\ wrapClientAccessMiddleware(c, groups)
    /\ ValidateRetrieveOptions(o.fields, Supported("clients").fields)
    /\ c \in getNonObsoleteClients(mem.clients)

handleGetClientGroup(g, groups) ==
    PopulateGroupsWithUserClients(mem.clients, setup.user, Restrict(groups, {g}))[g]

handleGetClients(o, groups) ==
    IF Len(o.sorts) > 1 THEN [status |-> 400] ELSE Sliced(SortClients(GetFilteredUserClients(o, groups), o.sorts), o.page)

handleGetClientTags(o, groups) ==
    LET clients == getNonObsoleteClientsByUser(mem.clients, setup.user, groups)
    IN  Sliced(SetToSortSeq(UNION {Range(mem.clients[c].tags) : c \in clients}, Before), o.page)

(* The groups without clients are dropped for those who are not administrators.   *)
handleGetClientGroups(o, groups) ==
    LET rows == [g \in DOMAIN groups |-> [id |-> <<g>>, name |-> <<groups[g].name>>]]
        chosen == {g \in DOMAIN groups : AddWhere(rows[g], o.filters)}
        members == PopulateGroupsWithUserClients(mem.clients, setup.user, Restrict(groups, chosen))
        shown == {g \in chosen : setup.user.admin \/ members[g] # {}}
    IN  Sliced(AddOrderBy(SetToSeq(shown), rows, o.sorts), o.page)

GetFiltered(o, rows) ==
    Sliced(SetToSortSeq({x \in DOMAIN rows : MatchesFilters(rows[x], o.filters)}, Before), o.page)

(* A schedule is reached by an administrator, and by whoever created it if they    *)
(* may use all its clients; a group that cannot be read, one of unread, is an       *)
(* error. Strictly resolved, a target that is gone is one too.                      *)
GroupsReadable(p, unread) == p.tags # <<>> \/ Range(Named(p.groups)) \cap unread = {}

checkScheduleAccessStrict(p, groups, unread) ==
    \/ setup.user.admin
    \/ /\ p.by = setup.user.name /\ GroupsReadable(p, unread)
       /\ LET o == getOrderedClientsWithValidation(mem.clients, groups, p)
          IN  o.status = 200 /\ CheckClientsAccess(mem.clients, Range(o.clients), setup.user, groups)

checkScheduleAccess(p, groups, unread) ==
    \/ setup.user.admin
    \/ /\ p.by = setup.user.name /\ GroupsReadable(p, unread)
       /\ CheckClientsAccess(mem.clients, Range(getOrderedClientsIgnoringMissing(mem.clients, groups, p)), setup.user, groups)

ListSchedules(o, schedules) == List(o, [x \in DOMAIN schedules |-> ScheduleRow(x, schedules[x])])

Shows(reply, ids) == [reply EXCEPT !.ids = ids, !.total = Len(ids)]

(* A schedule whose check fails is left out like one the user may not see.        *)
filterSchedulesForUser(reply, table, unread) ==
    IF reply.status # 200 THEN reply
    ELSE Shows(reply, SelectSeq(reply.ids, LAMBDA x : checkScheduleAccess(table.schedules[x], table.groups, unread)))

handleListSchedules(o, table, unread) == filterSchedulesForUser(ListSchedules(o, table.schedules), table, unread)

SentFields(o) ==
    CASE setup.list = "clients" -> ConvertToClientPayload(o.fields)
      [] setup.list = "tags" -> convertToClientTagPayload(o.fields)
      [] setup.list = "groups" -> convertToClientGroupPayload(RequestedFields(o.fields, "client_groups"))
      [] OTHER -> DOMAIN ReplaceStarSelect([c \in ListColumns |-> <<>>], o.fields)

ReplyTo(o, table, unread) ==
    CASE setup.list = "commands" -> List(o, table.rows)
      [] setup.list = "scripts" -> ListScripts(o, table.rows)
      [] setup.list = "schedules" -> handleListSchedules(o, table, unread)
      [] setup.list = "clients" -> handleGetClients(o, table.groups)
      [] setup.list = "tags" -> handleGetClientTags(o, table.groups)
      [] setup.list = "groups" -> handleGetClientGroups(o, table.groups)
      [] setup.list = "credentials" -> GetFiltered(o, table.rows)

(* ---- the requests ---------------------------------------------------------------- *)
Options(r) == NewOptions([setup.query EXCEPT !.offset = reqs[r].offset], SortsDefault(setup.list), <<>>)

WalkBegins(r) ==
    /\ Arrives("lists", r, "walk")
    /\ Becomes(r, [pc |-> "page", offset |-> setup.query.offset, ids |-> <<>>])
    /\ UNCHANGED <<db, mem, ghost>>

WalkEnds(r, status) ==
    /\ ghost' = [ghost EXCEPT !.walks = @ \cup {[status |-> status, ids |-> reqs[r].ids]}]
    /\ Return(r)

RefuseOptions(r) ==
    /\ Serves("lists") /\ reqs[r].pc = "page"
    /\ ~ ValidateListOptions(Options(r), Supported(setup.list))
    /\ WalkEnds(r, 400)
    /\ Quiet /\ UNCHANGED <<db, mem>>

ReadTable(r) ==
    /\ Serves("lists") /\ reqs[r].pc = "page"
    /\ ValidateListOptions(Options(r), Supported(setup.list))
    /\ Becomes(r, [pc |-> "answer", offset |-> reqs[r].offset, ids |-> reqs[r].ids, table |-> db])
    /\ Quiet /\ UNCHANGED <<db, mem, ghost>>

ReadFails(r) ==
    /\ Fault("lists", "statement")
    /\ reqs[r].pc = "page" /\ ValidateListOptions(Options(r), Supported(setup.list))
    /\ Return(r)
    /\ ghost' = [ghost EXCEPT !.failed = TRUE]
    /\ UNCHANGED <<db, mem>>

(* The page is answered; the user goes on behind it until the table is exhausted.  *)
Answers(r, unread, failed) ==
    /\ reqs[r].pc = "answer"
    /\ \E o \in {Validated(Options(r), Supported(setup.list))} : \E reply \in {ReplyTo(o, reqs[r].table, unread)} :
          LET next == o.page.offset + o.page.limit
              more == reply.status = 200 /\ next < setup.entries
              walk == [status |-> reply.status, ids |-> IF reply.status = 200 THEN reqs[r].ids \o reply.ids ELSE <<>>]
          IN  /\ Becomes(r, IF more THEN [pc |-> "page", offset |-> next, ids |-> reqs[r].ids \o reply.ids] ELSE Idle)
              /\ ghost' = [ghost EXCEPT !.failed = @ \/ failed, !.walks = IF more THEN @ ELSE @ \cup {walk}]
    /\ UNCHANGED <<db, mem>>

AnswerPage(r) == Serves("lists") /\ Answers(r, {}, FALSE) /\ Quiet

(* The groups of the schedules are read one by one while they are filtered.       *)
GroupReadsFail(r) ==
    /\ Fault("lists", "statement") /\ setup.list = "schedules" /\ ~ setup.user.admin
    /\ Answers(r, DOMAIN reqs[r].table.groups, TRUE)

(* ---- what changes meanwhile -------------------------------------------------------- *)
DeleteClient(r) ==
    /\ Arrives("lists", r, "delete client")
    /\ \E c \in DOMAIN mem.clients :
        /\ ~ mem.clients[c].obsolete /\ ~ mem.clients[c].connected
        /\ mem' = [mem EXCEPT !.clients = Without(@, c)]
    /\ UNCHANGED <<db, reqs, ghost>>

Obsoletes ==
    /\ Fault("lists", "time")
    /\ \E c \in setup.ages \cap DOMAIN mem.clients :
        /\ ~ mem.clients[c].connected
        /\ mem' = [mem EXCEPT !.clients[c].obsolete = TRUE]
    /\ UNCHANGED <<db, reqs, ghost>>

(* Rights are taken away when a group that grants them goes, or by a client's new  *)
(* list of user groups.                                                           *)
DeleteClientGroup(r) ==
    /\ Arrives("lists", r, "delete group")
    /\ \E g \in DOMAIN db.groups :
        /\ db' = [db EXCEPT !.groups = Without(@, g)]
        /\ ghost' = [ghost EXCEPT !.revoked = @ \/ OneOfUserGroupsIsAllowed(db.groups[g], setup.user.groups)]
    /\ UNCHANGED <<mem, reqs>>

handlePostClientACL(r) ==
    /\ Arrives("lists", r, "acl")
    /\ \E c \in getNonObsoleteClients(mem.clients), allowed \in SUBSET setup.user.groups :
        /\ mem' = [mem EXCEPT !.clients[c].allowed = allowed]
        /\ ghost' = [ghost EXCEPT !.revoked = @ \/ ~ (mem.clients[c].allowed \subseteq allowed)]
    /\ UNCHANGED <<db, reqs>>

(* New tags are written by the agent first, which may refuse or not answer; only  *)
(* then does the server take them over. They may move the client between groups.  *)
handleUpdateClientAttributes(r) ==
    /\ Arrives("lists", r, "attributes")
    /\ \E c \in DOMAIN mem.clients, tags \in setup.newTags :
        /\ mem.clients[c].connected
        /\ Becomes(r, [pc |-> "attributes", client |-> c, tags |-> tags])
    /\ UNCHANGED <<db, mem, ghost>>

AgentRefuses(r) ==
    /\ Fault("lists", "agent")
    /\ reqs[r].pc = "attributes"
    /\ Return(r)
    /\ UNCHANGED <<db, mem, ghost>>

(* The clients among the targets of a schedule, for a request that may have read   *)
(* its groups before one was deleted.                                              *)
Targeted(clients) == UNION {Range(getOrderedClientsIgnoringMissing(clients, setup.groups, p)) : p \in Range(db.schedules)}

SetAttributes(r) ==
    LET c == reqs[r].client
        clients == [mem.clients EXCEPT ![c].tags = reqs[r].tags]
        may(all) == MayUse(all[c], setup.user, db.groups)
    IN /\ Serves("lists") /\ reqs[r].pc = "attributes" /\ c \in DOMAIN mem.clients
       /\ mem' = [mem EXCEPT !.clients = clients]
       /\ ghost' = [ghost EXCEPT !.revoked = @ \/ (may(mem.clients) /\ ~ may(clients)),
                                 !.joined = @ \/ (c \in Targeted(clients) \ Targeted(mem.clients) /\ ~ may(clients))]
       /\ Return(r)
       /\ Quiet /\ UNCHANGED db

ListingNext ==
    \/ \E r \in Reqs : \/ WalkBegins(r) \/ RefuseOptions(r) \/ ReadTable(r) \/ ReadFails(r) \/ AnswerPage(r) \/ GroupReadsFail(r)
                       \/ DeleteClient(r) \/ DeleteClientGroup(r) \/ handlePostClientACL(r)
                       \/ handleUpdateClientAttributes(r) \/ AgentRefuses(r) \/ SetAttributes(r)
    \/ Obsoletes

(* ---- properties --------------------------------------------------------------------- *)
Glob(p, w) == Accepts([i \in DOMAIN p |-> IF p[i] = "*" THEN "any" ELSE ToLower(p)[i]], ToLower(w))

(* The members of a group by the plain meaning of its patterns.                   *)
Member(client, group) ==
    /\ group.params.name # <<>> \/ group.params.tag # <<>>
    /\ group.params.name # <<>> => \E p \in Range(group.params.name[1]) : Glob(p, client.name)
    /\ group.params.tag # <<>> =>
           LET t == group.params.tag[1]
               hit(o) == \E v \in Range(client.tags) : Glob(o, v)
           IN  IF t.kind = "object" /\ t.operator = "and" THEN \A o \in Range(t.operands) : hit(o)
               ELSE \E o \in Range(t.operands) : hit(o)

RowMeant(x) ==
    CASE setup.list = "clients" -> [ToCalculated(x, mem.clients[x], db.groups) EXCEPT
                                     !.groups = SetToSeq({g \in DOMAIN db.groups : Member(mem.clients[x], db.groups[g])})]
      [] setup.list = "groups" -> [id |-> <<x>>, name |-> <<db.groups[x].name>>]
      [] setup.list = "schedules" -> ScheduleRow(x, db.schedules[x])
      [] OTHER -> db.rows[x]

Hits(row, fo, v) == \E c \in Range(fo.columns) : \E i \in DOMAIN row[c] : Glob(v, row[c][i])
RowHits(row, fo) == {v \in Range(fo.values) : Hits(row, fo, v)} \in IF fo.logical = "and" THEN {Range(fo.values)} ELSE SUBSET Range(fo.values) \ {{}}
Meant(x, fo) == RowHits(RowMeant(x), fo)

(* The database compares plain values with regard to case and knows no and; in     *)
(* memory a filter can only look at columns that are among the fields asked for.   *)
InMemory(fo) == setup.list \in {"clients", "credentials"} \/ Range(fo.columns) \cap ManualFilters # {}
Comparable(o, fo) ==
    IF InMemory(fo) THEN setup.list = "clients" \/ Range(fo.columns) \subseteq SentFields(o)
    ELSE fo.logical # "and" /\ \A v \in Range(fo.values) : HasStar(v)

(* The signs that mean something else where a value with a wildcard is compared:   *)
(* a LIKE pattern has the underscore, a regular expression the dot and the plus;   *)
(* the underscore and the dot accept what they are, the plus need not.             *)
Holds(fo, signs) == \E v \in Range(fo.values) : HasStar(v) /\ Range(v) \cap signs # {}
ShowsMore(fo) == Holds(fo, IF InMemory(fo) THEN {".", "+"} ELSE {"_"})
ShowsLess(fo) == InMemory(fo) /\ Holds(fo, {"+"})

Visible ==
    {c \in DOMAIN mem.clients :
        /\ ~ mem.clients[c].obsolete
        /\ \/ setup.user.admin
           \/ setup.user.groups \cap mem.clients[c].allowed # {}
           \/ \E g \in DOMAIN db.groups : Member(mem.clients[c], db.groups[g]) /\ setup.user.groups \cap db.groups[g].allowed # {}}

Entries ==
    CASE setup.list = "clients" -> Visible
      [] setup.list = "groups" -> {g \in DOMAIN db.groups : setup.user.admin \/ \E c \in Visible : Member(mem.clients[c], db.groups[g])}
      [] setup.list = "schedules" -> DOMAIN db.schedules
      [] OTHER -> DOMAIN db.rows

(* Clients are ordered without regard to case, what the database orders with it.   *)
SortKey(text) == IF setup.list = "clients" THEN ToLower(text) ELSE text

(* The pages of a list, read one after the other while nothing changes, show every *)
(* entry that the filters mean exactly once and no other, in the order asked for,  *)
(* and reading them never ends in an internal error: whether the filter runs in the *)
(* database (AddWhere) or in memory (matchesFilter), whatever offset it starts at   *)
(* (GetStartEnd), and with the members of groups (Param.matches) as their patterns  *)
(* say. A user's list of clients holds those the user can open, and a group opened  *)
(* from the list shows members of it only. Three kinds of filter do not mean what   *)
(* they say. The database compares plain values with regard to case and knows no    *)
(* and (Comparable). Of a value with a wildcard AddWhere escapes the percent sign   *)
(* only, so that an underscore accepts any character and other entries are shown    *)
(* as well. matches_filter.go:80 puts such a value into a regular expression as it  *)
(* is: a dot shows other entries as well, and with a sign such as the plus entries  *)
(* that are meant may also be missing. The statement about what is shown leaves out *)
(* just these.                                                                      *)
FiltersAgree ==
    Serves("lists") /\ setup.list # "tags" /\ setup.sends = [walk |-> 1] =>
        \A w \in ghost.walks :
            LET o == Validated(NewOptions(setup.query, SortsDefault(setup.list), <<>>), Supported(setup.list))
                meant == {x \in Entries : \A i \in DOMAIN o.filters : Meant(x, o.filters[i])}
                column == IF o.sorts = <<>> THEN "id" ELSE o.sorts[1].column
            IN  (\A i \in DOMAIN o.filters : Comparable(o, o.filters[i])) =>
                /\ w.status # 500
                /\ w.status = 200 =>
                       /\ Cardinality(Range(w.ids)) = Len(w.ids)
                       /\ (\E i \in DOMAIN o.filters : ShowsMore(o.filters[i])) \/ Range(w.ids) \subseteq meant
                       /\ o.page.offset = 0 => (\E i \in DOMAIN o.filters : ShowsLess(o.filters[i])) \/ meant \subseteq Range(w.ids)
                       /\ \A i, j \in DOMAIN w.ids : i < j =>
                             LET v == SortKey(RowMeant(w.ids[i])[column][1])
                                 z == SortKey(RowMeant(w.ids[j])[column][1])
                             IN  IF o.sorts = <<>> \/ o.sorts[1].asc THEN ~ Before(z, v) ELSE ~ Before(v, z)
                       /\ setup.list = "clients" /\ o.filters = <<>> /\ o.page.offset = 0 =>
                             \A c \in DOMAIN mem.clients : c \in Range(w.ids) <=> handleGetClient(c, o, db.groups)
                       /\ setup.list = "groups" => \A g \in Range(w.ids) :
                             /\ handleGetClientGroup(g, db.groups) \subseteq {c \in Visible : Member(mem.clients[c], db.groups[g])}
                             /\ setup.user.admin => handleGetClientGroup(g, db.groups) = {c \in Visible : Member(mem.clients[c], db.groups[g])}

(* As long as nobody takes rights away from them and no client they may not use    *)
(* comes to be among its targets, those who created a schedule reach it, whichever  *)
(* of its clients and groups are deleted or outlived meanwhile (checkScheduleAccess *)
(* resolves the targets without asking that they still exist), and find it in their *)
(* list unless a read of its groups fails: the list then answers 200 without it     *)
(* (filterSchedulesForUser only logs that). A client that joins a group or takes a  *)
(* tag that the schedule names does lock its owner out, until the client leaves or  *)
(* is granted to them. Nobody else but an administrator ever finds the schedule in  *)
(* a list.                                                                          *)
OwnerReaches ==
    Serves("lists") /\ <<"a">> \in DOMAIN db.schedules =>
        LET p == db.schedules[<<"a">>]
            owns == p.by = setup.user.name /\ ~ ghost.revoked /\ ~ ghost.joined
            walked == {w \in ghost.walks : w.status = 200 /\ setup.list = "schedules" /\ setup.query.filters = <<>>}
        IN  /\ owns => checkScheduleAccess(p, db.groups, {})
            /\ owns /\ ~ ghost.failed => \A w \in walked : <<"a">> \in Range(w.ids)
            /\ p.by # setup.user.name /\ ~ setup.user.admin => \A w \in walked : <<"a">> \notin Range(w.ids)
=============================================================================
