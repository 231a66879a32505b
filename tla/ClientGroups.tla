---------------------------- MODULE ClientGroups ----------------------------
(* Which clients belong to a client group, which of them a user may see, and the  *)
(* clients a job or schedule names. A group asks for names and tags, standing for *)
(* the fourteen attributes that are compared alike; <<>> is an attribute it does  *)
(* not ask for, <<patterns>> one it does.                                         *)
EXTENDS Queries
LOCAL INSTANCE FiniteSetsExt
LOCAL INSTANCE SequencesExt

Split(w, c) ==
    LET at == {0, Len(w) + 1} \cup {i \in DOMAIN w : w[i] = c}
        cuts == SetToSortSeq(at, <)
    IN  [k \in 1..(Len(cuts) - 1) |-> SubSeq(w, cuts[k] + 1, cuts[k + 1] - 1)]

(* Where the part first occurs in the text at or after this place, 0 for nowhere. *)
Index(w, part, from) ==
    LET at == {i \in from..(Len(w) - Len(part) + 1) : SubSeq(w, i, i + Len(part) - 1) = part}
    IN  IF at = {} THEN 0 ELSE Min(at)

Behind(i, part) == IF i = 0 THEN 0 ELSE i + Len(part)

(* The parts of the pattern are looked for one after the other.                    *)
PartsOccur(parts, v) ==
    LET rest[k \in 0..Len(parts)] ==
            CASE k = 0 -> 1
              [] k > 0 /\ rest[k - 1] = 0 -> 0
              [] OTHER -> Behind(Index(v, parts[k], rest[k - 1]), parts[k])
    IN  IsPrefix(parts[1], v) /\ IsSuffix(Last(parts), v) /\ rest[Len(parts)] # 0

matches(p, value) ==
    IF HasStar(p) THEN PartsOccur(Split(ToLower(p), "*"), ToLower(value)) ELSE EqualFold(p, value)

MatchesOneOf(param, values) ==
    \/ param = <<>>
    \/ param[1] = <<>> /\ values = <<>>
    \/ \E p \in Range(param[1]), v \in Range(values) : matches(p, v)

(* A tag condition is a list of patterns or an object with the one key and or or; *)
(* the operator is compared without regard to case when it is checked, with       *)
(* regard to case when it is used.                                                *)
allowedOperator(op) == op \in {"and", "or", "AND"}

ParseTag(tag) ==
    CASE tag.kind = "object" -> [ok |-> allowedOperator(tag.operator) /\ tag.operands # <<>>,
                                 operator |-> tag.operator, operands |-> tag.operands]
      [] tag.kind = "list" -> [ok |-> tag.operands # <<>>, operator |-> "or", operands |-> tag.operands]
      [] OTHER -> [ok |-> FALSE]

MatchesTags(t, values) ==
    /\ t.ok /\ t.operator \in {"and", "or"}
    /\ Cardinality({o \in Range(t.operands) : \E v \in Range(values) : matches(o, v)}) >= IF t.operator = "and" THEN Len(t.operands) ELSE 1

MatchesRawTags(param, values) == param = <<>> \/ MatchesTags(ParseTag(param[1]), values)

HasNoParams(params) == \A a \in DOMAIN params : params[a] = <<>>

BelongsTo(client, group) ==
    /\ ~ HasNoParams(group.params)
    /\ MatchesOneOf(group.params.name, <<client.name>>)
    /\ MatchesRawTags(group.params.tag, client.tags)

(* ---- access --------------------------------------------------------------------- *)
HasAccessViaUserGroups(client, userGroups) ==
    "Administrators" \in userGroups \/ userGroups \cap client.allowed # {}

OneOfUserGroupsIsAllowed(group, userGroups) == userGroups \cap group.allowed # {}

UserGroupHasAccessViaClientGroup(client, userGroups, groups) ==
    \E g \in DOMAIN groups : BelongsTo(client, groups[g]) /\ OneOfUserGroupsIsAllowed(groups[g], userGroups)

MayUse(client, user, groups) ==
    \/ user.admin
    \/ HasAccessViaUserGroups(client, user.groups)
    \/ UserGroupHasAccessViaClientGroup(client, user.groups, groups)

(* Clients are kept in a function from identifiers to records.                    *)
getNonObsoleteClients(clients) == {c \in DOMAIN clients : ~ clients[c].obsolete}

getNonObsoleteClientsByUser(clients, user, groups) ==
    {c \in getNonObsoleteClients(clients) : MayUse(clients[c], user, groups)}

CheckClientsAccess(clients, chosen, user, groups) == \A c \in chosen : MayUse(clients[c], user, groups)

getExistingClientByID(clients, c) == c \in getNonObsoleteClients(clients)

CheckClientAccess(clients, c, user, groups) == getExistingClientByID(clients, c) /\ CheckClientsAccess(clients, {c}, user, groups)

GetByGroups(clients, groups) ==
    IF groups = <<>> THEN {}
    ELSE {c \in getNonObsoleteClients(clients) : \E i \in DOMAIN groups : BelongsTo(clients[c], groups[i])}

PopulateGroupsWithUserClients(clients, user, groups) ==
    [g \in DOMAIN groups |-> {c \in getNonObsoleteClientsByUser(clients, user, groups) : BelongsTo(clients[c], groups[g])}]

(* ---- the targets of a job or a schedule: api_helper_clients.go ------------------- *)
(* A request names clients, groups or tags; <<>> is a parameter that is missing.  *)
findMatchingClients(clients, tags, and) ==
    {c \in getNonObsoleteClients(clients) :
        IF and THEN Range(tags) \subseteq Range(clients[c].tags) ELSE Range(tags) \cap Range(clients[c].tags) # {}}

getOrderedClientsByTag(clients, t) == SetToSeq(findMatchingClients(clients, t.tags, t.operator \in {"and", "AND"}))

checkTargetingParams(p) ==
    /\ p.ids # <<>> \/ p.groups # <<>> \/ p.tags # <<>>
    /\ p.tags = <<>> \/ (p.ids = <<>> /\ p.groups = <<>> /\ p.tags[1].tags # <<>>)

Named(param) == IF param = <<>> THEN <<>> ELSE param[1]

(* The clients of the groups follow, without those already named.                 *)
appendGroupClients(ids, groupClients) == ids \o SetToSeq(groupClients \ Range(ids))

makeClientsList(clients, ids) == \A i \in DOMAIN ids : ids[i] \in getNonObsoleteClients(clients)

makeGroupClientsList(clients, groups, groupIDs) ==
    GetByGroups(clients, [i \in DOMAIN groupIDs |-> groups[groupIDs[i]]])

ClientsAnd(ids, groupClients) == [status |-> 200, clients |-> appendGroupClients(ids, groupClients), found |-> Cardinality(groupClients)]

getOrderedClients(clients, groups, ids, groupIDs) ==
    CASE ~ (Range(groupIDs) \subseteq DOMAIN groups) -> [status |-> 400]
      [] Range(groupIDs) \subseteq DOMAIN groups /\ ~ makeClientsList(clients, ids) -> [status |-> 404]
      [] OTHER -> ClientsAnd(ids, makeGroupClientsList(clients, groups, groupIDs))

validateNonClientsTagTargeting(p, o) ==
    IF o.status = 200 /\ (o.clients = <<>> \/ (Named(p.ids) = <<>> /\ o.found = 0)) THEN [status |-> 400] ELSE o

getOrderedClientsWithValidation(clients, groups, p) ==
    IF ~ checkTargetingParams(p) THEN [status |-> 400]
    ELSE validateNonClientsTagTargeting(p,
             IF p.tags = <<>> THEN getOrderedClients(clients, groups, Named(p.ids), Named(p.groups))
             ELSE [status |-> 200, clients |-> getOrderedClientsByTag(clients, p.tags[1]), found |-> 1])

getOrderedClientsIgnoringMissing(clients, groups, p) ==
    IF p.tags # <<>> THEN getOrderedClientsByTag(clients, p.tags[1])
    ELSE LET known == SelectSeq(Named(p.groups), LAMBDA g : g \in DOMAIN groups)
             present == SelectSeq(Named(p.ids), LAMBDA c : c \in getNonObsoleteClients(clients))
         IN  appendGroupClients(present, makeGroupClientsList(clients, groups, known))
=============================================================================
