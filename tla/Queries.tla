------------------------------ MODULE Queries ------------------------------
(* What the parameters of a list request select. A text is a short sequence of    *)
(* characters, because wildcards, escapes and case are what filters are about; a  *)
(* point in time is a text of one character. A row gives every column the texts   *)
(* it holds: one for a plain column, any number for a list such as tags.          *)
EXTENDS Integers, FiniteSets, Sequences, Functions, TLC
LOCAL INSTANCE FiniteSetsExt
LOCAL INSTANCE SequencesExt

Null == <<"<nil>">>
Absent == -10
NotANumber == -11
MaxInt == 7
Instants == "t0" :> 0 @@ "t1" :> 1 @@ "t2" :> 2 @@ "t3" :> 3
DayLength == 2

Wrap(n) == ((n + MaxInt + 1) % (2 * MaxInt + 2)) - (MaxInt + 1)

ToLower(w) == [i \in DOMAIN w |-> IF w[i] = "A" THEN "a" ELSE w[i]]
ReplaceEach(w, c, by) == FlattenSeq([i \in DOMAIN w |-> IF w[i] = c THEN by ELSE <<w[i]>>])
EqualFold(v, w) == ToLower(v) = ToLower(w)
HasStar(w) == Contains(w, "*")
IsDate(w) == Len(w) = 1 /\ w[1] \in DOMAIN Instants
MomentOf(w) == Instants[w[1]]

(* Does the pattern accept the text: "any" stands for any run of characters, "one" *)
(* for a single one, "more" for more of the character before it.                   *)
Accepts(p, w) ==
    LET fits(i, j) == p[i] \in {"one", w[j]}
        ok[i \in 0..Len(p), j \in 0..Len(w)] ==
            IF i = 0 THEN j = 0
            ELSE CASE p[i] = "any" -> ok[i - 1, j] \/ (j > 0 /\ ok[i, j - 1])
                   [] p[i] = "more" -> ok[i - 1, j] \/ (j > 0 /\ fits(i - 1, j) /\ ok[i, j - 1])
                   [] OTHER -> j > 0 /\ fits(i, j) /\ ok[i - 1, j - 1]
    IN  ok[Len(p), Len(w)]

(* A LIKE pattern with the backslash as its escape, and a regular expression, with *)
(* the dot and the plus for the signs that are special in one. A plus repeats what  *)
(* is before it: at the beginning that is the start of the text, and after another  *)
(* repetition it does not compile.                                                  *)
LikePattern(w) ==
    LET escaped(i) == i > 1 /\ w[i - 1] = "\\"
        read(i) == CASE w[i] = "\\" -> <<>>
                     [] w[i] = "%" /\ ~ escaped(i) -> <<"any">>
                     [] w[i] = "_" /\ ~ escaped(i) -> <<"one">>
                     [] OTHER -> <<w[i]>>
    IN  FlattenSeq([i \in DOMAIN w |-> read(i)])
Compiles(w) == \A i \in DOMAIN w : (i > 1 /\ w[i] = "+") => w[i - 1] \notin {"*", "+"}
RegexPattern(w) ==
    LET signs == "*" :> "any" @@ "." :> "one" @@ "+" :> "more"
        v == IF w[1] = "+" THEN Tail(w) ELSE w
    IN  [i \in DOMAIN v |-> IF v[i] \in DOMAIN signs THEN signs[v[i]] ELSE v[i]]

(* ---- the request's parameters: filter.go, sort.go, fields.go, pagination.go ---- *)
getFilterValues(values) ==
    LET blocks == SelectSeq(values, LAMBDA v : v.block # "")
    IN  [values |-> FlattenSeq([i \in DOMAIN values |-> values[i].operands]),
         logical |-> IF blocks = <<>> THEN "" ELSE Last(blocks).block]

ParseFilterOptions(params) ==
    LET kept == SelectSeq(params, LAMBDA p : p.named /\ p.values # <<>>)
        read(p) == LET v == getFilterValues(p.values)
                   IN  [columns |-> p.columns, operator |-> p.operator, values |-> v.values, logical |-> v.logical]
    IN  [i \in DOMAIN kept |-> read(kept[i])]

ParseSortOptions(params) ==
    LET kept == SelectSeq(params, LAMBDA p : p.column # "")
    IN  [i \in DOMAIN kept |-> [column |-> kept[i].column, asc |-> ~ kept[i].minus]]

ParseFieldsOptions(params) == SelectSeq(params, LAMBDA p : p.resource # "" /\ p.fields # <<>>)

ParsePagination(q) == [limit |-> q.limit, offset |-> IF q.offset = Absent THEN 0 ELSE q.offset]

NewOptions(q, sortsDefault, fieldsDefault) ==
    LET sorts == ParseSortOptions(q.sorts)
        fields == ParseFieldsOptions(q.fields)
    IN  [sorts |-> IF sorts = <<>> THEN sortsDefault ELSE sorts,
         filters |-> ParseFilterOptions(q.filters),
         fields |-> IF fields = <<>> THEN fieldsDefault ELSE fields,
         page |-> ParsePagination(q)]

Code(operator) ==
    CASE operator = "gt" -> ">" [] operator = "lt" -> "<" [] operator = "since" -> ">=" [] operator = "until" -> "<="
      [] OTHER -> "="

(* A supported filter is a column with an operator, or with none.                 *)
isSupported(fo, supported) == \A i \in DOMAIN fo.columns : <<fo.columns[i], fo.operator>> \in supported

setWildcardColumns(fo, supported) ==
    [fo EXCEPT !.columns = SetToSeq({p[1] : p \in {q \in supported : q[2] = ""}})]

Expanded(fo, supported) == IF fo.columns = <<"*">> THEN setWildcardColumns(fo, supported) ELSE fo

ValidateFilterOptions(filters, supported) ==
    \A i \in DOMAIN filters :
        LET fo == Expanded(filters[i], supported) IN fo.columns # <<>> /\ isSupported(fo, supported)

ValidateSortOptions(sorts, supported) == \A i \in DOMAIN sorts : sorts[i].column \in supported

ValidateFieldsOptions(fields, supported) ==
    \A i \in DOMAIN fields :
        /\ fields[i].resource \in DOMAIN supported
        /\ Range(fields[i].fields) \subseteq supported[fields[i].resource]

DefaultLimit(page, config) == IF page.limit = Absent THEN config.default ELSE page.limit

ValidatePagination(page, config) ==
    /\ DefaultLimit(page, config) \in 1..config.max
    /\ page.offset # NotANumber /\ page.offset >= 0

(* Which endpoint accepts what: supported.fields and supported.page are empty where *)
(* the endpoint does not take them, and then they are dropped.                      *)
ValidateListOptions(o, s) ==
    /\ ValidateSortOptions(o.sorts, s.sorts)
    /\ ValidateFilterOptions(o.filters, s.filters)
    /\ s.fields = <<>> \/ ValidateFieldsOptions(o.fields, s.fields)
    /\ s.page = <<>> \/ ValidatePagination(o.page, s.page[1])

Validated(o, s) ==
    [o EXCEPT !.filters = [i \in DOMAIN @ |-> Expanded(@[i], s.filters)],
              !.fields = IF s.fields = <<>> THEN <<>> ELSE @,
              !.page = IF s.page = <<>> THEN @ ELSE [@ EXCEPT !.limit = DefaultLimit(o.page, s.page[1])]]

ValidateRetrieveOptions(fields, supported) == ValidateFieldsOptions(fields, supported)

ReplaceStarSelect(row, fields) == IF fields = <<>> THEN row ELSE Restrict(row, UNION {Range(fields[i].fields) : i \in DOMAIN fields})

RequestedFields(fields, resource) ==
    UNION {Range(fields[i].fields) : i \in {j \in DOMAIN fields : fields[j].resource = resource}}

(* ---- a filter on a row: convert.go in the database, matches_filter.go in memory --- *)
Compares(code, v, w) ==
    CASE code = "=" -> v = w
      [] code = ">" -> MomentOf(v) > MomentOf(w)
      [] code = "<" -> MomentOf(v) < MomentOf(w)
      [] code = ">=" -> MomentOf(v) >= MomentOf(w)
      [] code = "<=" -> MomentOf(v) <= MomentOf(w)

(* The value handed to LIKE with its percent signs left as they are.              *)
LikeValueRaw(val) == ReplaceEach(ToLower(val), "*", <<"%">>)

LikeValue(val) == ReplaceEach(ToLower(ReplaceEach(val, "%", <<"\\", "%">>)), "*", <<"%">>)

AddWhere(row, filters) ==
    LET part(fo, cell, val) ==
            LET code == Code(fo.operator)
                compared == cell # Null /\ Compares(code, cell, val)
            IN  CASE val = <<>> -> compared \/ cell = Null
                  [] HasStar(val) /\ code = "=" -> cell # Null /\ Accepts(LikePattern(LikeValue(val)), ToLower(cell))
                  [] OTHER -> compared
    IN  \A i \in DOMAIN filters :
            LET fo == filters[i]
            IN  fo.columns = <<>> \/ fo.values = <<>>
                \/ \E c \in Range(fo.columns), v \in Range(fo.values) : part(fo, row[c][1], v)

MatchIfDate(cell, val, operator) ==
    IF ~ (IsDate(val) /\ IsDate(cell)) THEN "no date"
    ELSE LET hit == CASE operator = "gt" -> MomentOf(cell) > MomentOf(val)
                      [] operator = "lt" -> MomentOf(cell) < MomentOf(val)
                      [] operator = "eq" -> MomentOf(cell) \in MomentOf(val)..(MomentOf(val) + DayLength - 1)
                      [] OTHER -> FALSE
         IN  IF hit THEN "match" ELSE "no match"

matchesValue(cell, val, operator) ==
    LET date == MatchIfDate(cell, val, operator)
    IN  CASE date # "no date" -> date = "match"
          [] date = "no date" /\ ~ (HasStar(val) /\ Compiles(val)) -> EqualFold(val, cell)
          [] OTHER -> Accepts(RegexPattern(ToLower(val)), ToLower(cell))

matchesFilter(row, fo) ==
    LET matches == {v \in Range(fo.values) :
                       \E c \in Range(fo.columns) : \E i \in DOMAIN row[c] : matchesValue(row[c][i], v, fo.operator)}
    IN  IF fo.logical = "and" THEN Cardinality(matches) = Len(fo.values) ELSE matches # {}

(* A column the row does not show is an error once the filters before it match.   *)
FilterError(row, filters) ==
    \E i \in DOMAIN filters : /\ ~ (Range(filters[i].columns) \subseteq DOMAIN row)
                              /\ \A j \in 1..(i - 1) : matchesFilter(row, filters[j])

MatchesFilters(row, filters) == \A i \in DOMAIN filters : matchesFilter(row, filters[i])

SplitFilters(filters, keys) ==
    LET these(fo) == Range(fo.columns) \cap keys # {}
    IN  [manual |-> SelectSeq(filters, these), db |-> SelectSeq(filters, LAMBDA fo : ~ these(fo))]

(* ---- order and page ------------------------------------------------------------ *)
Before(v, w) ==
    LET rank == "%" :> -4 @@ "+" :> -3 @@ "." :> -2 @@ "_" :> -1 @@ "A" :> 0 @@ "a" :> 1 @@ "b" :> 2
    IN  \E i \in 1..Min({Len(w), Len(v) + 1}) :
            /\ SubSeq(v, 1, i - 1) = SubSeq(w, 1, i - 1)
            /\ i > Len(v) \/ rank[v[i]] < rank[w[i]]

(* Rows that compare equal stay in the order of the table.                        *)
AddOrderBy(ids, rows, sorts) ==
    LET differs(x, y) == {i \in DOMAIN sorts : rows[x][sorts[i].column] # rows[y][sorts[i].column]}
        before(x, y) == LET s == sorts[Min(differs(x, y))]
                            v == rows[x][s.column][1]
                            w == rows[y][s.column][1]
                        IN  IF s.asc THEN Before(v, w) ELSE Before(w, v)
    IN  SortSeq(ids, LAMBDA x, y : IF differs(x, y) = {} THEN Before(x, y) ELSE before(x, y))

GetStartEnd(page, total) ==
    LET start == Min({Max({page.offset, 0}), total})
        end == Wrap(start + page.limit)
    IN  <<start, IF end < start \/ end > total THEN total ELSE end>>

(* A slice expression whose bounds are out of order or out of range panics, and   *)
(* the router's recovery answers 500.                                             *)
Sliced(s, page) ==
    LET b == GetStartEnd(page, Len(s))
    IN  IF 0 <= b[1] /\ b[1] <= b[2] /\ b[2] <= Len(s)
        THEN [status |-> 200, total |-> Len(s), ids |-> SubSeq(s, b[1] + 1, b[2])]
        ELSE [status |-> 500]
=============================================================================
