------------------------------ MODULE Queries ------------------------------
(***************************************************************************)
(* Lists and statistics of one model that the data model file defines: the *)
(* filter backends apply one after the other to the rows that the user may *)
(* see, each taking the query parameters it knows, and a client fetches    *)
(* the pages, by the next links or by the page urls of the statistics.     *)
(* filterset_fields belongs to the view of one query, and two backends   *)
(* take fields out of it.  The rows do not change here (IncrementalSync    *)
(* has the writers).                                                       *)
(*                                                                         *)
(* A text is the set of its letters, a point its distance to the point of  *)
(* the query, a JSON value a set of pairs, an instant a number of ticks.   *)
(* The queryset says whether a row is in it, and whether more than once (as *)
(* 2): a filter on links joins.                                            *)
(***************************************************************************)
EXTENDS DataModel, Integers, FiniteSetsExt

CONSTANTS
    Rows,            \* rows of the table, numbered by creation date
    Cell,            \* [Rows -> [name -> value]]
    Level,           \* [Rows -> 0..4], when the rows are users
    ClientQueries,   \* what clients ask
    Served,          \* the data model whose first model is queried
    None,            \* NULL
    SecondLen, DayLen,               \* ticks in a second and in a day
    MaxPageSize, MaxNestedPageSize   \* settings.API_MAX_PAGINATION_SIZE*

ASSUME QueryConstants ==
    /\ Rows \subseteq Nat \ {0} /\ IsFiniteSet(Rows)
    /\ SecondLen \in Nat \ {0} /\ DayLen \in Nat \ {0}
    /\ MaxPageSize \in Nat \ {0} /\ MaxNestedPageSize \in Nat \ {0}

VARIABLES
    query,      \* what the client asks, chosen once
    way,        \* "list", or "stats" until the pages are counted
    page,       \* the page that is asked for
    filterset,  \* filterset_fields of the view
    backend,    \* index of the next filter backend
    queryset,   \* how often each row is in it
    announced,  \* number of pages that the statistics announced
    received,   \* rows that the client has
    answer      \* "none", "running", "done", "refused" or "error"

queryVars == <<query, way, page, filterset, backend, queryset, announced,
               received, answer>>
queryAllVars == <<queryVars, dataModelVars>>

FilterBackends ==
    <<"json", "distance", "search", "ordering", "in", "isempty", "contains",
      "icontains", "range", "level", "comparison", "exact", "comparison",
      "isnull", "uid", "links", "exclude">>

Dates == {"creation_date", "modification_date"}
Rangeable == {"DateTimeField", "DateField", "DecimalField", "IntegerField",
              "FloatField"}
Texts == {"CharField", "TextField"}
Links == {"ForeignKey", "ManyToManyField"}

\* get_internal_type: a class of fields that only checks its values more is one
\* with the class that it extends
InternalType == [DjangoType EXCEPT !.url = "CharField", !.email = "CharField",
                                   !.image = "FileField"]

\* The first model of the file d is the one that is queried.  It is divided
\* when no model of its name is without lookups.
NamesIn(d) == {f.name : f \in FieldsOf(d.models[1])} \cup {"uid"}
UndividedIn(d) ==
    {d.models[i].name : i \in
        {j \in DOMAIN d.models : \A e \in Entries(d.permissions, d.models[j]) :
                                    d.permissions[e].divider = NoName}}
IsDivided(d) ==
    LET m == d.models[1]
    IN m.name \notin UndividedIn(d) \cup DividersIn(d) /\ ~IsUser(m)

\* A divided model has a foreign key to its divider, whatever it defines itself
DividerFields(d) == {Lower(v) : v \in {w \in DividersIn(d) : IsDivided(d)}}

TypeIn(d, n) ==
    IF n \in DividerFields(d) THEN "ForeignKey"
    ELSE CASE n \in Dates -> "DateTimeField"
           [] n = "uid" -> "UUIDField"
           [] OTHER -> InternalType[(CHOOSE f \in FieldsOf(d.models[1]) :
                                        f.name = n).datatype]

View == Models[1]
FieldNames == NamesIn(definition)
FilterNames == filters[1] \cup DividerFields(definition) \cup {"uid"}
TypeOf(n) == TypeIn(definition, n)

Orders == {"gte", "lte", "gt", "lt"}
DistanceOrders == {"d_gte", "d_lte", "d_gt", "d_lt"}
Operators ==
    Orders \cup DistanceOrders
    \cup {"exact", "in", "key", "contains", "icontains", "isempty", "range",
          "uid", "isnull", "d_range"}

IsInstant(v) == v.at \in Int /\ v.grain \in {"tick", "second", "day"}

\* A model is served, and its filters are fields: django-filter raises on
\* another name.
ASSUME ServedAssumption ==
    \A d \in Served :
        /\ Len(d.models) >= 1
        /\ \A i \in Entries(d.queries, d.models[1]) :
              d.queries[i].filter \subseteq NamesIn(d)

\* The columns hold values of their types; a date is the start of its day.
ASSUME CellAssumption ==
    \A d \in Served, r \in Rows :
      \A n \in NamesIn(d) \cup DividerFields(d) \cup Dates :
        LET type == TypeIn(d, n)
        IN /\ type \in Rangeable => Cell[r][n] \in Int \cup {None}
           /\ type = "DateField" /\ Cell[r][n] # None =>
                 Cell[r][n] = DayLen * (Cell[r][n] \div DayLen)
           /\ type = "ManyToManyField" => IsFiniteSet(Cell[r][n])
           /\ type = "PointField" => Cell[r][n] \in Int \cup {None}

\* A value is of the form that the operator reads, or is not.  Of a JSON field,
\* every parameter j__... is one lookup with its value, which Django may still
\* find unusable (j__in=5).
GoodValue(p, type) ==
    LET v == p.value
    IN IF type = "JSONField"
       THEN v.of \in {"pair", "malformed", "unusable"}
       ELSE /\ p.op \in Orders =>
                  /\ v.of \in {"instant", "blank", "malformed"}
                  /\ v.of = "instant" => IsInstant(v)
            /\ p.op = "range" =>
                  /\ v.of \in {"from", "until", "between", "open", "single",
                               "malformed"}
                  /\ v.of \in {"from", "between"} => IsInstant(v.from)
                  /\ v.of \in {"until", "between"} => IsInstant(v.until)
            /\ p.op \in DistanceOrders \cup {"d_range"} => v.at \in Int
            /\ p.op = "d_range" => v.to \in Int

\* What clients ask, as the backends tell it apart: a parameter of another
\* name is ignored by all of them.
ASSUME ClientQueriesAssumption ==
    \A q \in ClientQueries :
        /\ q.way \in {"list", "stats"} /\ q.visible \subseteq Rows
        /\ q.size \in Nat
        /\ q.level.op \in {"none", "level", "atleast"}
        /\ q.level.op # "none" => q.level.neg \in BOOLEAN
        /\ \A p \in q.params :
              /\ p.op \in Operators /\ p.neg \in BOOLEAN
              /\ \A d \in Served : q.model = d.models[1].name =>
                    /\ p.name \in NamesIn(d) \cup DividerFields(d) \cup Dates
                    /\ GoodValue(p, TypeIn(d, p.name))

ASSUME LevelAssumption == \A r \in Rows : Level[r] \in 0 .. 4

-----------------------------------------------------------------------------
(***************************************************************************)
(* Conversion of values.  An instant comes with its grain: to the tick, to *)
(* the second or to the day.                                               *)
(***************************************************************************)

StartOf(t, len) == len * (t \div len)
EndOf(t, len) == StartOf(t, len) + len - 1

\* Faulty variant: every comparison is with the start of the period.
ConvertToStart(v, type, close) ==
    IF type = "DateTimeField" /\ v.grain # "tick"
    THEN StartOf(v.at, IF v.grain = "second" THEN SecondLen ELSE DayLen)
    ELSE v.at

Convert(v, type, close) ==
    LET len == IF v.grain = "second" THEN SecondLen ELSE DayLen
    IN CASE type = "DateTimeField" /\ v.grain # "tick" ->
              IF close THEN EndOf(v.at, len) ELSE StartOf(v.at, len)
         [] type = "DateField" -> StartOf(v.at, DayLen)
         [] OTHER -> v.at

Compare(op, a, b) ==
    CASE op = "gte" -> a >= b
      [] op = "lte" -> a <= b
      [] op = "gt" -> a > b
      [] op = "lt" -> a < b

\* Upper and lower case letters, as one letter
Fold(text) == {l[1] : l \in text}

-----------------------------------------------------------------------------
(***************************************************************************)
(* The backends: which parameters each one takes, which of them it         *)
(* excludes, which values it raises on, and how many times a row matches.  *)
(***************************************************************************)

\* The names that a backend accepts, with these filterset_fields of the view
Allowed(fields, b) ==
    IF b \in {"range", "comparison"} THEN fields \cup Dates ELSE fields

\* What makes a parameter one of FilterJSONFieldsBackend, and so on: it has "__"
TakesKey(p, type) == type = "JSONField" /\ p.op \notin {"exact", "uid"}

TakesDistance(p, type) ==
    /\ type = "PointField"
    /\ \/ p.op \in DistanceOrders /\ ~p.neg
       \/ p.op = "d_range"

TakesIn(p) == p.op = "in"
TakesIsEmpty(p, type) ==
    p.op = "isempty" /\ ~p.neg /\ type \in Texts
    /\ p.value.of \in {"true", "false"}
TakesContains(p, type) == p.op = "contains" /\ type \in Texts
TakesIContains(p, type) == p.op = "icontains" /\ type \in Texts
TakesRange(p, type) ==
    p.op = "range" /\ ~p.neg /\ type \in Rangeable /\ p.value.of # "open"
TakesComparison(p, type) ==
    p.op \in Orders /\ ~p.neg /\ type \in Rangeable
TakesIsNull(p, type) ==
    p.op = "isnull" /\ ~p.neg /\ type \in Links
    /\ p.value.of \in {"true", "false"}
TakesUid(p, type) == p.op = "uid" /\ type = "ForeignKey"
TakesLinks(p, type) == p.op = "in" /\ type = "ManyToManyField"
TakesExact(p) == p.op = "exact" /\ ~p.neg /\ p.value.of # "empty"
TakesNegated(p) == p.op = "exact" /\ p.neg

Takes(fields, b, p) ==
    /\ p.name \in Allowed(fields, b)
    /\ LET type == TypeOf(p.name)
       IN CASE b = "json" -> TakesKey(p, type)
            [] b = "distance" -> TakesDistance(p, type)
            [] b = "in" -> TakesIn(p)
            [] b = "isempty" -> TakesIsEmpty(p, type)
            [] b = "contains" -> TakesContains(p, type)
            [] b = "icontains" -> TakesIContains(p, type)
            [] b = "range" -> TakesRange(p, type)
            [] b = "comparison" -> TakesComparison(p, type)
            [] b = "isnull" -> TakesIsNull(p, type)
            [] b = "uid" -> TakesUid(p, type)
            [] b = "links" -> TakesLinks(p, type)
            [] b = "exact" -> TakesExact(p)
            [] b = "exclude" -> TakesNegated(p)
            [] OTHER -> FALSE

Taken(fields, b) == {p \in query.params : Takes(fields, b, p)}

Excluded(b, p) == p.neg \/ (b = "isempty" /\ p.value.of = "false")

\* A value that the backend raises on: a ValidationError, or an exception that
\* nobody catches
Raises(b, p) ==
    IF p.value.of = "malformed"
    THEN CASE b \in {"json", "distance", "uid", "links", "exact", "exclude"} ->
                "refused"
           [] b = "in" -> IF TypeOf(p.name) \in Links \cup {"UUIDField",
                                                            "BooleanField"}
                          THEN "refused" ELSE "error"
           [] b \in {"range", "comparison"} -> "error"
           [] OTHER -> "no"
    ELSE CASE <<b, p.value.of>> \in {<<"comparison", "blank">>,
                                     <<"range", "single">>} -> "refused"
           [] <<b, p.value.of>> = <<"json", "unusable">> -> "error"
           [] OTHER -> "no"

Truth(condition) == IF condition THEN 1 ELSE 0

InRange(c, v, type) ==
    /\ v.of \in {"from", "between"} => c >= Convert(v.from, type, FALSE)
    /\ v.of \in {"until", "between"} => c <= Convert(v.until, type, TRUE)

AtDistance(op, d, v) ==
    CASE op = "d_range" -> d \in Min({v.at, v.to}) .. Max({v.at, v.to})
      [] op = "d_gte" -> d >= v.at
      [] op = "d_lte" -> d <= v.at
      [] op = "d_gt" -> d > v.at
      [] op = "d_lt" -> d < v.at

\* How many rows the join of r with the condition of p has
Matches(b, p, r) ==
    LET c == Cell[r][p.name]
        v == p.value
        type == TypeOf(p.name)
    IN CASE b = "json" -> Truth(v.pair \in c)
         [] b = "distance" -> Truth(c # None /\ AtDistance(p.op, c, v))
         [] b \in {"in", "links"} ->
               IF type = "ManyToManyField" THEN Cardinality(c \cap v.set)
               ELSE Truth(c \in v.set)
         [] b = "contains" -> Truth(c # None /\ v.text \subseteq c)
         [] b = "icontains" -> Truth(c # None /\ Fold(v.text) \subseteq Fold(c))
         [] b = "isempty" -> Truth(c = {})
         [] b = "range" -> Truth(c # None /\ InRange(c, v, type))
         [] b = "comparison" ->
               Truth(c # None /\ Compare(p.op, c,
                                         Convert(v, type, p.op \in {"gt", "lte"})))
         [] b = "isnull" ->
               IF type = "ForeignKey" THEN Truth((c = None) = (v.of = "true"))
               ELSE IF v.of = "true" THEN Truth(c = {}) ELSE Cardinality(c)
         [] b = "uid" -> Truth(c = v.is)
         [] b \in {"exact", "exclude"} ->
               Truth(\/ v.of = "empty"
                     \/ IF type = "ManyToManyField" THEN v.is \in c
                        ELSE c = v.is)

\* get_custom_filtered_queryset: the conditions are conjoined, and those to
\* exclude are conjoined before they are excluded; ExcludeFilterBackend alone
\* excludes one by one
Meets(b, p, r) == Matches(b, p, r) > 0

Excludes(b, conditions, r) ==
    IF b = "exclude" THEN \E p \in conditions : Meets(b, p, r)
    ELSE conditions # {} /\ \A p \in conditions : Meets(b, p, r)

\* Whether a row passes, when the backend takes these parameters
Passes(b, taken, r) ==
    LET excluding == {p \in taken : Excluded(b, p)}
    IN /\ ~Excludes(b, excluding, r)
       /\ \A p \in taken \ excluding : Meets(b, p, r)

\* A row that passes is repeated when one of its joins has several rows
FilterRows(b) ==
    LET taken == Taken(filterset, b)
        joins == {p \in taken : ~Excluded(b, p)}
    IN [r \in Rows |->
           IF queryset[r] = 0 \/ ~Passes(b, taken, r) THEN 0
           ELSE IF \E p \in joins : Matches(b, p, r) > 1 THEN 2
           ELSE queryset[r]]

\* filter_by_exact_level and its like: what is no level has no users
HasLevel(r, l) ==
    CASE l.op = "level" /\ l.of \in 0 .. 4 -> (Level[r] = l.of) # l.neg
      [] l.op = "atleast" /\ l.of \in 1 .. 4 -> (Level[r] >= l.of) # l.neg
      [] OTHER -> FALSE

\* FilterUserByLevel: an empty queryset is false, and all users take its place
LevelRows ==
    LET l == query.level
        all == [r \in Rows |-> 1]
        users == IF \A r \in Rows : queryset[r] = 0 THEN all ELSE queryset
    IN IF l.op = "none" \/ View.name # "User" THEN queryset
       ELSE [r \in Rows |-> IF HasLevel(r, l) THEN users[r] ELSE 0]

\* Faulty variant: the rows that the joins repeat stay in the queryset.
Joined(counts) == counts

Distinct(counts) == [r \in Rows |-> Truth(counts[r] > 0)]

-----------------------------------------------------------------------------
(***************************************************************************)
(* One request: the view is new, list() checks the parameters, the         *)
(* backends apply, and the page is cut.                                    *)
(***************************************************************************)

IsDate(v, type) ==
    /\ v.of \in {"instant", "from", "until", "between", "open", "blank",
                 "empty", "set", "one"}
    /\ v.of = "instant" /\ type = "DateField" => v.grain = "day"

ListRefuses(p) ==
    \/ p.name \in FieldNames \ (FilterNames \cup Dates)
    \/ /\ TypeOf(p.name) \in {"DateField", "DateTimeField"}
       /\ ~IsDate(p.value, TypeOf(p.name))

NewView ==
    /\ filterset' = FilterNames
    /\ backend' = 1
    /\ queryset' = [r \in Rows |-> Truth(r \in query'.visible)]

ListView ==
    /\ NewView
    /\ answer' = IF \E p \in query'.params : ListRefuses(p)
                 THEN "refused" ELSE "running"

Ask ==
    /\ phase = "built" /\ definition \in Served /\ answer = "none"
    /\ query' \in {q \in ClientQueries : q.model = View.name}
    /\ way' = query'.way
    /\ IF way' = "list" THEN ListView ELSE NewView /\ answer' = "running"
    /\ UNCHANGED <<page, announced, received, dataModelVars>>

\* remove_from_queryset: the backend takes the fields that only it can filter
\* out of filterset_fields of the view
WithoutJSON(fields) == {n \in fields : TypeOf(n) # "JSONField"}
WithoutPoints(fields) == {n \in fields : TypeOf(n) # "PointField"}

FieldsAfter(fields, b) ==
    CASE b = "json" -> WithoutJSON(fields)
      [] b = "distance" -> WithoutPoints(fields)
      [] OTHER -> fields

\* One backend of filter_queryset
Filter ==
    /\ answer = "running" /\ backend <= Len(FilterBackends)
    /\ backend' = backend + 1
    /\ UNCHANGED <<query, way, page, announced, received, dataModelVars>>
    /\ LET b == FilterBackends[backend]
           raised == {Raises(b, p) : p \in Taken(filterset, b)} \ {"no"}
       IN IF raised # {}
          THEN answer' \in raised /\ UNCHANGED <<queryset, filterset>>
          ELSE /\ queryset' = CASE b = "level" -> LevelRows
                                [] b = "links" -> Distinct(FilterRows(b))
                                [] OTHER -> FilterRows(b)
               /\ filterset' = FieldsAfter(filterset, b)
               /\ UNCHANGED answer

Filtered == answer = "running" /\ backend > Len(FilterBackends)

\* ExtendedPagination.get_page_size; 0 stands for what is no size
MaxSize == IF query.nested = "true" THEN MaxNestedPageSize ELSE MaxPageSize
PageSize == Max({1, Min({query.size, MaxSize})})

\* The queryset in its order, by creation date, the last one first
Copies(S) == UNION {{<<r, n>> : n \in 1 .. queryset[r]} : r \in S}
Preceding(r) == Cardinality(Copies({s \in Rows : s > r}))

Listed ==
    [k \in 1 .. Cardinality(Copies(Rows)) |->
        CHOOSE r \in Rows :
            k \in Preceding(r) + 1 .. Preceding(r) + queryset[r]]

\* Faulty variant: an empty page follows a last page that is full.
PagesAndOne == Len(Listed) \div PageSize + 1

NumPages == Max({1, (Len(Listed) + PageSize - 1) \div PageSize})

PageOf(n) ==
    SubSeq(Listed, (n - 1) * PageSize + 1, Min({n * PageSize, Len(Listed)}))

WellAsked == query.size >= 1 /\ query.nested \in {"true", "false"}

\* get_stats has filtered once, and get_paginated_response filters again, with
\* the filterset_fields that the first time has left
FilterAgain ==
    /\ Filtered /\ way = "stats"
    /\ way' = "count"
    /\ backend' = 1
    /\ queryset' = [r \in Rows |-> Truth(r \in query.visible)]
    /\ UNCHANGED <<query, page, filterset, announced, received, answer,
                   dataModelVars>>

\* get_stats reads num_total_pages of an answer that may be a refusal; the
\* client then fetches the first of the pages
Announce ==
    /\ Filtered /\ way = "count"
    /\ UNCHANGED <<query, page, received, dataModelVars>>
    /\ IF WellAsked
       THEN announced' = NumPages /\ way' = "pages" /\ ListView
       ELSE /\ answer' = "error"
            /\ UNCHANGED <<announced, way, filterset, backend, queryset>>

\* get_paginated_response; a page beyond the last is a 404, which leaves the
\* client with the next url
Paginate ==
    /\ Filtered /\ way \in {"list", "pages"}
    /\ UNCHANGED <<query, way, announced, dataModelVars>>
    /\ IF ~WellAsked
       THEN /\ answer' = "refused"
            /\ UNCHANGED <<page, filterset, backend, queryset, received>>
       ELSE /\ received' = IF page <= NumPages THEN received \o PageOf(page)
                           ELSE received
            /\ IF page < (IF way = "list" THEN NumPages ELSE announced)
               THEN page' = page + 1 /\ ListView
               ELSE /\ answer' = "done"
                    /\ UNCHANGED <<page, filterset, backend, queryset>>

NoQuery == [model |-> "", way |-> "list", params |-> {}, visible |-> {},
              level |-> [op |-> "none"], size |-> 1, nested |-> "true"]

QueryInit ==
    /\ BootInit
    /\ query = NoQuery
    /\ way = "list" /\ page = 1 /\ filterset = {} /\ backend = 1
    /\ queryset = [r \in Rows |-> 0]
    /\ announced = 0 /\ received = <<>> /\ answer = "none"

QueryNext ==
    \/ Boot /\ UNCHANGED queryVars
    \/ Ask \/ Filter \/ FilterAgain \/ Announce \/ Paginate

QuerySpec == QueryInit /\ [][QueryNext]_queryAllVars

-----------------------------------------------------------------------------
(***************************************************************************)
(* Properties.                                                             *)
(***************************************************************************)

\* Types of all variables
QueryTypeOK ==
    /\ phase \in {"model", "names", "fields", "maker", "built", "refused"}
    /\ at \in 1 .. Len(Models) + 1 /\ field \in Nat
    /\ Len(filters) <= Len(Models) /\ Len(columns) <= Len(Models)
    /\ query.visible \subseteq Rows /\ query.size \in Nat
    /\ way \in {"list", "stats", "count", "pages"}
    /\ page \in 1 .. Max({1, Cardinality(Rows)})
    /\ filterset \subseteq FieldNames \cup DividerFields(definition)
    /\ backend \in 1 .. Len(FilterBackends) + 1
    /\ queryset \in [Rows -> 0 .. 2]
    /\ announced \in 0 .. Max({1, Cardinality(Rows)})
    /\ received \in Seq(Rows)
    /\ answer \in {"none", "running", "done", "refused", "error"}

\* get_schema_operation_parameters, and docs/filters.md for the JSON fields:
\* the operators of a field of a type, and those that have a negation
Documented(op, type) ==
    IF type = "JSONField" THEN op \notin {"exact", "uid"}
    ELSE CASE op \in {"in", "exact"} -> type # "PointField"
           [] op \in {"contains", "icontains", "isempty"} -> type \in Texts
           [] op \in {"range", "gte", "lte", "gt", "lt"} -> type \in Rangeable
           [] op = "uid" -> type = "ForeignKey"
           [] op = "isnull" -> type \in Links
           [] op \in {"d_gte", "d_lte", "d_gt", "d_lt", "d_range"} ->
                 type = "PointField"
           [] OTHER -> FALSE

DocumentedNegated ==
    {"in", "contains", "icontains", "range", "uid", "d_range", "exact"}

\* The instants that a value of the query names
Period(v, type) ==
    LET len == CASE type = "DateField" -> DayLen
                 [] type = "DateTimeField" /\ v.grain = "day" -> DayLen
                 [] type = "DateTimeField" /\ v.grain = "second" -> SecondLen
                 [] OTHER -> 1
    IN {t \in v.at - len .. v.at + len : t \div len = v.at \div len}

\* What a parameter asks of a value, in terms of the instants that it names
Holds(p, c) ==
    LET v == p.value
        type == TypeOf(p.name)
        Since(w) == c # None /\ \E t \in Period(w, type) : t <= c
        Until(w) == c # None /\ \E t \in Period(w, type) : c <= t
    IN IF type = "JSONField" THEN v.pair \in c
       ELSE CASE p.op = "gte" -> Since(v)
              [] p.op = "lte" -> Until(v)
              [] p.op = "gt" -> c # None /\ ~Until(v)
              [] p.op = "lt" -> c # None /\ ~Since(v)
              [] p.op = "range" ->
                    /\ v.of \in {"from", "between"} => Since(v.from)
                    /\ v.of \in {"until", "between"} => Until(v.until)
              [] p.op = "in" ->
                    IF type = "ManyToManyField" THEN c \cap v.set # {}
                    ELSE c \in v.set
              [] p.op = "contains" -> c # None /\ \A l \in v.text : l \in c
              [] p.op = "icontains" ->
                    c # None /\ \A l \in v.text : \E k \in c : k[1] = l[1]
              [] p.op = "isempty" -> (c = {}) = (v.of = "true")
              [] p.op = "isnull" ->
                    (IF type = "ManyToManyField" THEN c = {} ELSE c = None)
                       = (v.of = "true")
              [] p.op = "uid" -> c = v.is
              [] p.op = "exact" ->
                    \/ v.of = "empty"
                    \/ IF type = "ManyToManyField" THEN v.is \in c ELSE c = v.is
              [] p.op = "d_range" ->
                    /\ c # None
                    /\ (v.at <= c /\ c <= v.to) \/ (v.to <= c /\ c <= v.at)
              [] OTHER -> c # None /\ AtDistance(p.op, c, v)

\* A parameter that no schema and no document has, or without a usable value,
\* asks for nothing.
Understood(p) ==
    LET type == TypeOf(p.name)
    IN /\ Documented(p.op, type)
       /\ \/ p.name \in FilterNames
          \/ p.op \in {"range", "gte", "lte", "gt", "lt"}
       /\ type # "JSONField" =>
             /\ p.neg => p.op \in DocumentedNegated
             /\ p.op \in {"isempty", "isnull"} => p.value.of \in {"true", "false"}
             /\ p.op = "range" => p.value.of # "open"

Means(p, r) == Understood(p) => p.neg # Holds(p, Cell[r][p.name])

\* level and atleast are lists of users; what is no level has no users, with
\* and without negation, and nobody is asked to be at least blocked
LevelMeans(r) ==
    LET l == query.level
    IN View.name = "User" =>
          CASE l.op = "level" -> l.of \in 0 .. 4 /\ l.neg # (Level[r] = l.of)
            [] l.op = "atleast" ->
                  l.of \in 1 .. 4 /\ l.neg # (Level[r] \in l.of .. 4)
            [] OTHER -> TRUE

\* Requests whose parameters the backends treat one by one: two exclusions by
\* one backend are conjoined first, and the level of users is looked up among
\* all users when the filters before it have left no row.
OneByOne(q) ==
    /\ \A p, s \in {t \in q.params : t.neg \/ t.op = "isempty"} :
          \/ p.op = s.op
          \/ TypeOf(p.name) = "JSONField" /\ TypeOf(s.name) = "JSONField"
          => p = s \/ p.op = "exact"
    /\ q.level.op # "none" => q.params = {} /\ q.visible # {}

\* The negation of a range is documented (docs/filters.md 113, and the schema at
\* filters.py 765), and never filters: FilterSupportingRangeBackend goes on
\* with names that end in "__range" only (filters.py 798).
NegatedRange(p) == p.op = "range" /\ p.neg /\ TypeOf(p.name) \in Rangeable

\* Following the links from page to page, or the page urls of the statistics,
\* a client receives exactly the rows that it may see and that satisfy each
\* parameter: with periods closed at the right end, exclusions that are
\* complements, links matched through joins, and the filterset_fields that the
\* earlier backends have left.  Requests with a negated range are left out:
\* their answers are not what they ask for.
AnswersMeanTheQuery ==
    /\ answer = "done" /\ OneByOne(query)
    /\ ~\E p \in query.params : NegatedRange(p)
    => Range(received) = {r \in query.visible :
                             /\ LevelMeans(r)
                             /\ \A p \in query.params : Means(p, r)}

\* No row reaches the client twice, on one page or on two, although the
\* filters on links repeat rows; and every page is within the maximum.
NoRowTwice ==
    answer = "done" =>
        /\ IsInjective(received)
        /\ Len(received) <= page * MaxSize
=============================================================================
