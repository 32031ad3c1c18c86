----------------------------- MODULE MCQueries -----------------------------
(***************************************************************************)
(* Model checking of DataModel and Queries: data model files that differ   *)
(* from a valid one in a field, a model or an entry of a section, or in    *)
(* two of them, and queries of one or two parameters about the valid one.  *)
(***************************************************************************)
EXTENDS Queries

CONSTANTS noname, null

Plain(name, datatype) ==
    [name |-> name, datatype |-> datatype, empty |-> "unset",
     default |-> "none", complete |-> TRUE, to |-> 0, toName |-> "",
     reverse |-> noname, protocol |-> "ipv4", address |-> TRUE]
Relation(name, datatype, to, toName, reverse) ==
    [Plain(name, datatype) EXCEPT !.to = to, !.toName = toName,
                                  !.reverse = reverse]
Entry(kind, name, source, target) ==
    [kind |-> kind, field |-> name, source |-> source, target |-> target,
     onDelete |-> "PROTECT"]
NamedModel(name, uid, fields) ==
    [name |-> name, uid |-> uid, complete |-> TRUE, fields |-> fields]
Permission(uid, divider) == [model |-> uid, divider |-> divider]
Query(uid, names_) == [model |-> uid, filter |-> names_]

MCLower(name) ==
    CASE name = "User" -> "user" [] name = "Item" -> "item"
      [] name = "Tag" -> "tag" [] OTHER -> name

\* The file whose first model is queried, divided by the second: a field of
\* every kind
ServedItems ==
    [models |->
        <<NamedModel("Item", 1,
            <<Plain("c", "char"), Plain("h", "txt"), Plain("i", "int"),
              Plain("d", "datetime"), Plain("y", "date"), Plain("b", "bool"),
              Relation("k", "fk", 2, "Tag", "items"),
              Relation("m", "m2m", 2, "Tag", "tagged"),
              Plain("j", "json"), [Plain("p", "point") EXCEPT !.empty = "yes"],
              [Plain("l", "url") EXCEPT !.empty = "yes"]>>),
          NamedModel("Tag", 2, <<Plain("c", "char")>>)>>,
     relations |-> <<Entry("fk", "k", 1, 2), Entry("m2m", "m", 1, 2)>>,
     permissions |-> <<Permission(1, "Tag"), Permission(2, noname)>>,
     queries |-> <<Query(1, {"c", "i", "d", "y", "b", "k", "m", "j", "p", "l"})>>]

ServedUsers ==
    [ServedItems EXCEPT
        !.models = <<NamedModel("User", 1, <<Plain("c", "char")>>)>>,
        !.relations = <<>>, !.permissions = <<Permission(1, "Tag")>>,
        !.queries = <<>>]

\* A small file, and changes of it
Small ==
    [models |-> <<NamedModel("User", 1, <<Plain("c", "char")>>),
                  NamedModel("Item", 2, <<Relation("k", "fk", 1, "User", "items"),
                                          Plain("c", "char")>>)>>,
     relations |-> <<Entry("fk", "k", 2, 1), Entry("m2m", "k", 2, 1)>>,
     permissions |-> <<Permission(1, noname), Permission(2, "User")>>,
     queries |-> <<Query(2, {"c"})>>]

\* Fields of every type, and fields that may clash
TypedFields ==
    {[Plain("t", t) EXCEPT !.empty = e, !.default = v] :
        t \in (DOMAIN DjangoType \cup {"text"}) \ {"fk", "m2m"},
        e \in {"unset", "yes", "no"}, v \in {"none", "empty", "value"}}
ClashingFields ==
    {Plain(n, "char") :
        n \in {"c", "class", "created_by", "level", "username", "Meta"}}
    \cup {[Plain("t", "ip") EXCEPT !.protocol = "ipx"],
          [Plain("t", "char") EXCEPT !.complete = FALSE]}
    \cup {[Plain("t", t) EXCEPT !.default = v, !.address = FALSE] :
            t \in {"ip", "char"}, v \in {"empty", "value"}}
    \cup {Relation("k", t, to, n, r) :
            t \in {"fk", "m2m"}, to \in {1, 2}, n \in {"User", "Item"},
            r \in {noname, "items"}}

\* One change of the fields, and one of the models or sections
FieldChanges(d, fields) ==
    {[d EXCEPT !.models[1].fields = Append(@, f)] : f \in fields}
    \cup {[d EXCEPT !.models[2].fields[1] = f] : f \in fields}
SectionChanges(d) ==
    {d, [d EXCEPT !.models[2].complete = FALSE],
     [d EXCEPT !.models = <<@[2], @[1]>>],
     [d EXCEPT !.permissions = <<@[1]>>]}
    \cup {[d EXCEPT !.models[2].name = n] :
            n \in {"User", "user", "class", "ConcreteRole"}}
    \cup {[d EXCEPT !.relations = Append(@, e)] :
            e \in {Entry("fk", "k", 1, 1),
                   Entry("fk", "k", 2, 1),
                   Entry("m2m", "k", 1, 2),
                   [Entry("fk", "k", 1, 2) EXCEPT !.onDelete = "DO_NOTHING"]}}
    \cup {[d EXCEPT !.permissions = Append(@, Permission(m, v))] :
            m \in {1, 3}, v \in {noname, "Item"}}
    \cup {[d EXCEPT !.queries = Append(@, Query(m, {}))] : m \in {1, 2}}

MCServed == {ServedItems, ServedUsers}

MCDefinitions ==
    MCServed \cup FieldChanges(Small, TypedFields)
    \cup UNION {SectionChanges(d) :
                  d \in {Small} \cup FieldChanges(Small, ClashingFields)}

-----------------------------------------------------------------------------
(***************************************************************************)
(* Three rows; a second is two ticks, a day four.                          *)
(***************************************************************************)
MCRows == 1 .. 3
MCCell ==
    <<[uid |-> 1, creation_date |-> 3, modification_date |-> 4, c |-> {},
       i |-> 0, d |-> 3, y |-> 0, b |-> 0, k |-> null, m |-> {1, 2},
       j |-> {"u"}, p |-> 1, l |-> null, tag |-> 1],
      [uid |-> 2, creation_date |-> 4, modification_date |-> 7,
       c |-> {<<"a", 0>>}, i |-> 1, d |-> 4, y |-> 4, b |-> 1, k |-> 1,
       m |-> {2}, j |-> {}, p |-> 2, l |-> {}, tag |-> null],
      [uid |-> 3, creation_date |-> 9, modification_date |-> 9,
       c |-> {<<"a", 1>>, <<"b", 0>>}, i |-> 2, d |-> 9, y |-> 8, b |-> 1,
       k |-> 2, m |-> {}, j |-> {"u", "w"}, p |-> null, l |-> {<<"a", 1>>},
       tag |-> 2]>>
MCLevel == <<0, 3, 4>>

Param(name, op, neg, value) ==
    [name |-> name, op |-> op, neg |-> neg, value |-> value]
Instant(t, g) == [of |-> "instant", at |-> t, grain |-> g]
Malformed == [of |-> "malformed"]
Signs == {TRUE, FALSE}
Instants ==
    {Instant(t, g) : t \in {3, 4, 7}, g \in {"tick", "second", "day"}}
Ranges ==
    {[of |-> "between", from |-> v, until |-> w] :
        v, w \in {Instant(3, "second"), Instant(4, "day")}}
    \cup {[of |-> "from", from |-> Instant(3, "day")],
          [of |-> "until", until |-> Instant(4, "second")],
          [of |-> "open"], [of |-> "single"], Malformed}
Booleans == {[of |-> v] : v \in {"true", "false", "other"}}
Letters == SUBSET {<<"a", 0>>, <<"a", 1>>, <<"b", 0>>}

Comparisons ==
    {Param(n, op, neg, v) :
        n \in {"i", "d", "y", "creation_date", "c", "h"},
        op \in {"gte", "lte", "gt", "lt"}, neg \in Signs,
        v \in Instants \cup {Malformed, [of |-> "blank"]}}
RangeParams ==
    {Param(n, "range", neg, v) :
        n \in {"i", "d", "y", "modification_date"}, neg \in Signs, v \in Ranges}
LinkParams ==
    {Param(n, "in", neg, v) :
        n \in {"k", "m", "i", "uid", "b", "tag", "modification_date"}, neg \in Signs,
        v \in {[of |-> "set", set |-> s] : s \in {{1}, {1, 2}, {}}}
              \cup {Malformed}}
    \cup {Param(n, "isnull", neg, v) :
            n \in {"k", "m", "i", "tag"}, neg \in Signs, v \in Booleans}
    \cup {Param(n, "uid", neg, v) :
            n \in {"k", "tag"}, neg \in Signs, v \in {[of |-> "one", is |-> 1], Malformed}}
    \cup {Param(n, "exact", neg, v) :
            n \in {"k", "m", "i", "tag"}, neg \in Signs,
            v \in {[of |-> "one", is |-> 1], [of |-> "empty"], Malformed}}
TextParams ==
    {Param(n, op, neg, [of |-> "text", text |-> x]) :
        n \in {"c", "l"}, op \in {"contains", "icontains"}, neg \in Signs, x \in Letters}
    \cup {Param(n, "isempty", neg, v) :
            n \in {"c", "l", "i"}, neg \in Signs, v \in Booleans}
OtherParams ==
    {Param("j", op, neg, v) :
        op \in {"key", "in", "isnull", "gte", "range", "exact", "uid"},
        neg \in Signs, v \in {[of |-> "pair", pair |-> x] : x \in {"u", "w"}}
                             \cup {Malformed, [of |-> "unusable"]}}
    \cup {Param("p", op, neg, [of |-> "at", at |-> 2]) :
            op \in {"d_gte", "d_lte", "d_gt", "d_lt"}, neg \in Signs}
    \cup {Param("p", "d_range", neg, [of |-> "ends", at |-> x, to |-> z]) :
            neg \in Signs, x, z \in {1, 2}}

AllParams == Comparisons \cup RangeParams \cup LinkParams \cup TextParams
             \cup OtherParams

\* Parameters that go together in one request
Paired ==
    {Param("m", "in", neg, [of |-> "set", set |-> {1, 2}]) : neg \in Signs}
    \cup {Param("m", "isnull", FALSE, [of |-> "false"]),
          Param("c", "isempty", FALSE, [of |-> "false"]),
          Param("i", "exact", TRUE, [of |-> "one", is |-> 1]),
          Param("k", "in", TRUE, [of |-> "set", set |-> {1}]),
          Param("j", "in", FALSE, [of |-> "pair", pair |-> "w"]),
          Param("j", "in", TRUE, [of |-> "pair", pair |-> "w"]),
          Param("j", "key", TRUE, [of |-> "pair", pair |-> "u"]),
          Param("tag", "uid", TRUE, [of |-> "one", is |-> 2]),
          Param("p", "d_gt", FALSE, [of |-> "at", at |-> 1]),
          Param("creation_date", "gt", FALSE, Instant(3, "day"))}

ItemRequest(ps, visible, size, nested) ==
    {[model |-> "Item", way |-> w, params |-> ps, visible |-> visible,
      level |-> [op |-> "none"], size |-> size, nested |-> nested] :
        w \in {"list", "stats"}}

UserRequests ==
    {[model |-> "User", way |-> "list", params |-> ps, visible |-> s,
      level |-> [op |-> o, of |-> v, neg |-> neg], size |-> 5,
      nested |-> "true"] :
        ps \in {{}, {Param("c", "isempty", FALSE, [of |-> "true"])}},
        s \in SUBSET MCRows, o \in {"level", "atleast"}, v \in {0, 1, 3, 5},
        neg \in Signs}

MCClientQueries ==
    UNION {ItemRequest({p}, MCRows, 2, "true") : p \in AllParams}
    \cup UNION {ItemRequest({p, q}, MCRows, 1, "false") : p, q \in Paired}
    \cup UNION {ItemRequest({}, s, n, e) : s \in {{}, {1, 3}, MCRows},
                   n \in 0 .. 3, e \in {"true", "false", "other"}}
    \cup UserRequests
=============================================================================
