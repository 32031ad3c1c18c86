----------------------------- MODULE DataModel -----------------------------
(***************************************************************************)
(* The start of the server: the data model file (version 1.0.0) is parsed  *)
(* model by model and field by field, the names and the reverses seen so   *)
(* far deciding on the next ones, and the Django models are made of what   *)
(* was parsed.  make_django_model completes the arguments of a field in    *)
(* place, and the serializers read them afterwards to decide which fields  *)
(* a creation must give.                                                   *)
(*                                                                         *)
(* A reference to a model is its uid and its name; the attributes of a     *)
(* field are abstracted to allow_empty and default.                        *)
(***************************************************************************)
EXTENDS Naturals, Sequences, FiniteSets

CONSTANTS
    Definitions,      \* data model files
    Keywords,         \* words of Python
    CustomModels,     \* constants.CONCRETE_CUSTOM_MODELS
    UserNames,        \* CONCRETE_USER_PROTECTED_FIELDS
    ModelNames,       \* CONCRETE_MODELS_PROTECTED_FIELDS
    UserAttributes,   \* names that make_django_model refuses for User
    ModelAttributes,  \* names that make_django_model refuses for other models
    Lower(_),         \* str.lower, of the name of a model
    NoName            \* no reverse, no divider

\* Files are of the form that the parser iterates over: their sections are
\* lists, and the attributes of a field one of what the abstraction tells apart.
IsList(s) == s \in Seq({s[i] : i \in DOMAIN s})

ASSUME DefinitionsAssumption ==
    \A d \in Definitions :
        /\ IsList(d.models) /\ IsList(d.permissions)
        /\ \A i \in DOMAIN d.models :
              /\ IsList(d.models[i].fields)
              /\ \A j \in DOMAIN d.models[i].fields :
                    /\ d.models[i].fields[j].empty \in {"unset", "yes", "no"}
                    /\ d.models[i].fields[j].default
                          \in {"none", "empty", "value"}
                    /\ d.models[i].fields[j].address \in BOOLEAN

VARIABLES definition, phase, at, field, names, reverses, filters, columns

dataModelVars ==
    <<definition, phase, at, field, names, reverses, filters, columns>>

DjangoType ==
    [bool |-> "BooleanField", txt |-> "TextField", char |-> "CharField",
     url |-> "URLField", int |-> "IntegerField", bigint |-> "BigIntegerField",
     uid |-> "UUIDField", float |-> "FloatField", decimal |-> "DecimalField",
     json |-> "JSONField", file |-> "FileField", image |-> "ImageField",
     datetime |-> "DateTimeField", date |-> "DateField",
     email |-> "EmailField", fk |-> "ForeignKey", m2m |-> "ManyToManyField",
     ip |-> "GenericIPAddressField", point |-> "PointField"]

SimpleTypes == {"bool", "txt", "text", "char", "url", "float", "datetime",
                "date", "int", "fk", "ip"}

IpProtocols == {"ipv4", "ipv6", "ipv4_6"}
DeleteRules == {"CASCADE", "SET_NULL", "PROTECT"}

Models == definition.models
Model == Models[at]
Field == Model.fields[field]
FieldsOf(m) == {m.fields[i] : i \in DOMAIN m.fields}
Entries(section, m) == {i \in DOMAIN section : section[i].model = m.uid}
IsRelation(f) == f.datatype \in {"fk", "m2m"}

RelationsOf(m, f) ==
    {i \in DOMAIN definition.relations :
        LET r == definition.relations[i]
        IN /\ r.kind = f.datatype /\ r.field = f.name
           /\ r.source = m.uid /\ r.target = f.to}

IsUser(m) == Lower(m.name) = "user"
ProtectedNames(m) == IF IsUser(m) THEN UserNames ELSE ModelNames

\* The maker compares the names of models as they are written
AttributesOf(m) == IF m.name = "User" THEN UserAttributes ELSE ModelAttributes

-----------------------------------------------------------------------------
(***************************************************************************)
(* Parsing.                                                                *)
(***************************************************************************)

\* The state after a step: the parser goes on, or raises
Advance(accepted, next) == phase' = IF accepted THEN next ELSE "refused"

\* The part of get_meta_models before the fields of a model
CheckModel ==
    /\ phase = "model" /\ at <= Len(Models)
    /\ Advance(/\ Model.complete
               /\ Model.name \notin CustomModels \cup Keywords
               /\ Cardinality(Entries(definition.permissions, Model)) = 1,
               "names")
    /\ field' = 1
    /\ UNCHANGED <<definition, at, names, reverses, filters, columns>>

\* The first loop over the fields
CheckName ==
    /\ phase = "names" /\ field <= Len(Model.fields)
    /\ Advance(/\ Field.complete
               /\ Field.name \notin Keywords \cup ProtectedNames(Model)
               /\ <<Model.name, Field.name>> \notin names,
               "names")
    /\ names' = names \cup {<<Model.name, Field.name>>}
    /\ field' = field + 1
    /\ UNCHANGED <<definition, at, reverses, filters, columns>>

\* Without resource_queries every field of a simple type is a filter
FilterFields(m) ==
    LET entries == Entries(definition.queries, m)
    IN IF entries = {}
       THEN {f.name : f \in {g \in FieldsOf(m) : g.datatype \in SimpleTypes}}
       ELSE definition.queries[CHOOSE i \in entries : TRUE].filter

ChooseQueries ==
    /\ phase = "names" /\ field > Len(Model.fields)
    /\ Advance(Cardinality(Entries(definition.queries, Model)) <= 1, "fields")
    /\ filters' = Append(filters, FilterFields(Model))
    /\ field' = 1
    /\ UNCHANGED <<definition, at, names, reverses, columns>>

\* Faulty variant: a reverse is looked up under the model that has the field.
ReverseOfSource(m, f) == <<m.name, f.reverse>>

\* The second loop, update_specifier_data: a relation needs one entry of its
\* section, and a reverse that no model of the name of its target has yet;
\* none is a reverse too
ReverseOf(m, f) == <<f.toName, f.reverse>>

\* validate_ipv46_address is asked about a default that is not empty
GoodAddress(f) ==
    f.protocol \in IpProtocols /\ (f.default = "value" => f.address)

MakeField ==
    /\ phase = "fields" /\ field <= Len(Model.fields)
    /\ Advance(/\ Field.datatype \in DOMAIN DjangoType
               /\ Field.datatype = "ip" => GoodAddress(Field)
               /\ IsRelation(Field) =>
                     /\ ReverseOf(Model, Field) \notin reverses
                     /\ Cardinality(RelationsOf(Model, Field)) = 1,
               "fields")
    /\ reverses' = IF IsRelation(Field)
                   THEN reverses \cup {ReverseOf(Model, Field)}
                   ELSE reverses
    /\ field' = field + 1
    /\ UNCHANGED <<definition, at, names, filters, columns>>

FinishModel ==
    /\ phase = "fields" /\ field > Len(Model.fields)
    /\ phase' = "model"
    /\ at' = at + 1
    /\ UNCHANGED <<definition, field, names, reverses, filters, columns>>

-----------------------------------------------------------------------------
(***************************************************************************)
(* Making the models.                                                      *)
(***************************************************************************)

\* get_divider_v1: a model with lookups names the divider, and an entry of a
\* model that the file does not have is not read
LookupsIn(d) ==
    UNION {Entries(d.permissions, d.models[i]) : i \in DOMAIN d.models}
DividersIn(d) == {d.permissions[i].divider : i \in LookupsIn(d)} \ {NoName}
Dividers == DividersIn(definition)

GetDivider ==
    /\ phase = "model" /\ at > Len(Models)
    /\ Advance(Cardinality(Dividers) <= 1, "maker")
    /\ at' = 1
    /\ UNCHANGED <<definition, field, names, reverses, filters, columns>>

\* What allow_empty becomes: null and blank
Null(f) == f.empty = "yes"

\* The arguments of a field as make_django_model leaves them: blank, null and
\* default of the column, which it completes in f_args itself (a relation
\* gets a copy, so that its f_args keep the blank of the definition)
Blank(f) ==
    \/ f.empty = "yes"
    \/ f.datatype \in {"file", "json"}
    \/ f.datatype \in {"char", "txt", "int", "bigint"} /\ f.empty = "unset"

Nullable(f) ==
    \/ f.datatype \in {"file", "fk"}
    \/ /\ f.datatype \notin {"json", "char", "txt", "int", "bigint",
                             "decimal", "m2m"}
       /\ Null(f)

\* Faulty variant: a blank text has no default of its own.
DefaultGiven(f) == IF f.datatype = "json" THEN "value" ELSE f.default

Default(f) ==
    CASE f.datatype = "json" -> "value"
      [] f.datatype \in {"datetime", "date"} /\ ~Null(f) -> "value"
      [] f.datatype \in {"char", "txt"} /\ f.default = "none" -> "empty"
      [] f.datatype \in {"int", "bigint", "decimal"} /\ f.default = "none" ->
            "value"
      [] OTHER -> f.default

Column(f) == [blank |-> Blank(f), null |-> Nullable(f), default |-> Default(f)]

OnDelete(m, f) ==
    definition.relations[CHOOSE i \in RelationsOf(m, f) : TRUE].onDelete

MakeModel ==
    /\ phase = "maker" /\ at <= Len(Models)
    /\ Advance(\A f \in FieldsOf(Model) :
                  /\ f.name \notin AttributesOf(Model)
                  /\ f.datatype = "fk" => OnDelete(Model, f) \in DeleteRules,
               "maker")
    /\ columns' = Append(columns,
                         [n \in {f.name : f \in FieldsOf(Model)} |->
                            Column(CHOOSE f \in FieldsOf(Model) : f.name = n)])
    /\ at' = at + 1
    /\ UNCHANGED <<definition, field, names, reverses, filters>>

Finish ==
    /\ phase = "maker" /\ at > Len(Models)
    /\ phase' = "built"
    /\ UNCHANGED <<definition, at, field, names, reverses, filters, columns>>

\* is_field_required, and the fields that make_serializer_class declares
Required(f, column) ==
    /\ f.datatype \notin {"file", "json"}
    /\ ~column.blank
    /\ \/ f.datatype \in {"fk", "m2m", "point"}
       \/ column.default = "none"
       \/ f.datatype \notin {"char", "txt"}
       \/ column.default = "empty"

Boot ==
    \/ CheckModel \/ CheckName \/ ChooseQueries \/ MakeField \/ FinishModel
    \/ GetDivider \/ MakeModel \/ Finish

BootInit ==
    /\ definition \in Definitions
    /\ phase = "model" /\ at = 1 /\ field = 1
    /\ names = {} /\ reverses = {} /\ filters = <<>> /\ columns = <<>>

BootSpec == BootInit /\ [][Boot]_dataModelVars

-----------------------------------------------------------------------------
(***************************************************************************)
(* Properties.                                                             *)
(***************************************************************************)

FieldPlaces ==
    UNION {{<<i, j>> : j \in DOMAIN Models[i].fields} : i \in DOMAIN Models}
FieldAt(p) == Models[p[1]].fields[p[2]]

\* What the sections of a data model must agree on, said of the whole file
WellFormed ==
    /\ \A i \in DOMAIN Models :
          /\ Models[i].complete
          /\ Models[i].name \notin CustomModels \cup Keywords
          /\ Cardinality(Entries(definition.permissions, Models[i])) = 1
          /\ Cardinality(Entries(definition.queries, Models[i])) <= 1
    /\ \A p \in FieldPlaces :
          LET m == Models[p[1]]
              f == FieldAt(p)
          IN /\ f.complete
             /\ f.datatype \in DOMAIN DjangoType
             /\ f.name \notin Keywords \cup ProtectedNames(m) \cup AttributesOf(m)
             /\ f.datatype = "ip" => GoodAddress(f)
             /\ IsRelation(f) => Cardinality(RelationsOf(m, f)) = 1
             /\ f.datatype = "fk" => OnDelete(m, f) \in DeleteRules
    /\ \A p, q \in FieldPlaces :
          p # q =>
             /\ \/ Models[p[1]].name # Models[q[1]].name
                \/ FieldAt(p).name # FieldAt(q).name
             /\ IsRelation(FieldAt(p)) /\ IsRelation(FieldAt(q)) =>
                   \/ FieldAt(p).toName # FieldAt(q).toName
                   \/ FieldAt(p).reverse # FieldAt(q).reverse
    /\ \A i, j \in LookupsIn(definition) :
          \/ NoName \in {definition.permissions[i].divider,
                         definition.permissions[j].divider}
          \/ definition.permissions[i].divider
                = definition.permissions[j].divider

\* The parser and the maker of the models let a data model pass exactly if its
\* sections agree with each other, wherever in the file the clash is: the
\* parser, which sees one field at a time and remembers names and reverses,
\* misses no clash and refuses nothing else.  Two relations to one name that
\* give no reverse clash too.  What Django itself refuses of the models is
\* not said here (the syntax of a name, say).
AcceptsWellFormed ==
    /\ phase = "built" => WellFormed
    /\ phase = "refused" => ~WellFormed

\* Django's default for a text column that may not be null
EmptyStringDefault == {"url", "email", "file", "image"}

\* A field that a creation may leave out is one that the table can fill in: it
\* is null, or has a default, or is a set of links; and what is filled in is
\* the empty text only in a field that may be empty.  The parser, the maker of
\* the models and the serializers decide on one part each.
OmittedFieldsStored ==
    phase = "built" =>
        \A p \in FieldPlaces :
            LET f == FieldAt(p)
                c == columns[p[1]][f.name]
            IN ~Required(f, c) =>
                  /\ \/ c.null
                     \/ c.default # "none"
                     \/ f.datatype \in {"m2m"} \cup EmptyStringDefault
                  /\ f.datatype \in {"char", "txt"} /\ f.empty = "no" =>
                        c.default = "value"
=============================================================================
