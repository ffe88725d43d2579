----------------------------- MODULE SchemaExpr -----------------------------
(***************************************************************************)
(* How erm gen reads a schema type (generator/parser.go).  The methods of  *)
(* the type are Go code written against the DSL (orm/dsl/schema.go), but   *)
(* the generator never compiles them: it parses the file and evaluates the *)
(* returned expression itself.  Read* below is that evaluator, Run* is Go  *)
(* executing the same expression; both end in the builders of the DSL.     *)
(*                                                                         *)
(* An expression is a record of op and parts, a value a record with the    *)
(* name of its dynamic type in t.  A constant of the DSL is named without  *)
(* the prefix of its type (TypeText is "text"), strings that only have to  *)
(* be told apart are tokens.                                               *)
(***************************************************************************)
EXTENDS Integers, Sequences, FiniteSets, SequencesExt, FiniteSetsExt, Functions, TLC

CONSTANTS
    Schemas,    \* schemas: records of method bodies, see Methods
    Package     \* the value of each constant the schema package declares

VARIABLES
    schema,     \* the schema type in use
    pending,    \* its methods not evaluated yet
    entity,     \* Entity: the results of those evaluated
    program,    \* what the methods return when they are run
    phase       \* "reading", "loaded", "refused" or "panicked"

exprVars == <<schema, pending, entity, program, phase>>

Methods == {"Fields", "Edges", "Indexes", "Query", "Annotations"}
ElementOf == [Fields |-> "Field", Edges |-> "Edge", Indexes |-> "Index",
              Annotations |-> "Annotation"]
Crud == {"Create", "Read", "Update", "Delete"}
None == [t |-> "none"]

-----------------------------------------------------------------------------
(* Values and outcomes.  An evaluation returns a value, reports an error   *)
(* or panics; of several parts the first that fails decides.               *)

Str(s) == [t |-> "string", v |-> s]
Num(n) == [t |-> "int", v |-> n]
Bool(b) == [t |-> "bool", v |-> b]
Const(type, v) == [t |-> type, v |-> v]
List(type, s) == [t |-> type, list |-> s]
Nil == [t |-> "nil", v |-> "<nil>"]

Ok(v) == [is |-> "ok", val |-> v]
Refused == [is |-> "refused", val |-> None]
Panicked == [is |-> "panicked", val |-> None]
Then(out, F(_)) == IF out.is = "ok" THEN F(out.val) ELSE out
All(outs) ==
    IF \A i \in DOMAIN outs : outs[i].is = "ok"
    THEN Ok([i \in DOMAIN outs |-> outs[i].val])
    ELSE outs[Min({i \in DOMAIN outs : outs[i].is # "ok"})]

-----------------------------------------------------------------------------
(* The DSL: values and builders.  Definitions named *Faulty* are not the   *)
(* code: each is a plausible bug in the definition after it.               *)

NewField(name, type) ==
    [t |-> "Field", name |-> name, type |-> type, column |-> "", goType |-> "",
     flags |-> {}, default |-> None, enum |-> <<>>, enumName |-> <<>>, computed |-> None,
     notes |-> <<>>]
\* annotate: the map of annotations, with one entry replaced.
Note(f, key, val) == [f EXCEPT !.notes = key :> val @@ @]
Flag(f, flag) == [f EXCEPT !.flags = @ \cup {flag}]

Length(f, n) == IF n <= 0 THEN f ELSE Note(f, "length", n)
Precision(f, n) == IF n <= 0 THEN f ELSE Note(f, "precision", n)
Scale(f, n) == IF n < 0 THEN f ELSE Note(f, "scale", n)
Identity(f, mode) == Note(f, "identity_mode", IF mode = "" THEN "by_default" ELSE mode)

Enum(name, values) ==
    IF values = <<>> \/ \E i \in DOMAIN values : values[i] \in {"", " "} THEN Panicked
    ELSE Ok([NewField(name, "enum") EXCEPT !.enum =
                FoldLeft(LAMBDA seen, v : IF Contains(seen, v) THEN seen ELSE Append(seen, v),
                         <<>>, values)])

Vector(name, dim) ==
    IF dim <= 0 THEN Panicked ELSE Ok(Note(NewField(name, "vector"), "vector_dim", dim))

Temporal == {"date", "time", "timetz", "timestamp", "timestamptz"}
\* The literal is rendered for its own type, whatever the type of the field.
defaultExprForField(f, val) ==
    CASE val.t = "string" -> IF f.enum # <<>> /\ ~Contains(f.enum, val.v) THEN Panicked ELSE Ok(val)
      [] val.t \in {"int", "float", "bool"} -> Ok(val)
      [] val.t = "Time" -> IF f.type \in Temporal THEN Ok(val) ELSE Panicked
      [] OTHER -> Panicked

\* Default takes the place of DefaultNow.
Default(f, val) ==
    Then(defaultExprForField(f, val),
         LAMBDA expr : Ok([f EXCEPT !.default = expr, !.flags = @ \ {"defaultNow"}]))

\* A method of dsl.Field with its arguments, a sequence of plain values.
FieldMethod(f, name, a) ==
    CASE name = "Primary" -> Ok(Flag(f, "primary"))
      [] name = "Optional" -> Ok(Flag(f, "nullable"))
      [] name \in {"Unique", "UniqueConstraint"} -> Ok(Flag(f, "unique"))
      [] name = "DefaultNow" -> Ok(Flag(f, "defaultNow"))
      [] name = "UpdateNow" -> Ok(Flag(f, "updateNow"))
      [] name = "ColumnName" -> Ok([f EXCEPT !.column = a[1].v])
      [] name = "WithGoType" -> Ok([f EXCEPT !.goType = a[1].v])
      [] name = "WithDefault" -> Ok([f EXCEPT !.default = Const("sql", a[1].v)])
      [] name = "Default" -> Default(f, a[1])
      [] name \in {"NotEmpty", "TimeSeries"} -> Ok(Note(f, name, TRUE))
      [] name = "SRID" -> Ok(Note(f, "srid", a[1].v))
      [] name = "Length" -> Ok(Length(f, a[1].v))
      [] name = "Precision" -> Ok(Precision(f, a[1].v))
      [] name = "Scale" -> Ok(Scale(f, a[1].v))
      [] name = "Identity" -> Ok(Identity(f, a[1].v))
      [] name = "ArrayElement" -> Ok(Note(f, "array_element", a[1].v))
      [] name = "Computed" ->
             Ok([f EXCEPT !.computed = a[1], !.flags = @ \cup {"readOnly"}])

NewEdge(name, target, kind) ==
    [t |-> "Edge", name |-> name, target |-> target, kind |-> kind, column |-> "", ref |-> "",
     through |-> "", inverse |-> "", nullable |-> FALSE, unique |-> FALSE, targets |-> <<>>,
     onDelete |-> "", onUpdate |-> ""]

OnDeletes == [OnDeleteCascade |-> "CASCADE", OnDeleteSetNull |-> "SET NULL",
              OnDeleteRestrict |-> "RESTRICT", OnDeleteNoAction |-> "NO ACTION"]
OnUpdates == [OnUpdateCascade |-> "CASCADE", OnUpdateSetNull |-> "SET NULL",
              OnUpdateRestrict |-> "RESTRICT", OnUpdateNoAction |-> "NO ACTION"]

EdgeMethod(e, name, a) ==
    CASE name = "Field" -> Ok([e EXCEPT !.column = a[1].v])
      [] name = "Ref" -> Ok([e EXCEPT !.ref = a[1].v])
      [] name = "ThroughTable" -> Ok([e EXCEPT !.through = a[1].v])
      [] name = "Inverse" -> Ok([e EXCEPT !.inverse = a[1].v])
      [] name = "Optional" -> Ok([e EXCEPT !.nullable = TRUE])
      [] name = "UniqueEdge" -> Ok([e EXCEPT !.unique = TRUE])
      [] name \in {"Polymorphic", "PolymorphicTargets"} -> Ok([e EXCEPT !.targets = @ \o a])
      [] name = "OnDelete" -> Ok([e EXCEPT !.onDelete = a[1].v])
      [] name = "OnUpdate" -> Ok([e EXCEPT !.onUpdate = a[1].v])
      [] name \in DOMAIN OnDeletes -> Ok([e EXCEPT !.onDelete = OnDeletes[name]])
      [] name \in DOMAIN OnUpdates -> Ok([e EXCEPT !.onUpdate = OnUpdates[name]])

NewIndex(name) ==
    [t |-> "Index", name |-> name, columns |-> <<>>, where |-> "", method |-> "", flags |-> {}]
IndexMethod(x, name, a) ==
    CASE name = "On" -> Ok([x EXCEPT !.columns = [i \in DOMAIN a |-> a[i].v]])
      [] name \in {"Unique", "UniqueConstraint"} -> Ok(Flag(x, "unique"))
      [] name = "NullsNotDistinctConstraint" -> Ok(Flag(x, "nullsNotDistinct"))
      [] name = "WhereClause" -> Ok([x EXCEPT !.where = a[1].v])
      [] name = "MethodUsing" -> Ok([x EXCEPT !.method = a[1].v])

NewQuery == [t |-> "Query", predicates |-> <<>>, orders |-> <<>>, aggregates |-> <<>>,
             defaultLimit |-> 0, maxLimit |-> 0]
\* Two calls add up; a limit that is not positive changes nothing.
QueryMethod(q, name, a) ==
    CASE name = "WithPredicates" -> Ok([q EXCEPT !.predicates = @ \o a])
      [] name = "WithOrders" -> Ok([q EXCEPT !.orders = @ \o a])
      [] name = "WithAggregates" -> Ok([q EXCEPT !.aggregates = @ \o a])
      [] name = "WithDefaultLimit" -> Ok([q EXCEPT !.defaultLimit = IF a[1].v > 0 THEN a[1].v ELSE @])
      [] name = "WithMaxLimit" -> Ok([q EXCEPT !.maxLimit = IF a[1].v > 0 THEN a[1].v ELSE @])

Predicate(field, op) == [t |-> "Predicate", name |-> "", field |-> field, op |-> op]
Order(field, dir) == [t |-> "Order", name |-> "", field |-> field, dir |-> dir]
Aggregate(name, fn, field, goType) ==
    [t |-> "Aggregate", name |-> name, fn |-> fn, field |-> field, goType |-> goType]
PartMethod(p, name, a) ==
    CASE name = "Named" -> Ok([p EXCEPT !.name = a[1].v])
      [] name = "On" -> Ok([p EXCEPT !.field = a[1].v])
      [] name = "WithGoType" -> Ok([p EXCEPT !.goType = a[1].v])

-----------------------------------------------------------------------------
(* Authorization rules: for each operation a rule, or None. *)

Rule(req, roles) == [t |-> "AuthRule", req |-> req, roles |-> roles]
Rules(f) == [t |-> "AuthRules", of |-> f]
RequireRole(role) ==
    IF role \in {"", " "} THEN Rule("authenticated", <<>>) ELSE Rule("role", <<role>>)
AdminOnly == RequireRole("admin")
Public == Rule("public", <<>>)
Presets ==
    [ContentAuth |-> Rules([op \in Crud |-> IF op = "Read" THEN Public ELSE RequireRole("user")]),
     UserAuth |-> Rules([op \in Crud |->
                    IF op = "Read" THEN Rule("authenticated", <<>>) ELSE AdminOnly]),
     ReadOnlyAuth |-> Rules([op \in Crud |-> IF op = "Read" THEN Public ELSE AdminOnly])]

Trimmed(s) == CASE s = " " -> "" [] s = " admin" -> "admin" [] OTHER -> s
\* The roles are trimmed, each is kept once, in order.
normalizeAuthRule(rule) ==
    IF rule = None THEN None
    ELSE [rule EXCEPT !.roles = SetToSeq({Trimmed(rule.roles[i]) : i \in DOMAIN rule.roles} \ {""})]
normalizeAuthRules(of) == [op \in Crud |-> normalizeAuthRule(of[op])]

\* dsl.Authorization: the annotation holds the rules whole and one by one.
Authorization(rules) ==
    [t |-> "Annotation", name |-> "authorization", rules |-> rules.of, options |-> <<>>]
GraphQL(name, options) ==
    [t |-> "Annotation", name |-> "graphql", rules |-> [op \in Crud |-> None],
     options |-> <<name>> \o options]

-----------------------------------------------------------------------------
(* The functions of the package. *)

\* The builders that make a field, with the type of its column.
FieldTypes ==
    [UUIDv7 |-> "uuid", UUID |-> "uuid", Text |-> "text", String |-> "text",
     VarChar |-> "varchar", Char |-> "char", Boolean |-> "boolean", Bool |-> "boolean",
     SmallInt |-> "smallint", Integer |-> "integer", Int |-> "integer", BigInt |-> "bigint",
     SmallSerial |-> "smallserial", Serial |-> "serial", BigSerial |-> "bigserial",
     SmallIntIdentity |-> "smallint", IntegerIdentity |-> "integer", BigIntIdentity |-> "bigint",
     Decimal |-> "decimal", Numeric |-> "numeric", Real |-> "real",
     DoublePrecision |-> "double precision", Float |-> "double precision",
     Money |-> "money", Bytea |-> "bytea", Bytes |-> "bytea", Date |-> "date", Time |-> "time",
     TimeTZ |-> "timetz", Timestamp |-> "timestamp", TimestampTZ |-> "timestamptz",
     Interval |-> "interval", JSON |-> "json", JSONB |-> "jsonb", XML |-> "xml",
     Inet |-> "inet", CIDR |-> "cidr", MACAddr |-> "macaddr", MACAddr8 |-> "macaddr8",
     Bit |-> "bit", VarBit |-> "varbit", TSVector |-> "tsvector", TSQuery |-> "tsquery",
     Point |-> "point", Line |-> "line", Lseg |-> "lseg", Box |-> "box", Path |-> "path",
     Polygon |-> "polygon", Circle |-> "circle", Int4Range |-> "int4range",
     Int8Range |-> "int8range", NumRange |-> "numrange", TSRange |-> "tsrange",
     TSTZRange |-> "tstzrange", DateRange |-> "daterange", Array |-> "array",
     Geometry |-> "geometry", Geography |-> "geography"]

Sized == {"VarChar", "Char", "Bit", "VarBit"}
Scaled == {"Decimal", "Numeric"}
Identities == {"SmallIntIdentity", "IntegerIdentity", "BigIntIdentity"}

FieldFunc(fn, a) ==
    LET f == NewField(a[1].v, FieldTypes[fn])
    IN  CASE fn \in Sized -> Length(f, a[2].v)
          [] fn \in Scaled -> Scale(Precision(f, a[2].v), a[3].v)
          [] fn \in Identities -> Identity(f, a[2].v)
          [] fn = "Array" -> Note(f, "array_element", a[2].v)
          [] fn \in {"JSON", "JSONB"} -> Note(f, "format", FieldTypes[fn])
          [] OTHER -> f

\* A function of the package with its arguments, a sequence of plain values.
DSLFunc(fn, a) ==
    LET Rest == Tail(a)
        Values(s) == [i \in DOMAIN s |-> s[i].v]
    IN  CASE fn \in DOMAIN FieldTypes -> Ok(FieldFunc(fn, a))
          [] fn = "Enum" -> Enum(a[1].v, Values(Rest))
          [] fn = "Vector" -> Vector(a[1].v, a[2].v)
          [] fn = "Expression" -> Ok([t |-> "Expression", sql |-> a[1].v, deps |-> Values(Rest)])
          [] fn = "Computed" -> Ok([t |-> "ComputedColumn", expr |-> a[1]])
          [] fn \in {"ToOne", "ToMany", "ManyToMany"} -> Ok(NewEdge(a[1].v, a[2].v, fn))
          [] fn = "PolymorphicTarget" -> Ok([t |-> "EdgeTarget", entity |-> a[1].v, on |-> a[2].v])
          [] fn = "Idx" -> Ok(NewIndex(a[1].v))
          [] fn = "Query" -> Ok(NewQuery)
          [] fn = "NewPredicate" -> Ok(Predicate(a[1].v, a[2].v))
          [] fn = "OrderBy" -> Ok(Order(a[1].v, a[2].v))
          [] fn = "NewAggregate" -> Ok(Aggregate(a[1].v, a[2].v, "", ""))
          [] fn = "CountAggregate" -> Ok(Aggregate(a[1].v, "count", "*", "int"))
          [] fn = "GraphQLSubscriptions" -> Ok([t |-> "GraphQLOption", events |-> Values(a)])
          [] fn = "GraphQL" -> Ok(GraphQL(a[1].v, Rest))
          [] fn = "Authorization" -> Ok(Authorization(a[1]))
          [] fn = "RequireAuth" -> Ok(Rule("authenticated", Values(a)))
          [] fn = "RequireRole" -> Ok(RequireRole(a[1].v))
          [] fn \in {"PublicAccess", "Public"} -> Ok(Public)
          [] fn = "AdminOnly" -> Ok(AdminOnly)
          [] fn \in DOMAIN Presets -> Ok(Presets[fn])

\* The constants of the package, by name.
Constants ==
    LET FieldType(v) == Const("FieldType", v)
        Op(v) == Const("ComparisonOperator", v)
        \* Each builder of a column type of its own, or an alias, has a constant.
        Typed == DOMAIN FieldTypes \ (Identities \cup {"UUIDv7"})
    IN  [n \in {"Type" \o fn : fn \in Typed} |->
            FieldType(FieldTypes[CHOOSE fn \in Typed : n = "Type" \o fn])] @@
        [TypeEnum |-> FieldType("enum"), TypeVector |-> FieldType("vector"),
         OpEqual |-> Op("eq"), OpNotEqual |-> Op("neq"), OpGreaterThan |-> Op("gt"),
         OpLessThan |-> Op("lt"), OpGTE |-> Op("gte"), OpLTE |-> Op("lte"), OpILike |-> Op("ilike"),
         SortAsc |-> Const("SortDirection", "asc"), SortDesc |-> Const("SortDirection", "desc"),
         AggCount |-> Const("AggregateFunc", "count"), AggSum |-> Const("AggregateFunc", "sum"),
         AggAvg |-> Const("AggregateFunc", "avg"), AggMin |-> Const("AggregateFunc", "min"),
         AggMax |-> Const("AggregateFunc", "max"),
         SubscriptionEventCreate |-> Const("SubscriptionEvent", "create"),
         SubscriptionEventUpdate |-> Const("SubscriptionEvent", "update"),
         SubscriptionEventDelete |-> Const("SubscriptionEvent", "delete"),
         IdentityByDefault |-> Const("IdentityMode", "by_default"),
         IdentityAlways |-> Const("IdentityMode", "always"),
         CascadeNoAction |-> Const("CascadeAction", "NO ACTION"),
         CascadeRestrict |-> Const("CascadeAction", "RESTRICT"),
         CascadeCascade |-> Const("CascadeAction", "CASCADE"),
         CascadeSetNull |-> Const("CascadeAction", "SET NULL"),
         AuthRequirementPublic |-> Const("AuthRequirement", "public"),
         AuthRequirementAuthenticated |-> Const("AuthRequirement", "authenticated"),
         AuthRequirementRoleRestricted |-> Const("AuthRequirement", "role")]

-----------------------------------------------------------------------------
(* The evaluator of the parser: arguments.  args is a sequence of values,  *)
(* of which there may be fewer than the function takes.                    *)

Upper(s) ==
    CASE s = "set null" -> "SET NULL" [] s = "CascadeSetNull" -> "CASCADESETNULL"
      [] s = "CascadeCascade" -> "CASCADECASCADE" [] OTHER -> s
Lower(s) == IF s \in DOMAIN Constants THEN "lower " \o s ELSE s

argString(args, i) ==
    IF i > Len(args) THEN Str("")
    ELSE IF args[i].t = "string" THEN args[i] ELSE Str(ToString(args[i].v))
argInt(args, i) ==
    IF i <= Len(args) /\ args[i].t = "int" THEN args[i] ELSE Num(0)

\* The tables of names: the constants of a type, but dsl.TypeEnum is missing.
Lookup(type) ==
    [n \in {c \in DOMAIN Constants : Constants[c].t = type} \ {"TypeEnum"} |-> Constants[n].v]
    @@ (IF type = "SubscriptionEvent"
        THEN [create |-> "create", update |-> "update", delete |-> "delete"] ELSE <<>>)

argNamed(type, args, i) ==
    IF i <= Len(args) /\ args[i].t = "string" /\ args[i].v \in DOMAIN Lookup(type)
    THEN Ok(Str(Lookup(type)[args[i].v])) ELSE Refused

\* What is not in the table is the default.
argIdentityMode(args, i) ==
    IF argNamed("IdentityMode", args, i).is = "ok" THEN argNamed("IdentityMode", args, i)
    ELSE Ok(Str("by_default"))

argCascade(args, i) ==
    Ok(Str(IF i <= Len(args) /\ args[i].t = "string" THEN Upper(args[i].v) ELSE ""))

ReadArg(param, args, i) ==
    CASE param = "string" -> Ok(argString(args, i))
      [] param = "int" -> Ok(argInt(args, i))
      [] param = "IdentityMode" -> argIdentityMode(args, i)
      [] param = "CascadeAction" -> argCascade(args, i)
      [] param \in {"FieldType", "ComparisonOperator", "SortDirection", "AggregateFunc",
                    "SubscriptionEvent"} -> argNamed(param, args, i)
      [] param = "any" -> IF i <= Len(args) THEN Ok(args[i]) ELSE Refused
      [] param = "literal" -> IF args[i].t = "string" THEN Ok(args[i]) ELSE Refused
      [] OTHER -> IF i <= Len(args) /\ args[i].t = param THEN Ok(args[i]) ELSE Refused

Takes(fixed) == [fixed |-> fixed, rest |-> "nothing"]
TakesAlso(fixed, rest) == [fixed |-> fixed, rest |-> rest]
ReadArgs(params, args) ==
    LET n == Len(params.fixed)
        Extra == IF params.rest = "nothing" \/ Len(args) < n THEN 0 ELSE Len(args) - n
    IN  All([i \in 1..(n + Extra) |->
                ReadArg(IF i <= n THEN params.fixed[i] ELSE params.rest, args, i)])

-----------------------------------------------------------------------------
(* What the parser knows by name. *)

\* Builders that take a name only.
Named ==
    {"UUIDv7", "UUID", "Text", "String", "Boolean", "Int", "Integer", "SmallInt", "BigInt",
     "SmallSerial", "Serial", "BigSerial", "Float", "Real", "DoublePrecision", "Bool", "Bytes",
     "Bytea", "Money", "Date", "Time", "TimeTZ", "Timestamp", "TimestampTZ", "Interval", "JSON",
     "JSONB", "XML", "Inet", "CIDR", "MACAddr", "MACAddr8", "TSVector", "TSQuery", "Point",
     "Line", "Lseg", "Box", "Path", "Polygon", "Circle", "Int4Range", "Int8Range", "NumRange",
     "TSRange", "TSTZRange", "DateRange", "Geometry", "Geography"}

FuncParams ==
    [fn \in Named \cup {"Idx", "CountAggregate", "RequireRole"} |-> Takes(<<"string">>)] @@
    [fn \in {"VarChar", "Char", "Bit", "VarBit", "Vector"} |-> Takes(<<"string", "int">>)] @@
    [fn \in {"Decimal", "Numeric"} |-> Takes(<<"string", "int", "int">>)] @@
    [fn \in {"SmallIntIdentity", "IntegerIdentity", "BigIntIdentity"} |->
        Takes(<<"string", "IdentityMode">>)] @@
    [fn \in {"ToOne", "ToMany", "ManyToMany", "PolymorphicTarget"} |->
        Takes(<<"string", "string">>)] @@
    [fn \in {"Query", "PublicAccess", "Public", "AdminOnly", "ContentAuth", "UserAuth",
             "ReadOnlyAuth"} |-> Takes(<<>>)] @@
    [Array |-> Takes(<<"string", "FieldType">>),
     Enum |-> TakesAlso(<<"string">>, "literal"),
     NewPredicate |-> Takes(<<"string", "ComparisonOperator">>),
     OrderBy |-> Takes(<<"string", "SortDirection">>),
     NewAggregate |-> Takes(<<"string", "AggregateFunc">>),
     GraphQL |-> TakesAlso(<<"string">>, "GraphQLOption"),
     GraphQLSubscriptions |-> TakesAlso(<<>>, "SubscriptionEvent"),
     Expression |-> TakesAlso(<<"string">>, "literal"),
     Computed |-> Takes(<<"Expression">>),
     Authorization |-> Takes(<<"AuthRules">>),
     RequireAuth |-> TakesAlso(<<>>, "string")]

\* Arguments are counted where the function could not cope with too few.
executeDSLFunc(fn, args) ==
    LET NotNil == SelectSeq(args, LAMBDA a : a # Nil)
        NotBlank == SelectSeq(args, LAMBDA a : a.v \notin {"", " "})
        given == CASE fn = "Expression" -> NotNil
                   [] fn = "RequireAuth" -> [i \in DOMAIN NotBlank |-> Str(Trimmed(NotBlank[i].v))]
                   [] OTHER -> args
    IN  IF fn \notin DOMAIN FuncParams THEN Refused
        ELSE IF fn = "GraphQL" /\ args = <<>> THEN Panicked
        ELSE IF Len(args) < (CASE fn = "Enum" -> 2 [] fn = "Expression" -> 1 [] OTHER -> 0) THEN Refused
        ELSE Then(ReadArgs(FuncParams[fn], given), LAMBDA a : DSLFunc(fn, a))

MethodParams ==
    [Field |->
        [m \in {"Primary", "Optional", "Unique", "UniqueConstraint", "NotEmpty", "DefaultNow",
                "UpdateNow", "TimeSeries"} |-> Takes(<<>>)] @@
        [m \in {"ColumnName", "WithDefault", "WithGoType"} |-> Takes(<<"string">>)] @@
        [m \in {"SRID", "Length", "Precision", "Scale"} |-> Takes(<<"int">>)] @@
        [Default |-> Takes(<<"any">>), Identity |-> Takes(<<"IdentityMode">>),
         ArrayElement |-> Takes(<<"FieldType">>), Computed |-> Takes(<<"ComputedColumn">>)],
     Edge |->
        [m \in {"Field", "Ref", "ThroughTable", "Inverse"} |-> Takes(<<"string">>)] @@
        [m \in {"Optional", "UniqueEdge"} \cup DOMAIN OnDeletes \cup DOMAIN OnUpdates |->
            Takes(<<>>)] @@
        [m \in {"Polymorphic", "PolymorphicTargets"} |-> TakesAlso(<<>>, "EdgeTarget")] @@
        [m \in {"OnDelete", "OnUpdate"} |-> Takes(<<"CascadeAction">>)],
     Index |->
        [m \in {"Unique", "UniqueConstraint", "NullsNotDistinctConstraint"} |-> Takes(<<>>)] @@
        [m \in {"WhereClause", "MethodUsing"} |-> Takes(<<"string">>)] @@
        [On |-> TakesAlso(<<>>, "string")],
     Query |->
        [m \in {"WithDefaultLimit", "WithMaxLimit"} |-> Takes(<<"int">>)] @@
        [WithPredicates |-> TakesAlso(<<>>, "Predicate"), WithOrders |-> TakesAlso(<<>>, "Order"),
         WithAggregates |-> TakesAlso(<<>>, "Aggregate")],
     Predicate |-> [Named |-> Takes(<<"string">>)],
     Order |-> [Named |-> Takes(<<"string">>)],
     Aggregate |-> [m \in {"On", "WithGoType"} |-> Takes(<<"string">>)]]

\* The method of the DSL behind a name.
Apply(x, name, a) ==
    CASE x.t = "Field" -> FieldMethod(x, name, a)
      [] x.t = "Edge" -> EdgeMethod(x, name, a)
      [] x.t = "Index" -> IndexMethod(x, name, a)
      [] x.t = "Query" -> QueryMethod(x, name, a)
      [] OTHER -> PartMethod(x, name, a)

evalCallExpr(base, name, args) ==
    CASE base.t = "string" -> IF base.v = "dsl" THEN executeDSLFunc(name, args) ELSE Refused
      [] base.t \in DOMAIN MethodParams ->
             IF name \in DOMAIN MethodParams[base.t]
             THEN Then(ReadArgs(MethodParams[base.t][name], args), LAMBDA a : Apply(base, name, a))
             ELSE Refused
      [] OTHER -> Refused

-----------------------------------------------------------------------------
(* The evaluator of the parser: expressions. *)

Negated(val) == IF val.t \in {"int", "float"} THEN Ok([val EXCEPT !.v = -@]) ELSE Refused

\* A slice literal of the DSL; of any other type there is no reading.
evalCompositeLit(type, outs) ==
    IF type \notin {"Field", "Edge", "Index", "Annotation"} THEN Refused
    ELSE Then(All([i \in DOMAIN outs |->
                  Then(outs[i], LAMBDA val : IF val.t = type THEN outs[i] ELSE Refused)]),
              LAMBDA vals : Ok(List("[]" \o type, vals)))

\* The last of two values of one key holds; nil is no rule.
evalAuthRulesLiteral(keys, outs) ==
    LET Given(op) == {i \in DOMAIN keys : keys[i] = op /\ outs[i].val # Nil}
    IN  IF \E i \in DOMAIN outs : outs[i].is = "ok" /\ outs[i].val # Nil
                                 /\ (outs[i].val.t # "AuthRule" \/ keys[i] \notin Crud)
        THEN Refused
        ELSE Then(All(outs), LAMBDA vals :
                 Ok(Rules([op \in Crud |-> IF Given(op) = {} THEN None
                                           ELSE normalizeAuthRule(vals[Max(Given(op))])])))

\* Roles are a []string, which no expression the parser reads is.
evalAuthRuleLiteral(keys, outs) ==
    IF \E i \in DOMAIN keys : keys[i] # "Requirement" \/ outs[i].val.t # "string" THEN Refused
    ELSE Ok(Rule(IF keys = <<>> THEN "" ELSE Lower(Last(outs).val.v), <<>>))

RECURSIVE Read(_)
\* evalExpr: a constant of the DSL is read as its name, and so is any other name.
Read(e) ==
    CASE e.op = "literal" -> Ok(e.val)
      [] e.op = "nil" -> Ok(Nil)
      [] e.op \in {"constant", "name"} -> Ok(Str(e.name))
      [] e.op = "minus" -> Then(Read(e.of), Negated)
      [] e.op = "slice" -> evalCompositeLit(e.type, [i \in DOMAIN e.of |-> Read(e.of[i])])
      [] e.op = "AuthRules" -> evalAuthRulesLiteral(e.keys, [i \in DOMAIN e.of |-> Read(e.of[i])])
      [] e.op = "AuthRule" -> evalAuthRuleLiteral(e.keys, [i \in DOMAIN e.of |-> Read(e.of[i])])
      [] e.op \in {"function", "method"} ->
             Then(IF e.op = "function" THEN Ok(Str("dsl")) ELSE Read(e.on), LAMBDA base :
             Then(All([i \in DOMAIN e.of |-> Read(e.of[i])]), LAMBDA args :
                 evalCallExpr(base, e.name, args)))
      [] OTHER -> Refused       \* string(x), time.Date(...)

\* A method's body is a sequence of statements: the first return that is not
\* inside another statement is read, whatever comes before it.
ReadBody(body, type) ==
    LET returns == SelectSeq(body, LAMBDA s : s.op = "return")
    IN  IF returns = <<>> THEN Refused
        ELSE Then(Read(returns[1].of), LAMBDA val :
                 IF val = Nil /\ type # "Query" THEN Ok(List(type, <<>>))
                 ELSE IF val.t = type THEN Ok(val) ELSE Refused)

TypeOf(m) == IF m = "Query" THEN "Query" ELSE "[]" \o ElementOf[m]
Result(val) == IF val.t = "Query" THEN val ELSE val.list

-----------------------------------------------------------------------------
(* Go: the same expressions, compiled and run.  What does not compile is   *)
(* refused.                                                                *)

\* Parameters of the functions and methods, by what each builds.
GoFunc(fn) ==
    CASE fn \in Sized \cup {"Vector"} -> Takes(<<"string", "int">>)
      [] fn \in Scaled -> Takes(<<"string", "int", "int">>)
      [] fn \in Identities -> Takes(<<"string", "IdentityMode">>)
      [] fn = "Array" -> Takes(<<"string", "FieldType">>)
      [] fn \in DOMAIN FieldTypes \ (Sized \cup Scaled \cup Identities \cup {"Array"}) ->
             Takes(<<"string">>)
      [] fn \in {"Enum", "Expression"} -> TakesAlso(<<"string">>, "string")
      [] fn \in {"ToOne", "ToMany", "ManyToMany", "PolymorphicTarget"} ->
             Takes(<<"string", "string">>)
      [] fn \in {"Idx", "CountAggregate", "RequireRole"} -> Takes(<<"string">>)
      [] fn = "RequireAuth" -> TakesAlso(<<>>, "string")
      [] fn \in {"Query", "PublicAccess", "Public", "AdminOnly"} \cup DOMAIN Presets -> Takes(<<>>)
      [] fn = "Computed" -> Takes(<<"Expression">>)
      [] fn = "NewPredicate" -> Takes(<<"string", "ComparisonOperator">>)
      [] fn = "OrderBy" -> Takes(<<"string", "SortDirection">>)
      [] fn = "NewAggregate" -> Takes(<<"string", "AggregateFunc">>)
      [] fn = "GraphQL" -> TakesAlso(<<"string">>, "GraphQLOption")
      [] fn = "GraphQLSubscriptions" -> TakesAlso(<<>>, "SubscriptionEvent")
      [] fn = "Authorization" -> Takes(<<"AuthRules">>)
      [] OTHER -> TakesAlso(<<>>, "no such function")

GoMethod(type, m) ==
    CASE type = "Field" /\ m \in {"ColumnName", "WithDefault", "WithGoType"} -> Takes(<<"string">>)
      [] type = "Field" /\ m \in {"SRID", "Length", "Precision", "Scale"} -> Takes(<<"int">>)
      [] type = "Field" /\ m = "Default" -> Takes(<<"any">>)
      [] type = "Field" /\ m = "Identity" -> Takes(<<"IdentityMode">>)
      [] type = "Field" /\ m = "ArrayElement" -> Takes(<<"FieldType">>)
      [] type = "Field" /\ m = "Computed" -> Takes(<<"ComputedColumn">>)
      [] type = "Field" /\ m \in {"Primary", "Optional", "Unique", "UniqueConstraint", "NotEmpty",
                                  "DefaultNow", "UpdateNow", "TimeSeries"} -> Takes(<<>>)
      [] type = "Edge" /\ m \in {"Field", "Ref", "ThroughTable", "Inverse"} -> Takes(<<"string">>)
      [] type = "Edge" /\ m \in {"OnDelete", "OnUpdate"} -> Takes(<<"CascadeAction">>)
      [] type = "Edge" /\ m = "Polymorphic" -> TakesAlso(<<>>, "EdgeTarget")
      [] type = "Edge" /\ m \in {"Optional", "UniqueEdge"} \cup DOMAIN OnDeletes
                                 \cup DOMAIN OnUpdates -> Takes(<<>>)
      [] type = "Index" /\ m = "On" -> TakesAlso(<<>>, "string")
      [] type = "Index" /\ m \in {"WhereClause", "MethodUsing"} -> Takes(<<"string">>)
      [] type = "Index" /\ m \in {"Unique", "UniqueConstraint", "NullsNotDistinctConstraint"} ->
             Takes(<<>>)
      [] type = "Query" /\ m = "WithPredicates" -> TakesAlso(<<>>, "Predicate")
      [] type = "Query" /\ m = "WithOrders" -> TakesAlso(<<>>, "Order")
      [] type = "Query" /\ m = "WithAggregates" -> TakesAlso(<<>>, "Aggregate")
      [] type = "Query" /\ m \in {"WithDefaultLimit", "WithMaxLimit"} -> Takes(<<"int">>)
      [] type \in {"Predicate", "Order"} /\ m = "Named" -> Takes(<<"string">>)
      [] type = "Aggregate" /\ m \in {"On", "WithGoType"} -> Takes(<<"string">>)
      [] OTHER -> TakesAlso(<<>>, "no such method")

\* A string literal is also a value of the types that are strings underneath.
Assignable(val, type) ==
    \/ val.t = type \/ type = "any"
    \/ val.t = "string" /\ type \in {Constants[c].t : c \in DOMAIN Constants}
    \/ val = Nil /\ type = "AuthRule"

GoCall(params, vals, F(_)) ==
    LET n == Len(params.fixed)
        Param(i) == IF i <= n THEN params.fixed[i] ELSE params.rest
    IN  IF /\ Len(vals) >= n
           /\ params.rest = "nothing" => Len(vals) = n
           /\ params.rest \notin {"no such function", "no such method"}
           /\ \A i \in DOMAIN vals : Assignable(vals[i], Param(i))
        THEN F(vals) ELSE Refused

GoRules(keys, vals) ==
    IF \A i \in DOMAIN keys : keys[i] \in Crud /\ Assignable(vals[i], "AuthRule")
    THEN Ok(Rules([op \in Crud |->
                IF \E i \in DOMAIN keys : keys[i] = op /\ vals[i] # Nil
                THEN vals[CHOOSE i \in DOMAIN keys : keys[i] = op] ELSE None]))
    ELSE Refused

RECURSIVE Run(_)
Run(e) ==
    LET Parts(F(_)) == Then(All([i \in DOMAIN e.of |-> Run(e.of[i])]), F)
        PartOf(vals, key) == vals[CHOOSE i \in DOMAIN vals : e.keys[i] = key]
    IN  CASE e.op = "literal" -> Ok(e.val)
          [] e.op = "nil" -> Ok(Nil)
          [] e.op = "constant" -> Ok(Constants[e.name])
          [] e.op = "name" -> Ok(Package[e.name])
          [] e.op = "minus" -> Then(Run(e.of), Negated)
          [] e.op = "convert" -> Then(Run(e.of), LAMBDA val : Ok(Str(val.v)))
          [] e.op = "time" -> Ok(Const("Time", e.name))
          [] e.op = "slice" -> Parts(LAMBDA vals :
                 IF \A i \in DOMAIN vals : vals[i].t = e.type
                 THEN Ok(List("[]" \o e.type, vals)) ELSE Refused)
          [] e.op = "AuthRules" -> Parts(LAMBDA vals : GoRules(e.keys, vals))
          [] e.op = "AuthRule" -> Parts(LAMBDA vals :
                 Ok(Rule(IF "Requirement" \in Range(e.keys) THEN PartOf(vals, "Requirement").v ELSE "",
                         IF "Roles" \in Range(e.keys)
                         THEN [i \in DOMAIN PartOf(vals, "Roles").list |->
                                  PartOf(vals, "Roles").list[i].v] ELSE <<>>)))
          [] e.op = "function" ->
                 Parts(LAMBDA vals : GoCall(GoFunc(e.name), vals, LAMBDA a : DSLFunc(e.name, a)))
          [] e.op = "method" ->
                 Then(Run(e.on), LAMBDA base : Parts(LAMBDA vals :
                     GoCall(GoMethod(base.t, e.name), vals, LAMBDA a : Apply(base, e.name, a))))

\* A statement "if" is a return that another condition guards.
RunBody(body, type) ==
    LET reached == Min({i \in DOMAIN body : \/ body[i].op = "return"
                                            \/ body[i].op = "if" /\ body[i].taken})
    IN  Then(Run(body[reached].of), LAMBDA val :
            IF val = Nil /\ type # "Query" THEN Ok(List(type, <<>>))
            ELSE IF val.t = type THEN Ok(val) ELSE Refused)

-----------------------------------------------------------------------------
(* What loadEntities does once the methods are read. *)

ensureDefaultField(ent) ==
    IF \E i \in DOMAIN ent.Fields : ent.Fields[i].name = "id" THEN ent
    ELSE [ent EXCEPT !.Fields = <<Flag(NewField("id", "uuid"), "primary")>> \o @]

ensureDefaultQuery(ent) ==
    LET Or(s, default) == IF s = <<>> THEN <<default>> ELSE s
    IN  [ent EXCEPT
          !.Query.defaultLimit = IF @ = 0 THEN 20 ELSE @,
          !.Query.predicates = Or(@, [Predicate("id", "eq") EXCEPT !.name = "IDEq"]),
          !.Query.orders = Or(@, [Order("id", "asc") EXCEPT !.name = "IDAsc"]),
          !.Query.aggregates = Or(@, Aggregate("Count", "count", "*", "int"))]

\* An enum without a name of its own gets one from the entity and the field.
assignEnumMetadata(ent) ==
    LET Name(f) == IF f.enum = <<>> THEN f ELSE [f EXCEPT !.enumName = <<"entity", f.name>>]
    IN  [ent EXCEPT !.Fields = [i \in DOMAIN @ |-> Name(@[i])]]

\* Later annotations replace the rules they have, and only those.
assignAuthorizationMetadataFaulty(ent) ==
    [ent EXCEPT !.Authorization =
        FoldLeft(LAMBDA rules, ann : IF ann.name = "authorization" THEN normalizeAuthRules(ann.rules)
                                     ELSE rules,
                 @, ent.Annotations)]
assignAuthorizationMetadata(ent) ==
    LET Merge(rules, ann) ==
            IF ann.name # "authorization" THEN rules
            ELSE [op \in Crud |-> IF ann.rules[op] # None THEN ann.rules[op] ELSE rules[op]]
    IN  [ent EXCEPT !.Authorization = normalizeAuthRules(FoldLeft(Merge, @, ent.Annotations))]

Loaded(ent) ==
    assignAuthorizationMetadata(assignEnumMetadata(ensureDefaultQuery(ensureDefaultField(ent))))

NoEntity ==
    [Fields |-> <<>>, Edges |-> <<>>, Indexes |-> <<>>, Query |-> NewQuery, Annotations |-> <<>>,
     Authorization |-> [op \in Crud |-> None]]

-----------------------------------------------------------------------------
(* loadEntities, for one type: its methods in the order the files are      *)
(* walked, which is any order, then the rest.                              *)

ExprTypeOK ==
    /\ DOMAIN schema \subseteq Methods
    /\ pending \subseteq DOMAIN schema
    /\ DOMAIN program = DOMAIN schema \ pending
    /\ phase \in {"reading", "loaded", "refused", "panicked"}
    /\ \A i \in DOMAIN entity.Fields :
           /\ entity.Fields[i].t = "Field"
           /\ entity.Fields[i].flags \subseteq {"primary", "nullable", "unique", "defaultNow",
                                               "updateNow", "readOnly"}

ExprInit ==
    /\ schema \in Schemas /\ pending = DOMAIN schema
    /\ entity = NoEntity /\ program = <<>> /\ phase = "reading"

ReadMethod(m) ==
    /\ phase = "reading" /\ m \in pending
    /\ LET out == ReadBody(schema[m], TypeOf(m))
       IN  /\ phase' = IF out.is = "ok" THEN phase ELSE out.is
           /\ entity' = IF out.is = "ok" THEN [entity EXCEPT ![m] = Result(out.val)] ELSE entity
    /\ program' = m :> RunBody(schema[m], TypeOf(m)) @@ program
    /\ pending' = pending \ {m}
    /\ UNCHANGED schema

Load ==
    /\ phase = "reading" /\ pending = {}
    /\ entity' = Loaded(entity) /\ phase' = "loaded"
    /\ UNCHANGED <<schema, pending, program>>

ExprNext == (\E m \in Methods : ReadMethod(m)) \/ Load
ExprSpec == ExprInit /\ [][ExprNext]_exprVars

-----------------------------------------------------------------------------
(* Properties. *)

Runs == \A m \in DOMAIN program : program[m].is = "ok"
\* The entity the methods describe when they are run.
Described ==
    Loaded([k \in DOMAIN NoEntity |->
               IF k \in DOMAIN program THEN Result(program[k].val) ELSE NoEntity[k]])

\* The rules an annotation still holds are only used in normal form.
Normal(ent) ==
    [ent EXCEPT !.Annotations = [i \in DOMAIN @ |-> [@[i] EXCEPT !.rules = normalizeAuthRules(@)]]]

\* Each operation has the rule the last annotation that names it gives, in
\* normal form, and none if no annotation does: an annotation that names
\* another operation leaves it alone (parser.go assignAuthorizationMetadata).
LastRuleHolds ==
    "Annotations" \in DOMAIN program =>
        LET anns == program["Annotations"].val.list
        IN  \A op \in Crud :
                LET named == {i \in DOMAIN anns : anns[i].rules[op] # None}
                IN  IF named = {} THEN entity.Authorization[op] = None
                    ELSE LET rule == anns[Max(named)].rules[op]
                         IN  /\ entity.Authorization[op] # None
                             /\ entity.Authorization[op].req = rule.req
                             /\ Range(entity.Authorization[op].roles) =
                                    {Trimmed(rule.roles[i]) : i \in DOMAIN rule.roles} \ {""}
                             /\ IsInjective(entity.Authorization[op].roles)

\* A schema the generator loads, and Go can run, is loaded as what its methods
\* return, and its operations are governed by the last rule for each: the
\* evaluator never takes an expression for another value.  And the generator
\* gives up only on a schema Go would not compile or run: it knows every
\* function, method and constant of the DSL (parser.go executeDSLFunc, arg*).
ReadAsRun ==
    /\ ExprTypeOK
    /\ phase = "loaded" /\ Runs => Normal(entity) = Normal(Described) /\ LastRuleHolds
    /\ phase \in {"refused", "panicked"} => ~Runs
=============================================================================
