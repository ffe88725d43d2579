---------------------------- MODULE MCSchemaRead ----------------------------
(* The two halves of loading a schema package side by side: which files and *)
(* declarations are seen (SchemaFiles) and how a type is evaluated          *)
(* (SchemaExpr).  They share no state, so a behaviour exercises one part.   *)
EXTENDS SchemaFiles, SchemaExpr

-----------------------------------------------------------------------------
(* Schema directories: with the suffix and erm new, or without it. *)

MCSuffix ==
    [f \in {"User.schema.go", "shared.schema.go"} |-> "schema"] @@
    [f \in {"entities.go", "methods.go"} |-> "plain"] @@
    [f \in {"schema_test.go"} |-> "test"] @@ [f \in {"enums_gen.go"} |-> "gen"]
MCNew == [User |-> "User.schema.go"]
SuffixedLayout == [files |-> {"shared.schema.go", "schema_test.go"}, new |-> {"User"}]
GenericLayout == [files |-> {"entities.go", "methods.go", "schema_test.go"}, new |-> {}]
MCLayouts == {SuffixedLayout, GenericLayout}

ASSUME LayoutsAreUniform == \A l \in Layouts : Uniform(l)

-----------------------------------------------------------------------------
(* Schema types: every function and method of the DSL, alone and in chains. *)

S(s) == [op |-> "literal", val |-> Str(s)]
N(n) == [op |-> "literal", val |-> Num(n)]
True == [op |-> "literal", val |-> Bool(TRUE)]
Minus(e) == [op |-> "minus", of |-> e]
K(name) == [op |-> "constant", name |-> name]
Name(name) == [op |-> "name", name |-> name]
NoExpr == [op |-> "nil"]
F(fn, args) == [op |-> "function", name |-> fn, of |-> args]
On(e, m, args) == [op |-> "method", on |-> e, name |-> m, of |-> args]
Slice(type, es) == [op |-> "slice", type |-> type, of |-> es]
AuthRules(keys, es) == [op |-> "AuthRules", keys |-> keys, of |-> es]
Return(e) == <<[op |-> "return", of |-> e]>>
Method(m, es) == m :> Return(Slice(ElementOf[m], es))

MCPackage == [StatusNew |-> Str("NEW")]

\* Calls of a function of the DSL that makes a field.
Builders ==
    {F(fn, <<S("a")>>) : fn \in Named} \cup
    {F(fn, <<S("a"), N(n)>>) : fn \in Sized \cup {"Vector"}, n \in {0, 8}} \cup
    {F(fn, <<S("a"), N(4), N(n)>>) : fn \in Scaled, n \in {0, 2}} \cup
    {F(fn, <<S("a"), K(c)>>) : fn \in Identities, c \in {"IdentityAlways", "IdentityByDefault"}} \cup
    {F("Array", <<S("a"), K(c)>>) :
        c \in {k \in DOMAIN Constants : Constants[k].t = "FieldType"} \ {"TypeEnum"}} \cup
    {F("Enum", <<S("a"), S(v), S(w)>>) : v, w \in {"NEW", "DONE", ""}} \cup
    {F("Enum", <<S("a")>>), F("Enumm", <<S("a"), S("NEW")>>)}

Expr(deps) == F("Computed", <<F("Expression", <<S("sql")>> \o deps)>>)
\* Methods of a field with their arguments.
FieldCalls ==
    {<<m, <<>>>> : m \in {"Primary", "Optional", "Unique", "UniqueConstraint", "NotEmpty",
                         "DefaultNow", "UpdateNow", "TimeSeries", "Nillable"}} \cup
    {<<m, <<S("NEW")>>>> : m \in {"ColumnName", "WithDefault", "WithGoType", "Default"}} \cup
    {<<m, <<e>>>> : m \in {"SRID", "Length", "Precision", "Scale"}, e \in {N(0), N(4), Minus(N(1))}} \cup
    {<<"Default", <<e>>>> : e \in {N(1), True, Minus(N(1)), S("LATE"), NoExpr}} \cup
    {<<"Identity", <<K("IdentityAlways")>>>>, <<"ArrayElement", <<K("TypeText")>>>>,
     <<"Computed", <<Expr(<<>>)>>>>, <<"Computed", <<Expr(<<S("a"), S("b")>>)>>>>,
     <<"Computed", <<F("Text", <<S("a")>>)>>>>}
EdgeCalls ==
    {<<m, <<S("b")>>>> : m \in {"Field", "Ref", "ThroughTable", "Inverse"}} \cup
    {<<m, <<>>>> : m \in {"Optional", "UniqueEdge", "Unique"} \cup DOMAIN OnDeletes \cup DOMAIN OnUpdates} \cup
    {<<m, <<S("CASCADE")>>>> : m \in {"OnDelete", "OnUpdate"}} \cup
    {<<"Polymorphic", t>> : t \in {<<>>, <<F("PolymorphicTarget", <<S("A"), S("b")>>)>>,
                                  <<F("PolymorphicTarget", <<S("A"), S("b")>>),
                                    F("PolymorphicTarget", <<S("B"), S("a")>>)>>, <<S("A")>>}}
IndexCalls ==
    {<<m, <<>>>> : m \in {"Unique", "UniqueConstraint", "NullsNotDistinctConstraint", "Where"}} \cup
    {<<m, <<S("b")>>>> : m \in {"WhereClause", "MethodUsing"}} \cup
    {<<"On", <<>>>>, <<"On", <<S("a")>>>>, <<"On", <<S("b"), S("a")>>>>}

Predicates ==
    {F("NewPredicate", <<S("a"), K(op)>>) :
        op \in {"OpEqual", "OpNotEqual", "OpGreaterThan", "OpLessThan", "OpGTE", "OpLTE", "OpILike"}}
Orders == {On(F("OrderBy", <<S("a"), K(d)>>), "Named", <<S("A")>>) : d \in {"SortAsc", "SortDesc"}}
Aggregates ==
    {On(F("NewAggregate", <<S("A"), K(f)>>), "On", <<S("a")>>) :
        f \in {"AggCount", "AggSum", "AggAvg", "AggMin", "AggMax"}} \cup
    {F("CountAggregate", <<S("A")>>),
     On(F("NewAggregate", <<S("A"), K("AggSum")>>), "WithGoType", <<S("int64")>>)}
QueryCalls ==
    {<<"WithPredicates", <<p>>>> : p \in Predicates} \cup
    {<<"WithOrders", <<o>>>> : o \in Orders} \cup {<<"WithOrders", SetToSeq(Orders)>>} \cup
    {<<"WithAggregates", <<a>>>> : a \in Aggregates} \cup
    {<<m, <<N(n)>>>> : m \in {"WithDefaultLimit", "WithMaxLimit"}, n \in {0, 5}}

Chain(e, calls) == FoldLeft(LAMBDA x, c : On(x, c[1], c[2]), e, calls)
Short(calls) == {<<>>} \cup {<<c>> : c \in calls} \cup {<<c, d>> : c, d \in calls}

Typical == {F("Text", <<S("a")>>), F("Timestamp", <<S("a")>>),
            F("Enum", <<S("a"), S("NEW"), S("DONE"), S("NEW")>>)}
FieldSchemas ==
    {Method("Fields", <<Chain(b, <<c>>)>>) : b \in Builders, c \in FieldCalls} \cup
    {Method("Fields", <<Chain(b, cs)>>) : b \in Typical, cs \in Short(FieldCalls)} \cup
    {Method("Fields", <<a, b>>) : a, b \in Typical \cup {F("UUID", <<S("id")>>), F("Idx", <<S("a")>>)}}
OtherSchemas ==
    {Method("Edges", <<Chain(F(k, <<S("a"), S("A")>>), cs)>>) :
        k \in {"ToOne", "ToMany", "ManyToMany"}, cs \in Short(EdgeCalls)} \cup
    {Method("Indexes", <<Chain(F("Idx", <<S("a")>>), cs)>>) : cs \in Short(IndexCalls)} \cup
    {"Query" :> Return(Chain(F("Query", <<>>), cs)) : cs \in Short(QueryCalls)}

RuleExprs ==
    {F("RequireAuth", <<>>), F("RequireAuth", <<S("b"), S(" admin"), S("b"), S(" ")>>),
     F("RequireRole", <<S(" ")>>), F("RequireRole", <<S("b")>>), F("AdminOnly", <<>>),
     F("Public", <<>>), F("PublicAccess", <<>>), NoExpr, [op |-> "AuthRule", keys |-> <<>>, of |-> <<>>],
     S("admin")}
Annotations ==
    {F("Authorization", <<AuthRules(<<k>>, <<r>>)>>) : k \in {"Read", "Delete"}, r \in RuleExprs} \cup
    {F("Authorization", <<AuthRules(<<"Update", "Read">>, <<r, F("AdminOnly", <<>>)>>)>>) : r \in RuleExprs} \cup
    {F("Authorization", <<e>>) :
        e \in {F("ContentAuth", <<>>), F("UserAuth", <<>>), F("ReadOnlyAuth", <<>>),
              AuthRules(<<>>, <<>>), AuthRules(<<"List">>, <<F("Public", <<>>)>>)}} \cup
    {F("GraphQL", <<S("A")>>),
     F("GraphQL", <<S("A"), F("GraphQLSubscriptions",
                              <<K("SubscriptionEventCreate"), K("SubscriptionEventDelete"), S("update")>>)>>),
     F("GraphQL", <<>>), On(F("GraphQL", <<S("A")>>), "Description", <<S("b")>>)}
AnnotationSchemas == {Method("Annotations", cs) : cs \in SeqOf(Annotations, 2)}

\* Whole types, whose methods are read in any order.
Text == F("Text", <<S("a")>>)
WholeSchemas ==
    {Method("Fields", fs) @@ Method("Edges", <<F("ToOne", <<S("b"), S("B")>>)>>) @@
     Method("Indexes", <<On(F("Idx", <<S("i")>>), "On", <<S("a")>>)>>) @@ q @@
     Method("Annotations", <<F("Authorization", <<F("ContentAuth", <<>>)>>)>>) :
        fs \in {<<Text>>, <<On(Text, "Nillable", <<>>)>>, <<On(Text, "Default", <<NoExpr>>)>>},
        q \in {"Query" :> Return(F("Query", <<>>)), "Query" :> Return(NoExpr)}} \cup
    {m :> body \o Return(e) :
        m \in {"Fields", "Annotations"},
        body \in {<<[op |-> "other"]>>, <<[op |-> "if", taken |-> FALSE, of |-> NoExpr]>>},
        e \in {NoExpr, Slice("Field", <<Text>>), Slice("Annotation", <<F("GraphQL", <<S("A")>>)>>), Text}}

AllSchemas == FieldSchemas \cup OtherSchemas \cup AnnotationSchemas \cup WholeSchemas

-----------------------------------------------------------------------------
VARIABLE part

Init ==
    \/ /\ part = "files" /\ FilesInit
       /\ schema = <<>> /\ pending = {} /\ entity = NoEntity
       /\ program = <<>> /\ phase = "reading"
    \/ /\ part = "types" /\ ExprInit
       /\ layout = SuffixedLayout /\ files = <<>> /\ new = "none"
       /\ loaded = <<>> /\ problem = "none"
Next ==
    \/ part = "files" /\ FilesNext /\ UNCHANGED <<part, exprVars>>
    \/ part = "types" /\ ExprNext /\ UNCHANGED <<part, filesVars>>
Spec == Init /\ [][Next]_<<part, filesVars, exprVars>>
=============================================================================
