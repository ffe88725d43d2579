---------------------------- MODULE MCSchemaPlan ----------------------------
(* From the edges of a schema to tables and loaders (SchemaPlan), and from  *)
(* the tables of one run to those of the next (SchemaDiff), side by side.   *)
(* They share no state here, so a behaviour exercises one part.             *)
EXTENDS SchemaPlan, SchemaDiff

-----------------------------------------------------------------------------
(* Schemas of users, posts and tags. *)

U == <<"user">>
P == <<"post">>
T == <<"tag">>
MCRank == U :> 3 @@ P :> 1 @@ T :> 2

Edge(kind, name, target) ==
    [kind |-> kind, name |-> <<name>>, target |-> target, column |-> NoName, ref |-> NoName,
     through |-> NoName, inverse |-> NoName, nullable |-> FALSE, unique |-> FALSE,
     cascade |-> Unset, generated |-> FALSE]
Ent(fields, edges) == [fields |-> fields, edges |-> edges]
AuthorId == Field(<<"author", "id">>, "uuid", FALSE, FALSE, FALSE)
Author == Edge("ToOne", "author", U)
PostsEdge == [Edge("ToMany", "posts", P) EXCEPT !.ref = <<"author">>]
Tags == Edge("ManyToMany", "tags", T)

Schema(u, p, t) == U :> u @@ P :> p @@ T :> t

\* Every way to declare the author of a post from either side, and its tags.
Relations ==
    {Schema(Ent(<<>>, u), Ent(f, p \o tags), Ent(<<>>, t)) :
        f \in {<<>>, <<AuthorId>>},
        p \in {<<>>} \cup {<<[Author EXCEPT !.nullable = n, !.inverse = i]>> :
                              n \in BOOLEAN, i \in {NoName, <<"posts">>}},
        u \in {<<>>} \cup {<<[PostsEdge EXCEPT !.ref = r, !.inverse = i, !.nullable = n]>> :
                              r \in {NoName, <<"author">>, <<"author", "id">>},
                              i \in {NoName, <<"author">>}, n \in BOOLEAN},
        tags \in {<<>>, <<Tags>>, <<[Tags EXCEPT !.inverse = <<"posts">>, !.through = <<"labels">>]>>},
        t \in {<<>>, <<Edge("ManyToMany", "posts", P)>>}}

\* Edges to nobody, to oneself, and declared columns of a wrong type.  Left out
\* are two mistakes that validateEntities accepts: a column of another type than
\* the key of another entity, and one column for edges of two targets.
AuthorText == Field(<<"author", "id">>, "text", FALSE, FALSE, FALSE)
Mistakes ==
    {Schema(Ent(uf, <<>>), Ent(<<pf>>, <<[Author EXCEPT !.column = c, !.target = x, !.inverse = i], e>>),
            Ent(<<>>, <<>>)) :
        uf \in {<<>>, <<AuthorId>>, <<AuthorText>>}, pf \in {AuthorId, AuthorText},
        c \in {NoName, <<"author", "id">>}, x \in {U, P, <<"usr">>}, i \in {NoName, <<"posts">>},
        e \in {[Author EXCEPT !.name = <<"writer">>, !.column = <<"author", "id">>],
               [Edge("ToMany", "replies", P) EXCEPT !.ref = <<"author", "id">>],
               Edge("ToMany", "author_id", P)}}
Seen(s) ==
    \A j \in DOMAIN s[P].edges :
        LET e == s[P].edges[j] IN
        /\ e.kind = "ToOne" /\ e.target = U => s[P].fields[1] = AuthorId
        /\ e.ref = <<"author", "id">> => s[P].edges[1].target # U
        /\ e.name = <<"writer">> /\ s[P].edges[1].target = P => s[U].fields = <<>>
MCDeclarations == Relations \cup {s \in Mistakes : Seen(s)}

ASSUME DeclarationsAreConsistent ==
    \A d \in Declarations : \A es \in Accepted(d) :
        /\ TypesAgree(es) /\ OneTargetEach(es) /\ NoInverseOfUnique(es)
        /\ JoinsHaveTwoColumns(es) /\ JoinsAreOfTwo(es)
        /\ ColumnsAgree(es) /\ JoinsAgree(es) /\ RefsAreClear(es) /\ InversesAreOnce(es)

-----------------------------------------------------------------------------
(* Sets of snapshots.  Table 1 is posts, which refers to table 2, users;    *)
(* table 3 is their join table.  Column 1 is the id.                        *)

MCCasts == {"text", "citext", "uuid"} \X {"text", "citext", "uuid"}
Postgis == 1
MCTimescale == 2
MCExtensionOf ==
    [type \in {"text", "citext", "uuid", "geo"} |-> IF type = "geo" THEN Postgis ELSE None]

Col(type) == [type |-> type, nullable |-> FALSE, unique |-> FALSE, default |-> None,
              reads |-> None, enum |-> {}]
Reading(cols) == [Col("text") EXCEPT !.reads = cols]
Fk(table, onDelete) == [table |-> table, column |-> 1, onDelete |-> onDelete]
Tab(cols, idx, fks) ==
    [cols |-> cols, pk |-> {1}, idx |-> idx, fks |-> fks, hyper |-> None, join |-> FALSE]
Db(tables) == [ext |-> {}, tables |-> tables]

Id == 1 :> Col("uuid")
Ix(cols, unique) == [cols |-> cols, unique |-> unique, nulls |-> FALSE]
OneOf(name, S) == {<<>>} \cup {name :> x : x \in S}

Users == Tab(Id, <<>>, <<>>)
Names ==
    {Col("text"), Col("citext"), [Col("text") EXCEPT !.nullable = TRUE],
     [Col("text") EXCEPT !.default = "now"], [Col("text") EXCEPT !.enum = {"a"}],
     [Col("text") EXCEPT !.enum = {"b"}, !.default = "a"]}
\* posts.2 refers to users, or to the posts themselves; posts.3 is the name.
Posts ==
    {Tab(Id @@ (2 :> Col("uuid")) @@ name, idx, 2 :> fk) :
        name \in OneOf(3, Names),
        idx \in {<<>>, 7 :> Ix(<<2>>, FALSE), 7 :> Ix(<<2>>, TRUE)},
        fk \in {Fk(1, None), Fk(2, None)}}
Join ==
    [Tab((4 :> Col("uuid")) @@ (5 :> Col("uuid")), <<>>, (4 :> Fk(1, None)) @@ (5 :> Fk(2, None)))
        EXCEPT !.pk = {4, 5}, !.join = TRUE]
\* The edits the diff can express.
Edits ==
    {Db(2 :> Users)}
      \cup {Db((1 :> p) @@ (2 :> Users)) : p \in Posts}
      \cup {Db((1 :> p) @@ (2 :> Users) @@ (3 :> Join)) :
               p \in {x \in Posts : 3 \notin DOMAIN x.cols}}

\* A generated column, a column of an extension's type and a hypertable.
Computed ==
    {[ext |-> {Postgis, MCTimescale},
      tables |-> 1 :> [Tab(Id @@ (2 :> Col("text")) @@ (3 :> Col("text")) @@ name @@ geo,
                           8 :> Ix(<<2>>, FALSE), <<>>)
                          EXCEPT !.hyper = h]] :
        name \in OneOf(4, {Reading({2}), Reading({2, 3}), Col("text")}),
        geo \in OneOf(5, {Col("geo")}), h \in {None, 1}}

\* Chains, a cycle and a self-reference.
Graphs ==
    {Db([t \in 1..3 |-> Tab(Id @@ (2 :> Col("uuid")), <<>>,
                            IF g[t] = 0 THEN <<>> ELSE 2 :> Fk(g[t], None))]) :
        g \in [1..3 -> 0..3]}

MCSchemas == [edits |-> Edits, computed |-> Computed, graphs |-> Graphs]
MCMaxPending == [edits |-> 0, computed |-> 1, graphs |-> 0]

-----------------------------------------------------------------------------

VARIABLE part

Init ==
    \/ /\ part = "plan" /\ PlanInit
       /\ project = "edits" /\ schema = Empty /\ recorded = Empty /\ db = Empty
       /\ pending = <<>> /\ lost = {} /\ refused = FALSE
    \/ /\ part = "diff" /\ DiffInit
       /\ declaration = Schema(Ent(<<>>, <<>>), Ent(<<>>, <<>>), Ent(<<>>, <<>>))
       /\ phase = "idle" /\ entities = <<>>
       /\ problems = {} /\ snapshot = Unset /\ previous = Unset /\ loaders = Unset
Next ==
    \/ part = "plan" /\ PlanNext /\ UNCHANGED <<part, diffVars>>
    \/ part = "diff" /\ DiffNext /\ UNCHANGED <<part, planVars>>
Spec == Init /\ [][Next]_<<part, planVars, diffVars>>
=============================================================================
