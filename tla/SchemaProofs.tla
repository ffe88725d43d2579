---------------------------- MODULE SchemaProofs ----------------------------
(***************************************************************************)
(* Proofs about the schema a run of erm gen works from: the part of the    *)
(* schema directory it sees (SchemaFiles), for any types, any files and    *)
(* any edits, and the tables and loaders it makes of the entities          *)
(* (SchemaPlan), for any schemas.                                          *)
(***************************************************************************)
EXTENDS SchemaFiles, SchemaPlan, FiniteSetTheorems, FunctionTheorems, SequenceTheorems,
        WellFoundedInduction, TLAPS

-----------------------------------------------------------------------------
(* Which files are read. *)

\* No file is outside the convention of the project.
FilesInv ==
    /\ FilesTypeOK
    /\ \A f \in DOMAIN files : f \in layout.files \/ \E e \in layout.new : f = New[e]
    /\ new # "none" => New[new] \in DOMAIN files

\* What is read is what the compiler is given.
LEMMA ReadsCompiled ==
    ASSUME FilesInv, \A l \in Layouts : Uniform(l)
    PROVE  discoverSchemaFiles = Compiled
<1>1. layout \in Layouts /\ Uniform(layout)
  BY DEF FilesInv, FilesTypeOK
<1>2. \A e \in layout.new : Suffix[New[e]] = "schema"
  BY <1>1, SchemaFilesAssumption
<1>3. \A f \in DOMAIN files : Suffix[f] # "gen"
  BY <1>1, <1>2 DEF FilesInv, Uniform
<1>4. CASE \A f \in layout.files : Suffix[f] \in {"schema", "test"}
  <2>1. \A f \in DOMAIN files : Suffix[f] \in {"schema", "test"}
    BY <1>2, <1>4 DEF FilesInv
  <2> QED
    BY <2>1 DEF discoverSchemaFiles, Compiled
<1>5. CASE layout.new = {} /\ \A f \in layout.files : Suffix[f] # "schema"
  <2>1. \A f \in DOMAIN files : Suffix[f] # "schema"
    BY <1>5 DEF FilesInv
  <2> QED
    BY <1>3, <2>1 DEF discoverSchemaFiles, Compiled
<1> QED
  BY <1>1, <1>4, <1>5 DEF Uniform
LEMMA FilesInitInv == FilesInit => FilesInv
BY DEF FilesInit, FilesInv, FilesTypeOK

Content3 == [types : SUBSET Types, methods : SUBSET (Types \X MethodNames), whole : BOOLEAN]

LEMMA ContentIs ==
    ASSUME NEW ts \in SUBSET Types, NEW t \in Types
    PROVE  Content(ts, AllMethods(t)) \in Content3 /\ [Content({}, {}) EXCEPT !.whole = FALSE] \in Content3
BY DEF Content, AllMethods, Content3

\* A file that is added or overwritten.
LEMMA WithInv ==
    ASSUME FilesInv, NEW f, NEW content \in Content3, files' = With(f, content),
           layout' = layout, loaded' = loaded, problem' = problem,
           new' \in layout.new \cup {"none"},
           f \in layout.files \/ \E e \in layout.new : f = New[e],
           new' # "none" => New[new'] = f \/ New[new'] \in DOMAIN files
    PROVE  FilesInv'
<1>1. DOMAIN files' = DOMAIN files \cup {f}
  BY DEF With
<1>2. \A g \in DOMAIN files' : files'[g] = IF g = f THEN content ELSE files[g]
  BY DEF With
<1>3. \A g \in DOMAIN files' : files'[g] \in Content3
  BY <1>1, <1>2 DEF FilesInv, FilesTypeOK, Content3
<1>4. FilesTypeOK'
  BY <1>3 DEF FilesInv, FilesTypeOK, Content3
<1> QED
  BY <1>1, <1>4 DEF FilesInv

LEMMA GenInv == FilesInv /\ Gen => FilesInv'
<1> SUFFICES ASSUME FilesInv, Gen PROVE FilesInv'
  OBVIOUS
<1>1. layout' = layout /\ files' = files /\ new' = new
  BY DEF Gen
<1>2. \/ loaded' = loaded /\ problem' \in {"no files", "syntax", "no entities"}
      \/ /\ loaded' = [e \in typeDecls(discoverSchemaFiles) |-> methodsOf(discoverSchemaFiles, e)]
         /\ problem' = "none"
  BY DEF Gen, GenFails, GenLoads
<1>3. typeDecls(discoverSchemaFiles) \subseteq Entities
  BY DEF typeDecls
<1>4. \A e : methodsOf(discoverSchemaFiles, e) \subseteq MethodNames
  BY DEF methodsOf
<1>5. DOMAIN loaded' \subseteq Entities /\ \A e \in DOMAIN loaded' : loaded'[e] \subseteq MethodNames
  <2>1. CASE loaded' = loaded
    BY <2>1 DEF FilesInv, FilesTypeOK
  <2>2. CASE loaded' = [e \in typeDecls(discoverSchemaFiles) |-> methodsOf(discoverSchemaFiles, e)]
    BY <1>3, <1>4, <2>2
  <2> QED
    BY <1>2, <2>1, <2>2
<1>6. problem' \in {"none", "no files", "no entities", "syntax"}
  BY <1>2
<1>7. FilesTypeOK'
  BY <1>1, <1>5, <1>6 DEF FilesInv, FilesTypeOK
<1> QED
  BY <1>1, <1>7 DEF FilesInv

LEMMA WriterInv ==
    ASSUME FilesInv, NEW e, NewFile(e) \/ WriteTemplate
    PROVE  FilesInv'
<1>1. \A x \in layout.new : x \in Types
  BY SchemaFilesAssumption DEF FilesInv, FilesTypeOK
<1>2. CASE NewFile(e)
  BY <1>1, <1>2, ContentIs, WithInv DEF NewFile
<1>3. CASE WriteTemplate
  <2>1. new \in layout.new /\ New[new] \in DOMAIN files /\ new' = "none"
    BY <1>3 DEF WriteTemplate, FilesInv, FilesTypeOK
  <2>2. {new} \in SUBSET Types /\ new \in Types
    BY <1>1, <2>1
  <2>3. Content({new}, AllMethods(new)) \in Content3
    BY <2>2, ContentIs
  <2>4. files' = With(New[new], Content({new}, AllMethods(new)))
    BY <1>3, <2>1 DEF WriteTemplate, With
  <2> QED
    BY <1>3, <2>1, <2>3, <2>4, WithInv DEF WriteTemplate
<1> QED
  BY <1>2, <1>3

LEMMA AddFileInv == ASSUME FilesInv, NEW f, NEW t \in Types, AddFile(f, t) PROVE FilesInv'
<1>1. Content({t}, AllMethods(t)) \in Content3
  BY ContentIs
<1> QED
  BY <1>1, WithInv DEF AddFile, Others, FilesInv, FilesTypeOK

LEMMA MoveMethodsInv ==
    ASSUME FilesInv, NEW f, NEW g, NEW t \in Types, MoveMethods(f, g, t)
    PROVE  FilesInv'
<1>1. PICK ms \in SUBSET (files[f].methods \cap AllMethods(t)) :
          files' = [files EXCEPT ![f].methods = @ \ ms, ![g].methods = @ \cup ms]
  BY DEF MoveMethods
<1>2. f \in DOMAIN files /\ g \in DOMAIN files /\ f # g
  BY DEF MoveMethods
<1>3. \A h \in DOMAIN files : files[h] \in Content3
  BY DEF FilesInv, FilesTypeOK, Content3
<1>4. DOMAIN files' = DOMAIN files
  BY <1>1
<1>5. ms \in SUBSET (Types \X MethodNames)
  BY <1>2, <1>3 DEF Content3
<1>6. /\ files'[f] = [files[f] EXCEPT !.methods = @ \ ms]
      /\ files'[g] = [files[g] EXCEPT !.methods = @ \cup ms]
      /\ \A h \in DOMAIN files : h # f /\ h # g => files'[h] = files[h]
  BY <1>1, <1>2
<1>7. files'[f] \in Content3 /\ files'[g] \in Content3
  BY <1>2, <1>3, <1>5, <1>6 DEF Content3
<1>8. \A h \in DOMAIN files' : files'[h] \in Content3
  BY <1>3, <1>4, <1>6, <1>7
<1>9. layout' = layout /\ new' = new /\ loaded' = loaded /\ problem' = problem
  BY DEF MoveMethods, Others
<1>10. FilesTypeOK'
  BY <1>8, <1>9 DEF FilesInv, FilesTypeOK, Content3
<1> QED
  BY <1>4, <1>9, <1>10 DEF FilesInv

LEMMA DeleteFileInv == ASSUME FilesInv, NEW f, DeleteFile(f) PROVE FilesInv'
<1>1. DOMAIN files' = DOMAIN files \ {f} /\ \A h \in DOMAIN files' : files'[h] = files[h]
  BY DEF DeleteFile, Restrict
<1>2. layout' = layout /\ new' = new /\ loaded' = loaded /\ problem' = problem
  BY DEF DeleteFile, Others
<1>3. FilesTypeOK'
  BY <1>1, <1>2 DEF FilesInv, FilesTypeOK
<1>4. new # "none" => New[new] # f
  BY DEF DeleteFile, Busy
<1> QED
  BY <1>1, <1>2, <1>3, <1>4 DEF FilesInv

LEMMA FilesInvAlways == FilesSpec => []FilesInv
<1>1. FilesInv /\ [FilesNext]_filesVars => FilesInv'
  <2> SUFFICES ASSUME FilesInv, [FilesNext]_filesVars PROVE FilesInv'
    OBVIOUS
  <2>1. CASE Gen
    BY <2>1, GenInv
  <2>2. CASE WriteTemplate \/ \E e \in layout.new : NewFile(e)
    BY <2>2, WriterInv
  <2>3. CASE Crash
    BY <2>3 DEF Crash, FilesInv, FilesTypeOK
  <2>4. CASE \E f \in layout.files, t \in Types : AddFile(f, t)
    BY <2>4, AddFileInv
  <2>5. CASE \E f, g \in DOMAIN files, t \in Types : MoveMethods(f, g, t)
    BY <2>5, MoveMethodsInv
  <2>6. CASE \E f \in DOMAIN files : DeleteFile(f)
    BY <2>6, DeleteFileInv
  <2>7. CASE UNCHANGED filesVars
    BY <2>7 DEF filesVars, FilesInv, FilesTypeOK
  <2> QED
    BY <2>1, <2>2, <2>3, <2>4, <2>5, <2>6, <2>7 DEF FilesNext
<1> QED
  BY <1>1, FilesInitInv, PTL DEF FilesSpec

\* The schema directory is well formed in the middle of erm new and after a
\* crash of it, too.
THEOREM FilesTypeOKAlways == FilesSpec => []FilesTypeOK
<1>1. FilesInv => FilesTypeOK
  BY DEF FilesInv
<1> QED
  BY <1>1, FilesInvAlways, PTL

\* In a project that keeps to one convention a run of erm gen loads every
\* entity of the package with all its methods, whatever was added, moved,
\* deleted or left unfinished before, and it complains of none only if there is
\* none (generator/parser.go discoverSchemaFiles, loadEntities).
THEOREM ReadsPackageAlways ==
    ASSUME \A l \in Layouts : Uniform(l)
    PROVE  FilesSpec => ReadsPackage
<1> DEFINE Read ==
        /\ loaded' # loaded =>
               /\ DOMAIN loaded' = PackageEntities
               /\ \A e \in DOMAIN loaded' : loaded'[e] = Having(e)
        /\ problem' # problem /\ problem' \in {"no files", "no entities"} =>
               PackageEntities = {}
           Reads == FilesTypeOK' /\ Read
<1>1. ASSUME FilesInv, FilesNext PROVE Read
  <2>1. CASE UNCHANGED <<loaded, problem>>
    BY <2>1
  <2>2. CASE ~Gen
    <3>1. UNCHANGED <<loaded, problem>>
      BY <1>1, <2>2 DEF FilesNext, WriteTemplate, Crash, NewFile, AddFile, MoveMethods, DeleteFile, Others
    <3> QED
      BY <2>1, <3>1
  <2>3. CASE Gen
    <3>1. discoverSchemaFiles = Compiled
      BY <1>1, ReadsCompiled
    <3>2. typeDecls(Compiled) = PackageEntities
      BY DEF typeDecls, PackageEntities, Declared
    <3>3. \A e : methodsOf(Compiled, e) = Having(e)
      BY DEF methodsOf, Having
    <3>4. CASE GenLoads(Compiled)
      BY <3>2, <3>3, <3>4 DEF GenLoads
    <3>5. CASE GenFails(Compiled, "no files")
      <4>1. PackageEntities = {}
        BY <3>5 DEF GenFails, PackageEntities, Declared
      <4> QED
        BY <3>5, <4>1 DEF GenFails
    <3>6. CASE GenFails(Compiled, "no entities")
      BY <3>2, <3>6 DEF GenFails
    <3>7. CASE GenFails(Compiled, "syntax")
      BY <3>7 DEF GenFails
    <3> QED
      BY <2>3, <3>1, <3>4, <3>5, <3>6, <3>7 DEF Gen
  <2> QED
    BY <2>2, <2>3
<1>2. FilesInv /\ FilesInv' /\ [FilesNext]_filesVars => [Reads]_filesVars
  <2>1. FilesInv' => FilesTypeOK'
    BY DEF FilesInv
  <2> QED
    BY <1>1, <2>1
<1> QED
  BY <1>2, FilesInvAlways, PTL DEF FilesSpec, ReadsPackage

-----------------------------------------------------------------------------
(* The entities that are loaded. *)

\* A set of numbers that is not empty has a least member.
LEMMA LeastNumber ==
    ASSUME NEW S \in SUBSET Nat, S # {}
    PROVE  \E n \in S : \A m \in S : n <= m
<1>1. PICK n \in S : \A m \in S : ~ (<<m, n>> \in OpToRel(<, Nat))
  BY NatLessThanWellFounded, WFMin, Zenon
<1>2. \A m \in S : ~ (m < n)
  BY <1>1 DEF OpToRel
<1> QED
  BY <1>2

FieldsOK(fields) ==
    /\ IsList(fields) /\ fields # <<>>
    /\ \A i \in DOMAIN fields :
           /\ IsList(fields[i].column)
           /\ fields[i] \in [column : {fields[i].column}, type : {fields[i].type},
                            nullable : BOOLEAN, unique : BOOLEAN, primary : BOOLEAN]
    /\ \A i, j \in DOMAIN fields : fields[i].column = fields[j].column => i = j

EdgesOK(edges) ==
    /\ IsList(edges)
    /\ \A i \in DOMAIN edges : edges[i].kind \in Kinds /\ (edges[i].generated \/ IsList(edges[i].name))
    /\ \A i, j \in DOMAIN edges : edges[i].name = edges[j].name => i = j

EntityOK(ent) ==
    /\ ent = [name |-> ent.name, fields |-> ent.fields, edges |-> ent.edges]
    /\ IsList(ent.name) /\ ent.name # <<>>
    /\ FieldsOK(ent.fields) /\ EdgesOK(ent.edges)

\* Every generated edge is the inverse of a declared one.
Mirrors(es, i, j) ==
    \E s \in DOMAIN es : \E k \in DOMAIN es[s].edges :
        /\ ~es[s].edges[k].generated /\ es[s].edges[k].inverse # NoName
        /\ es[s].edges[k].target = es[i].name
        /\ es[i].edges[j] = buildInverseEdge(es[s], es[s].edges[k])

EntitiesOK(es) ==
    /\ IsList(es)
    /\ \A i \in DOMAIN es : EntityOK(es[i])
    /\ \A i, j \in DOMAIN es : es[i].name = es[j].name => i = j
    /\ \A i \in DOMAIN es : \A j \in DOMAIN es[i].edges :
           es[i].edges[j].generated => Mirrors(es, i, j)

\* What adding inverses leaves: everything that is there.
Grown(es, fs) ==
    /\ DOMAIN fs = DOMAIN es
    /\ \A i \in DOMAIN es :
           /\ fs[i].name = es[i].name /\ fs[i].fields = es[i].fields
           /\ \A j \in DOMAIN es[i].edges :
                  j \in DOMAIN fs[i].edges /\ fs[i].edges[j] = es[i].edges[j]

LEMMA ListIs ==
    ASSUME NEW s, IsList(s)
    PROVE  Len(s) \in Nat /\ DOMAIN s = 1..Len(s)
BY DEF IsList

LEMMA ListOf == ASSUME NEW S, NEW s \in Seq(S) PROVE IsList(s)
<1>1. \A i \in 1..Len(s) : s[i] \in Range(s)
  BY DEF Range
<1> QED
  BY <1>1, IsASeq DEF IsList

\* An entity is found by its name.
LEMMA EntityFound ==
    ASSUME NEW es, EntitiesOK(es), NEW i \in DOMAIN es
    PROVE  Known(es, es[i].name) /\ Index(es, es[i].name) = i /\ Entity(es, es[i].name) = es[i]
<1>1. \A j \in DOMAIN es : es[j].name = es[i].name => j = i
  BY DEF EntitiesOK
<1>2. Index(es, es[i].name) = i
  BY <1>1 DEF Index
<1> QED
  BY <1>2 DEF Known, Entity

LEMMA KnownIs ==
    ASSUME NEW es, EntitiesOK(es), NEW n, Known(es, n)
    PROVE  /\ Index(es, n) \in DOMAIN es /\ es[Index(es, n)].name = n
           /\ Entity(es, n) = es[Index(es, n)]
<1>1. PICK i \in DOMAIN es : es[i].name = n
  BY DEF Known
<1> QED
  BY <1>1, EntityFound DEF Entity

\* One more edge.
LEMMA EdgesAppended ==
    ASSUME NEW edges, EdgesOK(edges), NEW e, e.kind \in Kinds, e.generated,
           ~hasEdgeNamed(edges, e.name)
    PROVE  /\ EdgesOK(Append(edges, e))
           /\ Len(edges) \in Nat /\ DOMAIN edges = 1..Len(edges)
           /\ DOMAIN Append(edges, e) = 1..(Len(edges) + 1)
           /\ \A j \in DOMAIN edges : Append(edges, e)[j] = edges[j]
           /\ Append(edges, e)[Len(edges) + 1] = e
<1> DEFINE after == Append(edges, e)
<1>1. IsList(edges) /\ Len(edges) \in Nat /\ DOMAIN edges = 1..Len(edges)
  BY ListIs DEF EdgesOK
<1>2. edges \in Seq(Range(edges) \cup {e}) /\ e \in Range(edges) \cup {e}
  BY <1>1, SeqMonotonic DEF IsList
<1>3. /\ after \in Seq(Range(edges) \cup {e}) /\ DOMAIN after = 1..(Len(edges) + 1)
      /\ \A j \in 1..Len(edges) : after[j] = edges[j]
      /\ after[Len(edges) + 1] = e
  BY <1>2, AppendProperties
<1>4. IsList(after)
  BY <1>3, ListOf
<1> HIDE DEF after
<1>5. \A j \in DOMAIN after : j \in DOMAIN edges \/ j = Len(edges) + 1
  BY <1>1, <1>3
<1>6. ASSUME NEW j \in DOMAIN after
      PROVE  after[j].kind \in Kinds /\ (after[j].generated \/ IsList(after[j].name))
  <2>1. CASE j \in DOMAIN edges
    BY <1>1, <1>3, <2>1 DEF EdgesOK
  <2>2. CASE j = Len(edges) + 1
    BY <1>3, <2>2
  <2> QED
    BY <1>5, <2>1, <2>2
<1>7. ASSUME NEW j \in DOMAIN after, NEW k \in DOMAIN after, after[j].name = after[k].name
      PROVE  j = k
  <2>1. CASE j \in DOMAIN edges /\ k \in DOMAIN edges
    BY <1>1, <1>3, <1>7, <2>1 DEF EdgesOK
  <2>2. CASE j \in DOMAIN edges /\ k = Len(edges) + 1
    BY <1>1, <1>3, <1>7, <2>2 DEF hasEdgeNamed
  <2>3. CASE k \in DOMAIN edges /\ j = Len(edges) + 1
    BY <1>1, <1>3, <1>7, <2>3 DEF hasEdgeNamed
  <2> QED
    BY <1>5, <2>1, <2>2, <2>3
<1>8. EdgesOK(after)
  BY <1>4, <1>6, <1>7 DEF EdgesOK
<1>9. DOMAIN after = 1..(Len(edges) + 1) /\ after[Len(edges) + 1] = e
      /\ \A j \in DOMAIN edges : after[j] = edges[j]
  BY <1>1, <1>3
<1> QED
  BY <1>1, <1>8, <1>9 DEF after
LEMMA InverseKind == ASSUME NEW e, e.kind \in Kinds PROVE inverseEdgeKind(e) \in Kinds
BY DEF inverseEdgeKind, Kinds

LEMMA InverseIs ==
    ASSUME NEW s, NEW e
    PROVE  LET inv == buildInverseEdge(s, e) IN
           /\ inv.name = e.inverse /\ inv.target = s.name /\ inv.kind = inverseEdgeKind(e)
           /\ inv.inverse = e.name /\ inv.generated
           /\ inv.column = IF e.kind = "ToMany" THEN edgeRefColumn(s, e) ELSE NoName
           /\ e.kind = "ToOne" => inv.ref = edgeColumn(e)
BY DEF buildInverseEdge

\* An inverse is made of the name and the fields of an entity.
LEMMA InverseSame ==
    ASSUME NEW s, NEW t, s.name = t.name, s.fields = t.fields, NEW e
    PROVE  buildInverseEdge(s, e) = buildInverseEdge(t, e) /\ edgeRefColumn(s, e) = edgeRefColumn(t, e)
<1>1. findPrimaryField(s) = findPrimaryField(t)
  BY DEF findPrimaryField
<1>2. edgeRefColumn(s, e) = edgeRefColumn(t, e)
  BY <1>1 DEF edgeRefColumn
<1> QED
  BY <1>2 DEF buildInverseEdge

LEMMA GrownSelf == ASSUME NEW es PROVE Grown(es, es)
BY DEF Grown

LEMMA GrownTwice ==
    ASSUME NEW a, NEW b, NEW c, Grown(a, b), Grown(b, c) PROVE Grown(a, c)
BY DEF Grown

LEMMA AddInverseKeeps ==
    ASSUME NEW es, EntitiesOK(es), NEW source, NEW s \in DOMAIN es, NEW k \in DOMAIN es[s].edges,
           source.name = es[s].name, source.fields = es[s].fields
    PROVE  LET after == AddInverse(es, source, es[s].edges[k])
           IN  EntitiesOK(after) /\ Grown(es, after)
<1> DEFINE edge == es[s].edges[k]
           t == Index(es, edge.target)
           inv == buildInverseEdge(source, edge)
           after == AddInverse(es, source, edge)
<1>1. CASE edge.inverse = NoName \/ ~Known(es, edge.target)
  BY <1>1, GrownSelf DEF AddInverse
<1>2. CASE /\ edge.inverse # NoName /\ Known(es, edge.target)
           /\ hasEdgeNamed(Entity(es, edge.target).edges, edge.inverse)
  BY <1>2, GrownSelf DEF AddInverse
<1>3. CASE /\ edge.inverse # NoName /\ Known(es, edge.target)
           /\ ~hasEdgeNamed(Entity(es, edge.target).edges, edge.inverse)
  <2>1. t \in DOMAIN es /\ es[t].name = edge.target /\ Entity(es, edge.target) = es[t]
    BY <1>3, KnownIs
  <2>2. IsList(es) /\ Len(es) \in Nat /\ DOMAIN es = 1..Len(es)
    BY ListIs DEF EntitiesOK
  <2>3. /\ edge.kind \in Kinds /\ (edge.generated \/ IsList(edge.name))
        /\ EdgesOK(es[t].edges) /\ EntityOK(es[t])
    BY <2>1 DEF EntitiesOK, EntityOK, EdgesOK
  <2>4. ~edge.generated
    <3> SUFFICES ASSUME edge.generated PROVE FALSE
      OBVIOUS
    <3>0. PICK u \in DOMAIN es : \E m \in DOMAIN es[u].edges :
             es[u].edges[m].target = es[s].name /\ edge = buildInverseEdge(es[u], es[u].edges[m])
      BY DEF EntitiesOK, Mirrors
    <3>1. PICK m \in DOMAIN es[u].edges : edge = buildInverseEdge(es[u], es[u].edges[m])
      BY <3>0
    <3>2. edge.target = es[u].name /\ edge.inverse = es[u].edges[m].name
      BY <3>1, InverseIs
    <3>3. Entity(es, edge.target) = es[u]
      BY <3>2, EntityFound
    <3> QED
      BY <1>3, <3>2, <3>3 DEF hasEdgeNamed
  <2>5. /\ inv.name = edge.inverse /\ inv.kind \in Kinds /\ inv.generated
        /\ inv = buildInverseEdge(es[s], edge)
    BY <2>3, InverseIs, InverseKind, InverseSame
  <2> DEFINE edges == Append(es[t].edges, inv)
             n == Len(es[t].edges) + 1
  <2>6. /\ EdgesOK(edges) /\ DOMAIN edges = 1..n /\ n \in Nat /\ DOMAIN es[t].edges = 1..(n - 1)
        /\ \A j \in DOMAIN es[t].edges : edges[j] = es[t].edges[j]
        /\ edges[n] = inv
    <3>1. ~hasEdgeNamed(es[t].edges, inv.name)
      BY <1>3, <2>1, <2>5
    <3>2. EdgesOK(es[t].edges) /\ inv.kind \in Kinds /\ inv.generated
      BY <2>3, <2>5
    <3> DEFINE old == es[t].edges
    <3> HIDE DEF inv, old
    <3>3. /\ EdgesOK(Append(old, inv)) /\ Len(old) \in Nat /\ DOMAIN old = 1..Len(old)
          /\ DOMAIN Append(old, inv) = 1..(Len(old) + 1)
          /\ \A j \in DOMAIN old : Append(old, inv)[j] = old[j]
          /\ Append(old, inv)[Len(old) + 1] = inv
      <4>1. EdgesOK(old) /\ ~hasEdgeNamed(old, inv.name)
        BY <3>1, <3>2 DEF old
      <4> QED
        BY <3>2, <4>1, EdgesAppended
    <3>4. Len(old) + 1 \in Nat /\ Len(old) = (Len(old) + 1) - 1
      BY <3>3
    <3> QED
      BY <3>3, <3>4 DEF old
  <2>7. after = [es EXCEPT ![t] = [@ EXCEPT !.edges = edges]]
    BY <1>3 DEF AddInverse
  <2> HIDE DEF inv, edges, after, n, t, edge
  <2> DEFINE grown == [name |-> es[t].name, fields |-> es[t].fields, edges |-> edges]
  <2>8. after = [es EXCEPT ![t] = grown]
    <3>1. es[t] = [name |-> es[t].name, fields |-> es[t].fields, edges |-> es[t].edges]
      BY <2>3 DEF EntityOK
    <3>2. [es[t] EXCEPT !.edges = edges] = grown
      BY <3>1
    <3> QED
      BY <2>7, <3>2, Zenon
  <2>9. after[t] = grown /\ DOMAIN after = DOMAIN es /\ \A i \in DOMAIN es : i # t => after[i] = es[i]
    BY <2>1, <2>2, <2>8 DEF IsList
  <2>10. IsList(after)
    <3>1. after \in Seq(Range(es) \cup {grown})
      <4>1. es \in Seq(Range(es) \cup {grown})
        BY <2>2, SeqMonotonic DEF IsList
      <4> QED
        BY <2>1, <2>2, <2>8, <4>1, ExceptSeq
    <3> QED
      BY <3>1, ListOf
  <2>11. grown.name = es[t].name /\ grown.fields = es[t].fields /\ grown.edges = edges
    OBVIOUS
  <2>12. EntityOK(grown)
    BY <2>3, <2>6, <2>11 DEF EntityOK
  <2> HIDE DEF grown
  <2>13. \A i \in DOMAIN es : after[i].name = es[i].name /\ after[i].fields = es[i].fields
    BY <2>1, <2>9, <2>11
  <2>14. \A i \in DOMAIN es : \A j \in DOMAIN es[i].edges :
             j \in DOMAIN after[i].edges /\ after[i].edges[j] = es[i].edges[j]
    BY <2>1, <2>6, <2>9, <2>11
  <2>15. Grown(es, after)
    BY <2>9, <2>13, <2>14 DEF Grown
  <2>16. ASSUME NEW i \in DOMAIN after, NEW j \in DOMAIN after[i].edges, after[i].edges[j].generated
         PROVE  Mirrors(after, i, j)
    <3>1. \E u \in DOMAIN es : \E m \in DOMAIN es[u].edges :
              /\ ~es[u].edges[m].generated /\ es[u].edges[m].inverse # NoName
              /\ es[u].edges[m].target = es[i].name
              /\ after[i].edges[j] = buildInverseEdge(es[u], es[u].edges[m])
      <4>1. CASE j \in DOMAIN es[i].edges
        <5>1. after[i].edges[j] = es[i].edges[j] /\ i \in DOMAIN es
          BY <2>9, <2>14, <4>1
        <5> QED
          BY <1>3, <2>16, <4>1, <5>1 DEF EntitiesOK, Mirrors
      <4>2. CASE j \notin DOMAIN es[i].edges
        <5>1. i = t /\ j = n
          BY <2>6, <2>9, <2>11, <4>2
        <5> QED
          BY <1>3, <2>1, <2>4, <2>5, <2>6, <2>9, <2>11, <5>1 DEF edge
      <4> QED
        BY <4>1, <4>2
    <3>0. PICK u \in DOMAIN es : \E m \in DOMAIN es[u].edges :
              /\ ~es[u].edges[m].generated /\ es[u].edges[m].inverse # NoName
              /\ es[u].edges[m].target = es[i].name
              /\ after[i].edges[j] = buildInverseEdge(es[u], es[u].edges[m])
      BY <3>1
    <3>2. PICK m \in DOMAIN es[u].edges :
              /\ ~es[u].edges[m].generated /\ es[u].edges[m].inverse # NoName
              /\ es[u].edges[m].target = es[i].name
              /\ after[i].edges[j] = buildInverseEdge(es[u], es[u].edges[m])
      BY <3>0
    <3>3. /\ u \in DOMAIN after /\ m \in DOMAIN after[u].edges /\ after[u].edges[m] = es[u].edges[m]
          /\ buildInverseEdge(after[u], es[u].edges[m]) = buildInverseEdge(es[u], es[u].edges[m])
      BY <2>9, <2>13, <2>14, InverseSame
    <3>4. after[i].name = es[i].name
      BY <2>9, <2>13
    <3> QED
      BY <3>2, <3>3, <3>4 DEF Mirrors
  <2>17. \A i \in DOMAIN after : EntityOK(after[i])
    BY <2>1, <2>9, <2>12 DEF EntitiesOK
  <2>18. \A i, j \in DOMAIN after : after[i].name = after[j].name => i = j
    BY <2>9, <2>13 DEF EntitiesOK
  <2>19. EntitiesOK(after)
    BY <2>10, <2>16, <2>17, <2>18 DEF EntitiesOK
  <2> QED
    BY <2>15, <2>19 DEF after, edge
<1> QED
  BY <1>1, <1>2, <1>3

-----------------------------------------------------------------------------
(* The loops.  A recursive function exists on every range, since one on a   *)
(* shorter range can be continued.                                          *)

LEMMA AddInversesOfSteps ==
    ASSUME NEW es, NEW i, Len(es[i].edges) \in Nat
    PROVE  \E f : /\ f[0] = es
                  /\ \A k \in 1..Len(es[i].edges) :
                         f[k] = AddInverse(f[k - 1], es[i], es[i].edges[k])
                  /\ AddInversesOf(es, i) = f[Len(es[i].edges)]
<1> DEFINE n == Len(es[i].edges)
           After(a, k) == AddInverse(a, es[i], es[i].edges[k])
           Loop(f, m) == f = [k \in 0..m |-> IF k = 0 THEN es ELSE After(f[k - 1], k)]
           Short == {m \in Nat : ~\E f : Loop(f, m)}
           g == CHOOSE f : Loop(f, n)
<1>1. AddInversesOf(es, i) = g[n]
  BY DEF AddInversesOf
<1> HIDE DEF After
<1>2. Short = {}
  <2> SUFFICES ASSUME Short # {} PROVE FALSE
    OBVIOUS
  <2>1. PICK m \in Short : \A l \in Short : m <= l
    BY LeastNumber
  <2>2. m \in Nat /\ ~\E f : Loop(f, m)
    OBVIOUS
  <2>3. CASE m = 0
    <3> DEFINE h == [k \in 0..0 |-> es]
    <3>1. Loop(h, 0)
      OBVIOUS
    <3> QED
      BY <2>2, <2>3, <3>1
  <2>4. CASE m # 0
    <3>1. m - 1 \in Nat /\ ~ (m <= m - 1)
      BY <2>2, <2>4
    <3>2. PICK f : Loop(f, m - 1)
      BY <2>1, <3>1
    <3> DEFINE h == [k \in 0..m |-> IF k < m THEN f[k] ELSE After(f[m - 1], m)]
    <3>3. \A k \in 0..(m - 1) : f[k] = IF k = 0 THEN es ELSE After(f[k - 1], k)
      BY <3>2
    <3>4. ASSUME NEW k \in 0..m
          PROVE  h[k] = IF k = 0 THEN es ELSE After(h[k - 1], k)
      <4>1. CASE k < m
        <5>1. k \in 0..(m - 1) /\ h[k] = f[k] /\ (k # 0 => h[k - 1] = f[k - 1])
          BY <2>2, <4>1
        <5> QED
          BY <3>3, <5>1
      <4>2. CASE ~ (k < m)
        <5>1. k = m /\ k # 0 /\ h[m] = After(f[m - 1], m) /\ h[m - 1] = f[m - 1]
          BY <2>2, <2>4, <3>1, <4>2
        <5> QED
          BY <5>1
      <4> QED
        BY <4>1, <4>2
    <3>5. Loop(h, m)
      BY <3>4
    <3> QED
      BY <2>2, <3>5
  <2> QED
    BY <2>3, <2>4
<1>3. Loop(g, n)
  BY <1>2
<1> HIDE DEF g
<1>4. \A k \in 0..n : g[k] = IF k = 0 THEN es ELSE After(g[k - 1], k)
  BY <1>3
<1>5. g[0] = es /\ \A k \in 1..n : g[k] = After(g[k - 1], k)
  BY <1>4
<1> QED
  BY <1>1, <1>5 DEF After

LEMMA InversesSteps ==
    ASSUME NEW es, Len(es) \in Nat
    PROVE  \E f : /\ f[0] = es
                  /\ \A k \in 1..Len(es) :
                         f[k] = AddInversesOf(f[k - 1], k)
                  /\ synthesizeInverseEdges(es) = f[Len(es)]
<1> DEFINE n == Len(es)
           After(a, k) == AddInversesOf(a, k)
           Loop(f, m) == f = [k \in 0..m |-> IF k = 0 THEN es ELSE After(f[k - 1], k)]
           Short == {m \in Nat : ~\E f : Loop(f, m)}
           g == CHOOSE f : Loop(f, n)
<1>1. synthesizeInverseEdges(es) = g[n]
  BY DEF synthesizeInverseEdges
<1> HIDE DEF After
<1>2. Short = {}
  <2> SUFFICES ASSUME Short # {} PROVE FALSE
    OBVIOUS
  <2>1. PICK m \in Short : \A l \in Short : m <= l
    BY LeastNumber
  <2>2. m \in Nat /\ ~\E f : Loop(f, m)
    OBVIOUS
  <2>3. CASE m = 0
    <3> DEFINE h == [k \in 0..0 |-> es]
    <3>1. Loop(h, 0)
      OBVIOUS
    <3> QED
      BY <2>2, <2>3, <3>1
  <2>4. CASE m # 0
    <3>1. m - 1 \in Nat /\ ~ (m <= m - 1)
      BY <2>2, <2>4
    <3>2. PICK f : Loop(f, m - 1)
      BY <2>1, <3>1
    <3> DEFINE h == [k \in 0..m |-> IF k < m THEN f[k] ELSE After(f[m - 1], m)]
    <3>3. \A k \in 0..(m - 1) : f[k] = IF k = 0 THEN es ELSE After(f[k - 1], k)
      BY <3>2
    <3>4. ASSUME NEW k \in 0..m
          PROVE  h[k] = IF k = 0 THEN es ELSE After(h[k - 1], k)
      <4>1. CASE k < m
        <5>1. k \in 0..(m - 1) /\ h[k] = f[k] /\ (k # 0 => h[k - 1] = f[k - 1])
          BY <2>2, <4>1
        <5> QED
          BY <3>3, <5>1
      <4>2. CASE ~ (k < m)
        <5>1. k = m /\ k # 0 /\ h[m] = After(f[m - 1], m) /\ h[m - 1] = f[m - 1]
          BY <2>2, <2>4, <3>1, <4>2
        <5> QED
          BY <5>1
      <4> QED
        BY <4>1, <4>2
    <3>5. Loop(h, m)
      BY <3>4
    <3> QED
      BY <2>2, <3>5
  <2> QED
    BY <2>3, <2>4
<1>3. Loop(g, n)
  BY <1>2
<1> HIDE DEF g
<1>4. \A k \in 0..n : g[k] = IF k = 0 THEN es ELSE After(g[k - 1], k)
  BY <1>3
<1>5. g[0] = es /\ \A k \in 1..n : g[k] = After(g[k - 1], k)
  BY <1>4
<1> QED
  BY <1>1, <1>5 DEF After

LEMMA EnsureAllSteps ==
    ASSUME NEW plan, NEW es, NEW source, Len(source.edges) \in Nat
    PROVE  \E f : /\ f[0] = plan
                  /\ \A k \in 1..Len(source.edges) :
                         f[k] = Ensure(f[k - 1], es, source, source.edges[k])
                  /\ EnsureAll(plan, es, source) = f[Len(source.edges)]
<1> DEFINE n == Len(source.edges)
           After(a, k) == Ensure(a, es, source, source.edges[k])
           Loop(f, m) == f = [k \in 0..m |-> IF k = 0 THEN plan ELSE After(f[k - 1], k)]
           Short == {m \in Nat : ~\E f : Loop(f, m)}
           g == CHOOSE f : Loop(f, n)
<1>1. EnsureAll(plan, es, source) = g[n]
  BY DEF EnsureAll
<1> HIDE DEF After
<1>2. Short = {}
  <2> SUFFICES ASSUME Short # {} PROVE FALSE
    OBVIOUS
  <2>1. PICK m \in Short : \A l \in Short : m <= l
    BY LeastNumber
  <2>2. m \in Nat /\ ~\E f : Loop(f, m)
    OBVIOUS
  <2>3. CASE m = 0
    <3> DEFINE h == [k \in 0..0 |-> plan]
    <3>1. Loop(h, 0)
      OBVIOUS
    <3> QED
      BY <2>2, <2>3, <3>1
  <2>4. CASE m # 0
    <3>1. m - 1 \in Nat /\ ~ (m <= m - 1)
      BY <2>2, <2>4
    <3>2. PICK f : Loop(f, m - 1)
      BY <2>1, <3>1
    <3> DEFINE h == [k \in 0..m |-> IF k < m THEN f[k] ELSE After(f[m - 1], m)]
    <3>3. \A k \in 0..(m - 1) : f[k] = IF k = 0 THEN plan ELSE After(f[k - 1], k)
      BY <3>2
    <3>4. ASSUME NEW k \in 0..m
          PROVE  h[k] = IF k = 0 THEN plan ELSE After(h[k - 1], k)
      <4>1. CASE k < m
        <5>1. k \in 0..(m - 1) /\ h[k] = f[k] /\ (k # 0 => h[k - 1] = f[k - 1])
          BY <2>2, <4>1
        <5> QED
          BY <3>3, <5>1
      <4>2. CASE ~ (k < m)
        <5>1. k = m /\ k # 0 /\ h[m] = After(f[m - 1], m) /\ h[m - 1] = f[m - 1]
          BY <2>2, <2>4, <3>1, <4>2
        <5> QED
          BY <5>1
      <4> QED
        BY <4>1, <4>2
    <3>5. Loop(h, m)
      BY <3>4
    <3> QED
      BY <2>2, <3>5
  <2> QED
    BY <2>3, <2>4
<1>3. Loop(g, n)
  BY <1>2
<1> HIDE DEF g
<1>4. \A k \in 0..n : g[k] = IF k = 0 THEN plan ELSE After(g[k - 1], k)
  BY <1>3
<1>5. g[0] = plan /\ \A k \in 1..n : g[k] = After(g[k - 1], k)
  BY <1>4
<1> QED
  BY <1>1, <1>5 DEF After

LEMMA PlanSteps ==
    ASSUME NEW es, Len(es) \in Nat
    PROVE  \E f : /\ f[0] = DeclaredTables(es)
                  /\ \A k \in 1..Len(es) :
                         f[k] = EnsureAll(f[k - 1], es, es[k])
                  /\ buildMigrationPlan(es) = f[Len(es)]
<1> DEFINE n == Len(es)
           After(a, k) == EnsureAll(a, es, es[k])
           Loop(f, m) == f = [k \in 0..m |-> IF k = 0 THEN DeclaredTables(es) ELSE After(f[k - 1], k)]
           Short == {m \in Nat : ~\E f : Loop(f, m)}
           g == CHOOSE f : Loop(f, n)
<1>1. buildMigrationPlan(es) = g[n]
  BY DEF buildMigrationPlan
<1> HIDE DEF After
<1>2. Short = {}
  <2> SUFFICES ASSUME Short # {} PROVE FALSE
    OBVIOUS
  <2>1. PICK m \in Short : \A l \in Short : m <= l
    BY LeastNumber
  <2>2. m \in Nat /\ ~\E f : Loop(f, m)
    OBVIOUS
  <2>3. CASE m = 0
    <3> DEFINE h == [k \in 0..0 |-> DeclaredTables(es)]
    <3>1. Loop(h, 0)
      OBVIOUS
    <3> QED
      BY <2>2, <2>3, <3>1
  <2>4. CASE m # 0
    <3>1. m - 1 \in Nat /\ ~ (m <= m - 1)
      BY <2>2, <2>4
    <3>2. PICK f : Loop(f, m - 1)
      BY <2>1, <3>1
    <3> DEFINE h == [k \in 0..m |-> IF k < m THEN f[k] ELSE After(f[m - 1], m)]
    <3>3. \A k \in 0..(m - 1) : f[k] = IF k = 0 THEN DeclaredTables(es) ELSE After(f[k - 1], k)
      BY <3>2
    <3>4. ASSUME NEW k \in 0..m
          PROVE  h[k] = IF k = 0 THEN DeclaredTables(es) ELSE After(h[k - 1], k)
      <4>1. CASE k < m
        <5>1. k \in 0..(m - 1) /\ h[k] = f[k] /\ (k # 0 => h[k - 1] = f[k - 1])
          BY <2>2, <4>1
        <5> QED
          BY <3>3, <5>1
      <4>2. CASE ~ (k < m)
        <5>1. k = m /\ k # 0 /\ h[m] = After(f[m - 1], m) /\ h[m - 1] = f[m - 1]
          BY <2>2, <2>4, <3>1, <4>2
        <5> QED
          BY <5>1
      <4> QED
        BY <4>1, <4>2
    <3>5. Loop(h, m)
      BY <3>4
    <3> QED
      BY <2>2, <3>5
  <2> QED
    BY <2>3, <2>4
<1>3. Loop(g, n)
  BY <1>2
<1> HIDE DEF g
<1>4. \A k \in 0..n : g[k] = IF k = 0 THEN DeclaredTables(es) ELSE After(g[k - 1], k)
  BY <1>3
<1>5. g[0] = DeclaredTables(es) /\ \A k \in 1..n : g[k] = After(g[k - 1], k)
  BY <1>4
<1> QED
  BY <1>1, <1>5 DEF After

LEMMA AddInversesOfKeeps ==
    ASSUME NEW es, EntitiesOK(es), NEW i \in DOMAIN es
    PROVE  EntitiesOK(AddInversesOf(es, i)) /\ Grown(es, AddInversesOf(es, i))
<1> DEFINE n == Len(es[i].edges)
<1>1. n \in Nat /\ DOMAIN es[i].edges = 1..n
  BY ListIs DEF EntitiesOK, EntityOK, EdgesOK
<1>2. PICK f : /\ f[0] = es
               /\ \A k \in 1..n : f[k] = AddInverse(f[k - 1], es[i], es[i].edges[k])
               /\ AddInversesOf(es, i) = f[n]
  BY <1>1, AddInversesOfSteps
<1> DEFINE Good(k) == EntitiesOK(f[k]) /\ Grown(es, f[k])
           Bad == {k \in 0..n : ~Good(k)}
<1>3. Good(0)
  BY <1>2, GrownSelf
<1>4. ASSUME NEW k \in 1..n, Good(k - 1) PROVE Good(k)
  <2> DEFINE before == f[k - 1]
             edge == es[i].edges[k]
             after == AddInverse(before, es[i], edge)
  <2>1. /\ i \in DOMAIN before /\ k \in DOMAIN before[i].edges /\ before[i].edges[k] = edge
        /\ before[i].name = es[i].name /\ before[i].fields = es[i].fields
    BY <1>1, <1>4 DEF Grown
  <2>2. EntitiesOK(after) /\ Grown(before, after)
    BY <1>4, <2>1, AddInverseKeeps
  <2>3. f[k] = after
    BY <1>2
  <2> QED
    BY <1>4, <2>2, <2>3, GrownTwice
<1> HIDE DEF Good
<1>5. Bad = {}
  <2> SUFFICES ASSUME Bad # {} PROVE FALSE
    OBVIOUS
  <2>1. PICK k \in Bad : \A m \in Bad : k <= m
    <3>1. Bad \in SUBSET Nat
      BY <1>1
    <3> HIDE DEF Bad
    <3> QED
      BY <3>1, LeastNumber
  <2>2. k # 0 /\ k \in 1..n /\ k - 1 \in 0..n /\ ~ (k <= k - 1)
    BY <1>1, <1>3
  <2> QED
    BY <1>4, <2>1, <2>2
<1>6. Good(n)
  BY <1>1, <1>5
<1> QED
  BY <1>2, <1>6 DEF Good

\* The entities a schema is loaded as.
LEMMA InversesKeep ==
    ASSUME NEW es, EntitiesOK(es)
    PROVE  EntitiesOK(synthesizeInverseEdges(es)) /\ Grown(es, synthesizeInverseEdges(es))
<1> DEFINE n == Len(es)
<1>1. n \in Nat /\ DOMAIN es = 1..n
  BY ListIs DEF EntitiesOK
<1>2. PICK f : /\ f[0] = es
               /\ \A k \in 1..n : f[k] = AddInversesOf(f[k - 1], k)
               /\ synthesizeInverseEdges(es) = f[n]
  BY <1>1, InversesSteps
<1> DEFINE Good(k) == EntitiesOK(f[k]) /\ Grown(es, f[k])
           Bad == {k \in 0..n : ~Good(k)}
<1>3. Good(0)
  BY <1>2, GrownSelf
<1>4. ASSUME NEW k \in 1..n, Good(k - 1) PROVE Good(k)
  <2>1. k \in DOMAIN f[k - 1]
    BY <1>1, <1>4 DEF Grown
  <2>2. EntitiesOK(AddInversesOf(f[k - 1], k)) /\ Grown(f[k - 1], AddInversesOf(f[k - 1], k))
    BY <1>4, <2>1, AddInversesOfKeeps
  <2>3. f[k] = AddInversesOf(f[k - 1], k)
    BY <1>2
  <2> QED
    BY <1>4, <2>2, <2>3, GrownTwice
<1> HIDE DEF Good
<1>5. Bad = {}
  <2> SUFFICES ASSUME Bad # {} PROVE FALSE
    OBVIOUS
  <2>1. PICK k \in Bad : \A m \in Bad : k <= m
    <3>1. Bad \in SUBSET Nat
      BY <1>1
    <3> HIDE DEF Bad
    <3> QED
      BY <3>1, LeastNumber
  <2>2. k # 0 /\ k \in 1..n /\ k - 1 \in 0..n /\ ~ (k <= k - 1)
    BY <1>1, <1>3
  <2> QED
    BY <1>4, <2>1, <2>2
<1>6. Good(n)
  BY <1>1, <1>5
<1> QED
  BY <1>2, <1>6 DEF Good

LEMMA DefaultField ==
    ASSUME NEW n, IsList(n), n # <<>>, NEW fields, NEW edges, EdgesOK(edges), IsList(fields),
           \A i \in DOMAIN fields :
               /\ IsList(fields[i].column)
               /\ fields[i] \in [column : {fields[i].column}, type : {fields[i].type},
                                nullable : BOOLEAN, unique : BOOLEAN, primary : BOOLEAN],
           \A i, j \in DOMAIN fields : fields[i].column = fields[j].column => i = j
    PROVE  LET ent == ensureDefaultField([name |-> n, fields |-> fields, edges |-> edges])
           IN  EntityOK(ent) /\ ent.name = n /\ ent.edges = edges
<1> DEFINE declared == [name |-> n, fields |-> fields, edges |-> edges]
           id == Field(<<"id">>, "uuid", FALSE, FALSE, TRUE)
           all == <<id>> \o fields
           ent == ensureDefaultField(declared)
<1>1. Len(fields) \in Nat /\ DOMAIN fields = 1..Len(fields)
  BY ListIs
<1>2. CASE HasColumn(fields, <<"id">>)
  <2>1. ent = declared
    BY <1>2 DEF ensureDefaultField
  <2>2. FieldsOK(fields)
    BY <1>1, <1>2 DEF FieldsOK, HasColumn
  <2> QED
    BY <2>1, <2>2 DEF EntityOK
<1>3. CASE ~HasColumn(fields, <<"id">>)
  <2>1. ent = [name |-> n, fields |-> all, edges |-> edges]
    <3>1. ent = [declared EXCEPT !.fields = all]
      BY <1>3 DEF ensureDefaultField
    <3> HIDE DEF all
    <3>2. [declared EXCEPT !.fields = all] = [name |-> n, fields |-> all, edges |-> edges]
      OBVIOUS
    <3> QED
      BY <3>1, <3>2
  <2>2. id = [column |-> <<"id">>, type |-> "uuid", nullable |-> FALSE, unique |-> FALSE, primary |-> TRUE]
    BY DEF Field
  <2>3. /\ id.column = <<"id">>
        /\ id \in [column : {id.column}, type : {id.type},
                   nullable : BOOLEAN, unique : BOOLEAN, primary : BOOLEAN]
    <3> HIDE DEF id
    <3>1. id.column = <<"id">> /\ id.type = "uuid"
      BY <2>2
    <3>2. \A c, t : [column |-> c, type |-> t, nullable |-> FALSE, unique |-> FALSE, primary |-> TRUE]
                       \in [column : {c}, type : {t},
                            nullable : BOOLEAN, unique : BOOLEAN, primary : BOOLEAN]
      OBVIOUS
    <3> QED
      BY <2>2, <3>1, <3>2
  <2>4. IsList(<<"id">>)
    <3>1. <<"id">> \in Seq({"id"})
      OBVIOUS
    <3> QED
      BY <3>1, ListOf
  <2> HIDE DEF id
  <2>5. /\ all \in Seq(Range(fields) \cup {id}) /\ DOMAIN all = 1..(Len(fields) + 1)
        /\ all[1] = id /\ \A i \in 1..Len(fields) : all[i + 1] = fields[i]
    <3>1. fields \in Seq(Range(fields) \cup {id})
      BY SeqMonotonic DEF IsList
    <3>2. <<id>> \in Seq(Range(fields) \cup {id}) /\ Len(<<id>>) = 1 /\ <<id>>[1] = id
      OBVIOUS
    <3>3. /\ all \in Seq(Range(fields) \cup {id}) /\ Len(all) = Len(fields) + 1
          /\ \A i \in 1..(1 + Len(fields)) : all[i] = IF i <= 1 THEN <<id>>[i] ELSE fields[i - 1]
      BY <1>1, <3>1, <3>2, ConcatProperties
    <3>4. DOMAIN all = 1..Len(all)
      BY <3>3
    <3> HIDE DEF all
    <3>5. all[1] = id
      BY <1>1, <3>2, <3>3
    <3>6. \A i \in 1..Len(fields) : all[i + 1] = fields[i]
      BY <1>1, <3>3
    <3> QED
      BY <3>3, <3>4, <3>5, <3>6
  <2> HIDE DEF all
  <2>6. IsList(all) /\ all # <<>>
    BY <1>1, <2>5, ListOf
  <2>7. \A i \in DOMAIN all : i = 1 \/ (i - 1 \in DOMAIN fields /\ all[i] = fields[i - 1])
    BY <1>1, <2>5
  <2>8. \A i \in DOMAIN all : i # 1 => all[i].column # <<"id">>
    BY <1>3, <2>7 DEF HasColumn
  <2>9. ASSUME NEW i \in DOMAIN all
        PROVE  /\ IsList(all[i].column)
               /\ all[i] \in [column : {all[i].column}, type : {all[i].type},
                              nullable : BOOLEAN, unique : BOOLEAN, primary : BOOLEAN]
    BY <2>3, <2>4, <2>5, <2>7
  <2>10. ASSUME NEW i \in DOMAIN all, NEW j \in DOMAIN all, all[i].column = all[j].column
         PROVE  i = j
    <3>1. CASE i = 1 \/ j = 1
      BY <2>3, <2>5, <2>8, <2>10, <3>1
    <3>2. CASE i # 1 /\ j # 1
      BY <1>1, <2>5, <2>7, <2>10, <3>2
    <3> QED
      BY <3>1, <3>2
  <2>11. FieldsOK(all)
    BY <2>6, <2>9, <2>10 DEF FieldsOK
  <2> QED
    BY <2>1, <2>11 DEF EntityOK
<1> QED
  BY <1>2, <1>3

-----------------------------------------------------------------------------
(* Orders. *)

\* An order of a finite set has all its members, each at one place.
LEMMA OrderHasAll ==
    ASSUME NEW S, IsFiniteSet(S), NEW s \in SetToSeqs(S)
    PROVE  /\ IsList(s) /\ Len(s) = Cardinality(S) /\ Len(s) \in Nat /\ DOMAIN s = 1..Len(s)
           /\ ToSet(s) = S
           /\ \A i, j \in DOMAIN s : s[i] = s[j] => i = j
<1> DEFINE D == 1..Cardinality(S)
<1>1. Cardinality(S) \in Nat
  BY FS_CardinalityType
<1>2. s \in [D -> S] /\ \A i, j \in D : s[i] = s[j] => i = j
  BY DEF SetToSeqs
<1>3. s \in Injection(D, S) /\ IsFiniteSet(D) /\ Cardinality(D) = Cardinality(S)
  <2>1. s \in Injection(D, S)
    BY <1>2, Fun_IsInj
  <2>2. IsFiniteSet(D) /\ Cardinality(D) = Cardinality(S)
    BY <1>1, FS_Interval
  <2> QED
    BY <2>1, <2>2
<1>4. s \in Surjection(D, S)
  BY <1>3, FS_Injection
<1>5. ToSet(s) = S
  <2>1. \A x \in S : \E i \in D : s[i] = x
    BY <1>4 DEF Surjection
  <2> QED
    BY <1>2, <2>1 DEF ToSet
<1>6. s \in Seq(S) /\ Len(s) = Cardinality(S) /\ DOMAIN s = D
  BY <1>1, <1>2
<1> QED
  BY <1>1, <1>2, <1>5, <1>6, ListOf

LEMMA EntitiesCounted ==
    ASSUME NEW es, EntitiesOK(es)
    PROVE  IsFiniteSet(ToSet(es)) /\ Cardinality(ToSet(es)) = Len(es)
<1>1. Len(es) \in Nat /\ DOMAIN es = 1..Len(es) /\ es \in [1..Len(es) -> ToSet(es)]
  BY ListIs DEF EntitiesOK, ToSet, IsList, Range
<1>2. \A i, j \in 1..Len(es) : es[i] = es[j] => i = j
  BY <1>1 DEF EntitiesOK
<1>3. \A x \in ToSet(es) : \E i \in 1..Len(es) : es[i] = x
  BY <1>1 DEF ToSet
<1>4. es \in Bijection(1..Len(es), ToSet(es))
  BY <1>1, <1>2, <1>3, Fun_IsBij
<1>5. ExistsBijection(1..Len(es), ToSet(es))
  BY <1>4, Fun_ExistsBij
<1> QED
  BY <1>1, <1>5, FS_CountingElements, FS_NatBijection, FS_Interval, FS_Bijection

LEMMA DeclaredOK ==
    ASSUME NEW d \in Declarations, NEW order \in SetToSeqs(DOMAIN d)
    PROVE  /\ EntitiesOK(DeclaredEntities(d, order))
           /\ Len(DeclaredEntities(d, order)) = Cardinality(DOMAIN d)
           /\ \A i \in DOMAIN DeclaredEntities(d, order) :
                  DeclaredEntities(d, order)[i].name \in DOMAIN d
<1> DEFINE es == DeclaredEntities(d, order)
<1>1. IsFiniteSet(DOMAIN d)
  BY DeclarationsAreSchemas
<1>2. /\ IsList(order) /\ Len(order) = Cardinality(DOMAIN d) /\ Len(order) \in Nat
      /\ DOMAIN order = 1..Len(order) /\ ToSet(order) = DOMAIN d
      /\ \A i, j \in DOMAIN order : order[i] = order[j] => i = j
  BY <1>1, OrderHasAll
<1>3. \A i \in DOMAIN order : order[i] \in DOMAIN d
  BY <1>2 DEF ToSet
<1>4. ASSUME NEW i \in DOMAIN order
      PROVE  EntityOK(es[i]) /\ es[i].name = order[i] /\ es[i].edges = d[order[i]].edges
  <2> DEFINE n == order[i]
             ent == ensureDefaultField([name |-> n, fields |-> d[n].fields, edges |-> d[n].edges])
  <2>1. n \in DOMAIN d
    BY <1>3
  <2>2. /\ IsList(n) /\ n # <<>> /\ IsList(d[n].fields) /\ EdgesOK(d[n].edges)
        /\ \A k \in DOMAIN d[n].fields :
               /\ IsList(d[n].fields[k].column)
               /\ d[n].fields[k] \in [column : {d[n].fields[k].column}, type : {d[n].fields[k].type},
                                nullable : BOOLEAN, unique : BOOLEAN, primary : BOOLEAN]
        /\ \A k, m \in DOMAIN d[n].fields : d[n].fields[k].column = d[n].fields[m].column => k = m
    BY <2>1, DeclarationsAreSchemas DEF EdgesOK, Kinds
  <2>3. EntityOK(ent) /\ ent.name = n /\ ent.edges = d[n].edges
    <3> HIDE DEF n
    <3> QED
      BY <2>2, DefaultField
  <2>4. es[i] = ent
    BY DEF DeclaredEntities
  <2> QED
    BY <2>3, <2>4
<1>5. DOMAIN es = DOMAIN order
  BY DEF DeclaredEntities
<1>6. ASSUME NEW i \in DOMAIN es, NEW j \in DOMAIN es[i].edges PROVE ~es[i].edges[j].generated
  BY <1>3, <1>4, <1>5, DeclarationsAreSchemas
<1> DEFINE all == {es[i] : i \in DOMAIN order}
<1>7. IsList(es) /\ Len(es) = Len(order)
  <2>1. es \in [1..Len(order) -> all]
    BY <1>2 DEF DeclaredEntities
  <2> HIDE DEF es, all
  <2>2. es \in Seq(all) /\ Len(es) = Len(order)
    BY <1>2, <2>1
  <2> QED
    BY <2>2, ListOf
<1> HIDE DEF es
<1>8. EntitiesOK(es)
  BY <1>2, <1>4, <1>5, <1>6, <1>7 DEF EntitiesOK
<1> QED
  BY <1>2, <1>3, <1>4, <1>5, <1>7, <1>8 DEF es

\* Whatever depends on the entities and not on their places is the same.
LEMMA ReorderedOK ==
    ASSUME NEW es, EntitiesOK(es), NEW fs \in SetToSeqs(ToSet(es))
    PROVE  EntitiesOK(fs) /\ ToSet(fs) = ToSet(es) /\ Len(fs) = Len(es)
<1>1. IsFiniteSet(ToSet(es)) /\ Cardinality(ToSet(es)) = Len(es)
  BY EntitiesCounted
<1>2. /\ IsList(fs) /\ Len(fs) = Len(es) /\ ToSet(fs) = ToSet(es)
      /\ \A i, j \in DOMAIN fs : fs[i] = fs[j] => i = j
  BY <1>1, OrderHasAll
<1>3. \A i \in DOMAIN fs : \E k \in DOMAIN es : fs[i] = es[k]
  BY <1>2 DEF ToSet
<1>4. \A k \in DOMAIN es : \E i \in DOMAIN fs : fs[i] = es[k]
  BY <1>2 DEF ToSet
<1>5. \A i \in DOMAIN fs : EntityOK(fs[i])
  BY <1>3 DEF EntitiesOK
<1>6. \A i, j \in DOMAIN fs : fs[i].name = fs[j].name => i = j
  <2> SUFFICES ASSUME NEW i \in DOMAIN fs, NEW j \in DOMAIN fs, fs[i].name = fs[j].name PROVE i = j
    OBVIOUS
  <2>1. PICK k \in DOMAIN es : fs[i] = es[k]
    BY <1>3
  <2>2. PICK m \in DOMAIN es : fs[j] = es[m]
    BY <1>3
  <2>3. k = m
    BY <2>1, <2>2 DEF EntitiesOK
  <2> QED
    BY <1>2, <2>1, <2>2, <2>3
<1>7. ASSUME NEW i \in DOMAIN fs, NEW j \in DOMAIN fs[i].edges, fs[i].edges[j].generated
      PROVE  Mirrors(fs, i, j)
  <2>1. PICK k \in DOMAIN es : fs[i] = es[k]
    BY <1>3
  <2>2. j \in DOMAIN es[k].edges /\ es[k].edges[j].generated
    BY <1>7, <2>1
  <2>3. Mirrors(es, k, j)
    BY <2>2 DEF EntitiesOK
  <2>4. PICK s \in DOMAIN es : \E l \in DOMAIN es[s].edges :
            /\ ~es[s].edges[l].generated /\ es[s].edges[l].inverse # NoName
            /\ es[s].edges[l].target = es[k].name
            /\ es[k].edges[j] = buildInverseEdge(es[s], es[s].edges[l])
    BY <2>3 DEF Mirrors
  <2>5. PICK t \in DOMAIN fs : fs[t] = es[s]
    BY <1>4
  <2> QED
    BY <2>1, <2>4, <2>5 DEF Mirrors
<1> QED
  BY <1>2, <1>5, <1>6, <1>7 DEF EntitiesOK

-----------------------------------------------------------------------------
(* The plan. *)

\* The columns of a table, each of them once.
ColumnsOK(fields) ==
    /\ IsList(fields)
    /\ \A i \in DOMAIN fields :
           fields[i] = [column |-> fields[i].column, type |-> fields[i].type,
                        nullable |-> fields[i].nullable, unique |-> fields[i].unique,
                        primary |-> fields[i].primary]
    /\ \A i, j \in DOMAIN fields : fields[i].column = fields[j].column => i = j

\* A foreign key is on a column of the table, for an edge that asks for it;
\* where the column is not a declared one, it has the type of the key.
KeyOK(es, ent, table, c) ==
    /\ HasColumn(table.fields, c)
    /\ \E m \in DOMAIN es :
           /\ table.keys[c].table = es[m].name
           /\ table.keys[c].column = findPrimaryField(es[m]).column
           /\ c \in ColumnsFor(ent, es[m])
           /\ HasColumn(ent.fields, c) \/ FieldAt(table.fields, c).type = findPrimaryField(es[m]).type

TableOK(es, ent, table) ==
    /\ table = [fields |-> table.fields, keys |-> table.keys]
    /\ ColumnsOK(table.fields)
    /\ \A k \in DOMAIN ent.fields :
           /\ HasColumn(table.fields, ent.fields[k].column)
           /\ FieldAt(table.fields, ent.fields[k].column).type = ent.fields[k].type
    /\ \A k \in DOMAIN table.fields :
           HasColumn(ent.fields, table.fields[k].column) \/ table.fields[k].column \in DOMAIN table.keys
    /\ \A c \in DOMAIN table.keys : KeyOK(es, ent, table, c)

LEMMA FieldFound ==
    ASSUME NEW fields, ColumnsOK(fields), NEW i \in DOMAIN fields
    PROVE  HasColumn(fields, fields[i].column) /\ FieldAt(fields, fields[i].column) = fields[i]
<1>1. \A j \in DOMAIN fields : fields[j].column = fields[i].column => j = i
  BY DEF ColumnsOK
<1>2. (CHOOSE j \in DOMAIN fields : fields[j].column = fields[i].column) = i
  BY <1>1
<1> QED
  BY <1>2 DEF HasColumn, FieldAt

\* Widening a table leaves what is there.
LEMMA WidenKeeps ==
    ASSUME NEW fields, ColumnsOK(fields), NEW c, NEW key, NEW edge
    PROVE  LET after == Widen(fields, c, key, edge) IN
           /\ ColumnsOK(after) /\ HasColumn(after, c)
           /\ \A x : HasColumn(fields, x) =>
                  HasColumn(after, x) /\ FieldAt(after, x).type = FieldAt(fields, x).type
           /\ \A i \in DOMAIN after : after[i].column = c \/ HasColumn(fields, after[i].column)
           /\ ~HasColumn(fields, c) => FieldAt(after, c).type = key.type
<1> DEFINE after == Widen(fields, c, key, edge)
<1>1. IsList(fields) /\ Len(fields) \in Nat /\ DOMAIN fields = 1..Len(fields)
  BY ListIs DEF ColumnsOK
<1>2. CASE ~HasColumn(fields, c)
  <2> DEFINE f == makeForeignKeyField(c, key, edge)
             n == Len(fields) + 1
  <2>1. after = Append(fields, f)
    BY <1>2 DEF Widen
  <2>2. /\ f.column = c /\ f.type = key.type
        /\ f = [column |-> f.column, type |-> f.type, nullable |-> f.nullable,
                unique |-> f.unique, primary |-> f.primary]
    BY DEF makeForeignKeyField, Field
  <2> HIDE DEF f
  <2>3. /\ after \in Seq(Range(fields) \cup {f}) /\ DOMAIN after = 1..n
        /\ \A i \in DOMAIN fields : after[i] = fields[i]
        /\ after[n] = f
    <3>1. fields \in Seq(Range(fields) \cup {f}) /\ f \in Range(fields) \cup {f}
      BY <1>1, SeqMonotonic DEF IsList
    <3> QED
      BY <1>1, <2>1, <3>1, AppendProperties
  <2>4. IsList(after)
    BY <2>3, ListOf
  <2> HIDE DEF after
  <2>5. \A i \in DOMAIN after : i = n \/ i \in DOMAIN fields
    BY <1>1, <2>3
  <2>6. \A i \in DOMAIN fields : i \in DOMAIN after /\ fields[i].column # c
    BY <1>1, <1>2, <2>3 DEF HasColumn
  <2>7. \A i, j \in DOMAIN after : after[i].column = after[j].column => i = j
    <3> SUFFICES ASSUME NEW i \in DOMAIN after, NEW j \in DOMAIN after, after[i].column = after[j].column
                 PROVE  i = j
      OBVIOUS
    <3>1. CASE i = n \/ j = n
      BY <2>2, <2>3, <2>5, <2>6, <3>1
    <3>2. CASE i \in DOMAIN fields /\ j \in DOMAIN fields
      BY <2>3, <3>2 DEF ColumnsOK
    <3> QED
      BY <2>5, <3>1, <3>2
  <2>8. \A i \in DOMAIN after :
            after[i] = [column |-> after[i].column, type |-> after[i].type, nullable |-> after[i].nullable,
                        unique |-> after[i].unique, primary |-> after[i].primary]
    <3> SUFFICES ASSUME NEW i \in DOMAIN after
                 PROVE  after[i] = [column |-> after[i].column, type |-> after[i].type,
                                    nullable |-> after[i].nullable, unique |-> after[i].unique,
                                    primary |-> after[i].primary]
      OBVIOUS
    <3>1. CASE i = n
      BY <2>2, <2>3, <3>1
    <3>2. CASE i \in DOMAIN fields
      BY <2>3, <3>2 DEF ColumnsOK
    <3> QED
      BY <2>5, <3>1, <3>2
  <2>9. ColumnsOK(after)
    BY <2>4, <2>7, <2>8 DEF ColumnsOK
  <2>10. n \in DOMAIN after
    BY <1>1, <2>3
  <2>11. HasColumn(after, c) /\ FieldAt(after, c) = f
    BY <2>2, <2>3, <2>9, <2>10, FieldFound
  <2>12. ASSUME NEW x, HasColumn(fields, x)
         PROVE  HasColumn(after, x) /\ FieldAt(after, x) = FieldAt(fields, x)
    <3>1. PICK i \in DOMAIN fields : fields[i].column = x
      BY <2>12 DEF HasColumn
    <3>2. FieldAt(fields, x) = fields[i]
      BY <3>1, FieldFound
    <3>3. i \in DOMAIN after /\ after[i] = fields[i]
      BY <2>3, <2>6
    <3>4. HasColumn(after, x) /\ FieldAt(after, x) = after[i]
      BY <2>9, <3>1, <3>3, FieldFound
    <3> QED
      BY <3>2, <3>3, <3>4
  <2>13. \A i \in DOMAIN after : after[i].column = c \/ HasColumn(fields, after[i].column)
    BY <2>2, <2>3, <2>5 DEF HasColumn
  <2> QED
    BY <2>2, <2>9, <2>11, <2>12, <2>13 DEF after
<1>3. CASE HasColumn(fields, c)
  <2> DEFINE wide(i) == IF fields[i].column # c THEN fields[i]
                        ELSE Field(c, fields[i].type, fields[i].nullable \/ edge.nullable,
                                   fields[i].unique \/ edge.unique, fields[i].primary)
  <2>1. after = [i \in DOMAIN fields |-> wide(i)]
    BY <1>3 DEF Widen
  <2>2. ASSUME NEW i \in DOMAIN fields
        PROVE  /\ wide(i).column = fields[i].column /\ wide(i).type = fields[i].type
               /\ wide(i) = [column |-> wide(i).column, type |-> wide(i).type, nullable |-> wide(i).nullable,
                             unique |-> wide(i).unique, primary |-> wide(i).primary]
    <3>1. fields[i] = [column |-> fields[i].column, type |-> fields[i].type,
                        nullable |-> fields[i].nullable, unique |-> fields[i].unique,
                        primary |-> fields[i].primary]
      BY DEF ColumnsOK
    <3>2. CASE fields[i].column # c
      BY <3>1, <3>2
    <3>3. CASE fields[i].column = c
      <4> DEFINE r == Field(c, fields[i].type, fields[i].nullable \/ edge.nullable,
                            fields[i].unique \/ edge.unique, fields[i].primary)
      <4>1. wide(i) = r
        BY <3>3
      <4>2. /\ r.column = fields[i].column /\ r.type = fields[i].type
            /\ r = [column |-> r.column, type |-> r.type, nullable |-> r.nullable,
                    unique |-> r.unique, primary |-> r.primary]
        BY <3>3 DEF Field
      <4> HIDE DEF r
      <4> QED
        BY <4>1, <4>2
    <3> QED
      BY <3>2, <3>3
  <2> HIDE DEF wide
  <2>3. DOMAIN after = DOMAIN fields /\ \A i \in DOMAIN fields : after[i] = wide(i)
    BY <2>1
  <2>4. IsList(after)
    <3>1. after \in [1..Len(fields) -> {wide(i) : i \in DOMAIN fields}]
      BY <1>1, <2>1
    <3>2. after \in Seq({wide(i) : i \in DOMAIN fields})
      BY <1>1, <3>1
    <3> QED
      BY <3>2, ListOf
  <2> HIDE DEF after
  <2>5. \A i \in DOMAIN fields : after[i].column = fields[i].column /\ after[i].type = fields[i].type
    BY <2>2, <2>3
  <2>6. ColumnsOK(after)
    <3>1. \A i, j \in DOMAIN after : after[i].column = after[j].column => i = j
      BY <2>3, <2>5 DEF ColumnsOK
    <3>2. \A i \in DOMAIN after :
              after[i] = [column |-> after[i].column, type |-> after[i].type, nullable |-> after[i].nullable,
                          unique |-> after[i].unique, primary |-> after[i].primary]
      BY <2>2, <2>3
    <3> QED
      BY <2>4, <3>1, <3>2 DEF ColumnsOK
  <2>7. ASSUME NEW x, HasColumn(fields, x)
        PROVE  HasColumn(after, x) /\ FieldAt(after, x).type = FieldAt(fields, x).type
    <3>1. PICK i \in DOMAIN fields : fields[i].column = x
      BY <2>7 DEF HasColumn
    <3>2. FieldAt(fields, x) = fields[i]
      BY <3>1, FieldFound
    <3>3. i \in DOMAIN after /\ after[i].column = x /\ after[i].type = fields[i].type
      BY <2>3, <2>5, <3>1
    <3>4. HasColumn(after, x) /\ FieldAt(after, x) = after[i]
      BY <2>6, <3>3, FieldFound
    <3> QED
      BY <3>2, <3>3, <3>4
  <2>8. \A i \in DOMAIN after : HasColumn(fields, after[i].column)
    BY <2>3, <2>5 DEF HasColumn
  <2> QED
    BY <1>3, <2>6, <2>7, <2>8 DEF after
<1> QED
  BY <1>2, <1>3

\* Nothing is taken from a table.
MoreKeys(table, after) ==
    /\ DOMAIN table.keys \subseteq DOMAIN after.keys
    /\ \A x : HasColumn(table.fields, x) => HasColumn(after.fields, x)

\* A table with one more foreign key, if it is not there already.
Keyed(table, c, name, key, edge) ==
    [fields |-> Widen(table.fields, c, key, edge), keys |-> AddKey(table.keys, c, name, key, edge)]

LEMMA KeyedKeeps ==
    ASSUME NEW es, NEW ent, NEW table, TableOK(es, ent, table),
           NEW m \in DOMAIN es, NEW c \in ColumnsFor(ent, es[m]), NEW edge
    PROVE  LET after == Keyed(table, c, es[m].name, findPrimaryField(es[m]), edge) IN
           TableOK(es, ent, after) /\ MoreKeys(table, after) /\ c \in DOMAIN after.keys
<1> DEFINE key == findPrimaryField(es[m])
           fields == Widen(table.fields, c, key, edge)
           keys == AddKey(table.keys, c, es[m].name, key, edge)
           after == Keyed(table, c, es[m].name, key, edge)
<1>1. after = [fields |-> fields, keys |-> keys] /\ after.fields = fields /\ after.keys = keys
  BY DEF Keyed
<1>2. /\ ColumnsOK(fields) /\ HasColumn(fields, c)
      /\ \A x : HasColumn(table.fields, x) =>
             HasColumn(fields, x) /\ FieldAt(fields, x).type = FieldAt(table.fields, x).type
      /\ \A i \in DOMAIN fields : fields[i].column = c \/ HasColumn(table.fields, fields[i].column)
      /\ ~HasColumn(table.fields, c) => FieldAt(fields, c).type = key.type
  BY WidenKeeps DEF TableOK
<1>3. /\ DOMAIN keys = DOMAIN table.keys \cup {c}
      /\ \A x \in DOMAIN table.keys : keys[x] = table.keys[x]
      /\ c \notin DOMAIN table.keys => keys[c].table = es[m].name /\ keys[c].column = key.column
  BY DEF AddKey
<1> HIDE DEF after, fields, keys, key
<1>4. MoreKeys(table, after) /\ c \in DOMAIN after.keys
  BY <1>1, <1>2, <1>3 DEF MoreKeys
<1>5. \A k \in DOMAIN ent.fields :
          /\ HasColumn(fields, ent.fields[k].column)
          /\ FieldAt(fields, ent.fields[k].column).type = ent.fields[k].type
  BY <1>2 DEF TableOK
<1>6. \A k \in DOMAIN fields : HasColumn(ent.fields, fields[k].column) \/ fields[k].column \in DOMAIN keys
  <2> SUFFICES ASSUME NEW k \in DOMAIN fields, fields[k].column # c
               PROVE  HasColumn(ent.fields, fields[k].column) \/ fields[k].column \in DOMAIN keys
    BY <1>3
  <2>1. PICK i \in DOMAIN table.fields : table.fields[i].column = fields[k].column
    BY <1>2 DEF HasColumn
  <2> QED
    BY <1>3, <2>1 DEF TableOK
<1>7. ASSUME NEW x \in DOMAIN keys PROVE KeyOK(es, ent, after, x)
  <2>1. CASE x \in DOMAIN table.keys
    <3>1. KeyOK(es, ent, table, x)
      BY <2>1 DEF TableOK
    <3>2. HasColumn(table.fields, x) /\ HasColumn(fields, x)
      BY <1>2, <3>1 DEF KeyOK
    <3>3. FieldAt(fields, x).type = FieldAt(table.fields, x).type /\ keys[x] = table.keys[x]
      BY <1>2, <1>3, <2>1, <3>2
    <3> QED
      BY <1>1, <3>1, <3>2, <3>3 DEF KeyOK
  <2>2. CASE x \notin DOMAIN table.keys
    <3>1. x = c /\ keys[c].table = es[m].name /\ keys[c].column = key.column
      BY <1>3, <2>2
    <3>2. HasColumn(ent.fields, c) \/ ~HasColumn(table.fields, c)
      <4> SUFFICES ASSUME HasColumn(table.fields, c) PROVE HasColumn(ent.fields, c)
        OBVIOUS
      <4>1. PICK i \in DOMAIN table.fields : table.fields[i].column = c
        BY DEF HasColumn
      <4> QED
        BY <2>2, <3>1, <4>1 DEF TableOK
    <3>3. HasColumn(ent.fields, c) \/ FieldAt(fields, c).type = findPrimaryField(es[m]).type
      BY <1>2, <3>2 DEF key
    <3> QED
      BY <1>1, <1>2, <3>1, <3>3 DEF KeyOK, key
  <2> QED
    BY <2>1, <2>2
<1>8. TableOK(es, ent, after)
  BY <1>1, <1>2, <1>5, <1>6, <1>7 DEF TableOK
<1> QED
  BY <1>4, <1>8 DEF after, key

-----------------------------------------------------------------------------
(* One edge after the other. *)

Names(es) == {es[i].name : i \in DOMAIN es}

\* A join table is made by an edge that names it.
JoinOK(es, plan, n) ==
    \E s, t \in DOMAIN es : \E e \in Joins(es[s], es[t]) :
        LET join == manyToManyJoinSpec(es[s], e, es[t]) IN
        /\ n = join.name
        /\ plan.joins[n][1].column = join.left /\ plan.joins[n][2].column = join.right

PlanOK(es, plan) ==
    /\ plan = [tables |-> plan.tables, joins |-> plan.joins]
    /\ plan.tables = [n \in Names(es) |-> plan.tables[n]]
    /\ \A i \in DOMAIN es : TableOK(es, es[i], plan.tables[es[i].name])
    /\ \A n \in DOMAIN plan.joins : JoinOK(es, plan, n)

More(es, plan, after) ==
    /\ \A i \in DOMAIN es : MoreKeys(plan.tables[es[i].name], after.tables[es[i].name])
    /\ DOMAIN plan.joins \subseteq DOMAIN after.joins

\* What an edge is to leave in the plan.
Done(es, plan, source, edge) ==
    Known(es, edge.target) =>
        /\ edge.kind = "ToOne" => edgeColumn(edge) \in DOMAIN plan.tables[source.name].keys
        /\ edge.kind = "ToMany" /\ HasColumn(Entity(es, edge.target).fields, edgeRefColumn(source, edge)) =>
               edgeRefColumn(source, edge) \in DOMAIN plan.tables[edge.target].keys
        /\ edge.kind = "ManyToMany" =>
               manyToManyJoinSpec(source, edge, Entity(es, edge.target)).name \in DOMAIN plan.joins

LEMMA MoreSelf == ASSUME NEW es, NEW plan PROVE More(es, plan, plan)
BY DEF More, MoreKeys

LEMMA MoreTwice ==
    ASSUME NEW es, NEW a, NEW b, NEW c, More(es, a, b), More(es, b, c) PROVE More(es, a, c)
BY DEF More, MoreKeys

LEMMA StaysDone ==
    ASSUME NEW es, EntitiesOK(es), NEW a, NEW b, More(es, a, b), NEW s \in DOMAIN es, NEW edge,
           Done(es, a, es[s], edge)
    PROVE  Done(es, b, es[s], edge)
<1> SUFFICES ASSUME Known(es, edge.target) PROVE Done(es, b, es[s], edge)
  BY DEF Done
<1>1. PICK t \in DOMAIN es : es[t].name = edge.target
  BY DEF Known
<1>2. /\ DOMAIN a.tables[es[s].name].keys \subseteq DOMAIN b.tables[es[s].name].keys
      /\ DOMAIN a.tables[edge.target].keys \subseteq DOMAIN b.tables[edge.target].keys
      /\ DOMAIN a.joins \subseteq DOMAIN b.joins
  BY <1>1 DEF More, MoreKeys
<1> QED
  BY <1>2 DEF Done

\* One table of a plan is changed.
LEMMA TableChanged ==
    ASSUME NEW es, EntitiesOK(es), NEW plan, PlanOK(es, plan), NEW t \in DOMAIN es, NEW table,
           TableOK(es, es[t], table), MoreKeys(plan.tables[es[t].name], table)
    PROVE  LET after == [plan EXCEPT !.tables[es[t].name] = table] IN
           /\ PlanOK(es, after) /\ More(es, plan, after) /\ after.tables[es[t].name] = table
<1> DEFINE name == es[t].name
           tables == [plan.tables EXCEPT ![name] = table]
           after == [plan EXCEPT !.tables[name] = table]
<1>1. after = [tables |-> tables, joins |-> plan.joins]
  <2>1. after = [plan EXCEPT !.tables = tables]
    OBVIOUS
  <2> HIDE DEF tables, after
  <2>2. plan = [tables |-> plan.tables, joins |-> plan.joins]
    BY DEF PlanOK
  <2> QED
    BY <2>1, <2>2
<1>2. plan.tables = [n \in Names(es) |-> plan.tables[n]] /\ name \in Names(es)
  BY DEF PlanOK, Names
<1>3. tables = [n \in Names(es) |-> IF n = name THEN table ELSE plan.tables[n]]
  BY <1>2
<1> HIDE DEF after, tables, name
<1>4. after.tables = tables /\ after.joins = plan.joins
  BY <1>1
<1>5. \A i \in DOMAIN es : after.tables[es[i].name] = IF i = t THEN table ELSE plan.tables[es[i].name]
  <2> SUFFICES ASSUME NEW i \in DOMAIN es
               PROVE  after.tables[es[i].name] = IF i = t THEN table ELSE plan.tables[es[i].name]
    OBVIOUS
  <2>1. es[i].name \in Names(es) /\ (es[i].name = name <=> i = t)
    BY DEF EntitiesOK, Names, name
  <2> QED
    BY <1>3, <1>4, <2>1
<1>6. \A n \in DOMAIN after.joins : JoinOK(es, after, n)
  <2>1. \A n \in DOMAIN plan.joins : JoinOK(es, plan, n)
    BY DEF PlanOK
  <2> QED
    BY <1>4, <2>1 DEF JoinOK
<1>7. \A i \in DOMAIN es : TableOK(es, es[i], after.tables[es[i].name])
  <2> SUFFICES ASSUME NEW i \in DOMAIN es PROVE TableOK(es, es[i], after.tables[es[i].name])
    OBVIOUS
  <2>1. CASE i = t
    BY <1>5, <2>1
  <2>2. CASE i # t
    BY <1>5, <2>2 DEF PlanOK
  <2> QED
    BY <2>1, <2>2
<1>8. /\ after = [tables |-> after.tables, joins |-> after.joins]
      /\ after.tables = [n \in Names(es) |-> after.tables[n]]
  BY <1>1, <1>3, <1>4
<1>9. PlanOK(es, after)
  BY <1>6, <1>7, <1>8 DEF PlanOK
<1>10. More(es, plan, after)
  <2>1. \A i \in DOMAIN es : MoreKeys(plan.tables[es[i].name], after.tables[es[i].name])
    <3> SUFFICES ASSUME NEW i \in DOMAIN es
                 PROVE  MoreKeys(plan.tables[es[i].name], after.tables[es[i].name])
      OBVIOUS
    <3>1. CASE i = t
      BY <1>5, <3>1
    <3>2. CASE i # t
      BY <1>5, <3>2 DEF MoreKeys
    <3> QED
      BY <3>1, <3>2
  <2> QED
    BY <1>4, <2>1 DEF More
<1> QED
  BY <1>5, <1>9, <1>10 DEF after, name

LEMMA ToOneKeeps ==
    ASSUME NEW es, EntitiesOK(es), NEW plan, PlanOK(es, plan), NEW s \in DOMAIN es,
           NEW edge \in ToSet(es[s].edges), edge.kind = "ToOne"
    PROVE  LET after == ensureToOneColumn(plan, es, es[s], edge) IN
           PlanOK(es, after) /\ More(es, plan, after) /\ Done(es, after, es[s], edge)
<1> DEFINE after == ensureToOneColumn(plan, es, es[s], edge)
<1>1. CASE ~Known(es, edge.target)
  BY <1>1, MoreSelf DEF ensureToOneColumn, Done
<1>2. CASE Known(es, edge.target)
  <2>1. PICK t \in DOMAIN es : es[t].name = edge.target
    BY <1>2 DEF Known
  <2>2. Entity(es, edge.target) = es[t]
    BY <2>1, EntityFound
  <2> DEFINE c == edgeColumn(edge)
             key == findPrimaryField(es[t])
             table == plan.tables[es[s].name]
             wider == Keyed(table, c, es[t].name, key, edge)
  <2>3. c \in ColumnsFor(es[s], es[t])
    BY <2>1 DEF ColumnsFor
  <2>4. TableOK(es, es[s], table)
    BY DEF PlanOK
  <2>5. TableOK(es, es[s], wider) /\ MoreKeys(table, wider) /\ c \in DOMAIN wider.keys
    <3> HIDE DEF c, table
    <3> QED
      BY <2>3, <2>4, KeyedKeeps
  <2>6. after = [plan EXCEPT !.tables[es[s].name] = wider]
    BY <1>2, <2>1, <2>2 DEF ensureToOneColumn, Keyed
  <2> HIDE DEF wider, after
  <2>7. PlanOK(es, after) /\ More(es, plan, after) /\ after.tables[es[s].name] = wider
    BY <2>5, <2>6, TableChanged
  <2>8. Done(es, after, es[s], edge)
    BY <2>5, <2>7 DEF Done
  <2> QED
    BY <2>7, <2>8 DEF after
<1> QED
  BY <1>1, <1>2

\* Whichever column a to-many edge resolves to is one it may ask for.
LEMMA ResolvedIsFor ==
    ASSUME NEW es, EntitiesOK(es), NEW plan, NEW s \in DOMAIN es, NEW t \in DOMAIN es,
           NEW edge \in ToSet(es[s].edges), edge.kind = "ToMany", edge.target = es[t].name
    PROVE  resolveForeignKeyColumn(plan, es, es[s], edge) \in ColumnsFor(es[t], es[s])
<1> DEFINE edges == es[t].edges
           c == resolveForeignKeyColumn(plan, es, es[s], edge)
           manys == {e \in ToSet(es[s].edges) : e.kind = "ToMany" /\ e.target = es[t].name}
<1>1. Entity(es, edge.target) = es[t]
  BY EntityFound
<1>2. edge \in manys
  OBVIOUS
<1>3. edgeRefColumn(es[s], edge) \in ColumnsFor(es[t], es[s])
  BY <1>2 DEF ColumnsFor
<1>4. CASE c = edgeRefColumn(es[s], edge)
  BY <1>3, <1>4
<1>5. CASE c # edgeRefColumn(es[s], edge)
  <2> DEFINE First(k) == /\ edges[k].name = edge.ref
                         /\ \A m \in 1..(k - 1) : edges[m].name # edge.ref
             n == CHOOSE k \in DOMAIN edges : First(k)
  <2>1. hasEdgeNamed(edges, edge.ref) /\ c = edgeColumn(edges[n])
    BY <1>1, <1>5 DEF resolveForeignKeyColumn
  <2>2. EdgesOK(edges)
    BY DEF EntitiesOK, EntityOK
  <2>3. Len(edges) \in Nat /\ DOMAIN edges = 1..Len(edges)
    BY <2>2, ListIs DEF EdgesOK
  <2>4. PICK k \in DOMAIN edges : edges[k].name = edge.ref
    BY <2>1 DEF hasEdgeNamed
  <2>5. \A m \in 1..(k - 1) : edges[m].name # edge.ref
    <3> SUFFICES ASSUME NEW m \in 1..(k - 1), edges[m].name = edge.ref PROVE FALSE
      OBVIOUS
    <3>1. m \in DOMAIN edges /\ m # k
      BY <2>3
    <3> QED
      BY <2>2, <2>4, <3>1 DEF EdgesOK
  <2>6. n \in DOMAIN edges /\ edges[n].name = edge.ref
    BY <2>4, <2>5
  <2> HIDE DEF n
  <2>7. edges[n] \in ToSet(edges)
    BY <2>6 DEF ToSet
  <2> DEFINE ones == {e \in ToSet(edges) : e.kind = "ToOne" /\ e.target = es[s].name}
             named == {f \in ToSet(edges) : \E e \in manys : f.name = e.ref}
  <2>8. edges[n] \in named
    BY <1>2, <2>6, <2>7
  <2>9. ColumnsFor(es[t], es[s]) = {edgeColumn(e) : e \in ones \cup named}
                                       \cup {edgeRefColumn(es[s], e) : e \in manys}
    BY DEF ColumnsFor
  <2> HIDE DEF named, ones, manys, edges, c
  <2> QED
    BY <2>1, <2>8, <2>9 DEF c
<1> QED
  BY <1>4, <1>5

LEMMA ToManyKeeps ==
    ASSUME NEW es, EntitiesOK(es), NEW plan, PlanOK(es, plan), NEW s \in DOMAIN es,
           NEW edge \in ToSet(es[s].edges), edge.kind = "ToMany"
    PROVE  LET after == ensureToManyColumn(plan, es, es[s], edge) IN
           PlanOK(es, after) /\ More(es, plan, after) /\ Done(es, after, es[s], edge)
<1> DEFINE after == ensureToManyColumn(plan, es, es[s], edge)
<1>1. CASE ~Known(es, edge.target)
  BY <1>1, MoreSelf DEF ensureToManyColumn, Done
<1>2. CASE Known(es, edge.target)
  <2>1. PICK t \in DOMAIN es : es[t].name = edge.target
    BY <1>2 DEF Known
  <2>2. Entity(es, edge.target) = es[t]
    BY <2>1, EntityFound
  <2> DEFINE c == resolveForeignKeyColumn(plan, es, es[s], edge)
             key == findPrimaryField(es[s])
             table == plan.tables[es[t].name]
             wider == Keyed(table, c, es[s].name, key, edge)
  <2>3. c \in ColumnsFor(es[t], es[s])
    BY <2>1, ResolvedIsFor
  <2>4. TableOK(es, es[t], table)
    BY DEF PlanOK
  <2>5. TableOK(es, es[t], wider) /\ MoreKeys(table, wider) /\ c \in DOMAIN wider.keys
    <3> HIDE DEF c, table
    <3> QED
      BY <2>3, <2>4, KeyedKeeps
  <2>6. after = [plan EXCEPT !.tables[es[t].name] = wider]
    BY <1>2, <2>1 DEF ensureToManyColumn, Keyed
  <2>7. HasColumn(es[t].fields, edgeRefColumn(es[s], edge)) => c = edgeRefColumn(es[s], edge)
    <3> SUFFICES ASSUME HasColumn(es[t].fields, edgeRefColumn(es[s], edge))
                 PROVE  c = edgeRefColumn(es[s], edge)
      OBVIOUS
    <3>1. HasColumn(table.fields, edgeRefColumn(es[s], edge))
      BY <2>4 DEF TableOK, HasColumn
    <3> QED
      BY <2>1, <3>1 DEF resolveForeignKeyColumn
  <2> HIDE DEF wider, after, c
  <2>8. PlanOK(es, after) /\ More(es, plan, after) /\ after.tables[es[t].name] = wider
    BY <2>5, <2>6, TableChanged
  <2>9. Done(es, after, es[s], edge)
    BY <2>1, <2>2, <2>5, <2>7, <2>8 DEF Done
  <2> QED
    BY <2>8, <2>9 DEF after
<1> QED
  BY <1>1, <1>2

LEMMA JoinKeeps ==
    ASSUME NEW es, EntitiesOK(es), NEW plan, PlanOK(es, plan), NEW s \in DOMAIN es,
           NEW edge \in ToSet(es[s].edges), edge.kind = "ManyToMany"
    PROVE  LET after == ensureJoinTable(plan, es, es[s], edge) IN
           PlanOK(es, after) /\ More(es, plan, after) /\ Done(es, after, es[s], edge)
<1> DEFINE after == ensureJoinTable(plan, es, es[s], edge)
<1>1. CASE ~Known(es, edge.target)
  BY <1>1, MoreSelf DEF ensureJoinTable, Done
<1>2. CASE Known(es, edge.target)
  <2>1. PICK t \in DOMAIN es : es[t].name = edge.target
    BY <1>2 DEF Known
  <2>2. Entity(es, edge.target) = es[t]
    BY <2>1, EntityFound
  <2> DEFINE join == manyToManyJoinSpec(es[s], edge, es[t])
             Side(column, ent) ==
                 [column |-> column, type |-> findPrimaryField(ent).type, table |-> ent.name,
                  key |-> findPrimaryField(ent).column, onDelete |-> edge.cascade]
             pair == <<Side(join.left, es[s]), Side(join.right, es[t])>>
             joins == [n \in DOMAIN plan.joins \cup {join.name} |->
                          IF n \in DOMAIN plan.joins THEN plan.joins[n] ELSE pair]
  <2>3. CASE join.name \in DOMAIN plan.joins
    BY <1>2, <2>2, <2>3, MoreSelf DEF ensureJoinTable, Done
  <2>4. CASE join.name \notin DOMAIN plan.joins
    <3>1. after = [plan EXCEPT !.joins = joins]
      BY <1>2, <2>2, <2>4 DEF ensureJoinTable
    <3>2. pair[1].column = join.left /\ pair[2].column = join.right
      OBVIOUS
    <3> HIDE DEF pair, join
    <3>3. /\ DOMAIN joins = DOMAIN plan.joins \cup {join.name} /\ joins[join.name] = pair
          /\ \A n \in DOMAIN plan.joins : joins[n] = plan.joins[n]
      BY <2>4
    <3> HIDE DEF joins, after
    <3>4. after.tables = plan.tables /\ after.joins = joins
          /\ after = [tables |-> after.tables, joins |-> after.joins]
      <4>1. plan = [tables |-> plan.tables, joins |-> plan.joins]
        BY DEF PlanOK
      <4> QED
        BY <3>1, <4>1
    <3>5. edge \in Joins(es[s], es[t])
      BY <2>1 DEF Joins
    <3>6. ASSUME NEW n \in DOMAIN after.joins PROVE JoinOK(es, after, n)
      <4>1. CASE n \in DOMAIN plan.joins
        <5>1. JoinOK(es, plan, n) /\ after.joins[n] = plan.joins[n]
          BY <3>3, <3>4, <4>1 DEF PlanOK
        <5> QED
          BY <5>1 DEF JoinOK
      <4>2. CASE n \notin DOMAIN plan.joins
        <5>1. n = join.name /\ after.joins[n] = pair
          BY <3>3, <3>4, <4>2
        <5> QED
          BY <3>2, <3>5, <5>1 DEF JoinOK, join
      <4> QED
        BY <4>1, <4>2
    <3>7. PlanOK(es, after)
      BY <3>4, <3>6 DEF PlanOK
    <3>8. More(es, plan, after)
      BY <3>3, <3>4 DEF More, MoreKeys
    <3>9. Done(es, after, es[s], edge)
      BY <2>2, <3>3, <3>4 DEF Done, join
    <3> QED
      BY <3>7, <3>8, <3>9 DEF after
  <2> QED
    BY <2>3, <2>4
<1> QED
  BY <1>1, <1>2

LEMMA EnsureKeeps ==
    ASSUME NEW es, EntitiesOK(es), NEW plan, PlanOK(es, plan), NEW s \in DOMAIN es,
           NEW k \in DOMAIN es[s].edges
    PROVE  LET after == Ensure(plan, es, es[s], es[s].edges[k]) IN
           PlanOK(es, after) /\ More(es, plan, after) /\ Done(es, after, es[s], es[s].edges[k])
<1> DEFINE edge == es[s].edges[k]
<1>1. edge \in ToSet(es[s].edges) /\ edge.kind \in Kinds
  BY DEF ToSet, EntitiesOK, EntityOK, EdgesOK
<1> HIDE DEF edge
<1>2. CASE edge.kind = "ToOne"
  BY <1>1, <1>2, ToOneKeeps DEF Ensure, edge
<1>3. CASE edge.kind = "ToMany"
  BY <1>1, <1>3, ToManyKeeps DEF Ensure, edge
<1>4. CASE edge.kind = "ManyToMany"
  BY <1>1, <1>4, JoinKeeps DEF Ensure, edge
<1> QED
  BY <1>1, <1>2, <1>3, <1>4 DEF Kinds

AllDone(es, plan, s, n) == \A k \in DOMAIN es[s].edges : k <= n => Done(es, plan, es[s], es[s].edges[k])

LEMMA EnsureAllKeeps ==
    ASSUME NEW es, EntitiesOK(es), NEW plan, PlanOK(es, plan), NEW s \in DOMAIN es
    PROVE  LET after == EnsureAll(plan, es, es[s]) IN
           /\ PlanOK(es, after) /\ More(es, plan, after)
           /\ \A k \in DOMAIN es[s].edges : Done(es, after, es[s], es[s].edges[k])
<1> DEFINE n == Len(es[s].edges)
<1>1. n \in Nat /\ DOMAIN es[s].edges = 1..n
  BY ListIs DEF EntitiesOK, EntityOK, EdgesOK
<1>2. PICK f : /\ f[0] = plan
               /\ \A k \in 1..n : f[k] = Ensure(f[k - 1], es, es[s], es[s].edges[k])
               /\ EnsureAll(plan, es, es[s]) = f[n]
  <2>1. ASSUME NEW source, Len(source.edges) \in Nat
        PROVE  \E f : /\ f[0] = plan
                      /\ \A k \in 1..Len(source.edges) :
                             f[k] = Ensure(f[k - 1], es, source, source.edges[k])
                      /\ EnsureAll(plan, es, source) = f[Len(source.edges)]
    BY <2>1, EnsureAllSteps
  <2> QED
    BY <1>1, <2>1
<1> DEFINE Good(k) == PlanOK(es, f[k]) /\ More(es, plan, f[k]) /\ AllDone(es, f[k], s, k)
           Bad == {k \in 0..n : ~Good(k)}
<1>3. Good(0)
  BY <1>1, <1>2, MoreSelf DEF AllDone
<1>4. ASSUME NEW k \in 1..n, Good(k - 1) PROVE Good(k)
  <2>1. f[k] = Ensure(f[k - 1], es, es[s], es[s].edges[k])
    BY <1>2
  <2>2. PlanOK(es, f[k]) /\ More(es, f[k - 1], f[k]) /\ Done(es, f[k], es[s], es[s].edges[k])
    BY <1>1, <1>4, <2>1, EnsureKeeps
  <2>3. AllDone(es, f[k], s, k)
    <3> SUFFICES ASSUME NEW m \in DOMAIN es[s].edges, m <= k PROVE Done(es, f[k], es[s], es[s].edges[m])
      BY DEF AllDone
    <3>1. CASE m = k
      BY <2>2, <3>1
    <3>2. CASE m # k
      <4>1. m <= k - 1
        BY <1>1, <3>2
      <4>2. Done(es, f[k - 1], es[s], es[s].edges[m])
        BY <1>4, <4>1 DEF AllDone
      <4> QED
        BY <2>2, <4>2, StaysDone
    <3> QED
      BY <3>1, <3>2
  <2> QED
    BY <1>4, <2>2, <2>3, MoreTwice
<1> HIDE DEF Good
<1>5. Bad = {}
  <2> SUFFICES ASSUME Bad # {} PROVE FALSE
    OBVIOUS
  <2>1. PICK k \in Bad : \A m \in Bad : k <= m
    <3>1. Bad \in SUBSET Nat
      BY <1>1
    <3> HIDE DEF Bad
    <3> QED
      BY <3>1, LeastNumber
  <2>2. k # 0 /\ k \in 1..n /\ k - 1 \in 0..n /\ ~ (k <= k - 1)
    BY <1>1, <1>3
  <2> QED
    BY <1>4, <2>1, <2>2
<1>6. Good(n)
  BY <1>1, <1>5
<1>7. \A k \in DOMAIN es[s].edges : Done(es, f[n], es[s], es[s].edges[k])
  BY <1>1, <1>6 DEF Good, AllDone
<1> QED
  BY <1>2, <1>6, <1>7 DEF Good

LEMMA DeclaredPlanOK ==
    ASSUME NEW es, EntitiesOK(es) PROVE PlanOK(es, DeclaredTables(es))
<1> DEFINE plan == DeclaredTables(es)
           tables == [n \in Names(es) |-> [fields |-> Entity(es, n).fields, keys |-> <<>>]]
<1>1. plan = [tables |-> tables, joins |-> <<>>]
  BY DEF DeclaredTables, Names
<1>2. plan.tables = tables /\ plan.joins = <<>> /\ DOMAIN plan.joins = {}
  BY <1>1
<1>3. ASSUME NEW i \in DOMAIN es PROVE TableOK(es, es[i], plan.tables[es[i].name])
  <2> DEFINE table == [fields |-> es[i].fields, keys |-> <<>>]
  <2>1. plan.tables[es[i].name] = table
    BY <1>2, EntityFound DEF Names
  <2>2. FieldsOK(es[i].fields)
    BY DEF EntitiesOK, EntityOK
  <2>3. ColumnsOK(es[i].fields)
    BY <2>2 DEF FieldsOK, ColumnsOK
  <2>4. table.fields = es[i].fields /\ DOMAIN table.keys = {}
    OBVIOUS
  <2>5. \A k \in DOMAIN es[i].fields :
            /\ HasColumn(es[i].fields, es[i].fields[k].column)
            /\ FieldAt(es[i].fields, es[i].fields[k].column) = es[i].fields[k]
    BY <2>3, FieldFound
  <2>6. TableOK(es, es[i], table)
    BY <2>3, <2>4, <2>5 DEF TableOK
  <2> QED
    BY <2>1, <2>6
<1> QED
  BY <1>1, <1>2, <1>3 DEF PlanOK

\* The plan of all edges.
LEMMA PlanMade ==
    ASSUME NEW es, EntitiesOK(es)
    PROVE  /\ PlanOK(es, buildMigrationPlan(es))
           /\ \A s \in DOMAIN es : \A k \in DOMAIN es[s].edges :
                  Done(es, buildMigrationPlan(es), es[s], es[s].edges[k])
<1> DEFINE n == Len(es)
<1>1. n \in Nat /\ DOMAIN es = 1..n
  BY ListIs DEF EntitiesOK
<1>2. PICK f : /\ f[0] = DeclaredTables(es)
               /\ \A k \in 1..n : f[k] = EnsureAll(f[k - 1], es, es[k])
               /\ buildMigrationPlan(es) = f[n]
  BY <1>1, PlanSteps
<1> DEFINE Finished(plan, s) == \A k \in DOMAIN es[s].edges : Done(es, plan, es[s], es[s].edges[k])
           Good(k) == PlanOK(es, f[k]) /\ \A s \in DOMAIN es : s <= k => Finished(f[k], s)
           Bad == {k \in 0..n : ~Good(k)}
<1>3. Good(0)
  BY <1>1, <1>2, DeclaredPlanOK
<1>4. ASSUME NEW k \in 1..n, Good(k - 1) PROVE Good(k)
  <2>1. f[k] = EnsureAll(f[k - 1], es, es[k])
    BY <1>2
  <2>2. PlanOK(es, f[k]) /\ More(es, f[k - 1], f[k]) /\ Finished(f[k], k)
    BY <1>1, <1>4, <2>1, EnsureAllKeeps
  <2>3. ASSUME NEW s \in DOMAIN es, s <= k PROVE Finished(f[k], s)
    <3>1. CASE s = k
      BY <2>2, <3>1
    <3>2. CASE s # k
      <4>1. s <= k - 1
        BY <1>1, <2>3, <3>2
      <4> QED
        BY <1>4, <2>2, <4>1, StaysDone
    <3> QED
      BY <3>1, <3>2
  <2> QED
    BY <2>2, <2>3
<1> HIDE DEF Good
<1>5. Bad = {}
  <2> SUFFICES ASSUME Bad # {} PROVE FALSE
    OBVIOUS
  <2>1. PICK k \in Bad : \A m \in Bad : k <= m
    <3>1. Bad \in SUBSET Nat
      BY <1>1
    <3> HIDE DEF Bad
    <3> QED
      BY <3>1, LeastNumber
  <2>2. k # 0 /\ k \in 1..n /\ k - 1 \in 0..n /\ ~ (k <= k - 1)
    BY <1>1, <1>3
  <2> QED
    BY <1>4, <2>1, <2>2
<1>6. Good(n)
  BY <1>1, <1>5
<1>7. \A s \in DOMAIN es : Finished(f[n], s)
  BY <1>1, <1>6 DEF Good
<1> QED
  BY <1>2, <1>6, <1>7 DEF Good

-----------------------------------------------------------------------------
(* What is planned, and what the loaders search by. *)

LEMMA PrimaryIsField ==
    ASSUME NEW ent, FieldsOK(ent.fields)
    PROVE  \E i \in DOMAIN ent.fields : findPrimaryField(ent) = ent.fields[i]
<1> DEFINE primary == {i \in DOMAIN ent.fields : ent.fields[i].primary}
           first == CHOOSE i \in primary : \A k \in primary : i <= k
<1>1. Len(ent.fields) \in Nat /\ DOMAIN ent.fields = 1..Len(ent.fields) /\ ent.fields # <<>>
  BY ListIs DEF FieldsOK
<1>2. CASE primary = {}
  <2>1. 1 \in DOMAIN ent.fields
    BY <1>1
  <2>2. findPrimaryField(ent) = ent.fields[1]
    BY <1>2 DEF findPrimaryField
  <2> QED
    BY <2>1, <2>2
<1>3. CASE primary # {}
  <2>1. \E i \in primary : \A k \in primary : i <= k
    <3>1. primary \in SUBSET Nat
      BY <1>1
    <3> HIDE DEF primary
    <3> QED
      BY <1>3, <3>1, LeastNumber
  <2>2. first \in primary
    BY <2>1
  <2>3. findPrimaryField(ent) = ent.fields[first]
    BY <1>3 DEF findPrimaryField
  <2> HIDE DEF first
  <2> QED
    BY <2>2, <2>3
<1> QED
  BY <1>2, <1>3

\* A name made of two is one.
LEMMA JoinedNames ==
    ASSUME NEW a, NEW b, IsList(a), IsList(b), a # <<>>
    PROVE  a \o b # <<>>
<1> DEFINE S == Range(a) \cup Range(b)
<1>1. a \in Seq(S) /\ b \in Seq(S)
  BY SeqMonotonic DEF IsList
<1>2. Len(a \o b) = Len(a) + Len(b) /\ a \o b \in Seq(S)
  BY <1>1, ConcatProperties
<1>3. Len(a) \in Nat /\ Len(b) \in Nat /\ Len(a) # 0
  BY <1>1
<1> QED
  BY <1>2, <1>3

LEMMA NamesAreNames ==
    ASSUME NEW es, EntitiesOK(es), NEW s \in DOMAIN es
    PROVE  es[s].name \o findPrimaryField(es[s]).column # NoName
<1>1. /\ IsList(es[s].name) /\ es[s].name # <<>> /\ FieldsOK(es[s].fields)
  BY DEF EntitiesOK, EntityOK
<1>2. PICK i \in DOMAIN es[s].fields : findPrimaryField(es[s]) = es[s].fields[i]
  BY <1>1, PrimaryIsField
<1>3. IsList(findPrimaryField(es[s]).column)
  BY <1>1, <1>2 DEF FieldsOK
<1> QED
  BY <1>1, <1>3, JoinedNames DEF NoName

\* The foreign key on column c has a column, and that of a key to refer to.
KeyIsFit(es, table, c) ==
    LET key == findPrimaryField(Entity(es, table.keys[c].table)) IN
    /\ HasColumn(table.fields, c) /\ table.keys[c].table \in Names(es)
    /\ table.keys[c].column = key.column
    /\ FieldAt(table.fields, c).type = key.type

LEMMA KeyFits ==
    ASSUME NEW es, EntitiesOK(es), TypesAgree(es), NEW plan, PlanOK(es, plan),
           NEW i \in DOMAIN es, NEW c \in DOMAIN plan.tables[es[i].name].keys
    PROVE  KeyIsFit(es, plan.tables[es[i].name], c)
<1> DEFINE table == plan.tables[es[i].name]
<1>1. TableOK(es, es[i], table) /\ KeyOK(es, es[i], table, c)
  BY DEF PlanOK, TableOK
<1>2. PICK m \in DOMAIN es :
          /\ table.keys[c].table = es[m].name
          /\ table.keys[c].column = findPrimaryField(es[m]).column
          /\ c \in ColumnsFor(es[i], es[m])
          /\ HasColumn(es[i].fields, c) \/ FieldAt(table.fields, c).type = findPrimaryField(es[m]).type
  BY <1>1 DEF KeyOK
<1>3. Entity(es, table.keys[c].table) = es[m] /\ table.keys[c].table \in Names(es)
  BY <1>2, EntityFound DEF Names
<1>4. FieldAt(table.fields, c).type = findPrimaryField(es[m]).type
  <2>1. CASE HasColumn(es[i].fields, c)
    <3>1. PICK k \in DOMAIN es[i].fields : es[i].fields[k].column = c
      BY <2>1 DEF HasColumn
    <3>2. FieldAt(table.fields, c).type = es[i].fields[k].type
      BY <1>1, <3>1 DEF TableOK
    <3>3. es[i] \in ToSet(es) /\ es[m] \in ToSet(es) /\ es[i].fields[k] \in ToSet(es[i].fields)
      BY DEF ToSet
    <3>4. es[i].fields[k].type = findPrimaryField(es[m]).type
      BY <1>2, <3>1, <3>3 DEF TypesAgree
    <3> QED
      BY <3>2, <3>4
  <2>2. CASE ~HasColumn(es[i].fields, c)
    BY <1>2, <2>2
  <2> QED
    BY <2>1, <2>2
<1> QED
  BY <1>1, <1>2, <1>3, <1>4 DEF KeyOK, KeyIsFit

LEMMA JoinFits ==
    ASSUME NEW es, EntitiesOK(es), JoinsHaveTwoColumns(es), NEW plan, PlanOK(es, plan),
           NEW n \in DOMAIN plan.joins
    PROVE  plan.joins[n][1].column # plan.joins[n][2].column
<1>1. PICK s, t \in DOMAIN es : \E e \in Joins(es[s], es[t]) :
          LET join == manyToManyJoinSpec(es[s], e, es[t]) IN
          plan.joins[n][1].column = join.left /\ plan.joins[n][2].column = join.right
  BY DEF PlanOK, JoinOK
<1>2. es[s] \in ToSet(es) /\ es[t] \in ToSet(es)
  BY DEF ToSet
<1> QED
  BY <1>1, <1>2 DEF JoinsHaveTwoColumns

LEMMA RefIsName ==
    ASSUME NEW es, EntitiesOK(es), NEW s \in DOMAIN es, NEW edge
    PROVE  edgeRefColumn(es[s], edge) # NoName
BY NamesAreNames DEF edgeRefColumn

LEMMA ColumnIsName ==
    ASSUME NEW edge, IsList(edge.name), edge.kind = "ToOne"
    PROVE  edgeColumn(edge) # NoName
<1>1. Append(edge.name, "id") # <<>>
  <2>1. edge.name \in Seq(Range(edge.name) \cup {"id"})
    BY SeqMonotonic DEF IsList
  <2>2. Len(Append(edge.name, "id")) = Len(edge.name) + 1 /\ Len(edge.name) \in Nat
    BY <2>1, AppendProperties
  <2> QED
    BY <2>2
<1> QED
  BY <1>1 DEF edgeColumn, NoName

\* A to-one edge leaves its column in its table.
LEMMA OneHasColumn ==
    ASSUME NEW es, EntitiesOK(es), NEW s \in DOMAIN es, NEW k \in DOMAIN es[s].edges,
           es[s].edges[k].kind = "ToOne", Known(es, es[s].edges[k].target)
    PROVE  HasColumn(buildMigrationPlan(es).tables[es[s].name].fields, edgeColumn(es[s].edges[k]))
<1> DEFINE plan == buildMigrationPlan(es)
<1>1. PlanOK(es, plan) /\ Done(es, plan, es[s], es[s].edges[k])
  BY PlanMade
<1> HIDE DEF plan
<1>2. edgeColumn(es[s].edges[k]) \in DOMAIN plan.tables[es[s].name].keys
  BY <1>1 DEF Done
<1> QED
  BY <1>1, <1>2 DEF PlanOK, TableOK, KeyOK, plan

LEMMA OneKey ==
    ASSUME EntitiesOK(entities), NoInverseOfUnique(entities), snapshot = buildMigrationPlan(entities),
           NEW i \in DOMAIN entities, NEW j \in DOMAIN entities[i].edges, entities[i].edges[j].generated
    PROVE  LET inverse == entities[i].edges[j]
               source == Entity(entities, inverse.target)
           IN  \E k \in DOMAIN source.edges :
                   /\ source.edges[k].name = inverse.inverse
                   /\ KeyOf(source, source.edges[k]) = KeyOf(entities[i], inverse)
<1> DEFINE es == entities
           inv == es[i].edges[j]
<1>1. PICK s \in DOMAIN es : \E k \in DOMAIN es[s].edges :
          /\ ~es[s].edges[k].generated /\ es[s].edges[k].inverse # NoName
          /\ es[s].edges[k].target = es[i].name
          /\ inv = buildInverseEdge(es[s], es[s].edges[k])
  BY DEF EntitiesOK, Mirrors
<1>2. PICK k \in DOMAIN es[s].edges :
          /\ ~es[s].edges[k].generated /\ es[s].edges[k].inverse # NoName
          /\ es[s].edges[k].target = es[i].name
          /\ inv = buildInverseEdge(es[s], es[s].edges[k])
  BY <1>1
<1> DEFINE e == es[s].edges[k]
<1>3. /\ inv.inverse = e.name /\ inv.target = es[s].name /\ inv.kind = inverseEdgeKind(e)
      /\ inv.column = IF e.kind = "ToMany" THEN edgeRefColumn(es[s], e) ELSE NoName
      /\ e.kind = "ToOne" => inv.ref = edgeColumn(e)
  BY <1>2, InverseIs
<1>4. Entity(es, inv.target) = es[s] /\ Known(es, inv.target) /\ Known(es, e.target)
  BY <1>2, <1>3, EntityFound
<1>5. e.kind \in Kinds /\ IsList(e.name) /\ e \in ToSet(es[s].edges) /\ es[s] \in ToSet(es)
  BY <1>2 DEF EntitiesOK, EntityOK, EdgesOK, ToSet
<1>6. KeyOf(es[s], e) = KeyOf(es[i], inv)
  <2>1. CASE e.kind = "ToOne"
    <3>1. ~e.unique
      BY <1>2, <1>5, <2>1 DEF NoInverseOfUnique
    <3>2. inv.kind = "ToMany"
      BY <1>3, <2>1, <3>1 DEF inverseEdgeKind
    <3>3. edgeColumn(e) # NoName
      BY <1>5, <2>1, ColumnIsName
    <3>4. edgeRefColumn(es[i], inv) = edgeColumn(e)
      BY <1>3, <2>1, <3>3 DEF edgeRefColumn
    <3>5. HasColumn(snapshot.tables[es[s].name].fields, edgeColumn(e))
      BY <1>4, <2>1, OneHasColumn
    <3>6. resolveForeignKeyColumn(snapshot, es, es[i], inv) = edgeColumn(e)
      BY <1>3, <3>4, <3>5 DEF resolveForeignKeyColumn
    <3> QED
      BY <1>3, <2>1, <3>2, <3>6 DEF KeyOf
  <2>2. CASE e.kind = "ToMany"
    <3>1. inv.kind = "ToOne"
      BY <1>3, <2>2 DEF inverseEdgeKind
    <3>2. edgeColumn(inv) = edgeRefColumn(es[s], e)
      BY <1>3, <2>2, RefIsName DEF edgeColumn
    <3>3. HasColumn(snapshot.tables[es[i].name].fields, edgeColumn(inv))
      BY <1>4, <3>1, OneHasColumn
    <3>4. resolveForeignKeyColumn(snapshot, es, es[s], e) = edgeColumn(inv)
      BY <1>2, <3>2, <3>3 DEF resolveForeignKeyColumn
    <3> QED
      BY <1>2, <2>2, <3>1, <3>4 DEF KeyOf
  <2>3. CASE e.kind = "ManyToMany"
    <3>1. inv.kind = "ManyToMany"
      BY <1>3, <2>3 DEF inverseEdgeKind
    <3> QED
      BY <2>3, <3>1 DEF KeyOf
  <2> QED
    BY <1>5, <2>1, <2>2, <2>3 DEF Kinds
<1> QED
  BY <1>3, <1>4, <1>6

-----------------------------------------------------------------------------
(* The loaders. *)

\* What LoadersMatchPlan says of one of them.
LoaderFits(es, plan, l) ==
    IF l.on = NoName
    THEN /\ l.table \in DOMAIN plan.tables
         /\ HasColumn(plan.tables[l.table].fields, l.column)
         /\ \/ l.column = findPrimaryField(Entity(es, l.table)).column
            \/ /\ l.column \in DOMAIN plan.tables[l.table].keys
               /\ plan.tables[l.table].keys[l.column].table = l.source
    ELSE /\ l.table \in DOMAIN plan.joins
         /\ {l.column, l.on} = {plan.joins[l.table][s].column : s \in 1..2}

LEMMA TablesAre ==
    ASSUME NEW es, NEW plan, PlanOK(es, plan), NEW i \in DOMAIN es
    PROVE  es[i].name \in DOMAIN plan.tables /\ TableOK(es, es[i], plan.tables[es[i].name])
<1>1. plan.tables = [n \in Names(es) |-> plan.tables[n]]
  BY DEF PlanOK
<1>2. DOMAIN plan.tables = Names(es)
  BY <1>1
<1> QED
  BY <1>2 DEF PlanOK, Names

LEMMA OneLoaderFits ==
    ASSUME NEW es, EntitiesOK(es), NEW plan, PlanOK(es, plan), NEW s \in DOMAIN es, NEW edge,
           NEW l \in emitToOneLoader(es, es[s], edge)
    PROVE  LoaderFits(es, plan, l)
<1>1. Known(es, edge.target)
  BY DEF emitToOneLoader
<1>2. PICK t \in DOMAIN es : es[t].name = edge.target
  BY <1>1 DEF Known
<1>3. Entity(es, es[t].name) = es[t]
  BY EntityFound
<1>4. l.table = es[t].name /\ l.column = findPrimaryField(es[t]).column /\ l.on = NoName
  BY <1>2, <1>3 DEF emitToOneLoader, Loader
<1>5. PICK k \in DOMAIN es[t].fields : findPrimaryField(es[t]) = es[t].fields[k]
  BY PrimaryIsField DEF EntitiesOK, EntityOK
<1>6. es[t].name \in DOMAIN plan.tables /\ TableOK(es, es[t], plan.tables[es[t].name])
  BY TablesAre
<1>7. HasColumn(plan.tables[es[t].name].fields, l.column)
  BY <1>4, <1>5, <1>6 DEF TableOK
<1> QED
  BY <1>3, <1>4, <1>6, <1>7 DEF LoaderFits

LEMMA ManyLoaderFits ==
    ASSUME NEW es, EntitiesOK(es), OneTargetEach(es), NEW plan, PlanOK(es, plan), NEW s \in DOMAIN es,
           NEW edge \in ToSet(es[s].edges), edge.kind = "ToMany", Done(es, plan, es[s], edge),
           NEW l \in emitToManyLoader(es, es[s], edge)
    PROVE  LoaderFits(es, plan, l)
<1>1. Known(es, edge.target) /\ HasColumn(Entity(es, edge.target).fields, edgeRefColumn(es[s], edge))
  BY DEF emitToManyLoader
<1>2. PICK t \in DOMAIN es : es[t].name = edge.target
  BY <1>1 DEF Known
<1> DEFINE c == edgeRefColumn(es[s], edge)
           table == plan.tables[es[t].name]
<1>3. l.table = es[t].name /\ l.column = c /\ l.on = NoName /\ l.source = es[s].name
  BY <1>1, <1>2 DEF emitToManyLoader, Loader
<1>4. c \in DOMAIN table.keys
  BY <1>1, <1>2 DEF Done
<1>5. es[t].name \in DOMAIN plan.tables /\ TableOK(es, es[t], table)
  BY TablesAre
<1>6. PICK m \in DOMAIN es : table.keys[c].table = es[m].name /\ c \in ColumnsFor(es[t], es[m])
  BY <1>4, <1>5 DEF TableOK, KeyOK
<1>7. HasColumn(table.fields, c)
  BY <1>4, <1>5 DEF TableOK, KeyOK
<1>8. es[m] = es[s]
  <2>1. es[s] \in ToSet(es) /\ es[t] \in ToSet(es) /\ es[m] \in ToSet(es)
    BY DEF ToSet
  <2> QED
    BY <1>2, <1>6, <2>1 DEF OneTargetEach
<1> QED
  BY <1>3, <1>4, <1>5, <1>6, <1>7, <1>8 DEF LoaderFits

\* Two edges that name one join table name its columns alike.
LEMMA SameJoins ==
    ASSUME NEW es, EntitiesOK(es), JoinsAreOfTwo(es),
           NEW s \in DOMAIN es, NEW t \in DOMAIN es, NEW e \in Joins(es[s], es[t]),
           NEW u \in DOMAIN es, NEW v \in DOMAIN es, NEW f \in Joins(es[u], es[v]),
           manyToManyJoinSpec(es[s], e, es[t]).name = manyToManyJoinSpec(es[u], f, es[v]).name
    PROVE  LET a == manyToManyJoinSpec(es[s], e, es[t])
               b == manyToManyJoinSpec(es[u], f, es[v])
           IN  {a.left, a.right} = {b.left, b.right}
<1> DEFINE a == manyToManyJoinSpec(es[s], e, es[t])
           b == manyToManyJoinSpec(es[u], f, es[v])
           Key(x) == x.name \o findPrimaryField(x).column
<1>1. {es[s], es[t]} = {es[u], es[v]}
  <2>1. /\ a.name.given = e.through /\ b.name.given = f.through
        /\ e.through = NoName => a.name.of = {es[s].name, es[t].name}
        /\ f.through = NoName => b.name.of = {es[u].name, es[v].name}
    BY DEF manyToManyJoinSpec
  <2>2. e.through = f.through
    BY <2>1
  <2>3. CASE e.through # NoName
    <3>1. es[s] \in ToSet(es) /\ es[t] \in ToSet(es) /\ es[u] \in ToSet(es) /\ es[v] \in ToSet(es)
      BY DEF ToSet
    <3> QED
      BY <2>2, <2>3, <3>1 DEF JoinsAreOfTwo
  <2>4. CASE e.through = NoName
    <3>1. {es[s].name, es[t].name} = {es[u].name, es[v].name}
      BY <2>1, <2>2, <2>4
    <3>2. \A x, y \in DOMAIN es : es[x].name = es[y].name => x = y
      BY DEF EntitiesOK
    <3>3. \/ es[s].name = es[u].name /\ es[t].name = es[v].name
          \/ es[s].name = es[v].name /\ es[t].name = es[u].name
      BY <3>1
    <3> QED
      BY <3>2, <3>3
  <2> QED
    BY <2>3, <2>4
<1>2. a.left = Key(es[s]) /\ a.right = Key(es[t]) /\ b.left = Key(es[u]) /\ b.right = Key(es[v])
  BY DEF manyToManyJoinSpec
<1>3. \/ es[s] = es[u] /\ es[t] = es[v]
      \/ es[s] = es[v] /\ es[t] = es[u]
  BY <1>1
<1> HIDE DEF a, b, Key
<1>4. {a.left, a.right} = {b.left, b.right}
  BY <1>2, <1>3
<1> QED
  BY <1>4 DEF a, b

LEMMA JoinLoaderFits ==
    ASSUME NEW es, EntitiesOK(es), JoinsAreOfTwo(es), NEW plan, PlanOK(es, plan), NEW s \in DOMAIN es,
           NEW edge \in ToSet(es[s].edges), edge.kind = "ManyToMany", Done(es, plan, es[s], edge),
           NEW l \in emitManyToManyLoader(es, es[s], edge)
    PROVE  LoaderFits(es, plan, l)
<1>1. Known(es, edge.target)
  BY DEF emitManyToManyLoader
<1>2. PICK t \in DOMAIN es : es[t].name = edge.target
  BY <1>1 DEF Known
<1>3. Entity(es, edge.target) = es[t]
  BY <1>2, EntityFound
<1> DEFINE join == manyToManyJoinSpec(es[s], edge, es[t])
<1>4. l.table = join.name /\ l.column = join.left /\ l.on = join.right
  BY <1>1, <1>3 DEF emitManyToManyLoader, Loader
<1>5. l.on # NoName
  BY <1>4, NamesAreNames DEF manyToManyJoinSpec
<1>6. join.name \in DOMAIN plan.joins
  BY <1>1, <1>3 DEF Done
<1>7. JoinOK(es, plan, join.name)
  BY <1>6 DEF PlanOK
<1>8. PICK u, v \in DOMAIN es : \E f \in Joins(es[u], es[v]) :
          LET other == manyToManyJoinSpec(es[u], f, es[v]) IN
          /\ join.name = other.name
          /\ plan.joins[join.name][1].column = other.left /\ plan.joins[join.name][2].column = other.right
  BY <1>7 DEF JoinOK
<1>9. PICK f \in Joins(es[u], es[v]) :
          LET other == manyToManyJoinSpec(es[u], f, es[v]) IN
          /\ join.name = other.name
          /\ plan.joins[join.name][1].column = other.left /\ plan.joins[join.name][2].column = other.right
  BY <1>8
<1>10. edge \in Joins(es[s], es[t])
  BY <1>2 DEF Joins
<1> DEFINE other == manyToManyJoinSpec(es[u], f, es[v])
<1>11. {join.left, join.right} = {other.left, other.right}
  BY <1>9, <1>10, SameJoins
<1>12. {plan.joins[l.table][x].column : x \in 1..2}
           = {plan.joins[l.table][1].column, plan.joins[l.table][2].column}
  <2>1. 1..2 = {1, 2}
    OBVIOUS
  <2> QED
    BY <2>1
<1> HIDE DEF join, other
<1>13. {l.column, l.on} = {plan.joins[l.table][x].column : x \in 1..2}
  BY <1>4, <1>9, <1>11, <1>12 DEF other
<1> QED
  BY <1>4, <1>5, <1>6, <1>13 DEF LoaderFits

LEMMA AllLoadersFit ==
    ASSUME NEW es, EntitiesOK(es), OneTargetEach(es), JoinsAreOfTwo(es),
           NEW l \in emitEdgeLoaders(es)
    PROVE  LoaderFits(es, buildMigrationPlan(es), l)
<1> DEFINE plan == buildMigrationPlan(es)
<1>1. PICK s \in DOMAIN es : \E k \in DOMAIN es[s].edges :
          l \in CASE es[s].edges[k].kind = "ToOne" -> emitToOneLoader(es, es[s], es[s].edges[k])
                  [] es[s].edges[k].kind = "ToMany" -> emitToManyLoader(es, es[s], es[s].edges[k])
                  [] OTHER -> emitManyToManyLoader(es, es[s], es[s].edges[k])
  BY DEF emitEdgeLoaders
<1>2. PICK k \in DOMAIN es[s].edges :
          l \in CASE es[s].edges[k].kind = "ToOne" -> emitToOneLoader(es, es[s], es[s].edges[k])
                  [] es[s].edges[k].kind = "ToMany" -> emitToManyLoader(es, es[s], es[s].edges[k])
                  [] OTHER -> emitManyToManyLoader(es, es[s], es[s].edges[k])
  BY <1>1
<1> DEFINE edge == es[s].edges[k]
<1>3. PlanOK(es, plan) /\ Done(es, plan, es[s], edge)
  BY PlanMade
<1>4. edge \in ToSet(es[s].edges) /\ edge.kind \in Kinds
  BY DEF ToSet, EntitiesOK, EntityOK, EdgesOK
<1>5. /\ edge.kind = "ToOne" => l \in emitToOneLoader(es, es[s], edge)
      /\ edge.kind = "ToMany" => l \in emitToManyLoader(es, es[s], edge)
      /\ edge.kind = "ManyToMany" => l \in emitManyToManyLoader(es, es[s], edge)
  BY <1>2
<1> HIDE DEF plan, edge
<1>6. CASE edge.kind = "ToOne"
  BY <1>3, <1>5, <1>6, OneLoaderFits DEF plan
<1>7. CASE edge.kind = "ToMany"
  BY <1>3, <1>4, <1>5, <1>7, ManyLoaderFits DEF plan
<1>8. CASE edge.kind = "ManyToMany"
  BY <1>3, <1>4, <1>5, <1>8, JoinLoaderFits DEF plan
<1> QED
  BY <1>4, <1>6, <1>7, <1>8 DEF Kinds

-----------------------------------------------------------------------------
(* The invariant. *)

\* The entities of a schema, in some order.
LoadedFrom(es, d) ==
    /\ EntitiesOK(es) /\ Len(es) = Cardinality(DOMAIN d)
    /\ \A i \in DOMAIN es : es[i].name \in DOMAIN d

PlanInv ==
    /\ declaration \in Declarations
    /\ phase \in {"idle", "loaded", "orm", "done", "refused"}
    /\ \A p \in problems : p.problem \in Problems
    /\ phase = "idle" => entities = <<>>
    /\ phase # "idle" => LoadedFrom(entities, declaration)
    /\ phase \in {"loaded", "orm", "done"} =>
           \E es \in Accepted(declaration) : ToSet(entities) = ToSet(es)
    /\ phase \in {"idle", "loaded", "refused"} => loaders = Unset
    /\ phase = "orm" => loaders = emitEdgeLoaders(entities)
    /\ phase = "done" => snapshot = buildMigrationPlan(entities)
    /\ phase = "done" => loaders \in {Unset, emitEdgeLoaders(entities)}

LEMMA ProblemsAre ==
    ASSUME NEW es, NEW p \in validateEntities(es) PROVE p.problem \in Problems
<1>1. ASSUME NEW source, NEW j PROVE EdgeProblems(es, source, j) \subseteq Problems
  BY DEF EdgeProblems, Problems
<1>2. PICK i \in DOMAIN es : \E j \in DOMAIN es[i].edges : \E q \in EdgeProblems(es, es[i], j) :
          p = [entity |-> es[i].name, edge |-> es[i].edges[j].name, problem |-> q]
  BY DEF validateEntities
<1> QED
  BY <1>1, <1>2

LEMMA SameLength ==
    ASSUME NEW m \in Nat, NEW n \in Nat, 1..m = 1..n PROVE m = n
<1>1. (m # 0 => m \in 1..m) /\ (n # 0 => n \in 1..n)
  OBVIOUS
<1> QED
  BY <1>1

LEMMA LoadedIs ==
    ASSUME NEW d \in Declarations, NEW order \in SetToSeqs(DOMAIN d)
    PROVE  LoadedFrom(synthesizeInverseEdges(DeclaredEntities(d, order)), d)
<1> DEFINE es == DeclaredEntities(d, order)
           fs == synthesizeInverseEdges(es)
<1>1. /\ EntitiesOK(es) /\ Len(es) = Cardinality(DOMAIN d)
      /\ \A i \in DOMAIN es : es[i].name \in DOMAIN d
  BY DeclaredOK
<1> HIDE DEF es
<1>2. EntitiesOK(fs) /\ Grown(es, fs)
  BY <1>1, InversesKeep
<1> HIDE DEF fs
<1>3. Len(fs) = Len(es)
  <2>1. /\ Len(fs) \in Nat /\ DOMAIN fs = 1..Len(fs)
        /\ Len(es) \in Nat /\ DOMAIN es = 1..Len(es)
    BY <1>1, <1>2, ListIs DEF EntitiesOK
  <2>2. DOMAIN fs = DOMAIN es
    BY <1>2 DEF Grown
  <2>3. 1..Len(fs) = 1..Len(es)
    BY <2>1, <2>2
  <2> QED
    BY <2>1, <2>3, SameLength
<1>4. LoadedFrom(fs, d)
  BY <1>1, <1>2, <1>3 DEF LoadedFrom, Grown
<1> QED
  BY <1>4 DEF es, fs

LEMMA PlanInitOK == PlanInit => PlanInv
BY DEF PlanInit, PlanInv

LEMMA LoadEntitiesKeeps == ASSUME PlanInv, LoadEntities PROVE PlanInv'
<1>1. PICK order \in SetToSeqs(DOMAIN declaration) :
          /\ entities' = synthesizeInverseEdges(DeclaredEntities(declaration, order))
          /\ problems' = validateEntities(entities')
          /\ phase' = IF problems' = {} THEN "loaded" ELSE "refused"
  BY DEF LoadEntities
<1>2. UNCHANGED <<declaration, snapshot, previous, loaders>> /\ phase = "idle"
  BY DEF LoadEntities
<1>3. LoadedFrom(entities', declaration)
  BY <1>1, LoadedIs DEF PlanInv
<1>4. \A p \in problems' : p.problem \in Problems
  BY <1>1, ProblemsAre
<1>5. phase' = "loaded" => entities' \in Accepted(declaration)
  BY <1>1 DEF Accepted
<1>6. phase' \in {"loaded", "refused"}
  BY <1>1
<1> QED
  BY <1>2, <1>3, <1>4, <1>5, <1>6 DEF PlanInv, LoadedFrom

LEMMA WriteORMKeeps == ASSUME PlanInv, WriteORM PROVE PlanInv'
<1>1. PICK sorted \in SetToSeqs(ToSet(entities)) : entities' = sorted
  BY DEF WriteORM
<1>2. /\ loaders' = emitEdgeLoaders(entities') /\ phase' = "orm" /\ phase = "loaded"
      /\ UNCHANGED <<declaration, problems, snapshot, previous>>
  BY DEF WriteORM
<1>3. EntitiesOK(entities)
  BY <1>2 DEF PlanInv, LoadedFrom
<1>4. EntitiesOK(entities') /\ ToSet(entities') = ToSet(entities) /\ Len(entities') = Len(entities)
  BY <1>1, <1>3, ReorderedOK
<1>5. ASSUME NEW i \in DOMAIN entities' PROVE entities'[i].name \in DOMAIN declaration
  <2>1. entities'[i] \in ToSet(entities)
    BY <1>4 DEF ToSet
  <2>2. PICK k \in DOMAIN entities : entities'[i] = entities[k]
    BY <2>1 DEF ToSet
  <2> QED
    BY <1>2, <2>2 DEF PlanInv, LoadedFrom
<1>6. LoadedFrom(entities', declaration)
  BY <1>2, <1>4, <1>5 DEF PlanInv, LoadedFrom
<1>7. PICK es \in Accepted(declaration) : ToSet(entities) = ToSet(es)
  BY <1>2 DEF PlanInv
<1> QED
  BY <1>2, <1>4, <1>6, <1>7 DEF PlanInv, LoadedFrom

LEMMA BuildSnapshotKeeps == ASSUME PlanInv, BuildSnapshot PROVE PlanInv'
BY DEF PlanInv, BuildSnapshot, LoadedFrom

LEMMA AgainKeeps == ASSUME PlanInv, Again PROVE PlanInv'
BY DEF PlanInv, Again

LEMMA PlanInvAlways == PlanSpec => []PlanInv
<1>1. PlanInv /\ [PlanNext]_planVars => PlanInv'
  <2> SUFFICES ASSUME PlanInv, [PlanNext]_planVars PROVE PlanInv'
    OBVIOUS
  <2>1. CASE PlanNext
    BY <2>1, LoadEntitiesKeeps, WriteORMKeeps, BuildSnapshotKeeps, AgainKeeps DEF PlanNext
  <2>2. CASE UNCHANGED planVars
    BY <2>2 DEF planVars, PlanInv, LoadedFrom
  <2> QED
    BY <2>1, <2>2
<1> QED
  BY <1>1, PlanInitOK, PTL DEF PlanSpec

-----------------------------------------------------------------------------
(* What holds of every run of erm gen, on schemas that make sense.         *)

LEMMA PlanTypes == ASSUME PlanInv PROVE PlanTypeOK
<1>1. CASE phase = "idle"
  BY <1>1 DEF PlanInv, PlanTypeOK
<1>2. CASE phase # "idle"
  <2>1. EntitiesOK(entities)
    BY <1>2 DEF PlanInv, LoadedFrom
  <2>2. \A i \in DOMAIN entities : \A j, k \in DOMAIN entities[i].edges :
            /\ entities[i].edges[j].kind \in Kinds
            /\ entities[i].edges[j].name = entities[i].edges[k].name => j = k
    BY <2>1 DEF EntitiesOK, EntityOK, EdgesOK
  <2> QED
    BY <1>2, <2>2 DEF PlanInv, LoadedFrom, PlanTypeOK
<1> QED
  BY <1>1, <1>2

LEMMA TypesAgreeFor ==
    ASSUME NEW es, NEW fs, ToSet(es) = ToSet(fs) PROVE TypesAgree(es) <=> TypesAgree(fs)
BY DEF TypesAgree

LEMMA TwoColumnsFor ==
    ASSUME NEW es, NEW fs, ToSet(es) = ToSet(fs)
    PROVE  JoinsHaveTwoColumns(es) <=> JoinsHaveTwoColumns(fs)
BY DEF JoinsHaveTwoColumns

LEMMA NoInverseFor ==
    ASSUME NEW es, NEW fs, ToSet(es) = ToSet(fs) PROVE NoInverseOfUnique(es) <=> NoInverseOfUnique(fs)
BY DEF NoInverseOfUnique

LEMMA OneTargetFor ==
    ASSUME NEW es, NEW fs, ToSet(es) = ToSet(fs) PROVE OneTargetEach(es) <=> OneTargetEach(fs)
BY DEF OneTargetEach

LEMMA OfTwoFor ==
    ASSUME NEW es, NEW fs, ToSet(es) = ToSet(fs) PROVE JoinsAreOfTwo(es) <=> JoinsAreOfTwo(fs)
BY DEF JoinsAreOfTwo

\* What PlanIsWellFormed says of a plan.
LEMMA WellFormed ==
    ASSUME EntitiesOK(entities), TypesAgree(entities), JoinsHaveTwoColumns(entities),
           snapshot = buildMigrationPlan(entities), PlanTypeOK
    PROVE  PlanIsWellFormed
<1>1. PlanOK(entities, snapshot)
  BY PlanMade
<1>2. snapshot.tables = [n \in Names(entities) |-> snapshot.tables[n]]
  BY <1>1 DEF PlanOK
<1>3. DOMAIN snapshot.tables = Names(entities)
  BY <1>2
<1>4. ASSUME NEW t \in DOMAIN snapshot.tables
      PROVE  LET table == snapshot.tables[t] IN
             /\ \A i, j \in DOMAIN table.fields :
                    table.fields[i].column = table.fields[j].column => i = j
             /\ \A c \in DOMAIN table.keys :
                    /\ HasColumn(table.fields, c)
                    /\ table.keys[c].table \in DOMAIN snapshot.tables
                    /\ LET key == findPrimaryField(Entity(entities, table.keys[c].table)) IN
                       /\ table.keys[c].column = key.column
                       /\ FieldAt(table.fields, c).type = key.type
  <2>1. PICK i \in DOMAIN entities : t = entities[i].name
    BY <1>3 DEF Names
  <2>2. TableOK(entities, entities[i], snapshot.tables[t])
    BY <1>1, <2>1 DEF PlanOK
  <2>3. \A k, m \in DOMAIN snapshot.tables[t].fields :
            snapshot.tables[t].fields[k].column = snapshot.tables[t].fields[m].column => k = m
    BY <2>2 DEF TableOK, ColumnsOK
  <2>4. ASSUME NEW c \in DOMAIN snapshot.tables[t].keys
        PROVE  KeyIsFit(entities, snapshot.tables[t], c)
    BY <1>1, <2>1, KeyFits
  <2> QED
    BY <1>3, <2>3, <2>4 DEF KeyIsFit
<1>5. \A n \in DOMAIN snapshot.joins : snapshot.joins[n][1].column # snapshot.joins[n][2].column
  BY <1>1, JoinFits
<1> QED
  BY <1>4, <1>5 DEF PlanIsWellFormed

\* The tables of the schema snapshot can be created, whichever order the
\* entities came in and whether or not the ORM component sorted them
\* (generator/migrations.go, ensureEdgeColumns): PlanIsWellFormed.  The
\* hypothesis is what validateEntities does not look at.
THEOREM PlanIsWellFormedAlways ==
    ASSUME \A d \in Declarations : \A es \in Accepted(d) : TypesAgree(es) /\ JoinsHaveTwoColumns(es)
    PROVE  PlanSpec => []PlanIsWellFormed
<1>1. ASSUME PlanInv PROVE PlanIsWellFormed
  <2>1. PlanTypeOK
    BY <1>1, PlanTypes
  <2>2. CASE phase # "done"
    BY <2>1, <2>2 DEF PlanIsWellFormed, Planned
  <2>3. CASE phase = "done"
    <3>1. /\ EntitiesOK(entities) /\ snapshot = buildMigrationPlan(entities)
          /\ \E es \in Accepted(declaration) : ToSet(entities) = ToSet(es)
      BY <1>1, <2>3 DEF PlanInv, LoadedFrom
    <3>2. TypesAgree(entities) /\ JoinsHaveTwoColumns(entities)
      BY <1>1, <3>1, TypesAgreeFor, TwoColumnsFor DEF PlanInv
    <3> QED
      BY <2>1, <3>1, <3>2, WellFormed
  <2> QED
    BY <2>2, <2>3
<1> QED
  BY <1>1, PlanInvAlways, PTL

\* A relation and the inverse made for it keep one foreign key between them
\* (generator/parser.go, buildInverseEdge; generator/migrations.go,
\* resolveForeignKeyColumn): OneKeyPerRelation.  The exception is a
\* one-to-one relation, each end of which gets a key.
THEOREM OneKeyPerRelationAlways ==
    ASSUME \A d \in Declarations : \A es \in Accepted(d) : NoInverseOfUnique(es)
    PROVE  PlanSpec => []OneKeyPerRelation
<1>1. ASSUME PlanInv PROVE OneKeyPerRelation
  <2>1. CASE phase # "done"
    BY <2>1 DEF OneKeyPerRelation, Planned
  <2>2. CASE phase = "done"
    <3>1. /\ EntitiesOK(entities) /\ snapshot = buildMigrationPlan(entities)
          /\ \E es \in Accepted(declaration) : ToSet(entities) = ToSet(es)
      BY <1>1, <2>2 DEF PlanInv, LoadedFrom
    <3>2. NoInverseOfUnique(entities)
      BY <1>1, <3>1, NoInverseFor DEF PlanInv
    <3> QED
      BY <3>1, <3>2, OneKey DEF OneKeyPerRelation
  <2> QED
    BY <2>1, <2>2
<1> QED
  BY <1>1, PlanInvAlways, PTL

\* What a Load method searches by is there after the migration, and is the
\* foreign key of its relation (generator/orm.go, emitEdgeLoaders, against
\* generator/migrations.go): LoadersMatchPlan.
THEOREM LoadersMatchPlanAlways ==
    ASSUME \A d \in Declarations : \A es \in Accepted(d) : OneTargetEach(es) /\ JoinsAreOfTwo(es)
    PROVE  PlanSpec => []LoadersMatchPlan
<1>1. ASSUME PlanInv PROVE LoadersMatchPlan
  <2>1. CASE phase # "done"
    BY <2>1 DEF LoadersMatchPlan, Planned
  <2>2. CASE phase = "done" /\ loaders # Unset
    <3>1. /\ EntitiesOK(entities) /\ snapshot = buildMigrationPlan(entities)
          /\ loaders = emitEdgeLoaders(entities)
          /\ \E es \in Accepted(declaration) : ToSet(entities) = ToSet(es)
      BY <1>1, <2>2 DEF PlanInv, LoadedFrom
    <3>2. OneTargetEach(entities) /\ JoinsAreOfTwo(entities)
      BY <1>1, <3>1, OneTargetFor, OfTwoFor DEF PlanInv
    <3>3. \A l \in loaders : LoaderFits(entities, snapshot, l)
      BY <3>1, <3>2, AllLoadersFit
    <3> QED
      BY <3>3 DEF LoadersMatchPlan, LoaderFits
  <2>3. CASE loaders = Unset
    BY <2>3 DEF LoadersMatchPlan
  <2> QED
    BY <2>1, <2>2, <2>3
<1> QED
  BY <1>1, PlanInvAlways, PTL

-----------------------------------------------------------------------------
(* The plan, whatever order the entities come in. *)

\* What widening makes of each column.
LEMMA WidenIs ==
    ASSUME NEW fields, ColumnsOK(fields), NEW c, NEW key, NEW edge
    PROVE  LET after == Widen(fields, c, key, edge) IN
           /\ ColumnsOK(after)
           /\ \A x : HasColumn(after, x) <=> HasColumn(fields, x) \/ x = c
           /\ \A x : HasColumn(fields, x) /\ x # c => FieldAt(after, x) = FieldAt(fields, x)
           /\ HasColumn(fields, c) =>
                  LET f == FieldAt(fields, c) IN
                  FieldAt(after, c) = Field(c, f.type, f.nullable \/ edge.nullable,
                                            f.unique \/ edge.unique, f.primary)
           /\ ~HasColumn(fields, c) => FieldAt(after, c) = makeForeignKeyField(c, key, edge)
<1> DEFINE after == Widen(fields, c, key, edge)
<1>1. /\ ColumnsOK(after) /\ HasColumn(after, c)
      /\ \A x : HasColumn(fields, x) => HasColumn(after, x)
      /\ \A i \in DOMAIN after : after[i].column = c \/ HasColumn(fields, after[i].column)
  BY WidenKeeps
<1>2. \A x : HasColumn(after, x) <=> HasColumn(fields, x) \/ x = c
  BY <1>1 DEF HasColumn
<1>3. CASE ~HasColumn(fields, c)
  <2> DEFINE f == makeForeignKeyField(c, key, edge)
  <2>1. after = Append(fields, f) /\ f.column = c
    BY <1>3 DEF Widen, makeForeignKeyField, Field
  <2> HIDE DEF f
  <2>2. IsList(fields) /\ Len(fields) \in Nat /\ DOMAIN fields = 1..Len(fields)
    BY ListIs DEF ColumnsOK
  <2>3. /\ DOMAIN after = 1..(Len(fields) + 1)
        /\ \A i \in DOMAIN fields : after[i] = fields[i]
        /\ after[Len(fields) + 1] = f
    <3>1. fields \in Seq(Range(fields) \cup {f}) /\ f \in Range(fields) \cup {f}
      BY <2>2, SeqMonotonic DEF IsList
    <3> QED
      BY <2>1, <2>2, <3>1, AppendProperties
  <2> HIDE DEF after
  <2>4. FieldAt(after, c) = f
    <3>1. Len(fields) + 1 \in DOMAIN after
      BY <2>2, <2>3
    <3> QED
      BY <1>1, <2>1, <2>3, <3>1, FieldFound
  <2>5. ASSUME NEW x, HasColumn(fields, x) PROVE FieldAt(after, x) = FieldAt(fields, x)
    <3>1. PICK i \in DOMAIN fields : fields[i].column = x
      BY <2>5 DEF HasColumn
    <3>2. i \in DOMAIN after /\ after[i] = fields[i]
      BY <2>2, <2>3
    <3>3. FieldAt(after, after[i].column) = after[i]
      BY <1>1, <3>2, FieldFound
    <3>4. FieldAt(fields, fields[i].column) = fields[i]
      BY FieldFound
    <3> QED
      BY <3>1, <3>2, <3>3, <3>4
  <2> QED
    BY <1>1, <1>2, <1>3, <2>4, <2>5 DEF f, after
<1>4. CASE HasColumn(fields, c)
  <2> DEFINE Widened(f) == Field(c, f.type, f.nullable \/ edge.nullable, f.unique \/ edge.unique, f.primary)
  <2>1. after = [i \in DOMAIN fields |-> IF fields[i].column # c THEN fields[i] ELSE Widened(fields[i])]
    BY <1>4 DEF Widen
  <2>2. \A f : Widened(f).column = c
    BY DEF Field
  <2> HIDE DEF Widened, after
  <2>3. ASSUME NEW i \in DOMAIN fields
        PROVE  /\ i \in DOMAIN after /\ FieldAt(fields, fields[i].column) = fields[i]
               /\ FieldAt(after, fields[i].column) =
                      IF fields[i].column # c THEN fields[i] ELSE Widened(fields[i])
    <3>1. i \in DOMAIN after /\ after[i] = IF fields[i].column # c THEN fields[i] ELSE Widened(fields[i])
      BY <2>1
    <3>2. after[i].column = fields[i].column
      BY <2>2, <3>1
    <3>3. FieldAt(after, after[i].column) = after[i]
      BY <1>1, <3>1, FieldFound
    <3>4. FieldAt(fields, fields[i].column) = fields[i]
      BY FieldFound
    <3> QED
      BY <3>1, <3>2, <3>3, <3>4
  <2>4. FieldAt(after, c) = Widened(FieldAt(fields, c))
    <3>1. PICK i \in DOMAIN fields : fields[i].column = c
      BY <1>4 DEF HasColumn
    <3> QED
      BY <2>3, <3>1
  <2>5. ASSUME NEW x, HasColumn(fields, x), x # c PROVE FieldAt(after, x) = FieldAt(fields, x)
    <3>1. PICK i \in DOMAIN fields : fields[i].column = x
      BY <2>5 DEF HasColumn
    <3> QED
      BY <2>3, <2>5, <3>1
  <2> QED
    BY <1>1, <1>2, <1>4, <2>4, <2>5 DEF Widened, after
<1> QED
  BY <1>3, <1>4

\* Whether one of the requests for a column makes it nullable, or unique.
AskedNullable(D, t, c) == \E r \in D : r.table = t /\ r.column = c /\ r.nullable
AskedUnique(D, t, c) == \E r \in D : r.table = t /\ r.column = c /\ r.unique
AskedColumn(D, t, c) == \E r \in D : r.table = t /\ r.column = c

\* The requests of a plan: each is a column of a table, and those for one
\* column differ only in whether it is nullable and unique.
RequestsOK(D) ==
    /\ \A r \in D : r.nullable \in BOOLEAN /\ r.unique \in BOOLEAN
    /\ \A r, q \in D : r.table = q.table /\ r.column = q.column =>
           r.of = q.of /\ r.key = q.key /\ r.onDelete = q.onDelete

\* The table of an entity when the requests D have been met.
FieldsAre(ent, D, fields) ==
    /\ ColumnsOK(fields)
    /\ \A c : HasColumn(fields, c) <=> HasColumn(ent.fields, c) \/ AskedColumn(D, ent.name, c)
    /\ \A c : HasColumn(ent.fields, c) =>
           LET f == FieldAt(ent.fields, c) IN
           FieldAt(fields, c) = Field(c, f.type, f.nullable \/ AskedNullable(D, ent.name, c),
                                      f.unique \/ AskedUnique(D, ent.name, c), f.primary)
    /\ \A r \in D : r.table = ent.name /\ ~HasColumn(ent.fields, r.column) =>
           FieldAt(fields, r.column) =
               Field(r.column, r.key.type, AskedNullable(D, ent.name, r.column),
                     AskedUnique(D, ent.name, r.column), FALSE)

KeysAre(ent, D, keys) ==
    /\ keys = [c \in DOMAIN keys |-> keys[c]]
    /\ \A c : c \in DOMAIN keys <=> AskedColumn(D, ent.name, c)
    /\ \A r \in D : r.table = ent.name =>
           keys[r.column] = [table |-> r.of, column |-> r.key.column, onDelete |-> r.onDelete]

LEMMA KeysMet ==
    ASSUME NEW ent, NEW D, NEW r, RequestsOK(D \cup {r}), r.table = ent.name,
           NEW keys, KeysAre(ent, D, keys), NEW edge, edge.cascade = r.onDelete
    PROVE  KeysAre(ent, D \cup {r}, AddKey(keys, r.column, r.of, r.key, edge))
<1> DEFINE c == r.column
           key == [table |-> r.of, column |-> r.key.column, onDelete |-> r.onDelete]
           after == AddKey(keys, c, r.of, r.key, edge)
<1>1. \A x : AskedColumn(D \cup {r}, ent.name, x) <=> AskedColumn(D, ent.name, x) \/ x = c
  BY DEF AskedColumn
<1>2. \A q \in D : q.table = ent.name /\ q.column = c =>
          q.of = r.of /\ q.key = r.key /\ q.onDelete = r.onDelete
  BY DEF RequestsOK
<1>3. CASE c \in DOMAIN keys
  <2>1. after = keys
    BY <1>3 DEF AddKey
  <2>2. PICK q \in D : q.table = ent.name /\ q.column = c
    BY <1>3 DEF KeysAre, AskedColumn
  <2>3. keys[c] = key
    <3>1. keys[c] = [table |-> q.of, column |-> q.key.column, onDelete |-> q.onDelete]
      BY <2>2 DEF KeysAre
    <3> QED
      BY <1>2, <2>2, <3>1
  <2> QED
    BY <1>1, <1>3, <2>1, <2>3 DEF KeysAre
<1>4. CASE c \notin DOMAIN keys
  <2>1. after = [x \in DOMAIN keys \cup {c} |-> IF x \in DOMAIN keys THEN keys[x] ELSE key]
    BY <1>4 DEF AddKey
  <2> HIDE DEF key, after
  <2>2. /\ DOMAIN after = DOMAIN keys \cup {c} /\ after[c] = key
        /\ \A x \in DOMAIN keys : after[x] = keys[x]
        /\ after = [x \in DOMAIN after |-> after[x]]
    BY <1>4, <2>1
  <2>3. \A x : x \in DOMAIN after <=> AskedColumn(D \cup {r}, ent.name, x)
    BY <1>1, <2>2 DEF KeysAre
  <2>4. ASSUME NEW q \in D \cup {r}, q.table = ent.name
        PROVE  after[q.column] = [table |-> q.of, column |-> q.key.column, onDelete |-> q.onDelete]
    <3>1. CASE q = r
      BY <2>2, <3>1 DEF key
    <3>2. CASE q \in D
      <4>1. q.column \in DOMAIN keys
        BY <2>4, <3>2 DEF KeysAre, AskedColumn
      <4> QED
        BY <2>2, <2>4, <3>2, <4>1 DEF KeysAre
    <3> QED
      BY <3>1, <3>2
  <2> QED
    BY <2>2, <2>3, <2>4 DEF KeysAre, after
<1> QED
  BY <1>3, <1>4

LEMMA FieldsMet ==
    ASSUME NEW ent, FieldsOK(ent.fields), NEW D, NEW r, RequestsOK(D \cup {r}), r.table = ent.name,
           NEW fields, FieldsAre(ent, D, fields),
           NEW edge, edge.nullable = r.nullable, edge.unique = r.unique
    PROVE  FieldsAre(ent, D \cup {r}, Widen(fields, r.column, r.key, edge))
<1> DEFINE c == r.column
           E == D \cup {r}
           t == ent.name
           after == Widen(fields, c, r.key, edge)
<1>1. /\ ColumnsOK(after)
      /\ \A x : HasColumn(after, x) <=> HasColumn(fields, x) \/ x = c
      /\ \A x : HasColumn(fields, x) /\ x # c => FieldAt(after, x) = FieldAt(fields, x)
      /\ HasColumn(fields, c) =>
             LET f == FieldAt(fields, c) IN
             FieldAt(after, c) = Field(c, f.type, f.nullable \/ edge.nullable,
                                       f.unique \/ edge.unique, f.primary)
      /\ ~HasColumn(fields, c) => FieldAt(after, c) = makeForeignKeyField(c, r.key, edge)
  BY WidenIs DEF FieldsAre
<1>2. /\ \A x : AskedColumn(E, t, x) <=> AskedColumn(D, t, x) \/ x = c
      /\ \A x : x # c => /\ AskedNullable(E, t, x) <=> AskedNullable(D, t, x)
                         /\ AskedUnique(E, t, x) <=> AskedUnique(D, t, x)
      /\ AskedNullable(E, t, c) <=> AskedNullable(D, t, c) \/ r.nullable
      /\ AskedUnique(E, t, c) <=> AskedUnique(D, t, c) \/ r.unique
  BY DEF AskedColumn, AskedNullable, AskedUnique
<1>3. /\ \A q \in D : q.table = t /\ q.column = c => q.key = r.key
      /\ r.nullable \in BOOLEAN /\ r.unique \in BOOLEAN
  BY DEF RequestsOK
<1>4. \A n, u, p, x, y : LET f == Field(x, y, n, u, p) IN
          f.column = x /\ f.type = y /\ f.nullable = n /\ f.unique = u /\ f.primary = p
  BY DEF Field
<1> HIDE DEF after, c, t
<1>5. \A x : HasColumn(after, x) <=> HasColumn(ent.fields, x) \/ AskedColumn(E, t, x)
  BY <1>1, <1>2 DEF FieldsAre, t
<1>6. ASSUME NEW x, HasColumn(ent.fields, x)
      PROVE  LET f == FieldAt(ent.fields, x) IN
             FieldAt(after, x) = Field(x, f.type, f.nullable \/ AskedNullable(E, t, x),
                                       f.unique \/ AskedUnique(E, t, x), f.primary)
  <2> DEFINE f == FieldAt(ent.fields, x)
             g == FieldAt(fields, x)
  <2>1. /\ HasColumn(fields, x)
        /\ g = Field(x, f.type, f.nullable \/ AskedNullable(D, t, x),
                     f.unique \/ AskedUnique(D, t, x), f.primary)
    BY <1>6 DEF FieldsAre, t
  <2>2. CASE x # c
    <3>1. FieldAt(after, x) = g
      BY <1>1, <2>1, <2>2
    <3>2. (AskedNullable(E, t, x) <=> AskedNullable(D, t, x)) /\ (AskedUnique(E, t, x) <=> AskedUnique(D, t, x))
      BY <1>2, <2>2
    <3>3. /\ (f.nullable \/ AskedNullable(D, t, x)) = (f.nullable \/ AskedNullable(E, t, x))
          /\ (f.unique \/ AskedUnique(D, t, x)) = (f.unique \/ AskedUnique(E, t, x))
      BY <3>2
    <3> QED
      BY <2>1, <3>1, <3>3
  <2>3. CASE x = c
    <3>1. FieldAt(after, x) = Field(x, g.type, g.nullable \/ r.nullable, g.unique \/ r.unique, g.primary)
      BY <1>1, <2>1, <2>3
    <3>2. /\ g.type = f.type /\ g.nullable = (f.nullable \/ AskedNullable(D, t, x))
          /\ g.unique = (f.unique \/ AskedUnique(D, t, x)) /\ g.primary = f.primary
      <4> HIDE DEF f
      <4> QED
        BY <1>4, <2>1
    <3>3. /\ (g.nullable \/ r.nullable) = (f.nullable \/ AskedNullable(E, t, x))
          /\ (g.unique \/ r.unique) = (f.unique \/ AskedUnique(E, t, x))
      <4> HIDE DEF f, g
      <4> QED
        BY <1>2, <2>3, <3>2
    <3> QED
      BY <3>1, <3>2, <3>3
  <2> QED
    BY <2>2, <2>3
<1>7. ASSUME NEW q \in E, q.table = t, ~HasColumn(ent.fields, q.column)
      PROVE  FieldAt(after, q.column) =
                 Field(q.column, q.key.type, AskedNullable(E, t, q.column),
                       AskedUnique(E, t, q.column), FALSE)
  <2> DEFINE x == q.column
             g == FieldAt(fields, x)
  <2>1. ASSUME NEW p \in D, p.table = t, p.column = x
        PROVE  HasColumn(fields, x) /\ g = Field(x, p.key.type, AskedNullable(D, t, x), AskedUnique(D, t, x), FALSE)
    BY <1>7, <2>1 DEF FieldsAre, AskedColumn, t
  <2>2. CASE x # c
    <3>1. q \in D
      BY <2>2 DEF c
    <3>2. HasColumn(fields, x) /\ g = Field(x, q.key.type, AskedNullable(D, t, x), AskedUnique(D, t, x), FALSE)
      BY <1>7, <2>1, <3>1
    <3>3. FieldAt(after, x) = g
      BY <1>1, <2>2, <3>2
    <3>4. AskedNullable(E, t, x) = AskedNullable(D, t, x) /\ AskedUnique(E, t, x) = AskedUnique(D, t, x)
      <4>1. (AskedNullable(E, t, x) <=> AskedNullable(D, t, x)) /\ (AskedUnique(E, t, x) <=> AskedUnique(D, t, x))
        BY <1>2, <2>2
      <4> QED
        BY <4>1 DEF AskedNullable, AskedUnique
    <3> QED
      BY <3>2, <3>3, <3>4
  <2>3. CASE x = c /\ AskedColumn(D, t, c)
    <3>1. PICK p \in D : p.table = t /\ p.column = x
      BY <2>3 DEF AskedColumn
    <3>2. HasColumn(fields, x) /\ g = Field(x, p.key.type, AskedNullable(D, t, x), AskedUnique(D, t, x), FALSE)
      BY <2>1, <3>1
    <3>3. p.key = q.key
      <4>1. p \in E /\ q \in E /\ p.table = q.table /\ p.column = q.column
        BY <1>7, <3>1
      <4> QED
        BY <4>1 DEF RequestsOK
    <3>4. FieldAt(after, x) = Field(x, g.type, g.nullable \/ r.nullable, g.unique \/ r.unique, g.primary)
      BY <1>1, <2>3, <3>2
    <3>5. /\ g.type = q.key.type /\ g.nullable = AskedNullable(D, t, x)
          /\ g.unique = AskedUnique(D, t, x) /\ g.primary = FALSE
      <4> DEFINE h == Field(x, p.key.type, AskedNullable(D, t, x), AskedUnique(D, t, x), FALSE)
      <4>1. /\ h.type = p.key.type /\ h.nullable = AskedNullable(D, t, x)
            /\ h.unique = AskedUnique(D, t, x) /\ h.primary = FALSE
        BY DEF Field
      <4>2. g = h
        BY <3>2
      <4> HIDE DEF g, x, h
      <4> QED
        BY <3>3, <4>1, <4>2
    <3>6. /\ (g.nullable \/ r.nullable) = AskedNullable(E, t, x)
          /\ (g.unique \/ r.unique) = AskedUnique(E, t, x)
      <4>1. /\ AskedNullable(E, t, x) <=> AskedNullable(D, t, x) \/ r.nullable
            /\ AskedUnique(E, t, x) <=> AskedUnique(D, t, x) \/ r.unique
        BY <1>2, <2>3
      <4> HIDE DEF g, x
      <4> QED
        BY <3>5, <4>1 DEF AskedNullable, AskedUnique
    <3> QED
      BY <3>4, <3>5, <3>6
  <2>4. CASE x = c /\ ~AskedColumn(D, t, c)
    <3>1. ~HasColumn(fields, c)
      BY <1>7, <2>4 DEF FieldsAre, t
    <3>2. FieldAt(after, x) = Field(x, r.key.type, r.nullable, r.unique, FALSE)
      BY <1>1, <2>4, <3>1 DEF makeForeignKeyField
    <3>3. q = r
      BY <1>7, <2>4 DEF AskedColumn
    <3>4. AskedNullable(E, t, x) = r.nullable /\ AskedUnique(E, t, x) = r.unique
      <4>1. ~AskedNullable(D, t, c) /\ ~AskedUnique(D, t, c)
        BY <2>4 DEF AskedColumn, AskedNullable, AskedUnique
      <4>2. (AskedNullable(E, t, x) <=> r.nullable) /\ (AskedUnique(E, t, x) <=> r.unique)
        BY <1>2, <2>4, <4>1
      <4> HIDE DEF x
      <4> QED
        BY <1>3, <4>2 DEF AskedNullable, AskedUnique
    <3> QED
      BY <3>2, <3>3, <3>4
  <2> QED
    BY <2>2, <2>3, <2>4
<1> QED
  BY <1>1, <1>5, <1>6, <1>7 DEF FieldsAre, after, t, c

-----------------------------------------------------------------------------
(* What the edges have asked for so far is what the plan holds. *)

JoinsAre(J, joins) ==
    /\ \A n : n \in DOMAIN joins <=> \E r \in J : r.name = n
    /\ \A r \in J : ToSet(joins[r.name]) = r.sides

PlanIs(es, D, J, plan) ==
    /\ PlanOK(es, plan)
    /\ \A i \in DOMAIN es :
           /\ FieldsAre(es[i], D, plan.tables[es[i].name].fields)
           /\ KeysAre(es[i], D, plan.tables[es[i].name].keys)
    /\ JoinsAre(J, plan.joins)

\* The edges of loaded entities are nullable and unique, or not.
EdgesAreWhole(es) ==
    \A i \in DOMAIN es : \A j \in DOMAIN es[i].edges :
        es[i].edges[j].nullable \in BOOLEAN /\ es[i].edges[j].unique \in BOOLEAN

\* What the theorem is about: entities whose edges agree.
Agreed(es) ==
    /\ EntitiesOK(es) /\ EdgesAreWhole(es)
    /\ ColumnsAgree(es) /\ JoinsAgree(es) /\ RefsAreClear(es)

LEMMA AskedFields ==
    ASSUME NEW t, NEW c, NEW n, NEW e
    PROVE  LET r == ColumnAsked(t, c, n, e) IN
           /\ r.table = t.name /\ r.column = c /\ r.of = n.name /\ r.key = findPrimaryField(n)
           /\ r.nullable = e.nullable /\ r.unique = e.unique /\ r.onDelete = e.cascade
BY DEF ColumnAsked

\* A request is for a column of one entity that refers to another.
LEMMA AskedIs ==
    ASSUME NEW es, EntitiesOK(es), NEW s \in DOMAIN es, NEW k \in DOMAIN es[s].edges,
           NEW r \in ColumnsAsked(es, es[s], es[s].edges[k])
    PROVE  \E t, n \in DOMAIN es : \E c :
               r = ColumnAsked(es[t], c, es[n], es[s].edges[k])
<1> DEFINE e == es[s].edges[k]
<1>1. Known(es, e.target)
  BY DEF ColumnsAsked
<1>2. PICK t \in DOMAIN es : es[t].name = e.target
  BY <1>1 DEF Known
<1>3. Entity(es, e.target) = es[t]
  BY <1>2, EntityFound
<1>4. CASE e.kind = "ToOne"
  BY <1>1, <1>3, <1>4 DEF ColumnsAsked
<1>5. CASE e.kind = "ToMany"
  BY <1>1, <1>3, <1>5 DEF ColumnsAsked
<1>6. CASE e.kind # "ToOne" /\ e.kind # "ToMany"
  BY <1>1, <1>6 DEF ColumnsAsked
<1> QED
  BY <1>4, <1>5, <1>6

LEMMA AllAskedAre ==
    ASSUME NEW es, NEW r
    PROVE  /\ r \in AllColumnsAsked(es) <=>
                  \E s \in DOMAIN es : \E k \in DOMAIN es[s].edges :
                      r \in ColumnsAsked(es, es[s], es[s].edges[k])
           /\ r \in AllJoinsAsked(es) <=>
                  \E s \in DOMAIN es : \E k \in DOMAIN es[s].edges :
                      r \in JoinsAsked(es, es[s], es[s].edges[k])
BY DEF AllColumnsAsked, AllJoinsAsked, ToSet

LEMMA RequestsFit ==
    ASSUME NEW es, Agreed(es), NEW D \in SUBSET AllColumnsAsked(es)
    PROVE  RequestsOK(D)
<1>1. ASSUME NEW r \in D
      PROVE  /\ r.nullable \in BOOLEAN /\ r.unique \in BOOLEAN
             /\ r.key = findPrimaryField(Entity(es, r.of))
  <2>0. r \in AllColumnsAsked(es)
    OBVIOUS
  <2>1. PICK s \in DOMAIN es : \E k \in DOMAIN es[s].edges :
            r \in ColumnsAsked(es, es[s], es[s].edges[k])
    BY <2>0, AllAskedAre
  <2>2. PICK k \in DOMAIN es[s].edges : r \in ColumnsAsked(es, es[s], es[s].edges[k])
    BY <2>1
  <2>3. PICK t, n \in DOMAIN es : \E c : r = ColumnAsked(es[t], c, es[n], es[s].edges[k])
    BY <2>2, AskedIs DEF Agreed
  <2>4. /\ r.of = es[n].name /\ r.key = findPrimaryField(es[n])
        /\ r.nullable = es[s].edges[k].nullable /\ r.unique = es[s].edges[k].unique
    BY <2>3, AskedFields
  <2>5. Entity(es, r.of) = es[n]
    BY <2>4, EntityFound DEF Agreed
  <2> QED
    BY <2>4, <2>5 DEF Agreed, EdgesAreWhole
<1>2. ASSUME NEW r \in D, NEW q \in D, r.table = q.table, r.column = q.column
      PROVE  r.of = q.of /\ r.onDelete = q.onDelete
  BY <1>2 DEF Agreed, ColumnsAgree
<1> QED
  BY <1>1, <1>2 DEF RequestsOK

\* A request for a column of one table is nothing to another.
LEMMA NotAsked ==
    ASSUME NEW ent, NEW D, NEW r, r.table # ent.name
    PROVE  /\ \A fields : FieldsAre(ent, D, fields) => FieldsAre(ent, D \cup {r}, fields)
           /\ \A keys : KeysAre(ent, D, keys) => KeysAre(ent, D \cup {r}, keys)
<1> DEFINE E == D \cup {r}
<1>1. \A c : AskedColumn(E, ent.name, c) = AskedColumn(D, ent.name, c)
  BY DEF AskedColumn
<1>2. \A c : AskedNullable(E, ent.name, c) = AskedNullable(D, ent.name, c)
  BY DEF AskedNullable
<1>3. \A c : AskedUnique(E, ent.name, c) = AskedUnique(D, ent.name, c)
  BY DEF AskedUnique
<1>4. \A q \in E : q.table = ent.name => q \in D
  OBVIOUS
<1> HIDE DEF E
<1>5. ASSUME NEW fields, FieldsAre(ent, D, fields) PROVE FieldsAre(ent, E, fields)
  BY <1>1, <1>2, <1>3, <1>4, <1>5 DEF FieldsAre
<1>6. ASSUME NEW keys, KeysAre(ent, D, keys) PROVE KeysAre(ent, E, keys)
  BY <1>1, <1>4, <1>6 DEF KeysAre
<1> QED
  BY <1>5, <1>6 DEF E

\* One column more.
LEMMA ColumnMet ==
    ASSUME NEW es, Agreed(es), NEW D, NEW J, NEW plan, PlanIs(es, D, J, plan),
           NEW s \in DOMAIN es, NEW k \in DOMAIN es[s].edges, NEW t \in DOMAIN es, NEW n \in DOMAIN es,
           NEW c, c \in ColumnsFor(es[t], es[n]),
           D \cup {ColumnAsked(es[t], c, es[n], es[s].edges[k])} \subseteq AllColumnsAsked(es)
    PROVE  PlanIs(es, D \cup {ColumnAsked(es[t], c, es[n], es[s].edges[k])}, J,
                  [plan EXCEPT !.tables[es[t].name] =
                      Keyed(@, c, es[n].name, findPrimaryField(es[n]), es[s].edges[k])])
<1> DEFINE edge == es[s].edges[k]
           r == ColumnAsked(es[t], c, es[n], edge)
           E == D \cup {r}
           table == plan.tables[es[t].name]
           wider == Keyed(table, c, es[n].name, findPrimaryField(es[n]), edge)
           after == [plan EXCEPT !.tables[es[t].name] = wider]
<1>1. /\ r.table = es[t].name /\ r.column = c /\ r.of = es[n].name /\ r.key = findPrimaryField(es[n])
      /\ r.nullable = edge.nullable /\ r.unique = edge.unique /\ r.onDelete = edge.cascade
  BY AskedFields
<1>2. RequestsOK(E)
  BY RequestsFit
<1>3. EntitiesOK(es) /\ PlanOK(es, plan) /\ FieldsOK(es[t].fields) /\ TableOK(es, es[t], table)
  BY DEF Agreed, PlanIs, EntitiesOK, EntityOK, PlanOK
<1>4. TableOK(es, es[t], wider) /\ MoreKeys(table, wider)
  <2> HIDE DEF table, edge
  <2> QED
    BY <1>3, KeyedKeeps
<1>5. /\ wider.fields = Widen(table.fields, r.column, r.key, edge)
      /\ wider.keys = AddKey(table.keys, r.column, r.of, r.key, edge)
  BY <1>1 DEF Keyed
<1>6. FieldsAre(es[t], D, table.fields) /\ KeysAre(es[t], D, table.keys)
  BY DEF PlanIs
<1> HIDE DEF r, wider, table, edge
<1>7. FieldsAre(es[t], E, wider.fields)
  <2>1. FieldsAre(es[t], E, Widen(table.fields, r.column, r.key, edge))
    <3> DEFINE ent == es[t]
               fields == table.fields
    <3>1. /\ FieldsOK(ent.fields) /\ RequestsOK(D \cup {r}) /\ r.table = ent.name
          /\ FieldsAre(ent, D, fields) /\ edge.nullable = r.nullable /\ edge.unique = r.unique
      BY <1>1, <1>2, <1>3, <1>6
    <3> HIDE DEF ent, fields
    <3>2. FieldsAre(ent, D \cup {r}, Widen(fields, r.column, r.key, edge))
      BY <3>1, FieldsMet
    <3> QED
      BY <3>2 DEF ent, fields
  <2> QED
    BY <1>5, <2>1
<1>8. KeysAre(es[t], E, wider.keys)
  <2>1. KeysAre(es[t], E, AddKey(table.keys, r.column, r.of, r.key, edge))
    <3> DEFINE ent == es[t]
               keys == table.keys
    <3>1. /\ RequestsOK(D \cup {r}) /\ r.table = ent.name /\ KeysAre(ent, D, keys)
          /\ edge.cascade = r.onDelete
      BY <1>1, <1>2, <1>6
    <3> HIDE DEF ent, keys
    <3>2. KeysAre(ent, D \cup {r}, AddKey(keys, r.column, r.of, r.key, edge))
      BY <3>1, KeysMet
    <3> QED
      BY <3>2 DEF ent, keys
  <2> QED
    BY <1>5, <2>1
<1>9. PlanOK(es, after) /\ after.tables[es[t].name] = wider
  BY <1>3, <1>4, TableChanged DEF table
<1>10. after.joins = plan.joins /\ \A i \in DOMAIN es : i # t => after.tables[es[i].name] = plan.tables[es[i].name]
  <2>1. plan = [tables |-> plan.tables, joins |-> plan.joins]
        /\ plan.tables = [m \in Names(es) |-> plan.tables[m]]
    BY <1>3 DEF PlanOK
  <2>2. after.tables = [plan.tables EXCEPT ![es[t].name] = wider] /\ after.joins = plan.joins
    BY <2>1
  <2>3. \A i \in DOMAIN es : i # t => es[i].name # es[t].name /\ es[i].name \in Names(es)
    BY <1>3 DEF EntitiesOK, Names
  <2> HIDE DEF after
  <2> QED
    BY <2>1, <2>2, <2>3
<1> HIDE DEF after, E
<1>11. ASSUME NEW i \in DOMAIN es
       PROVE  /\ FieldsAre(es[i], E, after.tables[es[i].name].fields)
              /\ KeysAre(es[i], E, after.tables[es[i].name].keys)
  <2>1. CASE i = t
    BY <1>7, <1>8, <1>9, <2>1
  <2>2. CASE i # t
    <3>1. r.table # es[i].name
      BY <1>1, <1>3, <2>2 DEF EntitiesOK
    <3>2. FieldsAre(es[i], D, plan.tables[es[i].name].fields) /\ KeysAre(es[i], D, plan.tables[es[i].name].keys)
      BY DEF PlanIs
    <3>3. FieldsAre(es[i], E, plan.tables[es[i].name].fields) /\ KeysAre(es[i], E, plan.tables[es[i].name].keys)
      BY <3>1, <3>2, NotAsked DEF E
    <3> QED
      BY <1>10, <2>2, <3>3
  <2> QED
    BY <2>1, <2>2
<1>12. PlanIs(es, E, J, after)
  BY <1>9, <1>10, <1>11 DEF PlanIs
<1> QED
  BY <1>12 DEF E, after, r, wider, table, edge

\* The edge a Ref names.
LEMMA NamedIs ==
    ASSUME NEW edges, EdgesOK(edges), NEW ref, NEW f \in ToSet(edges), f.name = ref
    PROVE  /\ {e \in ToSet(edges) : e.name = ref} = {f}
           /\ \E k \in DOMAIN edges :
                  /\ edges[k] = f /\ edges[k].name = ref /\ \A m \in 1..(k - 1) : edges[m].name # ref
                  /\ \A n \in DOMAIN edges : edges[n].name = ref => n = k
<1>1. PICK k \in DOMAIN edges : edges[k] = f
  BY DEF ToSet
<1>2. \A m \in DOMAIN edges : edges[m].name = ref => m = k
  BY <1>1 DEF EdgesOK
<1>3. DOMAIN edges = 1..Len(edges) /\ Len(edges) \in Nat
  BY ListIs DEF EdgesOK
<1>4. \A m \in 1..(k - 1) : edges[m].name # ref
  <2> SUFFICES ASSUME NEW m \in 1..(k - 1), edges[m].name = ref PROVE FALSE
    OBVIOUS
  <2>1. m \in DOMAIN edges /\ m # k
    BY <1>3
  <2> QED
    BY <1>2, <2>1
<1>5. {e \in ToSet(edges) : e.name = ref} = {f}
  BY <1>1, <1>2 DEF ToSet
<1> QED
  BY <1>1, <1>2, <1>4, <1>5

\* What a Ref means does not depend on what was planned before.
LEMMA ResolvedIs ==
    ASSUME NEW es, Agreed(es), NEW D \in SUBSET AllColumnsAsked(es), NEW J, NEW plan,
           PlanIs(es, D, J, plan), NEW s \in DOMAIN es, NEW t \in DOMAIN es,
           NEW e \in ToSet(es[s].edges), e.kind = "ToMany", e.target = es[t].name
    PROVE  resolveForeignKeyColumn(plan, es, es[s], e) = ResolvedColumn(es, es[s], e)
<1> DEFINE column == edgeRefColumn(es[s], e)
           edges == es[t].edges
           fields == plan.tables[e.target].fields
           named == {f \in ToSet(edges) : f.name = e.ref}
           resolved == ResolvedColumn(es, es[s], e)
<1>1. /\ Entity(es, e.target) = es[t] /\ Known(es, e.target) /\ EdgesOK(edges)
  BY EntityFound DEF Agreed, EntitiesOK, EntityOK
<1>2. \A c : HasColumn(fields, c) <=> HasColumn(es[t].fields, c) \/ AskedColumn(D, e.target, c)
  BY DEF PlanIs, FieldsAre
<1>3. hasEdgeNamed(edges, e.ref) <=> named # {}
  BY DEF hasEdgeNamed, ToSet
<1>4. CASE HasColumn(es[t].fields, column) \/ e.ref = NoName \/ named = {}
  BY <1>1, <1>2, <1>3, <1>4 DEF resolveForeignKeyColumn, ResolvedColumn
<1>5. CASE ~HasColumn(es[t].fields, column) /\ e.ref # NoName /\ named # {}
  <2>1. PICK f \in ToSet(edges) : f.name = e.ref
    BY <1>5
  <2> DEFINE First(n) == edges[n].name = e.ref /\ \A m \in 1..(n - 1) : edges[m].name # e.ref
             at == CHOOSE n \in DOMAIN edges : First(n)
  <2>2. named = {f} /\ edges[at] = f
    <3>1. named = {f}
      BY <1>1, <2>1, NamedIs
    <3>2. PICK k \in DOMAIN edges :
              /\ edges[k] = f /\ edges[k].name = e.ref /\ \A m \in 1..(k - 1) : edges[m].name # e.ref
              /\ \A n \in DOMAIN edges : edges[n].name = e.ref => n = k
      BY <1>1, <2>1, NamedIs
    <3>3. First(k) /\ \A n \in DOMAIN edges : First(n) => n = k
      BY <3>2
    <3>4. at = k
      <4> HIDE DEF First
      <4> QED
        BY <3>3
    <3> QED
      BY <3>1, <3>2, <3>4
  <2>3. resolved = edgeColumn(f)
    <3>1. resolved = edgeColumn(CHOOSE x \in named : TRUE)
      BY <1>1, <1>5 DEF ResolvedColumn
    <3> QED
      BY <2>2, <3>1
  <2>4. CASE HasColumn(fields, column)
    <3>1. PICK r \in D : r.table = e.target /\ r.column = column
      BY <1>2, <1>5, <2>4 DEF AskedColumn
    <3>2. resolved = column
      <4>1. es[s] \in ToSet(es) /\ r \in AllColumnsAsked(es)
        BY DEF ToSet
      <4> QED
        BY <1>1, <3>1, <4>1 DEF Agreed, RefsAreClear
    <3> QED
      BY <2>4, <3>2 DEF resolveForeignKeyColumn
  <2>5. CASE ~HasColumn(fields, column)
    <3>1. resolveForeignKeyColumn(plan, es, es[s], e) = edgeColumn(edges[at])
      BY <1>1, <1>3, <1>5, <2>5 DEF resolveForeignKeyColumn
    <3> QED
      BY <2>2, <2>3, <3>1
  <2> QED
    BY <2>4, <2>5
<1> QED
  BY <1>4, <1>5

LEMMA ToOneMet ==
    ASSUME NEW es, Agreed(es), NEW D \in SUBSET AllColumnsAsked(es), NEW J, NEW plan,
           PlanIs(es, D, J, plan), NEW s \in DOMAIN es, NEW k \in DOMAIN es[s].edges,
           es[s].edges[k].kind = "ToOne"
    PROVE  PlanIs(es, D \cup ColumnsAsked(es, es[s], es[s].edges[k]), J,
                  ensureToOneColumn(plan, es, es[s], es[s].edges[k]))
<1> DEFINE e == es[s].edges[k]
           asked == ColumnsAsked(es, es[s], e)
           after == ensureToOneColumn(plan, es, es[s], e)
<1>1. CASE ~Known(es, e.target)
  <2>1. asked = {} /\ after = plan
    BY <1>1 DEF ColumnsAsked, ensureToOneColumn
  <2> QED
    BY <2>1
<1>2. CASE Known(es, e.target)
  <2>1. PICK t \in DOMAIN es : es[t].name = e.target
    BY <1>2 DEF Known
  <2>2. Entity(es, e.target) = es[t]
    BY <2>1, EntityFound DEF Agreed
  <2> DEFINE c == edgeColumn(e)
  <2>3. asked = {ColumnAsked(es[s], c, es[t], e)}
    BY <1>2, <2>2 DEF ColumnsAsked
  <2>4. after = [plan EXCEPT !.tables[es[s].name] = Keyed(@, c, es[t].name, findPrimaryField(es[t]), e)]
    BY <1>2, <2>1, <2>2 DEF ensureToOneColumn, Keyed
  <2>5. c \in ColumnsFor(es[s], es[t])
    BY <2>1 DEF ColumnsFor, ToSet
  <2>6. \A r \in asked : r \in AllColumnsAsked(es)
    BY AllAskedAre
  <2>7. D \cup {ColumnAsked(es[s], c, es[t], e)} \subseteq AllColumnsAsked(es)
    BY <2>3, <2>6
  <2>8. PlanIs(es, D \cup {ColumnAsked(es[s], c, es[t], e)}, J,
               [plan EXCEPT !.tables[es[s].name] = Keyed(@, c, es[t].name, findPrimaryField(es[t]), e)])
    <3> HIDE DEF c
    <3> QED
      BY <2>5, <2>7, ColumnMet
  <2> QED
    BY <2>3, <2>4, <2>8
<1> QED
  BY <1>1, <1>2

LEMMA ToManyMet ==
    ASSUME NEW es, Agreed(es), NEW D \in SUBSET AllColumnsAsked(es), NEW J, NEW plan,
           PlanIs(es, D, J, plan), NEW s \in DOMAIN es, NEW k \in DOMAIN es[s].edges,
           es[s].edges[k].kind = "ToMany"
    PROVE  PlanIs(es, D \cup ColumnsAsked(es, es[s], es[s].edges[k]), J,
                  ensureToManyColumn(plan, es, es[s], es[s].edges[k]))
<1> DEFINE e == es[s].edges[k]
           asked == ColumnsAsked(es, es[s], e)
           after == ensureToManyColumn(plan, es, es[s], e)
<1>1. CASE ~Known(es, e.target)
  <2>1. asked = {} /\ after = plan
    BY <1>1 DEF ColumnsAsked, ensureToManyColumn
  <2> QED
    BY <2>1
<1>2. CASE Known(es, e.target)
  <2>1. PICK t \in DOMAIN es : es[t].name = e.target
    BY <1>2 DEF Known
  <2>2. Entity(es, e.target) = es[t] /\ e \in ToSet(es[s].edges)
    BY <2>1, EntityFound DEF Agreed, ToSet
  <2> DEFINE c == resolveForeignKeyColumn(plan, es, es[s], e)
  <2>3. c = ResolvedColumn(es, es[s], e)
    BY <2>1, <2>2, ResolvedIs
  <2>4. asked = {ColumnAsked(es[t], c, es[s], e)}
    BY <1>2, <2>2, <2>3 DEF ColumnsAsked
  <2>5. after = [plan EXCEPT !.tables[es[t].name] = Keyed(@, c, es[s].name, findPrimaryField(es[s]), e)]
    BY <1>2, <2>1, <2>2 DEF ensureToManyColumn, Keyed
  <2>6. c \in ColumnsFor(es[t], es[s])
    BY <2>1, <2>2, ResolvedIsFor DEF Agreed
  <2>7. \A r \in asked : r \in AllColumnsAsked(es)
    BY AllAskedAre
  <2> HIDE DEF c
  <2>8. D \cup {ColumnAsked(es[t], c, es[s], e)} \subseteq AllColumnsAsked(es)
    BY <2>4, <2>7
  <2>9. PlanIs(es, D \cup {ColumnAsked(es[t], c, es[s], e)}, J,
               [plan EXCEPT !.tables[es[t].name] = Keyed(@, c, es[s].name, findPrimaryField(es[s]), e)])
    BY <2>6, <2>8, ColumnMet
  <2> QED
    BY <2>4, <2>5, <2>9
<1> QED
  BY <1>1, <1>2

LEMMA JoinMet ==
    ASSUME NEW es, Agreed(es), NEW D, NEW J \in SUBSET AllJoinsAsked(es), NEW plan,
           PlanIs(es, D, J, plan), NEW s \in DOMAIN es, NEW k \in DOMAIN es[s].edges,
           es[s].edges[k].kind = "ManyToMany"
    PROVE  PlanIs(es, D, J \cup JoinsAsked(es, es[s], es[s].edges[k]),
                  ensureJoinTable(plan, es, es[s], es[s].edges[k]))
<1> DEFINE e == es[s].edges[k]
           asked == JoinsAsked(es, es[s], e)
           after == ensureJoinTable(plan, es, es[s], e)
<1>1. CASE ~Known(es, e.target)
  <2>1. asked = {} /\ after = plan
    BY <1>1 DEF JoinsAsked, ensureJoinTable
  <2> QED
    BY <2>1
<1>2. CASE Known(es, e.target)
  <2>1. PICK t \in DOMAIN es : es[t].name = e.target
    BY <1>2 DEF Known
  <2>2. Entity(es, e.target) = es[t]
    BY <2>1, EntityFound DEF Agreed
  <2> DEFINE join == manyToManyJoinSpec(es[s], e, es[t])
             Side(column, ent) ==
                 [column |-> column, type |-> findPrimaryField(ent).type, table |-> ent.name,
                  key |-> findPrimaryField(ent).column, onDelete |-> e.cascade]
             left == Side(join.left, es[s])
             right == Side(join.right, es[t])
             r == JoinAsked(es[s], es[t], e)
  <2>3. asked = {r} /\ r \in AllJoinsAsked(es)
    <3>1. asked = {r}
      BY <1>2, <2>2 DEF JoinsAsked
    <3>2. \A q \in asked : q \in AllJoinsAsked(es)
      BY AllAskedAre
    <3> QED
      BY <3>1, <3>2
  <2>4. r.name = join.name /\ r.sides = {left, right}
    BY DEF JoinAsked
  <2>5. PlanOK(es, after)
    <3>1. e \in ToSet(es[s].edges)
      BY DEF ToSet
    <3> QED
      BY <3>1, JoinKeeps DEF PlanIs, Agreed
  <2>6. JoinsAre(J, plan.joins) /\ plan = [tables |-> plan.tables, joins |-> plan.joins]
    BY DEF PlanIs, PlanOK
  <2>7. after.tables = plan.tables /\ JoinsAre(J \cup {r}, after.joins)
    <3>1. CASE join.name \in DOMAIN plan.joins
      <4>1. after = plan
        BY <1>2, <2>2, <3>1 DEF ensureJoinTable
      <4>2. PICK q \in J : q.name = join.name
        BY <2>6, <3>1 DEF JoinsAre
      <4>3. q.sides = r.sides
        BY <2>3, <2>4, <4>2 DEF Agreed, JoinsAgree
      <4> QED
        BY <2>4, <2>6, <3>1, <4>1, <4>2, <4>3 DEF JoinsAre
    <3>2. CASE join.name \notin DOMAIN plan.joins
      <4> DEFINE joins == [n \in DOMAIN plan.joins \cup {join.name} |->
                              IF n \in DOMAIN plan.joins THEN plan.joins[n] ELSE <<left, right>>]
      <4>1. after = [plan EXCEPT !.joins = joins]
        BY <1>2, <2>2, <3>2 DEF ensureJoinTable
      <4>2. ToSet(<<left, right>>) = {left, right}
        <5> HIDE DEF left, right
        <5> QED
          BY DEF ToSet
      <4> DEFINE name == join.name
                 pair == <<left, right>>
      <4> HIDE DEF name, pair, left, right
      <4>3. /\ DOMAIN joins = DOMAIN plan.joins \cup {name} /\ joins[name] = pair
            /\ \A n \in DOMAIN plan.joins : joins[n] = plan.joins[n]
        BY <3>2 DEF name, pair
      <4>4. ToSet(pair) = r.sides /\ r.name = name
        BY <2>4, <4>2 DEF pair, name
      <4> HIDE DEF joins, r
      <4>5. after.tables = plan.tables /\ after.joins = joins
        BY <2>6, <4>1
      <4>6. JoinsAre(J \cup {r}, joins)
        BY <2>6, <4>3, <4>4 DEF JoinsAre
      <4> QED
        BY <4>5, <4>6
    <3> QED
      BY <3>1, <3>2
  <2> HIDE DEF after, asked, r
  <2> QED
    BY <2>3, <2>5, <2>7 DEF PlanIs, after, asked
<1> QED
  BY <1>1, <1>2

LEMMA EnsureMet ==
    ASSUME NEW es, Agreed(es), NEW D \in SUBSET AllColumnsAsked(es), NEW J \in SUBSET AllJoinsAsked(es),
           NEW plan, PlanIs(es, D, J, plan), NEW s \in DOMAIN es, NEW k \in DOMAIN es[s].edges
    PROVE  PlanIs(es, D \cup ColumnsAsked(es, es[s], es[s].edges[k]),
                  J \cup JoinsAsked(es, es[s], es[s].edges[k]),
                  Ensure(plan, es, es[s], es[s].edges[k]))
<1> DEFINE e == es[s].edges[k]
<1>1. e.kind \in Kinds
  BY DEF Agreed, EntitiesOK, EntityOK, EdgesOK
<1>2. CASE e.kind = "ToOne"
  <2>1. JoinsAsked(es, es[s], e) = {} /\ Ensure(plan, es, es[s], e) = ensureToOneColumn(plan, es, es[s], e)
    BY <1>2 DEF JoinsAsked, Ensure
  <2> QED
    BY <1>2, <2>1, ToOneMet
<1>3. CASE e.kind = "ToMany"
  <2>1. JoinsAsked(es, es[s], e) = {} /\ Ensure(plan, es, es[s], e) = ensureToManyColumn(plan, es, es[s], e)
    BY <1>3 DEF JoinsAsked, Ensure
  <2> QED
    BY <1>3, <2>1, ToManyMet
<1>4. CASE e.kind = "ManyToMany"
  <2>1. ColumnsAsked(es, es[s], e) = {} /\ Ensure(plan, es, es[s], e) = ensureJoinTable(plan, es, es[s], e)
    BY <1>4 DEF ColumnsAsked, Ensure
  <2>2. PlanIs(es, D, J \cup JoinsAsked(es, es[s], e), ensureJoinTable(plan, es, es[s], e))
    BY <1>4, JoinMet
  <2>3. D \cup ColumnsAsked(es, es[s], e) = D
    BY <2>1
  <2> QED
    BY <2>1, <2>2, <2>3
<1> QED
  BY <1>1, <1>2, <1>3, <1>4 DEF Kinds

\* What the first n edges of an entity ask, and the first n entities.
ColumnsOf(es, s, n) ==
    UNION {ColumnsAsked(es, es[s], es[s].edges[k]) : k \in {k \in DOMAIN es[s].edges : k <= n}}
JoinsOf(es, s, n) ==
    UNION {JoinsAsked(es, es[s], es[s].edges[k]) : k \in {k \in DOMAIN es[s].edges : k <= n}}
ColumnsUpTo(es, n) ==
    UNION {ColumnsOf(es, s, Len(es[s].edges)) : s \in {s \in DOMAIN es : s <= n}}
JoinsUpTo(es, n) ==
    UNION {JoinsOf(es, s, Len(es[s].edges)) : s \in {s \in DOMAIN es : s <= n}}

LEMMA EnsureAllMet ==
    ASSUME NEW es, Agreed(es), NEW D \in SUBSET AllColumnsAsked(es), NEW J \in SUBSET AllJoinsAsked(es),
           NEW plan, PlanIs(es, D, J, plan), NEW s \in DOMAIN es
    PROVE  LET n == Len(es[s].edges) IN
           PlanIs(es, D \cup ColumnsOf(es, s, n), J \cup JoinsOf(es, s, n), EnsureAll(plan, es, es[s]))
<1> DEFINE n == Len(es[s].edges)
<1>1. n \in Nat /\ DOMAIN es[s].edges = 1..n
  BY ListIs DEF Agreed, EntitiesOK, EntityOK, EdgesOK
<1>2. PICK f : /\ f[0] = plan
               /\ \A k \in 1..n : f[k] = Ensure(f[k - 1], es, es[s], es[s].edges[k])
               /\ EnsureAll(plan, es, es[s]) = f[n]
  <2>1. ASSUME NEW source, Len(source.edges) \in Nat
        PROVE  \E f : /\ f[0] = plan
                      /\ \A k \in 1..Len(source.edges) :
                             f[k] = Ensure(f[k - 1], es, source, source.edges[k])
                      /\ EnsureAll(plan, es, source) = f[Len(source.edges)]
    BY <2>1, EnsureAllSteps
  <2> QED
    BY <1>1, <2>1
<1> DEFINE Good(k) == PlanIs(es, D \cup ColumnsOf(es, s, k), J \cup JoinsOf(es, s, k), f[k])
           Bad == {k \in 0..n : ~Good(k)}
<1>3. Good(0)
  <2>1. ColumnsOf(es, s, 0) = {} /\ JoinsOf(es, s, 0) = {}
    BY <1>1 DEF ColumnsOf, JoinsOf
  <2>2. D \cup ColumnsOf(es, s, 0) = D /\ J \cup JoinsOf(es, s, 0) = J
    BY <2>1
  <2> QED
    BY <1>2, <2>2
<1>4. ASSUME NEW k \in 1..n, Good(k - 1) PROVE Good(k)
  <2> DEFINE before == D \cup ColumnsOf(es, s, k - 1)
             joined == J \cup JoinsOf(es, s, k - 1)
  <2>1. f[k] = Ensure(f[k - 1], es, es[s], es[s].edges[k])
    BY <1>2
  <2>2. before \subseteq AllColumnsAsked(es) /\ joined \subseteq AllJoinsAsked(es)
    <3>1. \A r \in ColumnsOf(es, s, k - 1) : r \in AllColumnsAsked(es)
      BY AllAskedAre DEF ColumnsOf
    <3>2. \A r \in JoinsOf(es, s, k - 1) : r \in AllJoinsAsked(es)
      BY AllAskedAre DEF JoinsOf
    <3> QED
      BY <3>1, <3>2
  <2>3. PlanIs(es, before \cup ColumnsAsked(es, es[s], es[s].edges[k]),
               joined \cup JoinsAsked(es, es[s], es[s].edges[k]), f[k])
    <3> DEFINE last == f[k - 1]
    <3>1. k \in DOMAIN es[s].edges
      BY <1>1
    <3>2. PlanIs(es, before, joined, last)
      BY <1>4
    <3> HIDE DEF before, joined, last
    <3>3. PlanIs(es, before \cup ColumnsAsked(es, es[s], es[s].edges[k]),
                 joined \cup JoinsAsked(es, es[s], es[s].edges[k]),
                 Ensure(last, es, es[s], es[s].edges[k]))
      BY <2>2, <3>1, <3>2, EnsureMet
    <3> QED
      BY <2>1, <3>3 DEF last
  <2>4. {m \in DOMAIN es[s].edges : m <= k} = {m \in DOMAIN es[s].edges : m <= k - 1} \cup {k}
    BY <1>1
  <2>5. /\ ColumnsOf(es, s, k) = ColumnsOf(es, s, k - 1) \cup ColumnsAsked(es, es[s], es[s].edges[k])
        /\ JoinsOf(es, s, k) = JoinsOf(es, s, k - 1) \cup JoinsAsked(es, es[s], es[s].edges[k])
    BY <2>4 DEF ColumnsOf, JoinsOf
  <2>6. /\ D \cup ColumnsOf(es, s, k) = before \cup ColumnsAsked(es, es[s], es[s].edges[k])
        /\ J \cup JoinsOf(es, s, k) = joined \cup JoinsAsked(es, es[s], es[s].edges[k])
    BY <2>5
  <2> QED
    BY <2>3, <2>6
<1> HIDE DEF Good
<1>5. Bad = {}
  <2> SUFFICES ASSUME Bad # {} PROVE FALSE
    OBVIOUS
  <2>1. PICK k \in Bad : \A m \in Bad : k <= m
    <3>1. Bad \in SUBSET Nat
      BY <1>1
    <3> HIDE DEF Bad
    <3> QED
      BY <3>1, LeastNumber
  <2>2. k # 0 /\ k \in 1..n /\ k - 1 \in 0..n /\ ~ (k <= k - 1)
    BY <1>1, <1>3
  <2> QED
    BY <1>4, <2>1, <2>2
<1>6. Good(n)
  BY <1>1, <1>5
<1> QED
  BY <1>2, <1>6 DEF Good

LEMMA DeclaredIs ==
    ASSUME NEW es, Agreed(es) PROVE PlanIs(es, {}, {}, DeclaredTables(es))
<1> DEFINE plan == DeclaredTables(es)
<1>1. EntitiesOK(es) /\ PlanOK(es, plan)
  BY DeclaredPlanOK DEF Agreed
<1>2. /\ \A i \in DOMAIN es : plan.tables[es[i].name] = [fields |-> es[i].fields, keys |-> <<>>]
      /\ plan.joins = <<>>
  BY <1>1, EntityFound DEF DeclaredTables
<1> HIDE DEF plan
<1>3. DOMAIN <<>> = {} /\ <<>> = [c \in {} |-> <<>>[c]]
  OBVIOUS
<1>4. ASSUME NEW i \in DOMAIN es PROVE FieldsAre(es[i], {}, es[i].fields)
  <2> DEFINE fields == es[i].fields
  <2>1. FieldsOK(fields)
    BY <1>1 DEF EntitiesOK, EntityOK
  <2>2. ColumnsOK(fields)
    BY <2>1 DEF FieldsOK, ColumnsOK
  <2>3. ASSUME NEW c, HasColumn(fields, c)
        PROVE  LET f == FieldAt(fields, c) IN
               f = Field(c, f.type, f.nullable \/ FALSE, f.unique \/ FALSE, f.primary)
    <3>1. PICK k \in DOMAIN fields : fields[k].column = c
      BY <2>3 DEF HasColumn
    <3>2. FieldAt(fields, c) = fields[k]
      BY <2>2, <3>1, FieldFound
    <3>3. fields[k] \in [column : {fields[k].column}, type : {fields[k].type},
                         nullable : BOOLEAN, unique : BOOLEAN, primary : BOOLEAN]
      BY <2>1 DEF FieldsOK
    <3>4. /\ fields[k] = [column |-> c, type |-> fields[k].type, nullable |-> fields[k].nullable,
                          unique |-> fields[k].unique, primary |-> fields[k].primary]
          /\ fields[k].nullable \in BOOLEAN /\ fields[k].unique \in BOOLEAN
      BY <3>1, <3>3
    <3>5. (fields[k].nullable \/ FALSE) = fields[k].nullable /\ (fields[k].unique \/ FALSE) = fields[k].unique
      BY <3>4
    <3> QED
      BY <3>2, <3>4, <3>5 DEF Field
  <2>4. \A c : /\ AskedNullable({}, es[i].name, c) = FALSE /\ AskedUnique({}, es[i].name, c) = FALSE
               /\ AskedColumn({}, es[i].name, c) = FALSE
    BY DEF AskedNullable, AskedUnique, AskedColumn
  <2> QED
    BY <2>2, <2>3, <2>4 DEF FieldsAre
<1>5. ASSUME NEW i \in DOMAIN es PROVE KeysAre(es[i], {}, <<>>)
  BY <1>3 DEF KeysAre, AskedColumn
<1>6. JoinsAre({}, <<>>)
  BY <1>3 DEF JoinsAre
<1>7. ASSUME NEW i \in DOMAIN es
      PROVE  plan.tables[es[i].name].fields = es[i].fields /\ plan.tables[es[i].name].keys = <<>>
  <2> DEFINE none == <<>>
  <2>1. plan.tables[es[i].name] = [fields |-> es[i].fields, keys |-> none]
    BY <1>2
  <2> HIDE DEF none
  <2>2. plan.tables[es[i].name].fields = es[i].fields /\ plan.tables[es[i].name].keys = none
    BY <2>1
  <2> QED
    BY <2>2 DEF none
<1> QED
  BY <1>1, <1>2, <1>4, <1>5, <1>6, <1>7 DEF PlanIs, plan

\* The plan is what all edges ask for.
LEMMA PlanIsAsked ==
    ASSUME NEW es, Agreed(es)
    PROVE  PlanIs(es, AllColumnsAsked(es), AllJoinsAsked(es), buildMigrationPlan(es))
<1> DEFINE n == Len(es)
<1>1. n \in Nat /\ DOMAIN es = 1..n
  BY ListIs DEF Agreed, EntitiesOK
<1>2. PICK f : /\ f[0] = DeclaredTables(es)
               /\ \A k \in 1..n : f[k] = EnsureAll(f[k - 1], es, es[k])
               /\ buildMigrationPlan(es) = f[n]
  BY <1>1, PlanSteps
<1> DEFINE Good(k) == PlanIs(es, ColumnsUpTo(es, k), JoinsUpTo(es, k), f[k])
           Bad == {k \in 0..n : ~Good(k)}
<1>3. Good(0)
  <2>1. ColumnsUpTo(es, 0) = {} /\ JoinsUpTo(es, 0) = {}
    BY <1>1 DEF ColumnsUpTo, JoinsUpTo
  <2> QED
    BY <1>2, <2>1, DeclaredIs
<1>4. \A k : ColumnsUpTo(es, k) \subseteq AllColumnsAsked(es) /\ JoinsUpTo(es, k) \subseteq AllJoinsAsked(es)
  <2>1. ASSUME NEW k, NEW r \in ColumnsUpTo(es, k) PROVE r \in AllColumnsAsked(es)
    BY AllAskedAre DEF ColumnsUpTo, ColumnsOf
  <2>2. ASSUME NEW k, NEW r \in JoinsUpTo(es, k) PROVE r \in AllJoinsAsked(es)
    BY AllAskedAre DEF JoinsUpTo, JoinsOf
  <2> QED
    BY <2>1, <2>2
<1>5. ASSUME NEW k \in 1..n, Good(k - 1) PROVE Good(k)
  <2>1. f[k] = EnsureAll(f[k - 1], es, es[k])
    BY <1>2
  <2>2. PlanIs(es, ColumnsUpTo(es, k - 1) \cup ColumnsOf(es, k, Len(es[k].edges)),
               JoinsUpTo(es, k - 1) \cup JoinsOf(es, k, Len(es[k].edges)), f[k])
    BY <1>1, <1>4, <1>5, <2>1, EnsureAllMet
  <2>3. {m \in DOMAIN es : m <= k} = {m \in DOMAIN es : m <= k - 1} \cup {k}
    BY <1>1
  <2>4. /\ ColumnsUpTo(es, k) = ColumnsUpTo(es, k - 1) \cup ColumnsOf(es, k, Len(es[k].edges))
        /\ JoinsUpTo(es, k) = JoinsUpTo(es, k - 1) \cup JoinsOf(es, k, Len(es[k].edges))
    BY <2>3 DEF ColumnsUpTo, JoinsUpTo
  <2> QED
    BY <2>2, <2>4
<1> HIDE DEF Good
<1>6. Bad = {}
  <2> SUFFICES ASSUME Bad # {} PROVE FALSE
    OBVIOUS
  <2>1. PICK k \in Bad : \A m \in Bad : k <= m
    <3>1. Bad \in SUBSET Nat
      BY <1>1
    <3> HIDE DEF Bad
    <3> QED
      BY <3>1, LeastNumber
  <2>2. k # 0 /\ k \in 1..n /\ k - 1 \in 0..n /\ ~ (k <= k - 1)
    BY <1>1, <1>3
  <2> QED
    BY <1>5, <2>1, <2>2
<1>7. Good(n)
  BY <1>1, <1>6
<1>8. ColumnsUpTo(es, n) = AllColumnsAsked(es) /\ JoinsUpTo(es, n) = AllJoinsAsked(es)
  <2>1. \A s \in DOMAIN es : Len(es[s].edges) \in Nat /\ DOMAIN es[s].edges = 1..Len(es[s].edges)
    BY ListIs DEF Agreed, EntitiesOK, EntityOK, EdgesOK
  <2>2. ASSUME NEW r \in AllColumnsAsked(es) PROVE r \in ColumnsUpTo(es, n)
    <3>1. PICK s \in DOMAIN es : \E k \in DOMAIN es[s].edges : r \in ColumnsAsked(es, es[s], es[s].edges[k])
      BY AllAskedAre
    <3>2. PICK k \in DOMAIN es[s].edges : r \in ColumnsAsked(es, es[s], es[s].edges[k])
      BY <3>1
    <3>3. s <= n /\ k <= Len(es[s].edges)
      BY <1>1, <2>1
    <3>4. r \in ColumnsOf(es, s, Len(es[s].edges))
      BY <3>2, <3>3 DEF ColumnsOf
    <3> QED
      BY <3>3, <3>4 DEF ColumnsUpTo
  <2>3. ASSUME NEW r \in AllJoinsAsked(es) PROVE r \in JoinsUpTo(es, n)
    <3>1. PICK s \in DOMAIN es : \E k \in DOMAIN es[s].edges : r \in JoinsAsked(es, es[s], es[s].edges[k])
      BY AllAskedAre
    <3>2. PICK k \in DOMAIN es[s].edges : r \in JoinsAsked(es, es[s], es[s].edges[k])
      BY <3>1
    <3>3. s <= n /\ k <= Len(es[s].edges)
      BY <1>1, <2>1
    <3>4. r \in JoinsOf(es, s, Len(es[s].edges))
      BY <3>2, <3>3 DEF JoinsOf
    <3> QED
      BY <3>3, <3>4 DEF JoinsUpTo
  <2> QED
    BY <1>4, <2>2, <2>3
<1> QED
  BY <1>2, <1>7, <1>8 DEF Good

-----------------------------------------------------------------------------
(* Two orders of the same entities. *)

\* The same entity, whatever order its edges have.
Like(a, b) == a.name = b.name /\ a.fields = b.fields /\ ToSet(a.edges) = ToSet(b.edges)

SameEntities(es, fs) ==
    /\ \A i \in DOMAIN es : \E k \in DOMAIN fs : Like(es[i], fs[k])
    /\ \A k \in DOMAIN fs : \E i \in DOMAIN es : Like(es[i], fs[k])

LEMMA LikeIs ==
    ASSUME NEW a, NEW b, Like(a, b), NEW e
    PROVE  findPrimaryField(a) = findPrimaryField(b) /\ edgeRefColumn(a, e) = edgeRefColumn(b, e)
<1>1. findPrimaryField(a) = findPrimaryField(b)
  BY DEF Like, findPrimaryField
<1> QED
  BY <1>1 DEF Like, edgeRefColumn

LEMMA FoundAlike ==
    ASSUME NEW es, EntitiesOK(es), NEW fs, EntitiesOK(fs), SameEntities(es, fs), NEW n
    PROVE  /\ Known(es, n) <=> Known(fs, n)
           /\ Known(es, n) => Like(Entity(es, n), Entity(fs, n))
<1>1. ASSUME Known(es, n) PROVE Known(fs, n) /\ Like(Entity(es, n), Entity(fs, n))
  <2>1. PICK i \in DOMAIN es : es[i].name = n
    BY <1>1 DEF Known
  <2>2. PICK k \in DOMAIN fs : Like(es[i], fs[k])
    BY DEF SameEntities
  <2>3. fs[k].name = n
    BY <2>1, <2>2 DEF Like
  <2>4. Entity(es, n) = es[i] /\ Entity(fs, n) = fs[k] /\ Known(fs, n)
    BY <2>1, <2>3, EntityFound
  <2> QED
    BY <2>2, <2>4
<1>2. ASSUME Known(fs, n) PROVE Known(es, n)
  <2>1. PICK k \in DOMAIN fs : fs[k].name = n
    BY <1>2 DEF Known
  <2>2. PICK i \in DOMAIN es : Like(es[i], fs[k])
    BY DEF SameEntities
  <2> QED
    BY <2>1, <2>2 DEF Like, Known
<1> QED
  BY <1>1, <1>2

\* What an edge asks is not about the order.
LEMMA AskedAlike ==
    ASSUME NEW es, EntitiesOK(es), NEW fs, EntitiesOK(fs), SameEntities(es, fs),
           NEW a, NEW b, Like(a, b), NEW e
    PROVE  /\ ColumnsAsked(es, a, e) = ColumnsAsked(fs, b, e)
           /\ JoinsAsked(es, a, e) = JoinsAsked(fs, b, e)
<1>1. Known(es, e.target) <=> Known(fs, e.target)
  BY FoundAlike
<1>2. CASE ~Known(es, e.target)
  BY <1>1, <1>2 DEF ColumnsAsked, JoinsAsked
<1>3. CASE Known(es, e.target)
  <2> DEFINE t == Entity(es, e.target)
             u == Entity(fs, e.target)
  <2>1. Like(t, u) /\ Known(fs, e.target)
    BY <1>3, FoundAlike
  <2>2. /\ findPrimaryField(a) = findPrimaryField(b) /\ a.name = b.name
        /\ findPrimaryField(t) = findPrimaryField(u) /\ t.name = u.name
        /\ edgeRefColumn(a, e) = edgeRefColumn(b, e)
    <3> HIDE DEF t, u
    <3> QED
      BY <2>1, LikeIs DEF Like
  <2>3. ResolvedColumn(es, a, e) = ResolvedColumn(fs, b, e)
    <3>1. t.fields = u.fields /\ ToSet(t.edges) = ToSet(u.edges)
      BY <2>1 DEF Like
    <3> QED
      BY <2>2, <3>1 DEF ResolvedColumn
  <2>4. /\ \A c : ColumnAsked(a, c, t, e) = ColumnAsked(b, c, u, e)
        /\ \A c : ColumnAsked(t, c, a, e) = ColumnAsked(u, c, b, e)
    <3> HIDE DEF t, u
    <3> QED
      BY <2>2 DEF ColumnAsked
  <2>5. ColumnsAsked(es, a, e) = ColumnsAsked(fs, b, e)
    <3>1. CASE e.kind = "ToOne"
      BY <1>3, <2>1, <2>4, <3>1 DEF ColumnsAsked
    <3>2. CASE e.kind = "ToMany"
      BY <1>3, <2>1, <2>3, <2>4, <3>2 DEF ColumnsAsked
    <3>3. CASE e.kind # "ToOne" /\ e.kind # "ToMany"
      BY <1>3, <2>1, <3>3 DEF ColumnsAsked
    <3> QED
      BY <3>1, <3>2, <3>3
  <2>6. JoinAsked(a, t, e) = JoinAsked(b, u, e)
    <3> HIDE DEF t, u
    <3>1. manyToManyJoinSpec(a, e, t) = manyToManyJoinSpec(b, e, u)
      BY <2>2 DEF manyToManyJoinSpec
    <3> QED
      BY <2>2, <3>1 DEF JoinAsked
  <2>7. JoinsAsked(es, a, e) = JoinsAsked(fs, b, e)
    BY <1>1, <2>6 DEF JoinsAsked
  <2> QED
    BY <2>5, <2>7
<1> QED
  BY <1>2, <1>3

LEMMA AllAskedAlike ==
    ASSUME NEW es, EntitiesOK(es), NEW fs, EntitiesOK(fs), SameEntities(es, fs)
    PROVE  AllColumnsAsked(es) = AllColumnsAsked(fs) /\ AllJoinsAsked(es) = AllJoinsAsked(fs)
<1>1. ASSUME NEW i \in DOMAIN es, NEW k \in DOMAIN fs, Like(es[i], fs[k])
      PROVE  /\ UNION {ColumnsAsked(es, es[i], e) : e \in ToSet(es[i].edges)}
                    = UNION {ColumnsAsked(fs, fs[k], e) : e \in ToSet(fs[k].edges)}
             /\ UNION {JoinsAsked(es, es[i], e) : e \in ToSet(es[i].edges)}
                    = UNION {JoinsAsked(fs, fs[k], e) : e \in ToSet(fs[k].edges)}
  <2>1. ToSet(es[i].edges) = ToSet(fs[k].edges)
    BY <1>1 DEF Like
  <2>2. /\ \A e : ColumnsAsked(es, es[i], e) = ColumnsAsked(fs, fs[k], e)
        /\ \A e : JoinsAsked(es, es[i], e) = JoinsAsked(fs, fs[k], e)
    BY <1>1, AskedAlike
  <2> QED
    BY <2>1, <2>2
<1> DEFINE Cols(l, s) == UNION {ColumnsAsked(l, s, e) : e \in ToSet(s.edges)}
           Tabs(l, s) == UNION {JoinsAsked(l, s, e) : e \in ToSet(s.edges)}
<1>2. /\ AllColumnsAsked(es) = UNION {Cols(es, s) : s \in ToSet(es)}
      /\ AllColumnsAsked(fs) = UNION {Cols(fs, s) : s \in ToSet(fs)}
      /\ AllJoinsAsked(es) = UNION {Tabs(es, s) : s \in ToSet(es)}
      /\ AllJoinsAsked(fs) = UNION {Tabs(fs, s) : s \in ToSet(fs)}
  BY DEF AllColumnsAsked, AllJoinsAsked
<1>3. \A i \in DOMAIN es, k \in DOMAIN fs : Like(es[i], fs[k]) =>
          Cols(es, es[i]) = Cols(fs, fs[k]) /\ Tabs(es, es[i]) = Tabs(fs, fs[k])
  BY <1>1
<1> HIDE DEF Cols, Tabs
<1>4. /\ {Cols(es, s) : s \in ToSet(es)} = {Cols(es, es[i]) : i \in DOMAIN es}
      /\ {Cols(fs, s) : s \in ToSet(fs)} = {Cols(fs, fs[i]) : i \in DOMAIN fs}
      /\ {Tabs(es, s) : s \in ToSet(es)} = {Tabs(es, es[i]) : i \in DOMAIN es}
      /\ {Tabs(fs, s) : s \in ToSet(fs)} = {Tabs(fs, fs[i]) : i \in DOMAIN fs}
  BY DEF ToSet
<1>5. /\ {Cols(es, es[i]) : i \in DOMAIN es} = {Cols(fs, fs[i]) : i \in DOMAIN fs}
      /\ {Tabs(es, es[i]) : i \in DOMAIN es} = {Tabs(fs, fs[i]) : i \in DOMAIN fs}
  BY <1>3 DEF SameEntities
<1> QED
  BY <1>2, <1>4, <1>5

LEMMA FieldsAlike ==
    ASSUME NEW a, NEW b, Like(a, b), NEW D, NEW f, FieldsAre(a, D, f), NEW g, FieldsAre(b, D, g)
    PROVE  ToSet(f) \subseteq ToSet(g)
<1> SUFFICES ASSUME NEW i \in DOMAIN f PROVE f[i] \in ToSet(g)
  BY DEF ToSet
<1> DEFINE c == f[i].column
<1>1. a.name = b.name /\ a.fields = b.fields
  BY DEF Like
<1>2. HasColumn(f, c) /\ FieldAt(f, c) = f[i]
  BY FieldFound DEF FieldsAre
<1> HIDE DEF c
<1>3. HasColumn(g, c)
  BY <1>1, <1>2 DEF FieldsAre
<1>4. PICK k \in DOMAIN g : g[k].column = c
  BY <1>3 DEF HasColumn
<1>5. FieldAt(g, c) = g[k]
  BY <1>4, FieldFound DEF FieldsAre
<1>6. FieldAt(f, c) = FieldAt(g, c)
  <2>1. CASE HasColumn(a.fields, c)
    <3> DEFINE d == FieldAt(a.fields, c)
               x == Field(c, d.type, d.nullable \/ AskedNullable(D, a.name, c),
                          d.unique \/ AskedUnique(D, a.name, c), d.primary)
    <3>1. FieldAt(f, c) = x
      BY <2>1 DEF FieldsAre
    <3>2. FieldAt(g, c) = x
      BY <1>1, <2>1 DEF FieldsAre
    <3> QED
      BY <3>1, <3>2
  <2>2. CASE ~HasColumn(a.fields, c)
    <3>1. PICK r \in D : r.table = a.name /\ r.column = c
      BY <1>2, <2>2 DEF FieldsAre, AskedColumn
    <3> DEFINE x == Field(c, r.key.type, AskedNullable(D, a.name, c), AskedUnique(D, a.name, c), FALSE)
    <3>2. FieldAt(f, c) = x
      BY <2>2, <3>1 DEF FieldsAre
    <3>3. FieldAt(g, c) = x
      BY <1>1, <2>2, <3>1 DEF FieldsAre
    <3> QED
      BY <3>2, <3>3
  <2> QED
    BY <2>1, <2>2
<1> QED
  BY <1>2, <1>4, <1>5, <1>6 DEF ToSet

LEMMA KeysAlike ==
    ASSUME NEW a, NEW b, Like(a, b), NEW D, NEW f, KeysAre(a, D, f), NEW g, KeysAre(b, D, g)
    PROVE  f = g
<1>1. a.name = b.name
  BY DEF Like
<1>2. DOMAIN f = DOMAIN g
  BY <1>1 DEF KeysAre
<1>3. ASSUME NEW c \in DOMAIN f PROVE f[c] = g[c]
  <2>1. PICK r \in D : r.table = a.name /\ r.column = c
    BY DEF KeysAre, AskedColumn
  <2> QED
    <3>1. f[c] = [table |-> r.of, column |-> r.key.column, onDelete |-> r.onDelete]
      BY <2>1 DEF KeysAre
    <3>2. g[c] = [table |-> r.of, column |-> r.key.column, onDelete |-> r.onDelete]
      BY <1>1, <2>1 DEF KeysAre
    <3> QED
      BY <3>1, <3>2
<1>4. f = [c \in DOMAIN f |-> f[c]] /\ g = [c \in DOMAIN g |-> g[c]]
  BY DEF KeysAre
<1> QED
  BY <1>2, <1>3, <1>4

\* What is asked says what is planned.
LEMMA SamePlan ==
    ASSUME NEW es, NEW fs, SameEntities(es, fs), NEW D, NEW J,
           NEW p, PlanIs(es, D, J, p), NEW q, PlanIs(fs, D, J, q)
    PROVE  Normal(p) = Normal(q)
<1> DEFINE T(plan, t) == [fields |-> ToSet(plan.tables[t].fields), keys |-> plan.tables[t].keys]
           N(plan, n) == ToSet(plan.joins[n])
<1>1. \A plan : Normal(plan) = [tables |-> [t \in DOMAIN plan.tables |-> T(plan, t)],
                                joins |-> [n \in DOMAIN plan.joins |-> N(plan, n)]]
  BY DEF Normal
<1>2. DOMAIN p.tables = Names(es) /\ DOMAIN q.tables = Names(fs)
  <2>1. p.tables = [n \in Names(es) |-> p.tables[n]] /\ q.tables = [n \in Names(fs) |-> q.tables[n]]
    BY DEF PlanIs, PlanOK
  <2> QED
    BY <2>1
<1>3. Names(es) = Names(fs)
  BY DEF SameEntities, Like, Names
<1>4. ASSUME NEW t \in Names(es) PROVE T(p, t) = T(q, t)
  <2>1. PICK i \in DOMAIN es : es[i].name = t
    BY DEF Names
  <2>2. PICK k \in DOMAIN fs : Like(es[i], fs[k])
    BY DEF SameEntities
  <2>3. fs[k].name = t /\ Like(fs[k], es[i])
    BY <2>1, <2>2 DEF Like
  <2>4. /\ FieldsAre(es[i], D, p.tables[t].fields) /\ KeysAre(es[i], D, p.tables[t].keys)
        /\ FieldsAre(fs[k], D, q.tables[t].fields) /\ KeysAre(fs[k], D, q.tables[t].keys)
    BY <2>1, <2>3 DEF PlanIs
  <2>5. ToSet(p.tables[t].fields) = ToSet(q.tables[t].fields)
    <3>1. ToSet(p.tables[t].fields) \subseteq ToSet(q.tables[t].fields)
      BY <2>2, <2>4, FieldsAlike
    <3>2. ToSet(q.tables[t].fields) \subseteq ToSet(p.tables[t].fields)
      BY <2>3, <2>4, FieldsAlike
    <3> QED
      BY <3>1, <3>2
  <2>6. p.tables[t].keys = q.tables[t].keys
    BY <2>2, <2>4, KeysAlike
  <2> QED
    BY <2>5, <2>6
<1>5. DOMAIN p.joins = DOMAIN q.joins
  BY DEF PlanIs, JoinsAre
<1>6. ASSUME NEW n \in DOMAIN p.joins PROVE N(p, n) = N(q, n)
  <2>1. PICK r \in J : r.name = n
    BY DEF PlanIs, JoinsAre
  <2> QED
    BY <2>1 DEF PlanIs, JoinsAre
<1> HIDE DEF T, N
<1>7. [t \in DOMAIN p.tables |-> T(p, t)] = [t \in DOMAIN q.tables |-> T(q, t)]
  BY <1>2, <1>3, <1>4
<1>8. [n \in DOMAIN p.joins |-> N(p, n)] = [n \in DOMAIN q.joins |-> N(q, n)]
  BY <1>5, <1>6
<1> QED
  BY <1>1, <1>7, <1>8

LEMMA SameNormal ==
    ASSUME NEW es, Agreed(es), NEW fs, Agreed(fs), SameEntities(es, fs)
    PROVE  Normal(buildMigrationPlan(es)) = Normal(buildMigrationPlan(fs))
<1>1. /\ PlanIs(es, AllColumnsAsked(es), AllJoinsAsked(es), buildMigrationPlan(es))
      /\ PlanIs(fs, AllColumnsAsked(fs), AllJoinsAsked(fs), buildMigrationPlan(fs))
  BY PlanIsAsked
<1>2. AllColumnsAsked(es) = AllColumnsAsked(fs) /\ AllJoinsAsked(es) = AllJoinsAsked(fs)
  BY AllAskedAlike DEF Agreed
<1> QED
  BY <1>1, <1>2, SamePlan

-----------------------------------------------------------------------------
(* The inverses, whatever order the entities come in. *)

\* The edge a declared edge wants in its target.
Wants(es, s, k, t) ==
    es[s].edges[k].inverse # NoName /\ es[s].edges[k].target = es[t].name
\* Of the edges of an entity that want the same, this is the first.
FirstToWant(es, s, k, t) ==
    /\ Wants(es, s, k, t)
    /\ \A m \in DOMAIN es[s].edges :
           Wants(es, s, m, t) /\ es[s].edges[m].inverse = es[s].edges[k].inverse => k <= m

Served(es, fs, s, k) ==
    \A t \in DOMAIN es :
        Wants(es, s, k, t) => hasEdgeNamed(fs[t].edges, es[s].edges[k].inverse)
Made(es, fs, t, j) ==
    \E s \in DOMAIN es : \E k \in DOMAIN es[s].edges :
        FirstToWant(es, s, k, t) /\ fs[t].edges[j] = buildInverseEdge(es[s], es[s].edges[k])
AllMade(es, fs) ==
    \A t \in DOMAIN es : \A j \in DOMAIN fs[t].edges : j \in DOMAIN es[t].edges \/ Made(es, fs, t, j)

\* The edges of the first entities are served, and k edges of the next one.
Reached(es, fs, i, k) ==
    /\ EntitiesOK(fs) /\ Grown(es, fs) /\ AllMade(es, fs)
    /\ \A s \in DOMAIN es : s < i => \A m \in DOMAIN es[s].edges : Served(es, fs, s, m)
    /\ \A m \in DOMAIN es[i].edges : m <= k => Served(es, fs, i, m)

LEMMA AddInverseMakes ==
    ASSUME NEW es, EntitiesOK(es), NEW source, NEW e, e.kind \in Kinds,
           e.inverse # NoName, NEW t \in DOMAIN es, es[t].name = e.target,
           ~hasEdgeNamed(es[t].edges, e.inverse)
    PROVE  LET after == AddInverse(es, source, e) IN
           /\ hasEdgeNamed(after[t].edges, e.inverse)
           /\ \A i \in DOMAIN es : \A j \in DOMAIN after[i].edges :
                  \/ j \in DOMAIN es[i].edges
                  \/ i = t /\ after[i].edges[j] = buildInverseEdge(source, e)
<1> DEFINE inv == buildInverseEdge(source, e)
           after == AddInverse(es, source, e)
           edges == Append(es[t].edges, inv)
           n == Len(es[t].edges) + 1
<1>1. Index(es, e.target) = t /\ Entity(es, e.target) = es[t] /\ Known(es, e.target)
  BY EntityFound
<1>2. after = [es EXCEPT ![t].edges = edges]
  BY <1>1 DEF AddInverse
<1>3. EdgesOK(es[t].edges) /\ es[t] = [name |-> es[t].name, fields |-> es[t].fields, edges |-> es[t].edges]
  BY DEF EntitiesOK, EntityOK
<1>4. inv.name = e.inverse /\ inv.kind \in Kinds /\ inv.generated
  BY InverseIs, InverseKind
<1> HIDE DEF inv
<1>5. /\ DOMAIN edges = 1..n /\ n \in Nat /\ n # 0 /\ DOMAIN es[t].edges = 1..(n - 1)
      /\ edges[n] = inv
  BY <1>3, <1>4, EdgesAppended
<1> HIDE DEF edges, after, n
<1>6. after[t].edges = edges /\ \A i \in DOMAIN es : i # t => after[i] = es[i]
  BY <1>2, <1>3
<1>7. hasEdgeNamed(after[t].edges, e.inverse)
  BY <1>4, <1>5, <1>6 DEF hasEdgeNamed
<1>8. ASSUME NEW i \in DOMAIN es, NEW j \in DOMAIN after[i].edges, j \notin DOMAIN es[i].edges
      PROVE  i = t /\ after[i].edges[j] = inv
  <2>1. i = t
    BY <1>6, <1>8
  <2>2. j = n
    BY <1>5, <1>6, <1>8, <2>1
  <2> QED
    BY <1>5, <1>6, <2>1, <2>2
<1> QED
  BY <1>7, <1>8 DEF after, inv

\* What is served stays so.
LEMMA ServedStays ==
    ASSUME NEW es, NEW fs, Grown(es, fs), NEW gs, Grown(fs, gs),
           NEW s, NEW k, Served(es, fs, s, k)
    PROVE  Served(es, gs, s, k)
<1> SUFFICES ASSUME NEW t \in DOMAIN es, Wants(es, s, k, t)
             PROVE  hasEdgeNamed(gs[t].edges, es[s].edges[k].inverse)
  BY DEF Served
<1>1. PICK j \in DOMAIN fs[t].edges : fs[t].edges[j].name = es[s].edges[k].inverse
  BY DEF Served, hasEdgeNamed
<1>2. t \in DOMAIN fs
  BY DEF Grown
<1> QED
  BY <1>1, <1>2 DEF Grown, hasEdgeNamed

\* One edge, declared or made.
LEMMA AddInverseReaches ==
    ASSUME NEW es, EntitiesOK(es), NEW fs, NEW i \in DOMAIN es, NEW k \in DOMAIN fs[i].edges, k \in Nat,
           Reached(es, fs, i, k - 1),
           NEW source, source.name = es[i].name, source.fields = es[i].fields
    PROVE  Reached(es, AddInverse(fs, source, fs[i].edges[k]), i, k)
<1> DEFINE e == fs[i].edges[k]
           after == AddInverse(fs, source, e)
<1>1. EntitiesOK(fs) /\ Grown(es, fs) /\ AllMade(es, fs)
  BY DEF Reached
<1>2. /\ DOMAIN fs = DOMAIN es /\ \A s \in DOMAIN es : fs[s].name = es[s].name /\ fs[s].fields = es[s].fields
      /\ \A s \in DOMAIN es : \A j \in DOMAIN es[s].edges :
             j \in DOMAIN fs[s].edges /\ fs[s].edges[j] = es[s].edges[j]
  BY <1>1 DEF Grown
<1>3. EntitiesOK(after) /\ Grown(fs, after)
  BY <1>1, <1>2, AddInverseKeeps
<1>4. Grown(es, after)
  BY <1>1, <1>3, GrownTwice
<1>5. /\ DOMAIN fs[i].edges \subseteq Nat /\ DOMAIN es[i].edges \subseteq Nat
  BY <1>1, <1>2, ListIs DEF EntitiesOK, EntityOK, EdgesOK
<1>6. ASSUME NEW s \in DOMAIN es, NEW m \in DOMAIN es[s].edges, Served(es, fs, s, m)
      PROVE  Served(es, after, s, m)
  BY <1>1, <1>3, <1>6, ServedStays
<1>7. \A s \in DOMAIN es : s < i => \A m \in DOMAIN es[s].edges : Served(es, after, s, m)
  BY <1>6 DEF Reached
<1>8. ASSUME NEW m \in DOMAIN es[i].edges, m <= k, m # k PROVE Served(es, after, i, m)
  <2>1. m <= k - 1
    BY <1>5, <1>8
  <2>2. Served(es, fs, i, m)
    BY <2>1 DEF Reached
  <2> QED
    BY <1>6, <2>2
<1>9. e.kind \in Kinds
  BY <1>1, <1>2 DEF EntitiesOK, EntityOK, EdgesOK
<1>10. CASE after = fs
  <2>1. ASSUME k \in DOMAIN es[i].edges PROVE Served(es, after, i, k)
    <3> SUFFICES ASSUME NEW t \in DOMAIN es, Wants(es, i, k, t)
                 PROVE  hasEdgeNamed(fs[t].edges, es[i].edges[k].inverse)
      BY <1>10 DEF Served
    <3>1. e = es[i].edges[k] /\ fs[t].name = e.target /\ t \in DOMAIN fs /\ e.inverse # NoName
      BY <1>2, <2>1 DEF Wants
    <3>2. SUFFICES ASSUME ~hasEdgeNamed(fs[t].edges, e.inverse) PROVE FALSE
      BY <3>1
    <3>3. hasEdgeNamed(after[t].edges, e.inverse)
      <4> HIDE DEF e
      <4> QED
        BY <1>1, <1>9, <3>1, <3>2, AddInverseMakes
    <3> QED
      BY <1>10, <3>2, <3>3
  <2>2. AllMade(es, after)
    BY <1>1, <1>10
  <2>3. \A m \in DOMAIN es[i].edges : m <= k => Served(es, after, i, m)
    BY <1>8, <2>1
  <2>4. Reached(es, after, i, k)
    <3> HIDE DEF after
    <3> QED
      BY <1>3, <1>4, <1>7, <2>2, <2>3 DEF Reached
  <2> QED
    BY <2>4
<1>11. CASE after # fs
  <2>1. e.inverse # NoName /\ Known(fs, e.target) /\ ~hasEdgeNamed(Entity(fs, e.target).edges, e.inverse)
    BY <1>11 DEF AddInverse
  <2>2. PICK t \in DOMAIN fs : fs[t].name = e.target /\ Entity(fs, e.target) = fs[t]
    BY <1>1, <2>1, KnownIs
  <2>3. k \in DOMAIN es[i].edges
    <3> SUFFICES ASSUME k \notin DOMAIN es[i].edges PROVE FALSE
      OBVIOUS
    <3>1. Made(es, fs, i, k)
      BY <1>1 DEF AllMade
    <3>2. PICK u \in DOMAIN es : \E m \in DOMAIN es[u].edges :
              FirstToWant(es, u, m, i) /\ e = buildInverseEdge(es[u], es[u].edges[m])
      BY <3>1 DEF Made
    <3>3. PICK m \in DOMAIN es[u].edges : e = buildInverseEdge(es[u], es[u].edges[m])
      BY <3>2
    <3>4. e.target = es[u].name /\ e.inverse = es[u].edges[m].name
      BY <3>3, InverseIs
    <3>5. Entity(fs, e.target) = fs[u]
      <4>1. u \in DOMAIN fs /\ fs[u].name = e.target
        BY <1>2, <3>4
      <4> QED
        BY <1>1, <4>1, EntityFound
    <3>6. m \in DOMAIN fs[u].edges /\ fs[u].edges[m].name = e.inverse
      BY <1>2, <3>4
    <3> QED
      BY <2>1, <3>5, <3>6 DEF hasEdgeNamed
  <2>4. e = es[i].edges[k] /\ Wants(es, i, k, t) /\ t \in DOMAIN es
    BY <1>2, <2>1, <2>2, <2>3 DEF Wants
  <2>5. /\ hasEdgeNamed(after[t].edges, e.inverse)
        /\ \A u \in DOMAIN fs : \A j \in DOMAIN after[u].edges :
               \/ j \in DOMAIN fs[u].edges
               \/ u = t /\ after[u].edges[j] = buildInverseEdge(source, e)
    <3>1. e.inverse # NoName /\ fs[t].name = e.target /\ ~hasEdgeNamed(fs[t].edges, e.inverse)
      BY <2>1, <2>2
    <3> HIDE DEF e
    <3> QED
      BY <1>1, <1>9, <3>1, AddInverseMakes
  <2>6. FirstToWant(es, i, k, t)
    <3> SUFFICES ASSUME NEW m \in DOMAIN es[i].edges, Wants(es, i, m, t), es[i].edges[m].inverse = e.inverse,
                        ~(k <= m)
                 PROVE  FALSE
      BY <2>4 DEF FirstToWant
    <3>1. m <= k - 1
      BY <1>5
    <3>2. Served(es, fs, i, m)
      BY <3>1 DEF Reached
    <3> QED
      BY <2>1, <2>2, <2>4, <3>2 DEF Served
  <2>7. buildInverseEdge(source, e) = buildInverseEdge(es[i], es[i].edges[k])
    BY <2>4, InverseSame
  <2>8. Served(es, after, i, k)
    <3> SUFFICES ASSUME NEW u \in DOMAIN es, Wants(es, i, k, u)
                 PROVE  hasEdgeNamed(after[u].edges, es[i].edges[k].inverse)
      BY DEF Served
    <3>1. es[u].name = es[t].name
      BY <2>4 DEF Wants
    <3>2. u = t
      BY <2>4, <3>1 DEF EntitiesOK
    <3> QED
      BY <2>4, <2>5, <3>2
  <2>9. AllMade(es, after)
    <3> SUFFICES ASSUME NEW u \in DOMAIN es, NEW j \in DOMAIN after[u].edges, j \notin DOMAIN es[u].edges
                 PROVE  Made(es, after, u, j)
      BY DEF AllMade
    <3>1. CASE j \in DOMAIN fs[u].edges
      <4>1. Made(es, fs, u, j)
        BY <1>1, <3>1 DEF AllMade
      <4>2. after[u].edges[j] = fs[u].edges[j]
        BY <1>2, <1>3, <3>1 DEF Grown
      <4> QED
        BY <4>1, <4>2 DEF Made
    <3>2. CASE j \notin DOMAIN fs[u].edges
      <4>1. u = t /\ after[u].edges[j] = buildInverseEdge(es[i], es[i].edges[k])
        BY <1>2, <2>5, <2>7, <3>2
      <4> QED
        BY <2>3, <2>6, <4>1 DEF Made
    <3> QED
      BY <3>1, <3>2
  <2>10. \A m \in DOMAIN es[i].edges : m <= k => Served(es, after, i, m)
    BY <1>8, <2>8
  <2>11. Reached(es, after, i, k)
    <3> HIDE DEF after
    <3> QED
      BY <1>3, <1>4, <1>7, <2>9, <2>10 DEF Reached
  <2> QED
    BY <2>11
<1> QED
  BY <1>10, <1>11

LEMMA AddInversesOfReaches ==
    ASSUME NEW es, EntitiesOK(es), NEW fs, NEW i \in DOMAIN es, Reached(es, fs, i, 0)
    PROVE  Reached(es, AddInversesOf(fs, i), i, Len(es[i].edges))
<1> DEFINE n == Len(fs[i].edges)
<1>1. /\ EntitiesOK(fs) /\ Grown(es, fs) /\ i \in DOMAIN fs
      /\ fs[i].name = es[i].name /\ fs[i].fields = es[i].fields
  BY DEF Reached, Grown
<1>2. n \in Nat /\ DOMAIN fs[i].edges = 1..n
  BY <1>1, ListIs DEF EntitiesOK, EntityOK, EdgesOK
<1>3. PICK f : /\ f[0] = fs
               /\ \A k \in 1..n : f[k] = AddInverse(f[k - 1], fs[i], fs[i].edges[k])
               /\ AddInversesOf(fs, i) = f[n]
  BY <1>2, AddInversesOfSteps
<1> DEFINE Good(k) == Reached(es, f[k], i, k) /\ Grown(fs, f[k])
           Bad == {k \in 0..n : ~Good(k)}
<1>4. Good(0)
  BY <1>3, GrownSelf
<1>5. ASSUME NEW k \in 1..n, Good(k - 1) PROVE Good(k)
  <2> DEFINE before == f[k - 1]
             edge == fs[i].edges[k]
             after == AddInverse(before, fs[i], edge)
  <2>1. /\ i \in DOMAIN before /\ k \in DOMAIN before[i].edges /\ before[i].edges[k] = edge
        /\ before[i].name = fs[i].name /\ before[i].fields = fs[i].fields /\ EntitiesOK(before)
    BY <1>1, <1>2, <1>5 DEF Grown, Reached
  <2>2. Grown(before, after)
    BY <2>1, AddInverseKeeps
  <2>3. Reached(es, after, i, k)
    <3>1. Reached(es, AddInverse(before, fs[i], before[i].edges[k]), i, k)
      <4>1. k \in Nat /\ Reached(es, before, i, k - 1)
        BY <1>2, <1>5
      <4> HIDE DEF before
      <4> QED
        BY <1>1, <2>1, <4>1, AddInverseReaches
    <3> QED
      BY <2>1, <3>1
  <2>4. f[k] = after
    BY <1>3
  <2> QED
    BY <1>5, <2>2, <2>3, <2>4, GrownTwice
<1> HIDE DEF Good
<1>6. Bad = {}
  <2> SUFFICES ASSUME Bad # {} PROVE FALSE
    OBVIOUS
  <2>1. PICK k \in Bad : \A m \in Bad : k <= m
    <3>1. Bad \in SUBSET Nat
      BY <1>2
    <3> HIDE DEF Bad
    <3> QED
      BY <3>1, LeastNumber
  <2>2. k # 0 /\ k \in 1..n /\ k - 1 \in 0..n /\ ~ (k <= k - 1)
    BY <1>2, <1>4
  <2> QED
    BY <1>5, <2>1, <2>2
<1>7. Reached(es, f[n], i, n)
  BY <1>2, <1>6 DEF Good
<1>8. /\ Len(es[i].edges) \in Nat /\ DOMAIN es[i].edges = 1..Len(es[i].edges)
      /\ DOMAIN es[i].edges \subseteq 1..n
  <2>1. DOMAIN es[i].edges \subseteq 1..n
    BY <1>1, <1>2 DEF Grown
  <2> QED
    BY <2>1, ListIs DEF EntitiesOK, EntityOK, EdgesOK
<1>9. \A m \in DOMAIN es[i].edges : m <= n
  BY <1>2, <1>8
<1> QED
  BY <1>3, <1>7, <1>9 DEF Reached

\* In the end every declared edge is served, and nothing else is made.
LEMMA InversesReach ==
    ASSUME NEW es, EntitiesOK(es)
    PROVE  LET fs == synthesizeInverseEdges(es) IN
           /\ AllMade(es, fs)
           /\ \A s \in DOMAIN es : \A m \in DOMAIN es[s].edges : Served(es, fs, s, m)
<1> DEFINE n == Len(es)
<1>1. n \in Nat /\ DOMAIN es = 1..n
  BY ListIs DEF EntitiesOK
<1>2. PICK f : /\ f[0] = es
               /\ \A k \in 1..n : f[k] = AddInversesOf(f[k - 1], k)
               /\ synthesizeInverseEdges(es) = f[n]
  BY <1>1, InversesSteps
<1>3. \A i \in DOMAIN es : DOMAIN es[i].edges = 1..Len(es[i].edges) /\ Len(es[i].edges) \in Nat
  BY ListIs DEF EntitiesOK, EntityOK, EdgesOK
<1> DEFINE Good(k) == /\ EntitiesOK(f[k]) /\ Grown(es, f[k]) /\ AllMade(es, f[k])
                      /\ \A s \in DOMAIN es : s <= k => \A m \in DOMAIN es[s].edges : Served(es, f[k], s, m)
           Bad == {k \in 0..n : ~Good(k)}
<1>4. Good(0)
  BY <1>1, <1>2, GrownSelf DEF AllMade
<1>5. ASSUME NEW k \in 1..n, Good(k - 1) PROVE Good(k)
  <2>1. k \in DOMAIN es /\ \A s \in DOMAIN es : s < k => s <= k - 1
    BY <1>1
  <2>2. \A m \in DOMAIN es[k].edges : ~ (m <= 0)
    BY <1>3, <2>1
  <2>3. Reached(es, f[k - 1], k, 0)
    BY <1>5, <2>1, <2>2 DEF Reached
  <2>4. Reached(es, AddInversesOf(f[k - 1], k), k, Len(es[k].edges))
    BY <2>1, <2>3, AddInversesOfReaches
  <2>5. f[k] = AddInversesOf(f[k - 1], k)
    BY <1>2
  <2>6. \A m \in DOMAIN es[k].edges : m <= Len(es[k].edges)
    BY <1>3, <2>1
  <2>7. \A s \in DOMAIN es : s <= k => s < k \/ s = k
    BY <1>1
  <2> QED
    BY <2>4, <2>5, <2>6, <2>7 DEF Reached
<1> HIDE DEF Good
<1>6. Bad = {}
  <2> SUFFICES ASSUME Bad # {} PROVE FALSE
    OBVIOUS
  <2>1. PICK k \in Bad : \A m \in Bad : k <= m
    <3>1. Bad \in SUBSET Nat
      BY <1>1
    <3> HIDE DEF Bad
    <3> QED
      BY <3>1, LeastNumber
  <2>2. k # 0 /\ k \in 1..n /\ k - 1 \in 0..n /\ ~ (k <= k - 1)
    BY <1>1, <1>4
  <2> QED
    BY <1>5, <2>1, <2>2
<1>7. Good(n)
  BY <1>1, <1>6
<1>8. \A s \in DOMAIN es : s <= n
  BY <1>1
<1> QED
  BY <1>2, <1>7, <1>8 DEF Good

\* What the declared entities es are loaded as.
LoadedAs(es, fs) ==
    /\ EntitiesOK(es) /\ \A i \in DOMAIN es : \A j \in DOMAIN es[i].edges : ~es[i].edges[j].generated
    /\ EntitiesOK(fs) /\ Grown(es, fs) /\ AllMade(es, fs) /\ InversesAreOnce(fs)
    /\ \A s \in DOMAIN es : \A m \in DOMAIN es[s].edges : Served(es, fs, s, m)

\* What is made of entities in one order is made of them in another.
LEMMA MadeAlike ==
    ASSUME NEW es, NEW a, LoadedAs(es, a), NEW fs, NEW b, LoadedAs(fs, b), ToSet(es) = ToSet(fs),
           NEW i \in DOMAIN es, NEW k \in DOMAIN fs, es[i] = fs[k]
    PROVE  ToSet(a[i].edges) \subseteq ToSet(b[k].edges)
<1> SUFFICES ASSUME NEW j \in DOMAIN a[i].edges PROVE a[i].edges[j] \in ToSet(b[k].edges)
  BY DEF ToSet
<1>1. /\ EntitiesOK(es) /\ EntitiesOK(a) /\ Grown(es, a) /\ AllMade(es, a)
      /\ EntitiesOK(fs) /\ EntitiesOK(b) /\ Grown(fs, b) /\ AllMade(fs, b) /\ InversesAreOnce(b)
      /\ \A s \in DOMAIN fs : \A m \in DOMAIN fs[s].edges : Served(fs, b, s, m)
      /\ \A s \in DOMAIN fs : \A m \in DOMAIN fs[s].edges : ~fs[s].edges[m].generated
  BY DEF LoadedAs
<1>2. /\ DOMAIN a = DOMAIN es /\ DOMAIN b = DOMAIN fs
      /\ \A s \in DOMAIN es : \A m \in DOMAIN es[s].edges :
             m \in DOMAIN a[s].edges /\ a[s].edges[m] = es[s].edges[m]
      /\ \A s \in DOMAIN fs : \A m \in DOMAIN fs[s].edges :
             m \in DOMAIN b[s].edges /\ b[s].edges[m] = fs[s].edges[m]
      /\ \A s \in DOMAIN fs : b[s].name = fs[s].name
  BY <1>1 DEF Grown
<1>3. CASE j \in DOMAIN es[i].edges
  BY <1>2, <1>3 DEF ToSet
<1>4. CASE j \notin DOMAIN es[i].edges
  <2>1. PICK s \in DOMAIN es : \E m \in DOMAIN es[s].edges :
            FirstToWant(es, s, m, i) /\ a[i].edges[j] = buildInverseEdge(es[s], es[s].edges[m])
    BY <1>1, <1>4 DEF AllMade, Made
  <2>2. PICK m \in DOMAIN es[s].edges :
            FirstToWant(es, s, m, i) /\ a[i].edges[j] = buildInverseEdge(es[s], es[s].edges[m])
    BY <2>1
  <2>3. PICK t \in DOMAIN fs : fs[t] = es[s]
    <3>1. es[s] \in ToSet(fs)
      BY DEF ToSet
    <3> QED
      BY <3>1 DEF ToSet
  <2> DEFINE e == fs[t].edges[m]
  <2>4. m \in DOMAIN fs[t].edges /\ FirstToWant(fs, t, m, k) /\ a[i].edges[j] = buildInverseEdge(fs[t], e)
    BY <2>2, <2>3 DEF FirstToWant, Wants
  <2>5. a[i].edges[j].name = e.inverse /\ e.inverse # NoName /\ e.target = fs[k].name
    BY <2>4, InverseIs DEF FirstToWant, Wants
  <2>6. \A q \in DOMAIN fs[k].edges : fs[k].edges[q].name # e.inverse
    <3> SUFFICES ASSUME NEW q \in DOMAIN fs[k].edges, fs[k].edges[q].name = e.inverse PROVE FALSE
      OBVIOUS
    <3>1. q \in DOMAIN a[i].edges /\ a[i].edges[q].name = a[i].edges[j].name
      BY <1>2, <2>5
    <3>2. q = j
      BY <1>1, <1>2, <3>1 DEF EntitiesOK, EntityOK, EdgesOK
    <3> QED
      BY <1>4, <3>2
  <2>7. PICK q \in DOMAIN b[k].edges : b[k].edges[q].name = e.inverse
    BY <1>1, <2>4 DEF Served, FirstToWant, hasEdgeNamed
  <2>8. Made(fs, b, k, q)
    BY <1>1, <1>2, <2>6, <2>7 DEF AllMade
  <2>9. PICK u \in DOMAIN fs : \E l \in DOMAIN fs[u].edges :
            FirstToWant(fs, u, l, k) /\ b[k].edges[q] = buildInverseEdge(fs[u], fs[u].edges[l])
    BY <2>8 DEF Made
  <2>10. PICK l \in DOMAIN fs[u].edges :
            FirstToWant(fs, u, l, k) /\ b[k].edges[q] = buildInverseEdge(fs[u], fs[u].edges[l])
    BY <2>9
  <2> DEFINE f == fs[u].edges[l]
  <2>11. f.inverse = e.inverse /\ f.target = fs[k].name /\ f.inverse # NoName
    BY <2>7, <2>10, InverseIs DEF FirstToWant, Wants
  <2>12. u = t
    <3>1. /\ b[t] \in ToSet(b) /\ b[u] \in ToSet(b) /\ b[k] \in ToSet(b)
          /\ e \in ToSet(b[t].edges) /\ f \in ToSet(b[u].edges)
          /\ ~e.generated /\ ~f.generated
      BY <1>1, <1>2, <2>4 DEF ToSet
    <3>2. ~\E g \in ToSet(b[k].edges) : ~g.generated /\ g.name = e.inverse
      <4> SUFFICES ASSUME NEW p \in DOMAIN b[k].edges, ~b[k].edges[p].generated,
                          b[k].edges[p].name = e.inverse
                   PROVE  FALSE
        BY DEF ToSet
      <4>1. p = q
        BY <1>1, <1>2, <2>7 DEF EntitiesOK, EntityOK, EdgesOK
      <4> QED
        BY <2>10, <4>1, InverseIs
    <3>3. e.target = b[k].name /\ f.target = b[k].name
      BY <1>2, <2>5, <2>11
    <3>4. b[t] = b[u]
      <4> HIDE DEF e, f
      <4> QED
        BY <1>1, <2>5, <2>11, <3>1, <3>2, <3>3 DEF InversesAreOnce
    <3> QED
      BY <1>1, <1>2, <3>4 DEF EntitiesOK
  <2>13. m = l
    <3>1. m <= l /\ l <= m
      BY <2>4, <2>10, <2>11, <2>12 DEF FirstToWant
    <3>2. m \in Nat /\ l \in Nat
      <4>1. DOMAIN fs[t].edges = 1..Len(fs[t].edges) /\ Len(fs[t].edges) \in Nat
        BY <1>1, ListIs DEF EntitiesOK, EntityOK, EdgesOK
      <4> QED
        BY <2>4, <2>12, <4>1
    <3> QED
      BY <3>1, <3>2
  <2>14. a[i].edges[j] = b[k].edges[q]
    BY <2>4, <2>10, <2>12, <2>13
  <2> QED
    BY <2>14 DEF ToSet
<1> QED
  BY <1>3, <1>4

LEMMA DeclaredAlike ==
    ASSUME NEW d \in Declarations, NEW o \in SetToSeqs(DOMAIN d)
    PROVE  LET es == DeclaredEntities(d, o) IN
           /\ ToSet(es) = {ensureDefaultField([name |-> n, fields |-> d[n].fields, edges |-> d[n].edges]) :
                              n \in DOMAIN d}
           /\ \A i \in DOMAIN es : es[i].name \in DOMAIN d /\ es[i].edges = d[es[i].name].edges
           /\ \A i \in DOMAIN es : \A j \in DOMAIN es[i].edges :
                  /\ ~es[i].edges[j].generated
                  /\ es[i].edges[j].nullable \in BOOLEAN /\ es[i].edges[j].unique \in BOOLEAN
<1> DEFINE es == DeclaredEntities(d, o)
           Defaulted(n) == ensureDefaultField([name |-> n, fields |-> d[n].fields, edges |-> d[n].edges])
<1>1. /\ DOMAIN es = DOMAIN o /\ \A i \in DOMAIN o : es[i] = Defaulted(o[i])
  BY DEF DeclaredEntities
<1>2. ToSet(o) = DOMAIN d
  BY DeclarationsAreSchemas, OrderHasAll
<1>3. \A i \in DOMAIN o : o[i] \in DOMAIN d
  BY <1>2 DEF ToSet
<1>4. ASSUME NEW n PROVE Defaulted(n).name = n /\ Defaulted(n).edges = d[n].edges
  BY DEF ensureDefaultField
<1> HIDE DEF Defaulted, es
<1>5. ToSet(es) = {Defaulted(n) : n \in DOMAIN d}
  BY <1>1, <1>2 DEF ToSet
<1>6. ASSUME NEW i \in DOMAIN es
      PROVE  es[i].name \in DOMAIN d /\ es[i].edges = d[es[i].name].edges
  BY <1>1, <1>3, <1>4
<1>7. ASSUME NEW i \in DOMAIN es, NEW j \in DOMAIN es[i].edges
      PROVE  /\ ~es[i].edges[j].generated
             /\ es[i].edges[j].nullable \in BOOLEAN /\ es[i].edges[j].unique \in BOOLEAN
  BY <1>6, DeclarationsAreSchemas
<1> QED
  BY <1>5, <1>6, <1>7 DEF es, Defaulted

\* What a schema is loaded as, in whichever order.
LEMMA LoadedAlike ==
    ASSUME NEW d \in Declarations, NEW o \in SetToSeqs(DOMAIN d), NEW p \in SetToSeqs(DOMAIN d),
           InversesAreOnce(synthesizeInverseEdges(DeclaredEntities(d, o))),
           InversesAreOnce(synthesizeInverseEdges(DeclaredEntities(d, p)))
    PROVE  SameEntities(synthesizeInverseEdges(DeclaredEntities(d, o)),
                        synthesizeInverseEdges(DeclaredEntities(d, p)))
<1> DEFINE es == DeclaredEntities(d, o)
           fs == DeclaredEntities(d, p)
           a == synthesizeInverseEdges(es)
           b == synthesizeInverseEdges(fs)
<1>1. EntitiesOK(es) /\ EntitiesOK(fs)
  BY DeclaredOK
<1>2. /\ ToSet(es) = ToSet(fs)
      /\ \A i \in DOMAIN es : \A j \in DOMAIN es[i].edges : ~es[i].edges[j].generated
      /\ \A i \in DOMAIN fs : \A j \in DOMAIN fs[i].edges : ~fs[i].edges[j].generated
  BY DeclaredAlike
<1>3. InversesAreOnce(a) /\ InversesAreOnce(b)
  OBVIOUS
<1> HIDE DEF es, fs
<1>4. LoadedAs(es, a) /\ LoadedAs(fs, b)
  BY <1>1, <1>2, <1>3, InversesKeep, InversesReach DEF LoadedAs
<1> HIDE DEF a, b
<1>5. Grown(es, a) /\ Grown(fs, b)
  BY <1>4 DEF LoadedAs
<1>6. ASSUME NEW i \in DOMAIN es, NEW k \in DOMAIN fs, es[i] = fs[k] PROVE Like(a[i], b[k])
  <2>1. ToSet(a[i].edges) \subseteq ToSet(b[k].edges)
    BY <1>2, <1>4, <1>6, MadeAlike
  <2>2. ToSet(b[k].edges) \subseteq ToSet(a[i].edges)
    BY <1>2, <1>4, <1>6, MadeAlike
  <2>3. a[i].name = b[k].name /\ a[i].fields = b[k].fields
    BY <1>5, <1>6 DEF Grown
  <2> QED
    BY <2>1, <2>2, <2>3 DEF Like
<1>7. /\ \A i \in DOMAIN es : \E k \in DOMAIN fs : es[i] = fs[k]
      /\ \A k \in DOMAIN fs : \E i \in DOMAIN es : es[i] = fs[k]
  BY <1>2 DEF ToSet
<1>8. DOMAIN a = DOMAIN es /\ DOMAIN b = DOMAIN fs
  BY <1>5 DEF Grown
<1>9. SameEntities(a, b)
  BY <1>6, <1>7, <1>8 DEF SameEntities
<1> QED
  BY <1>9 DEF a, b, es, fs

\* An edge that is made is nullable and unique as the one it is made of.
LEMMA LoadedAreWhole ==
    ASSUME NEW d \in Declarations, NEW o \in SetToSeqs(DOMAIN d)
    PROVE  EdgesAreWhole(synthesizeInverseEdges(DeclaredEntities(d, o)))
<1> DEFINE es == DeclaredEntities(d, o)
           a == synthesizeInverseEdges(es)
<1>1. EntitiesOK(es)
  BY DeclaredOK
<1>2. EdgesAreWhole(es)
  BY DeclaredAlike DEF EdgesAreWhole
<1> HIDE DEF es
<1>3. Grown(es, a) /\ AllMade(es, a)
  BY <1>1, InversesKeep, InversesReach
<1> HIDE DEF a
<1>4. ASSUME NEW i \in DOMAIN a, NEW j \in DOMAIN a[i].edges
      PROVE  a[i].edges[j].nullable \in BOOLEAN /\ a[i].edges[j].unique \in BOOLEAN
  <2>1. i \in DOMAIN es
    BY <1>3 DEF Grown
  <2>2. CASE j \in DOMAIN es[i].edges
    BY <1>2, <1>3, <2>1, <2>2 DEF Grown, EdgesAreWhole
  <2>3. CASE j \notin DOMAIN es[i].edges
    <3>1. PICK s \in DOMAIN es : \E k \in DOMAIN es[s].edges :
              a[i].edges[j] = buildInverseEdge(es[s], es[s].edges[k])
      BY <1>3, <2>1, <2>3 DEF AllMade, Made
    <3>2. PICK k \in DOMAIN es[s].edges : a[i].edges[j] = buildInverseEdge(es[s], es[s].edges[k])
      BY <3>1
    <3> DEFINE e == es[s].edges[k]
    <3>3. e.nullable \in BOOLEAN /\ e.unique \in BOOLEAN
      BY <1>2 DEF EdgesAreWhole
    <3>4. a[i].edges[j].nullable = e.nullable /\ a[i].edges[j].unique = e.unique
      <4> HIDE DEF e
      <4>1. a[i].edges[j] = buildInverseEdge(es[s], e)
        BY <3>2 DEF e
      <4> QED
        BY <4>1 DEF buildInverseEdge
    <3> QED
      BY <3>3, <3>4
  <2> QED
    BY <2>2, <2>3
<1>5. EdgesAreWhole(a)
  BY <1>4 DEF EdgesAreWhole
<1> QED
  BY <1>5 DEF a, es

\* What holds of entities holds of them in another order.
LEMMA ReorderedAgree ==
    ASSUME NEW es, Agreed(es), NEW fs, EntitiesOK(fs), ToSet(fs) = ToSet(es)
    PROVE  Agreed(fs) /\ SameEntities(es, fs)
<1>1. /\ \A i \in DOMAIN es : \E k \in DOMAIN fs : es[i] = fs[k]
      /\ \A k \in DOMAIN fs : \E i \in DOMAIN es : es[i] = fs[k]
  BY DEF ToSet
<1>2. SameEntities(es, fs)
  BY <1>1 DEF SameEntities, Like
<1>3. EntitiesOK(es)
  BY DEF Agreed
<1>4. AllColumnsAsked(es) = AllColumnsAsked(fs) /\ AllJoinsAsked(es) = AllJoinsAsked(fs)
  BY <1>2, <1>3, AllAskedAlike
<1>5. EdgesAreWhole(fs)
  BY <1>1 DEF Agreed, EdgesAreWhole
<1>6. ColumnsAgree(fs) /\ JoinsAgree(fs)
  BY <1>4 DEF Agreed, ColumnsAgree, JoinsAgree
<1>7. RefsAreClear(fs)
  <2> SUFFICES ASSUME NEW s \in ToSet(fs), NEW e \in ToSet(s.edges), e.kind = "ToMany", Known(fs, e.target),
                      ResolvedColumn(fs, s, e) # edgeRefColumn(s, e),
                      NEW r \in AllColumnsAsked(fs), r.table = e.target
               PROVE  r.column # edgeRefColumn(s, e)
    BY DEF RefsAreClear
  <2>1. Known(es, e.target) /\ Like(Entity(es, e.target), Entity(fs, e.target))
    BY <1>2, <1>3, FoundAlike
  <2>2. ResolvedColumn(es, s, e) = ResolvedColumn(fs, s, e)
    BY <2>1 DEF ResolvedColumn, Like
  <2> QED
    BY <1>4, <2>1, <2>2 DEF Agreed, RefsAreClear
<1> QED
  BY <1>2, <1>5, <1>6, <1>7 DEF Agreed

\* The schemas the theorem is about.
OrderedAlike(d) ==
    \A es \in Accepted(d) :
        ColumnsAgree(es) /\ JoinsAgree(es) /\ RefsAreClear(es) /\ InversesAreOnce(es)

LEMMA AcceptedAgree ==
    ASSUME NEW d \in Declarations, OrderedAlike(d), NEW a \in Accepted(d), NEW b \in Accepted(d)
    PROVE  Agreed(a) /\ SameEntities(a, b)
<1>1. PICK o \in SetToSeqs(DOMAIN d) : a = synthesizeInverseEdges(DeclaredEntities(d, o))
  BY DEF Accepted
<1>2. PICK p \in SetToSeqs(DOMAIN d) : b = synthesizeInverseEdges(DeclaredEntities(d, p))
  BY DEF Accepted
<1>3. InversesAreOnce(a) /\ InversesAreOnce(b)
  BY DEF OrderedAlike
<1>4. SameEntities(a, b)
  BY <1>1, <1>2, <1>3, LoadedAlike
<1>5. EntitiesOK(a)
  BY <1>1, LoadedIs DEF LoadedFrom
<1>6. EdgesAreWhole(a)
  BY <1>1, LoadedAreWhole
<1> QED
  BY <1>4, <1>5, <1>6 DEF Agreed, OrderedAlike

\* Every plan there is, is that of the schema.
IsPlanOf(plan, d) == \A es \in Accepted(d) : Normal(plan) = Normal(buildMigrationPlan(es))
OrderInv ==
    /\ PlanInv
    /\ snapshot # Unset => IsPlanOf(snapshot, declaration)
    /\ previous # Unset => IsPlanOf(previous, declaration)
    /\ phase = "done" => IsPlanOf(snapshot, declaration)

LEMMA PlanOfEntities ==
    ASSUME PlanInv, OrderedAlike(declaration), phase \in {"loaded", "orm"}
    PROVE  IsPlanOf(buildMigrationPlan(entities), declaration)
<1> SUFFICES ASSUME NEW b \in Accepted(declaration)
             PROVE  Normal(buildMigrationPlan(entities)) = Normal(buildMigrationPlan(b))
  BY DEF IsPlanOf
<1>1. declaration \in Declarations /\ EntitiesOK(entities)
  BY DEF PlanInv, LoadedFrom
<1>2. PICK a \in Accepted(declaration) : ToSet(entities) = ToSet(a)
  BY DEF PlanInv
<1>3. Agreed(a) /\ Agreed(b) /\ SameEntities(a, b)
  BY <1>1, AcceptedAgree
<1>4. Agreed(entities) /\ SameEntities(a, entities)
  BY <1>1, <1>2, <1>3, ReorderedAgree
<1>5. Normal(buildMigrationPlan(a)) = Normal(buildMigrationPlan(b))
  BY <1>3, SameNormal
<1>6. Normal(buildMigrationPlan(a)) = Normal(buildMigrationPlan(entities))
  BY <1>3, <1>4, SameNormal
<1> QED
  BY <1>5, <1>6

\* The tables of one schema are the same in every run, whichever order its
\* entities come out of the map of the parser (generator/parser.go,
\* loadEntities and synthesizeInverseEdges) and whether or not the ORM
\* component sorted them before the snapshot (generator/migrations.go,
\* buildMigrationPlan): OrderIndependent.  The hypothesis is that edges which
\* ask for one column, join table or inverse ask for the same.
THEOREM OrderIndependentAlways ==
    ASSUME \A d \in Declarations : \A es \in Accepted(d) :
               ColumnsAgree(es) /\ JoinsAgree(es) /\ RefsAreClear(es) /\ InversesAreOnce(es)
    PROVE  PlanSpec => []OrderIndependent
<1>1. PlanInit => OrderInv
  BY PlanInitOK DEF PlanInit, OrderInv
<1>2. ASSUME OrderInv, PlanInv', [PlanNext]_planVars PROVE OrderInv'
  <2>1. OrderedAlike(declaration) /\ PlanInv
    BY <1>2 DEF OrderInv, PlanInv, OrderedAlike
  <2>2. CASE LoadEntities
    BY <1>2, <2>2 DEF OrderInv, IsPlanOf, LoadEntities
  <2>3. CASE WriteORM
    BY <1>2, <2>3 DEF OrderInv, IsPlanOf, WriteORM
  <2>4. CASE BuildSnapshot
    <3>1. /\ declaration' = declaration /\ previous' = snapshot /\ phase \in {"loaded", "orm"}
          /\ snapshot' = buildMigrationPlan(entities)
      BY <2>4 DEF BuildSnapshot
    <3>2. IsPlanOf(snapshot', declaration)
      BY <2>1, <3>1, PlanOfEntities
    <3> QED
      BY <1>2, <3>1, <3>2 DEF OrderInv
  <2>5. CASE Again
    BY <1>2, <2>5 DEF OrderInv, IsPlanOf, Again
  <2>6. CASE UNCHANGED planVars
    BY <1>2, <2>6 DEF OrderInv, IsPlanOf, planVars
  <2> QED
    BY <1>2, <2>2, <2>3, <2>4, <2>5, <2>6 DEF PlanNext
<1>3. ASSUME OrderInv PROVE OrderIndependent
  <2> SUFFICES ASSUME phase = "done", previous # Unset PROVE Normal(snapshot) = Normal(previous)
    BY DEF OrderIndependent, Planned
  <2>1. PICK es \in Accepted(declaration) : TRUE
    BY <1>3 DEF OrderInv, PlanInv
  <2> QED
    BY <1>3, <2>1 DEF OrderInv, IsPlanOf
<1> QED
  BY <1>1, <1>2, <1>3, PlanInvAlways, PTL DEF PlanSpec
=============================================================================
