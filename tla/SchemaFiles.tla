---------------------------- MODULE SchemaFiles ----------------------------
(***************************************************************************)
(* Which part of the schema directory erm gen sees: discoverSchemaFiles    *)
(* and the declarations loadEntities collects (generator/parser.go), with  *)
(* erm new (cli/new.go), which adds a file, and a developer who adds,      *)
(* moves and deletes declarations.                                         *)
(*                                                                         *)
(* A file has a suffix that decides who reads it, the types it declares    *)
(* and the methods it declares, each of some type.  A type is an entity if *)
(* it embeds dsl.Schema.                                                   *)
(***************************************************************************)
EXTENDS Integers, Sequences, FiniteSets, Functions

CONSTANTS
    Types,      \* names of types of the schema package
    Entities,   \* those that embed dsl.Schema
    MethodNames,  \* the methods of a schema type
    Suffix,     \* Suffix[file]: "schema", "test", "gen" or "plain", by the name's ending
    New,        \* New[type]: the file erm new writes for the type
    Layouts     \* conventions a project may follow: the files its developer
                \* writes and the types erm new is run for

ASSUME SchemaFilesAssumption ==
    /\ Entities \subseteq Types
    /\ \A l \in Layouts : l.new \subseteq Entities
    /\ \A l \in Layouts : l.new \subseteq DOMAIN New
    /\ \A e \in DOMAIN New : Suffix[New[e]] = "schema"

VARIABLES
    layout,     \* the convention of this project
    files,      \* the schema directory: a function from names to contents
    new,        \* the type erm new is writing a file for, or "none"
    loaded,     \* what the last erm gen that succeeded loaded: methods by entity
    problem     \* why the last erm gen failed, or "none"

filesVars == <<layout, files, new, loaded, problem>>

Content(types, methods) == [types |-> types, methods |-> methods, whole |-> TRUE]
AllMethods(t) == {t} \X MethodNames

FilesTypeOK ==
    /\ layout \in Layouts
    /\ \A f \in DOMAIN files :
           files[f] \in [types : SUBSET Types, methods : SUBSET (Types \X MethodNames), whole : BOOLEAN]
    /\ new \in layout.new \cup {"none"}
    /\ DOMAIN loaded \subseteq Entities
    /\ \A e \in DOMAIN loaded : loaded[e] \subseteq MethodNames
    /\ problem \in {"none", "no files", "no entities", "syntax"}

FilesInit ==
    /\ layout \in Layouts /\ files = <<>> /\ new = "none"
    /\ loaded = <<>> /\ problem = "none"

-----------------------------------------------------------------------------
(* erm gen.  Definitions named *Faulty* are not the code: each is a        *)
(* plausible bug in the definition after it.                               *)

\* The other files count only where no file has the suffix.
discoverSchemaFiles ==
    LET matches == {f \in DOMAIN files : Suffix[f] = "schema"}
    IN  IF matches # {} THEN matches
        ELSE {f \in DOMAIN files : Suffix[f] \notin {"test", "gen"}}

methodsOfFaulty(matches, e) ==
    UNION {{m \in MethodNames : e \in files[f].types /\ <<e, m>> \in files[f].methods} : f \in matches}
\* Methods are found in any file read, that of the type or another.
methodsOf(matches, e) == {m \in MethodNames : \E f \in matches : <<e, m>> \in files[f].methods}

typeDecls(matches) == (UNION {files[f].types : f \in matches}) \cap Entities

GenFails(matches, why) ==
    /\ CASE why = "no files" -> matches = {}
         [] why = "syntax" -> \E f \in matches : ~files[f].whole
         [] why = "no entities" ->
                /\ matches # {} /\ \A f \in matches : files[f].whole
                /\ typeDecls(matches) = {}
    /\ problem' = why /\ UNCHANGED loaded

GenLoads(matches) ==
    /\ \A f \in matches : files[f].whole
    /\ typeDecls(matches) # {}
    /\ loaded' = [e \in typeDecls(matches) |-> methodsOf(matches, e)]
    /\ problem' = "none"

Gen ==
    /\ \/ \E why \in {"no files", "syntax", "no entities"} : GenFails(discoverSchemaFiles, why)
       \/ GenLoads(discoverSchemaFiles)
    /\ UNCHANGED <<layout, files, new>>

-----------------------------------------------------------------------------
(* erm new: the file must not exist; it is created empty, then written.    *)

With(f, content) == [g \in DOMAIN files \cup {f} |-> IF g = f THEN content ELSE files[g]]

NewFile(e) ==
    /\ new = "none" /\ e \in layout.new
    /\ New[e] \notin DOMAIN files
    /\ files' = With(New[e], [Content({}, {}) EXCEPT !.whole = FALSE])
    /\ new' = e /\ UNCHANGED <<layout, loaded, problem>>

WriteTemplate ==
    /\ new # "none"
    /\ files' = [files EXCEPT ![New[new]] = Content({new}, AllMethods(new))]
    /\ new' = "none" /\ UNCHANGED <<layout, loaded, problem>>

\* erm new stops before the template is written.
Crash == new # "none" /\ new' = "none" /\ UNCHANGED <<layout, files, loaded, problem>>

-----------------------------------------------------------------------------
(* The developer, who keeps the package in a state that compiles.  An      *)
(* unfinished file of erm new is left alone until erm new has ended.       *)

Compiled == {f \in DOMAIN files : Suffix[f] # "test"}
Declared == UNION {files[f].types : f \in Compiled}
Having(e) == {m \in MethodNames : \E f \in Compiled : <<e, m>> \in files[f].methods}
Others == UNCHANGED <<layout, new, loaded, problem>>
Busy(f) == new # "none" /\ f = New[new]

\* A file of the suffix "test" or "gen" has declarations of its own.
AddFile(f, t) ==
    /\ f \in layout.files \ DOMAIN files /\ t \notin Declared
    /\ Suffix[f] \in {"test", "gen"} => \A g \in DOMAIN files : t \notin files[g].types
    /\ files' = With(f, Content({t}, AllMethods(t))) /\ Others

\* Some methods of a type move to another file that is compiled with it.
MoveMethods(f, g, t) ==
    /\ f # g /\ f \in DOMAIN files /\ g \in DOMAIN files /\ Suffix[f] = Suffix[g]
    /\ ~Busy(f) /\ ~Busy(g) /\ files[f].whole /\ files[g].whole
    /\ \E ms \in SUBSET (files[f].methods \cap AllMethods(t)) :
           files' = [files EXCEPT ![f].methods = @ \ ms, ![g].methods = @ \cup ms]
    /\ Others

\* A file whose declarations nothing else uses is deleted.
DeleteFile(f) ==
    /\ f \in DOMAIN files /\ ~Busy(f)
    /\ \A m \in files[f].methods : m[1] \in files[f].types
    /\ \A t \in files[f].types : {t} \X MethodNames \subseteq files[f].methods
    /\ files' = Restrict(files, DOMAIN files \ {f}) /\ Others

FilesNext ==
    \/ Gen \/ WriteTemplate \/ Crash
    \/ \E e \in layout.new : NewFile(e)
    \/ \E f \in layout.files, t \in Types : AddFile(f, t)
    \/ \E f, g \in DOMAIN files, t \in Types : MoveMethods(f, g, t)
    \/ \E f \in DOMAIN files : DeleteFile(f)
FilesSpec == FilesInit /\ [][FilesNext]_filesVars

-----------------------------------------------------------------------------
(* Properties. *)

\* A project whose schema is in files with the suffix, where erm new puts its
\* own, or one without any; nothing of it is in generated files.
Uniform(l) ==
    /\ \A f \in l.files : Suffix[f] # "gen"
    /\ \/ \A f \in l.files : Suffix[f] \in {"schema", "test"}
       \/ l.new = {} /\ \A f \in l.files : Suffix[f] # "schema"

\* The entities of the package, as the compiler sees them.
PackageEntities == Declared \cap Entities

\* A run of erm gen that succeeds loads every entity of the package, each with
\* all its methods, wherever they are declared, and no entity of a test: none
\* is hidden, whose table the next migration would drop.  A run that fails for
\* want of files or entities does so because none is declared.  Steps of the
\* developer and of erm new, cut short or not, leave a directory it can read.
ReadsPackage ==
    [][/\ FilesTypeOK'
       /\ loaded' # loaded =>
             /\ DOMAIN loaded' = PackageEntities
             /\ \A e \in DOMAIN loaded' : loaded'[e] = Having(e)
       /\ problem' # problem /\ problem' \in {"no files", "no entities"} =>
             PackageEntities = {}]_filesVars

=============================================================================
