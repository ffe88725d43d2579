----------------------------- MODULE MigrateAbs -----------------------------
(***************************************************************************)
(* What `erm migrate` promises about a database, however many sessions run *)
(* it at once.  A session looks at the migrations directory, and later, in *)
(* one atomic step, brings a batch of it into force (the lowest versions   *)
(* it saw that are not in force by then) or reverts one migration that has *)
(* a rollback script.  The schema always holds the effect of exactly the   *)
(* applied migrations, each once.                                          *)
(*                                                                         *)
(* Migrate.tla, which follows orm/migrate/migrate.go statement by          *)
(* statement, is shown to implement this specification.                    *)
(***************************************************************************)
EXTENDS Integers

CONSTANTS
    Sessions,   \* who runs migrations
    Versions,   \* versions a migration file can have, in lexical order
    Downs       \* versions that ship a rollback script

VARIABLES
    applied,    \* the migrations in force
    effect,     \* effect[v]: how often v's SQL is in effect in the schema
    files,      \* the migrations directory
    view        \* view[s]: the directory as s last saw it, {} when s is idle

absVars == <<applied, effect, files, view>>

AbsInit ==
    /\ applied = {}
    /\ effect = [v \in Versions |-> 0]
    /\ files \in SUBSET Versions
    /\ view = [s \in Sessions |-> {}]

\* Someone edits the directory.
Deploy ==
    /\ files' \in SUBSET Versions
    /\ UNCHANGED <<applied, effect, view>>

\* s reads the directory, or gives up what it read.
Look(s) ==
    /\ view' \in {[view EXCEPT ![s] = files], [view EXCEPT ![s] = {}]}
    /\ UNCHANGED <<applied, effect, files>>

\* A set of pending versions that skips none below its highest member.
InitialSegment(batch, pending) ==
    /\ batch \subseteq pending
    /\ \A v \in batch : \A w \in pending : w < v => w \in batch

\* One Apply: a batch of what s saw and is not applied comes into force.
ApplyBatch(s, batch) ==
    /\ InitialSegment(batch, view[s] \ applied)
    /\ applied' = applied \cup batch
    /\ effect' = [v \in Versions |-> effect[v] + (IF v \in batch THEN 1 ELSE 0)]
    /\ view' = [view EXCEPT ![s] = {}]
    /\ UNCHANGED files

\* One Rollback: one applied migration, whose two scripts s saw, is reverted.
Revert(s, v) ==
    /\ v \in applied \cap Downs \cap view[s]
    /\ applied' = applied \ {v}
    /\ effect' = [effect EXCEPT ![v] = @ - 1]
    /\ view' = [view EXCEPT ![s] = {}]
    /\ UNCHANGED files

AbsNext ==
    \/ Deploy
    \/ \E s \in Sessions :
          \/ Look(s)
          \/ \E batch \in SUBSET Versions : ApplyBatch(s, batch)
          \/ \E v \in Versions : Revert(s, v)

AbsSpec == AbsInit /\ [][AbsNext]_absVars

=============================================================================
