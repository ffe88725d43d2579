---------------------------- MODULE MCGenerate ----------------------------
(* The flags the runs of Generate use. *)
EXTENDS Generate

Plain == DefaultOpts
Forced == [DefaultOpts EXCEPT !.force = TRUE]
Preview == [DefaultOpts EXCEPT !.dry = TRUE]
Only(parts) == [DefaultOpts EXCEPT !.only = parts]

AllOptions == {Plain, Forced, Preview, Only({"orm"})}
PlainOption == {Plain}

\* A run may stop anywhere but between its first migration file and the end of
\* its snapshot.
SafeCutPoints == Points \ {"idle", "emit", "snapshot"}
AllCutPoints == Points \ {"idle"}
=============================================================================
