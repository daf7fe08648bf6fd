---------------------------- MODULE MCFileGuards ----------------------------
(***************************************************************************)
(* Model values and assignments for FileGuards.                            *)
(***************************************************************************)
EXTENDS FileGuards, TLC

CONSTANTS
    s1, s2, c1, c2,
    MaxRev      \* bound: revisions explored

TwoSessions == {s1, s2}
TwoCalls    == {c1, c2}
OneEach     == (c1 :> s1) @@ (c2 :> s2)

\* The properties say nothing once a restart has lost the newest revision.
Explored == ~broken /\ rev <= MaxRev
=============================================================================
