---------------------------- MODULE MCApprovals ----------------------------
(* Approvals on a root session and one teammate, each running one call; the *)
(* two commands of one tool are interchangeable.                            *)
EXTENDS Approvals, TLC

CONSTANTS r, k1, c0, c1, make, rm, f1, f2

MCBelow == [s \in {r, k1} |-> IF s = r THEN {k1} ELSE {}]
MCSessionOf == [c \in Calls |-> IF c = c0 THEN r ELSE k1]
MCTargets == {[tool |-> "bash", pattern |-> make],
              [tool |-> "bash", pattern |-> rm]}

(* A second request, or a call that a grant lets through. *)
Another ==
    \/ Len(asked) + Cardinality({c \in Calls : call[c].pc = "ask"}) > 1
    \/ \E c \in Calls : call[c].pc = "run" /\ call[c].req = 0

(* The corners of the state space a run explores, what tears one page's     *)
(* view being independent of what a second call does: a permission request  *)
(* at the session watched, with one selection; an ask_user batch at both    *)
(* sessions, with two selections whose lists cross; two requests, or a      *)
(* grant and its use, while the page misses nothing.                        *)
Corners == \A p \in Pages :
    LET lists == Cardinality({f \in Fetches : fetch[p][f] # NoFetch})
        served == {fetch[p][f].of : f \in {g \in Fetches : fetch[p][g].at = "served"}}
        onTheWay == Len(stream[p]) + Cardinality(posts)
        batch == Len(asked) = 1 /\ Kind(1) = "question" IN
    /\ onTheWay <= 2
    /\ lists = 1 => batch \/ onTheWay <= 1
    /\ lists > 1 => /\ batch /\ onTheWay <= 1 /\ posts = {}
                    /\ Cardinality(served) <= 1
    /\ view[p] # Root => batch
    /\ Another => lists = 0 /\ lost = {} /\ onTheWay <= 1 /\ p \in subs

Symmetry == Permutations({make, rm}) \cup Permutations({f1, f2})
=============================================================================
