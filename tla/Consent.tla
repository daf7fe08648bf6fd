------------------------------ MODULE Consent ------------------------------
(***************************************************************************)
(* What consent is worth, whoever carries the question and the answer: a   *)
(* call that found no grant covering it asks (one may be given between the *)
(* look and the question: then it asks all the same), its request is       *)
(* decided once, a decision is used by the call that asked, at most once,  *)
(* for the target it named, and only an "always" outlives that use, as a   *)
(* grant of that target.                                                   *)
(***************************************************************************)
EXTENDS Naturals, Sequences

CONSTANTS
    Sessions, Calls, SessionOf,
    Targets,     \* what needs consent, records of a tool and a pattern
    Question,    \* the target of a request that only asks the user something
    Asks         \* the requests, numbered from 1

VARIABLES
    asked,       \* the requests so far: the call that asks, what for
    stage,       \* stage[q]: unasked, open, decided or closed
    answer,      \* answer[q]: what request q was answered, if it was
    granted,     \* the standing grants, pairs of a session and a target
    checked,     \* checked[c]: what call c is about to ask for, none or one
    doing        \* doing[c]: what call c is doing, a set of one or none

consent == <<asked, stage, answer, granted, checked, doing>>

Covered(c, t) == \E g \in granted :
    g[1] = SessionOf[c] /\ g[2].tool = t.tool /\ g[2].pattern \in {"*", t.pattern}

(* A call does one thing, or asks about one thing, at a time.               *)
Free(c) ==
    /\ doing[c] = {} /\ checked[c] = {}
    /\ \A q \in 1 .. Len(asked) : asked[q].call = c => stage[q] = "closed"

ConsentStart ==
    /\ asked = <<>>
    /\ stage = [q \in Asks |-> "unasked"] /\ answer = [q \in Asks |-> "none"]
    /\ granted = {}
    /\ checked = [c \in Calls |-> {}] /\ doing = [c \in Calls |-> {}]

Go(c, t) ==
    /\ Free(c) /\ Covered(c, t)
    /\ doing' = [doing EXCEPT ![c] = {t}]
    /\ UNCHANGED <<asked, stage, answer, granted, checked>>

Check(c, t) ==
    /\ Free(c) /\ ~Covered(c, t)
    /\ checked' = [checked EXCEPT ![c] = {t}]
    /\ UNCHANGED <<asked, stage, answer, granted, doing>>

Open(c, t) ==
    LET q == Len(asked) + 1 IN
    /\ t \in checked[c]
    /\ q \in Asks
    /\ asked' = Append(asked, [call |-> c, target |-> t])
    /\ stage' = [stage EXCEPT ![q] = "open"]
    /\ checked' = [checked EXCEPT ![c] = {}]
    /\ UNCHANGED <<answer, granted, doing>>

Decide(q, a) ==
    /\ stage[q] = "open"
    /\ (a = "answer") = (asked[q].target = Question)
    /\ stage' = [stage EXCEPT ![q] = "decided"]
    /\ answer' = [answer EXCEPT ![q] = a]
    /\ UNCHANGED <<asked, granted, checked, doing>>

(* Use or refusal of a decision; an "always" is kept for the session that   *)
(* asked, or for all of them.                                               *)
Use(q) ==
    LET c == asked[q].call  t == asked[q].target IN
    /\ stage[q] = "decided"
    /\ stage' = [stage EXCEPT ![q] = "closed"]
    /\ doing' = [doing EXCEPT ![c] = IF answer[q] = "reject" THEN {} ELSE {t}]
    /\ IF answer[q] = "always"
       THEN \E who \in {{SessionOf[c]}, Sessions} : granted' = granted \cup (who \X {t})
       ELSE UNCHANGED granted
    /\ UNCHANGED <<asked, answer, checked>>

(* The call is cancelled: nothing comes of the request, answered or not.    *)
Withdraw(q) ==
    /\ stage[q] \in {"open", "decided"}
    /\ stage' = [stage EXCEPT ![q] = "closed"]
    /\ UNCHANGED <<asked, answer, granted, checked, doing>>

Done(c) ==
    /\ doing[c] # {}
    /\ doing' = [doing EXCEPT ![c] = {}]
    /\ UNCHANGED <<asked, stage, answer, granted, checked>>

(* Carrying questions and answers to and fro changes nothing here.          *)
Carry == UNCHANGED consent

ConsentNext ==
    \/ Carry
    \/ \E c \in Calls :
            Done(c) \/ \E t \in Targets \cup {Question} : Go(c, t) \/ Check(c, t) \/ Open(c, t)
    \/ \E q \in 1 .. Len(asked) :
            Use(q) \/ Withdraw(q) \/ \E a \in {"once", "always", "reject", "answer"} : Decide(q, a)

ConsentSpec == ConsentStart /\ [][ConsentNext]_consent
=============================================================================
