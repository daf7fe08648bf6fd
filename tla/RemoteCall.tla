------------------------------ MODULE RemoteCall ------------------------------
(***************************************************************************)
(* What Bridge.Dispatch promises a browser tool: a call ends once, and     *)
(* ends well only if the extension has run its operation.  A call that     *)
(* failed promises nothing: the operation may have run, or run later.      *)
(***************************************************************************)
CONSTANT Calls

VARIABLES
    outcome,    \* how each call stands: none, open, answered or failed
    performed   \* the calls whose result the extension has sent

CallInit ==
    /\ outcome = [c \in Calls |-> "none"]
    /\ performed = {}

Move(c, from, to) ==
    /\ outcome[c] = from
    /\ outcome' = [outcome EXCEPT ![c] = to]
    /\ UNCHANGED performed

Ask(c)    == Move(c, "none", "open")
Refuse(c) == Move(c, "none", "failed")
Fail(c)   == Move(c, "open", "failed")
Answer(c) == c \in performed /\ Move(c, "open", "answered")

Perform(c) ==
    /\ outcome[c] # "none"
    /\ c \notin performed
    /\ performed' = performed \cup {c}
    /\ UNCHANGED outcome

CallNext ==
    \E c \in Calls : Ask(c) \/ Refuse(c) \/ Fail(c) \/ Answer(c) \/ Perform(c)

CallSpec == CallInit /\ [][CallNext]_<<outcome, performed>>
=============================================================================
