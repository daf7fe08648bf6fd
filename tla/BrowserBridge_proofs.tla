------------------------ MODULE BrowserBridge_proofs ------------------------
(***************************************************************************)
(* What holds of the browser bridge for any number of sockets and calls:   *)
(* the safety invariants of BrowserBridge, and that Dispatch implements    *)
(* RemoteCall.                                                             *)
(*                                                                         *)
(* The inductive invariant is IInv.  Stages says what a goroutine of Serve *)
(* holds at each of its points, Linked which link is the current one, and  *)
(* Accounted that a channel is in exactly one place; Honest follows an     *)
(* answer back to the operation the extension ran.                         *)
(***************************************************************************)
EXTENDS BrowserBridge, TLAPS

Stages ==
    \A k \in Links :
        /\ hand[k] # NoCall <=> serve[k] = "resolving"
        /\ owed[k] # {} => serve[k] \in {"replacing", "failing", "dropping"}

Linked ==
    /\ conn # NoLink => serve[conn] \in Serving \cup {"ended"}
    /\ \A k \in Links : serve[k] \in {"none", "accepted"} =>
          old[k] = NoLink /\ \A j \in Links : old[j] # k
    /\ LinkKept

Accounted ==
    /\ \A c \in pending : conn = via[c] /\ place[c] \in Sent /\ box[c] = "empty"
    /\ \A c \in Calls : place[c] = "idle" => box[c] = "empty" /\ Debtors(c) = {}
    /\ OneSender
    /\ SomebodyOwes

\* The operations that ran: none before its frame was written, none twice.
Honest ==
    /\ running \cap ran = {}
    /\ \A c \in running \cup ran : place[c] \notin {"idle", "registered", "writing"}
    /\ \A w \in wire : w[2] \in ran
    /\ \A k \in Links : hand[k] # NoCall => hand[k] \in ran
    /\ \A c \in Calls : box[c] = "answer" => c \in ran

IInv == TypeOK /\ Stages /\ Linked /\ Accounted /\ Honest

-----------------------------------------------------------------------------
(***************************************************************************)
(* The disjuncts of Next, named: what a proof by cases over it splits on.  *)
(***************************************************************************)
LinkStep(k) ==
    \/ Accept(k) \/ SwapConn(k) \/ CloseOld(k) \/ FailPending(k) \/ AllFailed(k)
    \/ ReadResult(k) \/ Resolve(k) \/ ReadFails(k) \/ DropConn(k)
    \/ ReadPing(k) \/ Pong(k) \/ Hangup(k)

CallStep(c) ==
    \/ Register(c) \/ LockWriter(c) \/ Write(c) \/ WriteFails(c) \/ Receive(c)
    \/ Leave(c) \/ GiveUp(c) \/ SendResult(c) \/ SendNothing(c) \/ MarshalFails(c)

LEMMA StepCases ==
    ASSUME Next
    PROVE  (\E k \in Links : LinkStep(k)) \/ (\E c \in Calls : CallStep(c))
BY Zenon DEF Next, Serve, Dispatch, LinkStep, CallStep

-----------------------------------------------------------------------------
(***************************************************************************)
(* Every step keeps the types.                                             *)
(***************************************************************************)
LEMMA TypeStep ==
    ASSUME IInv, Next
    PROVE  TypeOK'
<1>. USE BridgeAssumption DEF IInv, TypeOK, Sent, Returned, Serving, server, handler, dispatch, extension
<1>1. ASSUME NEW k \in Links, LinkStep(k)
      PROVE  TypeOK'
  <2>1. CASE Accept(k)
    BY <2>1 DEF Accept, ServeAt
  <2>2. CASE SwapConn(k)
    BY <2>2 DEF SwapConn, ServeAt
  <2>3. CASE CloseOld(k)
    BY <2>3 DEF CloseOld, ServeAt
  <2>4. CASE FailPending(k)
    BY <2>4 DEF FailPending
  <2>5. CASE AllFailed(k)
    BY <2>5 DEF AllFailed, ServeAt
  <2>6. CASE ReadResult(k)
    BY <2>6 DEF ReadResult, ServeAt
  <2>7. CASE Resolve(k)
    BY <2>7 DEF Resolve, ServeAt
  <2>8. CASE ReadFails(k)
    BY <2>8 DEF ReadFails, ServeAt
  <2>9. CASE DropConn(k)
    BY <2>9 DEF DropConn, ServeAt
  <2>10. CASE ReadPing(k)
    BY <2>10 DEF ReadPing, ServeAt
  <2>11. CASE Pong(k)
    BY <2>11 DEF Pong, ServeAt
  <2>12. CASE Hangup(k)
    BY <2>12 DEF Hangup
  <2>. QED  BY <1>1, <2>1, <2>2, <2>3, <2>4, <2>5, <2>6, <2>7, <2>8, <2>9, <2>10, <2>11, <2>12 DEF LinkStep
<1>2. ASSUME NEW c \in Calls, CallStep(c)
      PROVE  TypeOK'
  <2>1. CASE Register(c)
    BY <2>1 DEF Register, Goto
  <2>2. CASE LockWriter(c)
    BY <2>2 DEF LockWriter, Goto
  <2>3. CASE Write(c)
    BY <2>3 DEF Write, Goto
  <2>4. CASE WriteFails(c)
    BY <2>4 DEF WriteFails, Goto
  <2>5. CASE Receive(c)
    BY <2>5 DEF Receive, Goto
  <2>6. CASE Leave(c)
    BY <2>6 DEF Leave, Goto
  <2>7. CASE GiveUp(c)
    BY <2>7 DEF GiveUp, Goto
  <2>8. CASE SendResult(c)
    BY <2>8 DEF SendResult
  <2>9. CASE SendNothing(c)
    BY <2>9 DEF SendNothing
  <2>10. CASE MarshalFails(c)
    BY <2>10 DEF MarshalFails, Goto
  <2>. QED  BY <1>2, <2>1, <2>2, <2>3, <2>4, <2>5, <2>6, <2>7, <2>8, <2>9, <2>10 DEF CallStep
<1>. QED  BY <1>1, <1>2, StepCases

-----------------------------------------------------------------------------
(***************************************************************************)
(* Every step keeps Stages.                                                *)
(***************************************************************************)
LEMMA StagesStep ==
    ASSUME IInv, Next
    PROVE  Stages'
<1>. USE BridgeAssumption DEF IInv, TypeOK, Stages, Sent, Returned, Serving, server, handler, dispatch, extension
<1>1. ASSUME NEW k \in Links, LinkStep(k)
      PROVE  Stages'
  <2>1. CASE Accept(k)
    BY <2>1 DEF Accept, ServeAt
  <2>2. CASE SwapConn(k)
    BY <2>2 DEF SwapConn, ServeAt
  <2>3. CASE CloseOld(k)
    BY <2>3 DEF CloseOld, ServeAt
  <2>4. CASE FailPending(k)
    BY <2>4 DEF FailPending
  <2>5. CASE AllFailed(k)
    BY <2>5 DEF AllFailed, ServeAt
  <2>6. CASE ReadResult(k)
    BY <2>6 DEF ReadResult, ServeAt
  <2>7. CASE Resolve(k)
    BY <2>7 DEF Resolve, ServeAt
  <2>8. CASE ReadFails(k)
    BY <2>8 DEF ReadFails, ServeAt
  <2>9. CASE DropConn(k)
    BY <2>9 DEF DropConn, ServeAt
  <2>10. CASE ReadPing(k)
    BY <2>10 DEF ReadPing, ServeAt
  <2>11. CASE Pong(k)
    BY <2>11 DEF Pong, ServeAt
  <2>12. CASE Hangup(k)
    BY <2>12 DEF Hangup
  <2>. QED  BY <1>1, <2>1, <2>2, <2>3, <2>4, <2>5, <2>6, <2>7, <2>8, <2>9, <2>10, <2>11, <2>12 DEF LinkStep
<1>2. ASSUME NEW c \in Calls, CallStep(c)
      PROVE  Stages'
  <2>1. CASE Register(c)
    BY <2>1 DEF Register, Goto
  <2>2. CASE LockWriter(c)
    BY <2>2 DEF LockWriter, Goto
  <2>3. CASE Write(c)
    BY <2>3 DEF Write, Goto
  <2>4. CASE WriteFails(c)
    BY <2>4 DEF WriteFails, Goto
  <2>5. CASE Receive(c)
    BY <2>5 DEF Receive, Goto
  <2>6. CASE Leave(c)
    BY <2>6 DEF Leave, Goto
  <2>7. CASE GiveUp(c)
    BY <2>7 DEF GiveUp, Goto
  <2>8. CASE SendResult(c)
    BY <2>8 DEF SendResult
  <2>9. CASE SendNothing(c)
    BY <2>9 DEF SendNothing
  <2>10. CASE MarshalFails(c)
    BY <2>10 DEF MarshalFails, Goto
  <2>. QED  BY <1>2, <2>1, <2>2, <2>3, <2>4, <2>5, <2>6, <2>7, <2>8, <2>9, <2>10 DEF CallStep
<1>. QED  BY <1>1, <1>2, StepCases

-----------------------------------------------------------------------------
(***************************************************************************)
(* Every step keeps Linked: only SwapConn makes a link the current one,    *)
(* only DropConn of that very link unmakes it.                             *)
(***************************************************************************)
LEMMA LinkedStep ==
    ASSUME IInv, Next
    PROVE  Linked'
<1>. USE BridgeAssumption DEF IInv, TypeOK, Linked, LinkKept, Sent, Returned, Serving, server, handler, dispatch, extension
<1>1. ASSUME NEW k \in Links, LinkStep(k)
      PROVE  Linked'
  <2>1. CASE Accept(k)
    BY <2>1 DEF Accept, ServeAt
  <2>2. CASE SwapConn(k)
    BY <2>2 DEF SwapConn, ServeAt
  <2>3. CASE CloseOld(k)
    BY <2>3 DEF CloseOld, ServeAt
  <2>4. CASE FailPending(k)
    BY <2>4 DEF FailPending
  <2>5. CASE AllFailed(k)
    BY <2>5 DEF AllFailed, ServeAt
  <2>6. CASE ReadResult(k)
    BY <2>6 DEF ReadResult, ServeAt
  <2>7. CASE Resolve(k)
    BY <2>7 DEF Resolve, ServeAt
  <2>8. CASE ReadFails(k)
    BY <2>8 DEF ReadFails, ServeAt
  <2>9. CASE DropConn(k)
    BY <2>9 DEF DropConn, ServeAt
  <2>10. CASE ReadPing(k)
    BY <2>10 DEF ReadPing, ServeAt
  <2>11. CASE Pong(k)
    BY <2>11 DEF Pong, ServeAt
  <2>12. CASE Hangup(k)
    BY <2>12 DEF Hangup
  <2>. QED  BY <1>1, <2>1, <2>2, <2>3, <2>4, <2>5, <2>6, <2>7, <2>8, <2>9, <2>10, <2>11, <2>12 DEF LinkStep
<1>2. ASSUME NEW c \in Calls, CallStep(c)
      PROVE  Linked'
  <2>1. CASE Register(c)
    BY <2>1 DEF Register, Goto
  <2>2. CASE LockWriter(c)
    BY <2>2 DEF LockWriter, Goto
  <2>3. CASE Write(c)
    BY <2>3 DEF Write, Goto
  <2>4. CASE WriteFails(c)
    BY <2>4 DEF WriteFails, Goto
  <2>5. CASE Receive(c)
    BY <2>5 DEF Receive, Goto
  <2>6. CASE Leave(c)
    BY <2>6 DEF Leave, Goto
  <2>7. CASE GiveUp(c)
    BY <2>7 DEF GiveUp, Goto
  <2>8. CASE SendResult(c)
    BY <2>8 DEF SendResult
  <2>9. CASE SendNothing(c)
    BY <2>9 DEF SendNothing
  <2>10. CASE MarshalFails(c)
    BY <2>10 DEF MarshalFails, Goto
  <2>. QED  BY <1>2, <2>1, <2>2, <2>3, <2>4, <2>5, <2>6, <2>7, <2>8, <2>9, <2>10 DEF CallStep
<1>. QED  BY <1>1, <1>2, StepCases

-----------------------------------------------------------------------------
(***************************************************************************)
(* Every step keeps Accounted: a channel moves from pending to the one     *)
(* goroutine that takes it over, which sends once and forgets it.          *)
(***************************************************************************)
LEMMA AccountedStep ==
    ASSUME IInv, Next
    PROVE  Accounted'
<1>. USE BridgeAssumption DEF IInv, TypeOK, Stages, Linked, Accounted, OneSender, SomebodyOwes, Debtors, Sent, Returned, Serving, server, handler, dispatch, extension
<1>1. ASSUME NEW k \in Links, LinkStep(k)
      PROVE  Accounted'
  <2>1. CASE Accept(k)
    BY <2>1 DEF Accept, ServeAt
  <2>2. CASE SwapConn(k)
    BY <2>2 DEF SwapConn, ServeAt
  <2>3. CASE CloseOld(k)
    BY <2>3 DEF CloseOld, ServeAt
  <2>4. CASE FailPending(k)
    BY <2>4 DEF FailPending
  <2>5. CASE AllFailed(k)
    BY <2>5 DEF AllFailed, ServeAt
  <2>6. CASE ReadResult(k)
    BY <2>6 DEF ReadResult, ServeAt
  <2>7. CASE Resolve(k)
    BY <2>7 DEF Resolve, ServeAt
  <2>8. CASE ReadFails(k)
    BY <2>8 DEF ReadFails, ServeAt
  <2>9. CASE DropConn(k)
    BY <2>9 DEF DropConn, ServeAt
  <2>10. CASE ReadPing(k)
    BY <2>10 DEF ReadPing, ServeAt
  <2>11. CASE Pong(k)
    BY <2>11 DEF Pong, ServeAt
  <2>12. CASE Hangup(k)
    BY <2>12 DEF Hangup
  <2>. QED  BY <1>1, <2>1, <2>2, <2>3, <2>4, <2>5, <2>6, <2>7, <2>8, <2>9, <2>10, <2>11, <2>12 DEF LinkStep
<1>2. ASSUME NEW c \in Calls, CallStep(c)
      PROVE  Accounted'
  <2>1. CASE Register(c)
    BY <2>1 DEF Register, Goto
  <2>2. CASE LockWriter(c)
    BY <2>2 DEF LockWriter, Goto
  <2>3. CASE Write(c)
    BY <2>3 DEF Write, Goto
  <2>4. CASE WriteFails(c)
    BY <2>4 DEF WriteFails, Goto
  <2>5. CASE Receive(c)
    BY <2>5 DEF Receive, Goto
  <2>6. CASE Leave(c)
    BY <2>6 DEF Leave, Goto
  <2>7. CASE GiveUp(c)
    BY <2>7 DEF GiveUp, Goto
  <2>8. CASE SendResult(c)
    BY <2>8 DEF SendResult
  <2>9. CASE SendNothing(c)
    BY <2>9 DEF SendNothing
  <2>10. CASE MarshalFails(c)
    BY <2>10 DEF MarshalFails, Goto
  <2>. QED  BY <1>2, <2>1, <2>2, <2>3, <2>4, <2>5, <2>6, <2>7, <2>8, <2>9, <2>10 DEF CallStep
<1>. QED  BY <1>1, <1>2, StepCases

-----------------------------------------------------------------------------
(***************************************************************************)
(* Every step keeps Honest.                                                *)
(***************************************************************************)
LEMMA HonestStep ==
    ASSUME IInv, Next
    PROVE  Honest'
<1>. USE BridgeAssumption DEF IInv, TypeOK, Stages, Accounted, Honest, Sent, Returned, Serving, server, handler, dispatch, extension
<1>1. ASSUME NEW k \in Links, LinkStep(k)
      PROVE  Honest'
  <2>1. CASE Accept(k)
    BY <2>1 DEF Accept, ServeAt
  <2>2. CASE SwapConn(k)
    BY <2>2 DEF SwapConn, ServeAt
  <2>3. CASE CloseOld(k)
    BY <2>3 DEF CloseOld, ServeAt
  <2>4. CASE FailPending(k)
    BY <2>4 DEF FailPending
  <2>5. CASE AllFailed(k)
    BY <2>5 DEF AllFailed, ServeAt
  <2>6. CASE ReadResult(k)
    BY <2>6 DEF ReadResult, ServeAt
  <2>7. CASE Resolve(k)
    BY <2>7 DEF Resolve, ServeAt
  <2>8. CASE ReadFails(k)
    BY <2>8 DEF ReadFails, ServeAt
  <2>9. CASE DropConn(k)
    BY <2>9 DEF DropConn, ServeAt
  <2>10. CASE ReadPing(k)
    BY <2>10 DEF ReadPing, ServeAt
  <2>11. CASE Pong(k)
    BY <2>11 DEF Pong, ServeAt
  <2>12. CASE Hangup(k)
    BY <2>12 DEF Hangup
  <2>. QED  BY <1>1, <2>1, <2>2, <2>3, <2>4, <2>5, <2>6, <2>7, <2>8, <2>9, <2>10, <2>11, <2>12 DEF LinkStep
<1>2. ASSUME NEW c \in Calls, CallStep(c)
      PROVE  Honest'
  <2>1. CASE Register(c)
    BY <2>1 DEF Register, Goto
  <2>2. CASE LockWriter(c)
    BY <2>2 DEF LockWriter, Goto
  <2>3. CASE Write(c)
    BY <2>3 DEF Write, Goto
  <2>4. CASE WriteFails(c)
    BY <2>4 DEF WriteFails, Goto
  <2>5. CASE Receive(c)
    BY <2>5 DEF Receive, Goto
  <2>6. CASE Leave(c)
    BY <2>6 DEF Leave, Goto
  <2>7. CASE GiveUp(c)
    BY <2>7 DEF GiveUp, Goto
  <2>8. CASE SendResult(c)
    BY <2>8 DEF SendResult
  <2>9. CASE SendNothing(c)
    BY <2>9 DEF SendNothing
  <2>10. CASE MarshalFails(c)
    BY <2>10 DEF MarshalFails, Goto
  <2>. QED  BY <1>2, <2>1, <2>2, <2>3, <2>4, <2>5, <2>6, <2>7, <2>8, <2>9, <2>10 DEF CallStep
<1>. QED  BY <1>1, <1>2, StepCases

-----------------------------------------------------------------------------
(***************************************************************************)
(* IInv is an invariant of the bridge.                                     *)
(***************************************************************************)
THEOREM IInvHolds == Spec => []IInv
<1>1. Init => IInv
  BY BridgeAssumption DEF Init, IInv, TypeOK, Stages, Linked, LinkKept, Accounted,
     OneSender, SomebodyOwes, Debtors, Honest, Sent, Returned, Serving
<1>2. IInv /\ [Next]_vars => IInv'
  <2>. SUFFICES ASSUME IInv, [Next]_vars
                PROVE  IInv'
    OBVIOUS
  <2>1. CASE Next
    BY <2>1, TypeStep, StagesStep, LinkedStep, AccountedStep, HonestStep DEF IInv
  <2>2. CASE UNCHANGED vars
    BY <2>2 DEF IInv, TypeOK, Stages, Linked, LinkKept, Accounted, OneSender,
       SomebodyOwes, Debtors, Honest, vars, server, handler, dispatch, extension
  <2>. QED  BY <2>1, <2>2
<1>. QED  BY <1>1, <1>2, PTL DEF Spec

(***************************************************************************)
(* The bridge's variables keep their types; a call that was sent names the *)
(* link it was sent on (Dispatch).                                         *)
(***************************************************************************)
THEOREM BridgeTyped == Spec => []TypeOK
<1>1. IInv => TypeOK
  BY DEF IInv
<1>. QED  BY <1>1, IInvHolds, PTL

(***************************************************************************)
(* No channel is sent to twice, however many links replace one another     *)
(* while calls wait (swapConn, dropConn, resolve, failPending).            *)
(***************************************************************************)
THEOREM SendersAreUnique == Spec => []OneSender
<1>1. IInv => OneSender
  BY DEF IInv, Accounted
<1>. QED  BY <1>1, IInvHolds, PTL

(***************************************************************************)
(* A call that waits is owed a result by the link it was sent on or by a   *)
(* goroutine that took it over.                                            *)
(***************************************************************************)
THEOREM WaitersAreOwed == Spec => []SomebodyOwes
<1>1. IInv => SomebodyOwes
  BY DEF IInv, Accounted
<1>. QED  BY <1>1, IInvHolds, PTL

(***************************************************************************)
(* pending holds no call that has returned.                                *)
(***************************************************************************)
THEOREM PendingIsAlive == Spec => []NothingLeaks
<1>1. IInv => NothingLeaks
  BY DEF IInv, Accounted, NothingLeaks
<1>. QED  BY <1>1, IInvHolds, PTL

(***************************************************************************)
(* A link that nobody replaced is the connection for as long as its        *)
(* goroutine serves it (dropConn's comparison).                            *)
(***************************************************************************)
THEOREM LinkSurvives == Spec => []LinkKept
<1>1. IInv => LinkKept
  BY DEF IInv, Linked
<1>. QED  BY <1>1, IInvHolds, PTL

-----------------------------------------------------------------------------
(***************************************************************************)
(* Steps that move no call, and no operation's result, change nothing the  *)
(* promise speaks of.                                                      *)
(***************************************************************************)
LEMMA QuietStep ==
    ASSUME UNCHANGED <<place, ran>>
    PROVE  UNCHANGED <<Outcome, ran>>
BY DEF Outcome, Sent, Returned

\* How a call stands, from where it is.
LEMMA OutcomeOf ==
    ASSUME TypeOK
    PROVE  /\ Outcome \in [Calls -> {"none", "open", "answered", "failed"}]
           /\ \A c \in Calls : place[c] = "idle" => Outcome[c] = "none"
           /\ \A c \in Calls : place[c] \in Sent => Outcome[c] = "open"
           /\ \A c \in Calls : place[c] \in Returned => Outcome[c] = place[c]
BY DEF Outcome, TypeOK, Sent, Returned

(***************************************************************************)
(* When a call moves, only its own outcome changes.                        *)
(***************************************************************************)
LEMMA OutcomeMoves ==
    ASSUME TypeOK, TypeOK', NEW c \in Calls, NEW to,
           place' = [place EXCEPT ![c] = to]
    PROVE  Outcome' = [Outcome EXCEPT ![c] = Outcome'[c]]
<1>1. \A b \in Calls \ {c} : place'[b] = place[b]
  BY DEF TypeOK
<1>2. \A b \in Calls \ {c} : Outcome'[b] = Outcome[b]
  BY <1>1 DEF Outcome, Sent, Returned
<1>3. Outcome = [b \in Calls |-> Outcome[b]] /\ Outcome' = [b \in Calls |-> Outcome'[b]]
  BY DEF Outcome
<1>. QED  BY <1>2, <1>3

(***************************************************************************)
(* Every step of the bridge is a step of RemoteCall or leaves it alone.    *)
(***************************************************************************)
LEMMA PromiseStep ==
    ASSUME IInv, IInv', Next
    PROVE  [Promise!CallNext]_<<Outcome, ran>>
<1>. USE DEF server, handler, dispatch, extension
<1>t. TypeOK /\ TypeOK'
  BY DEF IInv
<1>p. place \in [Calls -> {"idle"} \cup Sent \cup Returned]
  BY <1>t DEF TypeOK
<1>1. ASSUME NEW k \in Links, LinkStep(k)
      PROVE  UNCHANGED <<place, ran>>
  BY <1>1 DEF LinkStep, Accept, SwapConn, CloseOld, FailPending, AllFailed,
     ReadResult, Resolve, ReadFails, DropConn, ReadPing, Pong, Hangup
<1>2. ASSUME NEW c \in Calls, CallStep(c)
      PROVE  [Promise!CallNext]_<<Outcome, ran>>
  <2>1. CASE Register(c)
    <3>1. CASE conn = NoLink
      <4>1. Promise!Refuse(c)
        <5>1. place[c] = "idle" /\ place'[c] = "failed"
          BY <2>1, <3>1, <1>p DEF Register, Goto
        <5>2. Outcome[c] = "none" /\ Outcome'[c] = "failed"
          BY <5>1, <1>t DEF Outcome, Sent, Returned
        <5>3. Outcome' = [Outcome EXCEPT ![c] = "failed"]
          BY <2>1, <3>1, <5>2, <1>t, OutcomeMoves DEF Register, Goto
        <5>. QED  BY <2>1, <5>2, <5>3 DEF Promise!Refuse, Promise!Move, Register
      <4>. QED  BY <4>1 DEF Promise!CallNext
    <3>2. CASE conn # NoLink
      <4>1. Promise!Ask(c)
        <5>1. place[c] = "idle" /\ place'[c] = "registered"
          BY <2>1, <3>2, <1>p DEF Register, Goto
        <5>2. Outcome[c] = "none" /\ Outcome'[c] = "open"
          BY <5>1 DEF Outcome, Sent, Returned
        <5>3. Outcome' = [Outcome EXCEPT ![c] = "open"]
          BY <2>1, <3>2, <5>2, <1>t, OutcomeMoves DEF Register, Goto
        <5>. QED  BY <2>1, <5>2, <5>3 DEF Promise!Ask, Promise!Move, Register
      <4>. QED  BY <4>1 DEF Promise!CallNext
    <3>. QED  BY <3>1, <3>2
  <2>2. CASE LockWriter(c) \/ MarshalFails(c) \/ Write(c) \/ WriteFails(c) \/ GiveUp(c)
    <3>1. PICK to \in Sent : place' = [place EXCEPT ![c] = to] /\ place[c] \in Sent
      BY <2>2 DEF LockWriter, MarshalFails, Write, WriteFails, GiveUp, Goto, Sent
    <3>2. place'[c] = to
      BY <3>1, <1>p
    <3>3. Outcome'[c] = Outcome[c]
      BY <3>1, <3>2 DEF Outcome, Sent, Returned
    <3>4. Outcome' = [Outcome EXCEPT ![c] = Outcome[c]]
      BY <3>1, <3>3, <1>t, OutcomeMoves
    <3>5. Outcome' = Outcome
      BY <3>4, <1>t, OutcomeOf
    <3>. QED  BY <2>2, <3>5 DEF LockWriter, MarshalFails, Write, WriteFails, GiveUp
  <2>3. CASE Receive(c)
    <3>1. CASE box[c] = "answer" /\ Goto(c, "waiting", "answered")
      <4>1. Promise!Answer(c)
        <5>1. place[c] = "waiting" /\ place'[c] = "answered"
          BY <2>3, <3>1, <1>p DEF Receive, Goto
        <5>2. Outcome[c] = "open" /\ Outcome'[c] = "answered"
          BY <5>1 DEF Outcome, Sent, Returned
        <5>3. Outcome' = [Outcome EXCEPT ![c] = "answered"]
          BY <2>3, <3>1, <5>2, <1>t, OutcomeMoves DEF Receive, Goto
        <5>4. c \in ran
          BY <3>1 DEF IInv, Honest
        <5>. QED  BY <2>3, <5>2, <5>3, <5>4 DEF Promise!Answer, Promise!Move, Receive
      <4>. QED  BY <4>1 DEF Promise!CallNext
    <3>2. CASE box[c] # "empty" /\ Goto(c, "waiting", "failed")
      <4>1. Promise!Fail(c)
        <5>1. place[c] = "waiting" /\ place'[c] = "failed"
          BY <2>3, <3>2, <1>p DEF Receive, Goto
        <5>2. Outcome[c] = "open" /\ Outcome'[c] = "failed"
          BY <5>1 DEF Outcome, Sent, Returned
        <5>3. Outcome' = [Outcome EXCEPT ![c] = "failed"]
          BY <2>3, <3>2, <5>2, <1>t, OutcomeMoves DEF Receive, Goto
        <5>. QED  BY <2>3, <5>2, <5>3 DEF Promise!Fail, Promise!Move, Receive
      <4>. QED  BY <4>1 DEF Promise!CallNext
    <3>. QED  BY <2>3, <3>1, <3>2 DEF Receive
  <2>4. CASE Leave(c)
    <3>1. Promise!Fail(c)
      <4>1. place[c] = "leaving" /\ place'[c] = "failed"
        BY <2>4, <1>p DEF Leave, Goto
      <4>2. Outcome[c] = "open" /\ Outcome'[c] = "failed"
        BY <4>1 DEF Outcome, Sent, Returned
      <4>3. Outcome' = [Outcome EXCEPT ![c] = "failed"]
        BY <2>4, <4>2, <1>t, OutcomeMoves DEF Leave, Goto
      <4>. QED  BY <2>4, <4>2, <4>3 DEF Promise!Fail, Promise!Move, Leave
    <3>. QED  BY <3>1 DEF Promise!CallNext
  <2>5. CASE SendResult(c)
    <3>1. Promise!Perform(c)
      <4>1. place[c] # "idle" /\ c \notin ran
        BY <2>5 DEF IInv, Honest, SendResult
      <4>2. Outcome[c] # "none"
        BY <4>1, <1>p DEF Outcome, Sent, Returned
      <4>3. Outcome' = Outcome
        BY <2>5 DEF SendResult, Outcome, Sent, Returned
      <4>. QED  BY <2>5, <4>1, <4>2, <4>3 DEF Promise!Perform, SendResult
    <3>. QED  BY <3>1 DEF Promise!CallNext
  <2>6. CASE SendNothing(c)
    BY <2>6, QuietStep DEF SendNothing
  <2>. QED  BY <1>2, <2>1, <2>2, <2>3, <2>4, <2>5, <2>6 DEF CallStep
<1>3. ASSUME NEW k \in Links, LinkStep(k)
      PROVE  [Promise!CallNext]_<<Outcome, ran>>
  BY <1>1, <1>3, QuietStep
<1>. QED  BY <1>2, <1>3, StepCases

(***************************************************************************)
(* Dispatch implements RemoteCall: whatever sockets do, a call ends once,  *)
(* and well only if the extension has run its own operation.               *)
(***************************************************************************)
THEOREM DispatchKeepsPromise == Spec => CallsKeepPromise
<1>1. Init => Promise!CallInit
  BY DEF Init, Promise!CallInit, Outcome, Sent, Returned
<1>2. IInv /\ IInv' /\ [Next]_vars => [Promise!CallNext]_<<Outcome, ran>>
  <2>. SUFFICES ASSUME IInv, IInv', [Next]_vars
                PROVE  [Promise!CallNext]_<<Outcome, ran>>
    OBVIOUS
  <2>1. CASE Next
    BY <2>1, PromiseStep
  <2>2. CASE UNCHANGED vars
    BY <2>2, QuietStep DEF vars, dispatch, extension
  <2>. QED  BY <2>1, <2>2
<1>. QED  BY <1>1, <1>2, IInvHolds, PTL DEF Spec, CallsKeepPromise, Promise!CallSpec
=============================================================================
