--------------------------- MODULE AgentBoard_proofs ---------------------------
(***************************************************************************)
(* Proofs about AgentBoard, for any number of kids, loops, prompts, stops, *)
(* aborts, failed spawns and restarts.                                     *)
(***************************************************************************)
EXTENDS AgentBoard, TLAPS

USE BoardAssumption

LEMMA TaskTypes ==
  ASSUME NEW a \in Agents
  PROVE  /\ Roster(a) \in Task
         /\ Cancel(a) \in Task
         /\ \A at \in BOOLEAN : a \in Kids => Claim(a, at) \in Task
BY DEF Roster, Cancel, Claim, Task

LEMMA CancelRegisteredType ==
  ASSUME TypeOK, NEW a \in Agents
  PROVE  CancelRegistered(a) \in [Agents -> [Slots -> BOOLEAN]]
BY DEF TypeOK, CancelRegistered

(***************************************************************************)
(* Types.                                                                  *)
(***************************************************************************)

(* Every variable keeps its type: in particular a stop only ever claims a  *)
(* teammate's or a task's row (stopTeammate refuses a session's handle).   *)
THEOREM TypeCorrect == Spec => []TypeOK
<1>1. Init => TypeOK
  <2> SUFFICES ASSUME Init PROVE TypeOK
    OBVIOUS
  <2>1. /\ loop \in [Agents -> [Slots -> LoopPhases]]
        /\ cancelled \in [Agents -> [Slots -> BOOLEAN]]
    BY DEF Init, LoopPhases
  <2>2. /\ status \in [Agents -> Statuses]
        /\ status[Root] \notin Terminal
        /\ session \in [Agents -> BOOLEAN]
        /\ parent \in [Kids -> Agents \cup {NoAgent}]
        /\ reg \in [Agents -> Slots \cup {0}]
    BY DEF Init, Statuses, Terminal, Agents
  <2>3. spawn \in [Kids -> SpawnPhases]
    BY DEF Init, SpawnPhases
  <2>4. /\ by \in [Kids -> (Agents \X Slots) \cup {NoLoop}]
        /\ bids \in [Typed -> [Agents \X Slots -> 0 .. MaxBids]]
    BY DEF Init
  <2> QED
    BY <2>1, <2>2, <2>3, <2>4 DEF Init, TypeOK
<1>2. TypeOK /\ [Next]_vars => TypeOK'
  <2> SUFFICES ASSUME TypeOK, [Next]_vars PROVE TypeOK'
    OBVIOUS
  <2> USE DEF TypeOK
  <2>1. ASSUME NEW a \in Agents, NEW i \in Slots, Prompt(a, i)
        PROVE  TypeOK'
    BY <2>1 DEF Prompt, SetLoop, LoopPhases, rowVars, opVars, histVars
  <2>2. ASSUME NEW a \in Agents, NEW i \in Slots, JoinBoard(a, i)
        PROVE  TypeOK'
    <3>1. loop' \in [Agents -> [Slots -> LoopPhases]]
      BY <2>2 DEF JoinBoard, SetLoop, LoopPhases
    <3>2. status' \in [Agents -> Statuses] /\ status'[Root] \notin Terminal
      BY <2>2 DEF JoinBoard, Statuses, Terminal
    <3> QED
      BY <2>2, <3>1, <3>2 DEF JoinBoard, opVars, histVars
  <2>3. ASSUME NEW a \in Agents, NEW i \in Slots, Register(a, i)
        PROVE  TypeOK'
    <3>1. loop' \in [Agents -> [Slots -> LoopPhases]]
      BY <2>3 DEF Register, SetLoop, LoopPhases
    <3>2. cancelled' \in [Agents -> [Slots -> BOOLEAN]]
      BY <2>3, CancelRegisteredType DEF Register
    <3>3. spawn' \in [Kids -> SpawnPhases]
      BY <2>3 DEF Register, SpawnPhases
    <3>4. late' \subseteq Kids
      BY <2>3 DEF Register, Agents
    <3>5. /\ reg' \in [Agents -> Slots \cup {0}]
          /\ orphaned' \subseteq Agents
      BY <2>3 DEF Register
    <3>6. torn' \in BOOLEAN
      BY <2>3 DEF Register
    <3> QED
      BY <2>3, <3>1, <3>2, <3>3, <3>4, <3>5, <3>6 DEF Register, rowVars
  <2>4. ASSUME NEW a \in Agents, NEW i \in Slots, Exit(a, i)
        PROVE  TypeOK'
    <3>1. loop' \in [Agents -> [Slots -> LoopPhases]]
      <4>1. CASE reg[a] = i
        <5>1. loop' = [loop EXCEPT ![a][i] = "leaving"]
          BY <2>4, <4>1 DEF Exit, SetLoop
        <5> QED
          BY <5>1 DEF LoopPhases
      <4>2. CASE reg[a] # i
        <5>1. loop' = [loop EXCEPT ![a][i] = "off"]
          BY <2>4, <4>2 DEF Exit, SetLoop
        <5> QED
          BY <5>1 DEF LoopPhases
      <4> QED
        BY <4>1, <4>2
    <3>2. reg' \in [Agents -> Slots \cup {0}]
      BY <2>4 DEF Exit
    <3>3. cancelled' \in [Agents -> [Slots -> BOOLEAN]]
      BY <2>4 DEF Exit
    <3> QED
      BY <2>4, <3>1, <3>2, <3>3 DEF Exit, rowVars, opVars, histVars
  <2>5. ASSUME NEW a \in Agents, NEW i \in Slots, LeaveBoard(a, i)
        PROVE  TypeOK'
    <3>1. loop' \in [Agents -> [Slots -> LoopPhases]]
      BY <2>5 DEF LeaveBoard, SetLoop, LoopPhases
    <3>2. status' \in [Agents -> Statuses] /\ status'[Root] \notin Terminal
      BY <2>5 DEF LeaveBoard, UnlessTerminal, Statuses, Terminal
    <3> QED
      BY <2>5, <3>1, <3>2 DEF LeaveBoard, opVars, histVars
  <2>6. ASSUME NEW a \in Agents, NEW i \in Slots, NEW k \in Kids,
               ClaimName(a, i, k)
        PROVE  TypeOK'
    <3>1. by' \in [Kids -> (Agents \X Slots) \cup {NoLoop}]
      BY <2>6 DEF ClaimName
    <3>2. spawn' \in [Kids -> SpawnPhases]
      BY <2>6 DEF ClaimName, SpawnPhases
    <3>3. /\ status' \in [Agents -> Statuses]
          /\ status'[Root] \notin Terminal
          /\ parent' \in [Kids -> Agents \cup {NoAgent}]
      <4>1. k \in Agents /\ k # Root
        BY DEF Agents
      <4> QED
        BY <2>6, <4>1 DEF ClaimName, Statuses
    <3> QED
      BY <2>6, <3>1, <3>2, <3>3 DEF ClaimName, loopVars, histVars
  <2>13. ASSUME NEW a \in Agents, NEW i \in Slots, NEW k \in Typed,
                LookUpName(a, i, k)
         PROVE  TypeOK'
    <3>1. bids[k][<<a, i>>] + 1 \in 0 .. MaxBids
      BY <2>13 DEF LookUpName
    <3>2. bids' \in [Typed -> [Agents \X Slots -> 0 .. MaxBids]]
      BY <2>13, <3>1 DEF LookUpName
    <3> QED
      BY <2>13, <3>2 DEF LookUpName, rowVars, loopVars, histVars
  <2>14. ASSUME NEW a \in Agents, NEW i \in Slots, Bid(a, i)
         PROVE  TypeOK'
    <3>1. PICK k \in Typed : AttachFresh(a, i, k) \/ BidFails(a, i, k)
      BY <2>14 DEF Bid
    <3>2. bids' \in [Typed -> [Agents \X Slots -> 0 .. MaxBids]]
      <4>1. BidEnds(a, i, k)
        BY <3>1 DEF AttachFresh, BidFails
      <4>2. bids[k][<<a, i>>] - 1 \in 0 .. MaxBids
        BY <4>1 DEF BidEnds
      <4> QED
        BY <4>1, <4>2 DEF BidEnds
    <3>3. CASE AttachFresh(a, i, k)
      <4>1. k \in Kids /\ k \in Agents /\ k # Root
        BY DEF Agents
      <4>2. /\ status' \in [Agents -> Statuses]
            /\ status'[Root] \notin Terminal
            /\ session' \in [Agents -> BOOLEAN]
            /\ parent' \in [Kids -> Agents \cup {NoAgent}]
        BY <3>3, <4>1 DEF AttachFresh, Statuses
      <4>3. /\ spawn' \in [Kids -> SpawnPhases]
            /\ by' \in [Kids -> (Agents \X Slots) \cup {NoLoop}]
        BY <3>3, <4>1 DEF AttachFresh, SpawnPhases
      <4> QED
        BY <3>2, <3>3, <4>2, <4>3 DEF AttachFresh, loopVars, histVars
    <3>4. CASE BidFails(a, i, k)
      BY <3>2, <3>4 DEF BidFails, rowVars, loopVars, histVars
    <3> QED
      BY <3>1, <3>3, <3>4
  <2>7. ASSUME NEW k \in Kids, Spawn(k)
        PROVE  TypeOK'
    <3>1. CASE CreateSession(k)
      BY <3>1 DEF CreateSession, SpawnPhases, rowVars, loopVars, histVars
    <3>2. CASE Attach(k)
      <4>1. by[k][1] \in Agents \cup {NoAgent}
        BY DEF NoLoop
      <4> QED
        BY <3>2, <4>1 DEF Attach, SpawnPhases, Statuses, Agents, loopVars,
                          histVars
    <3>3. CASE SpawnFails(k)
      BY <3>3 DEF SpawnFails, SpawnPhases, Agents, rowVars, loopVars
    <3>4. ASSUME NEW i \in Slots, StartChild(k, i)
          PROVE  TypeOK'
      BY <3>4 DEF StartChild, SetLoop, LoopPhases, SpawnPhases, Agents,
                  rowVars, histVars
    <3> QED
      BY <2>7, <3>1, <3>2, <3>3, <3>4 DEF Spawn
  <2>8. ASSUME NEW k \in Stoppable, Stop(k)
        PROVE  TypeOK'
    <3>1. tasks' \subseteq Task
      BY <2>8, TaskTypes DEF Stop, Stoppable, Agents
    <3> QED
      BY <2>8, <3>1 DEF Stop, rowVars, loopVars, histVars
  <2>9. ASSUME NEW a \in Agents, Abort(a)
        PROVE  TypeOK'
    BY <2>9, TaskTypes, CancelRegisteredType DEF Abort, rowVars
  <2>10. CASE Sweep
    <3>1. PICK t \in tasks : ReadRoster(t) \/ ClaimRow(t) \/ CancelLoop(t)
      BY <2>10 DEF Sweep
    <3>2. t \in Task /\ t.agent \in Agents
      BY <3>1 DEF Task, Agents
    <3>3. CASE ReadRoster(t)
      <4>1. tasks' \subseteq Task
        BY <3>2, <3>3, TaskTypes DEF ReadRoster, Agents
      <4> QED
        BY <3>3, <4>1 DEF ReadRoster, rowVars, loopVars, histVars
    <3>4. CASE ClaimRow(t)
      <4>1. t.agent \in Kids
        BY <3>2, <3>4 DEF ClaimRow, Task
      <4>2. status' \in [Agents -> Statuses] /\ status'[Root] \notin Terminal
        BY <3>2, <3>4, <4>1 DEF ClaimRow, UnlessTerminal, Statuses, Terminal
      <4>3. tasks' \subseteq Task
        BY <3>2, <3>4, TaskTypes DEF ClaimRow
      <4> QED
        BY <3>4, <4>2, <4>3 DEF ClaimRow, loopVars, histVars
    <3>5. CASE CancelLoop(t)
      BY <3>2, <3>5, TaskTypes, CancelRegisteredType
      DEF CancelLoop, rowVars, histVars
    <3> QED
      BY <3>1, <3>3, <3>4, <3>5
  <2>11. CASE Restart
    <3>1. status' \in [Agents -> Statuses] /\ status'[Root] \notin Terminal
      BY <2>11 DEF Restart, Reconciled, Agents, Statuses, Terminal
    <3>2. /\ reg' \in [Agents -> Slots \cup {0}]
          /\ loop' \in [Agents -> [Slots -> LoopPhases]]
          /\ cancelled' \in [Agents -> [Slots -> BOOLEAN]]
      BY <2>11 DEF Restart, LoopPhases
    <3>3. /\ spawn' \in [Kids -> SpawnPhases]
          /\ by' \in [Kids -> (Agents \X Slots) \cup {NoLoop}]
          /\ bids' \in [Typed -> [Agents \X Slots -> 0 .. MaxBids]]
      BY <2>11 DEF Restart, SpawnPhases
    <3> QED
      BY <2>11, <3>1, <3>2, <3>3 DEF Restart
  <2>12. CASE UNCHANGED vars
    BY <2>12 DEF vars, rowVars, loopVars, opVars, histVars
  <2> QED
    BY <2>1, <2>2, <2>3, <2>4, <2>5, <2>6, <2>7, <2>8, <2>9, <2>10, <2>11,
       <2>12, <2>13, <2>14 DEF Next, Turn
<1> QED
  BY <1>1, <1>2, PTL DEF Spec

(***************************************************************************)
(* The registry.                                                           *)
(***************************************************************************)

LEMMA CancelRegisteredReaches ==
  ASSUME TypeOK, NEW a \in Agents
  PROVE  /\ \A b \in Agents, j \in Slots :
              ~CancelRegistered(a)[b][j] => ~cancelled[b][j]
         /\ reg[a] # 0 => CancelRegistered(a)[a][reg[a]]
<1>1. CASE reg[a] = 0
  BY <1>1 DEF CancelRegistered
<1>2. CASE reg[a] # 0
  <2>1. CancelRegistered(a) = [cancelled EXCEPT ![a][reg[a]] = TRUE]
    BY <1>2 DEF CancelRegistered
  <2>2. reg[a] \in Slots
    BY <1>2 DEF TypeOK
  <2> QED
    BY <2>1, <2>2 DEF TypeOK
<1> QED
  BY <1>1, <1>2

LEMMA SlotsArePositive == 0 \notin Slots
  BY DEF Slots

(* An abort, a stop or the next turn finds every loop there is to cancel:  *)
(* Server.mu makes "cancel what is registered, register this one" one      *)
(* step, so no second live loop of an agent ever escapes the registry.     *)
THEOREM OneLiveLoop == Spec => []LiveLoopIsRegistered
<1>1. Init => LiveLoopIsRegistered
  BY DEF Init, LiveLoopIsRegistered
<1>2. TypeOK /\ LiveLoopIsRegistered /\ [Next]_vars => LiveLoopIsRegistered'
  <2> SUFFICES ASSUME TypeOK, LiveLoopIsRegistered, [Next]_vars,
                      NEW b \in Agents, NEW j \in Slots,
                      loop'[b][j] = "run", ~cancelled'[b][j]
               PROVE  reg'[b] = j
    BY DEF LiveLoopIsRegistered
  <2>0. loop[b][j] = "run" /\ ~cancelled[b][j] => reg[b] = j
    BY DEF LiveLoopIsRegistered
  <2>1. ASSUME NEW a \in Agents, NEW i \in Slots, Prompt(a, i)
        PROVE  reg'[b] = j
    BY <2>0, <2>1 DEF Prompt, SetLoop, TypeOK
  <2>2. ASSUME NEW a \in Agents, NEW i \in Slots, JoinBoard(a, i)
        PROVE  reg'[b] = j
    BY <2>0, <2>2 DEF JoinBoard, SetLoop, TypeOK
  <2>3. ASSUME NEW a \in Agents, NEW i \in Slots, Register(a, i)
        PROVE  reg'[b] = j
    <3>1. CASE b = a /\ j = i
      BY <2>3, <3>1 DEF Register, TypeOK
    <3>2. CASE b # a
      BY <2>0, <2>3, <3>2, CancelRegisteredReaches
      DEF Register, SetLoop, TypeOK
    <3>3. CASE b = a /\ j # i
      <4>1. loop[a][j] = "run"
        BY <2>3, <3>3 DEF Register, SetLoop, TypeOK
      <4>2. ~CancelRegistered(a)[a][j]
        BY <2>3, <3>3 DEF Register
      <4>3. reg[a] = j
        BY <2>0, <3>3, <4>1, <4>2, CancelRegisteredReaches
      <4> QED
        BY <4>2, <4>3, CancelRegisteredReaches, SlotsArePositive
    <3> QED
      BY <3>1, <3>2, <3>3
  <2>4. ASSUME NEW a \in Agents, NEW i \in Slots, Exit(a, i)
        PROVE  reg'[b] = j
    <3>1. loop'[a][i] \in {"off", "leaving"}
      BY <2>4 DEF Exit, SetLoop, TypeOK
    <3>2. ~(b = a /\ j = i)
      BY <3>1
    <3>3. loop[b][j] = "run" /\ ~cancelled[b][j]
      BY <2>4, <3>2 DEF Exit, SetLoop, TypeOK
    <3> QED
      BY <2>0, <2>4, <3>2, <3>3 DEF Exit, TypeOK
  <2>5. ASSUME NEW a \in Agents, NEW i \in Slots, LeaveBoard(a, i)
        PROVE  reg'[b] = j
    BY <2>0, <2>5 DEF LeaveBoard, SetLoop, TypeOK
  <2>6. ASSUME NEW a \in Agents, NEW i \in Slots, NEW k \in Kids,
               ClaimName(a, i, k)
        PROVE  reg'[b] = j
    BY <2>0, <2>6 DEF ClaimName, loopVars
  <2>13. ASSUME NEW a \in Agents, NEW i \in Slots,
                Bid(a, i) \/ \E k \in Typed : LookUpName(a, i, k)
         PROVE  reg'[b] = j
    BY <2>0, <2>13 DEF Bid, AttachFresh, BidFails, LookUpName, loopVars
  <2>7. ASSUME NEW k \in Kids, Spawn(k)
        PROVE  reg'[b] = j
    <3>1. CASE CreateSession(k) \/ Attach(k) \/ SpawnFails(k)
      BY <2>0, <3>1 DEF CreateSession, Attach, SpawnFails, loopVars
    <3>2. ASSUME NEW i \in Slots, StartChild(k, i)
          PROVE  reg'[b] = j
      BY <2>0, <3>2 DEF StartChild, SetLoop, TypeOK
    <3> QED
      BY <2>7, <3>1, <3>2 DEF Spawn
  <2>8. ASSUME NEW k \in Stoppable, Stop(k)
        PROVE  reg'[b] = j
    BY <2>0, <2>8 DEF Stop, loopVars
  <2>9. ASSUME NEW a \in Agents, Abort(a)
        PROVE  reg'[b] = j
    <3>1. loop[b][j] = "run" /\ ~cancelled[b][j]
      BY <2>9, CancelRegisteredReaches DEF Abort
    <3>2. b # a
      BY <2>0, <2>9, <3>1, CancelRegisteredReaches, SlotsArePositive DEF Abort
    <3> QED
      BY <2>0, <2>9, <3>1, <3>2 DEF Abort, TypeOK
  <2>10. CASE Sweep
    <3>1. PICK t \in tasks : ReadRoster(t) \/ ClaimRow(t) \/ CancelLoop(t)
      BY <2>10 DEF Sweep
    <3>2. t.agent \in Agents
      BY <3>1 DEF TypeOK, Task, Agents
    <3>3. CASE ReadRoster(t) \/ ClaimRow(t)
      BY <2>0, <3>3 DEF ReadRoster, ClaimRow, loopVars
    <3>4. CASE CancelLoop(t)
      BY <2>0, <3>2, <3>4, CancelRegisteredReaches DEF CancelLoop
    <3> QED
      BY <3>1, <3>3, <3>4
  <2>11. CASE Restart
    BY <2>11 DEF Restart
  <2>12. CASE UNCHANGED vars
    BY <2>0, <2>12 DEF vars, loopVars
  <2> QED
    BY <2>1, <2>2, <2>3, <2>4, <2>5, <2>6, <2>7, <2>8, <2>9, <2>10, <2>11,
       <2>12, <2>13 DEF Next, Turn
<1> QED
  BY <1>1, <1>2, TypeCorrect, PTL DEF Spec

=============================================================================
