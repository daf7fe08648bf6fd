------------------------ MODULE AgentBoardRows_proofs ------------------------
(***************************************************************************)
(* Proofs about the rows of the agent board: how a row with a chosen name  *)
(* lives and ends, how any row that names its session ends, and that a row *)
(* that says running means something runs.                                 *)
(***************************************************************************)
EXTENDS AgentBoard_proofs

USE BoardAssumption

(***************************************************************************)
(* The life of a row registered with its session.  Nothing acts under a    *)
(* name before its row is there; the row always names its session, so a    *)
(* stop that finds it goes on to the cancel.                               *)
(***************************************************************************)
RowInv(k) ==
  /\ status[k] # "idle"
  /\ spawn[k] \notin {"claimed", "created"}
  /\ status[k] = "none" =>
       /\ ~session[k]
       /\ spawn[k] \notin {"attached", "starting"}
       /\ \A i \in Slots : loop[k][i] = "off"
       /\ \A t \in tasks : t.op = "claim" => t.agent # k
  /\ status[k] # "none" => session[k]
  /\ \A t \in tasks : t.op = "claim" /\ t.agent = k => t.attached

LifeInv == \A k \in Typed : RowInv(k)

LEMMA RowInvInit == Init => LifeInv
<1> SUFFICES ASSUME Init, NEW k \in Typed PROVE RowInv(k)
  BY DEF LifeInv
<1>1. k \in Agents /\ k \in Kids /\ k # Root
  BY DEF Agents
<1>2. /\ status[k] = "none" /\ ~session[k] /\ spawn[k] = "none"
      /\ tasks = {}
      /\ \A i \in Slots : loop[k][i] = "off"
  BY <1>1 DEF Init
<1> QED
  BY <1>2 DEF RowInv

(* What a step leaves alone it cannot disturb. *)
LEMMA RowInvSame ==
  ASSUME NEW k \in Typed, RowInv(k),
         status'[k] = status[k], session'[k] = session[k],
         spawn'[k] = spawn[k], tasks' = tasks, loop'[k] = loop[k]
  PROVE  RowInv(k)'
  BY DEF RowInv

LEMMA TypedAgents == \A k \in Typed : k \in Kids /\ k \in Agents /\ k # Root
  BY DEF Agents

LEMMA RowInvStep ==
  TypeOK /\ LifeInv /\ [Next]_vars => LifeInv'
<1> SUFFICES ASSUME TypeOK, LifeInv, [Next]_vars, NEW k \in Typed
             PROVE  RowInv(k)'
  BY DEF LifeInv
<1>0. RowInv(k) /\ k \in Kids /\ k \in Agents /\ k # Root
  BY TypedAgents DEF LifeInv
<1>1. ASSUME NEW a \in Agents, NEW i \in Slots, Prompt(a, i)
      PROVE  RowInv(k)'
  <2>1. CASE a = k
    BY <1>0, <1>1, <2>1 DEF Prompt, RowInv, rowVars, opVars
  <2>2. CASE a # k
    BY <1>0, <1>1, <2>2, RowInvSame DEF Prompt, SetLoop, TypeOK, rowVars, opVars
  <2> QED
    BY <2>1, <2>2
<1>2. ASSUME NEW a \in Agents, NEW i \in Slots, JoinBoard(a, i)
      PROVE  RowInv(k)'
  <2>1. status'[k] = status[k]
    BY <1>0, <1>2 DEF JoinBoard, TypeOK
  <2>2. CASE a = k
    BY <1>0, <1>2, <2>1, <2>2 DEF JoinBoard, RowInv, opVars
  <2>3. CASE a # k
    BY <1>0, <1>2, <2>1, <2>3, RowInvSame DEF JoinBoard, SetLoop, TypeOK, opVars
  <2> QED
    BY <2>2, <2>3
<1>3. ASSUME NEW a \in Agents, NEW i \in Slots, Register(a, i)
      PROVE  RowInv(k)'
  <2>1. CASE a = k
    <3>1. status[k] # "none"
      BY <1>0, <1>3, <2>1 DEF Register, RowInv
    <3>2. spawn'[k] \notin {"claimed", "created"}
      BY <1>0, <1>3, <2>1 DEF Register, RowInv, TypeOK
    <3> QED
      BY <1>0, <1>3, <3>1, <3>2 DEF Register, RowInv, rowVars
  <2>2. CASE a # k
    BY <1>0, <1>3, <2>2, RowInvSame DEF Register, SetLoop, TypeOK, rowVars
  <2> QED
    BY <2>1, <2>2
<1>4. ASSUME NEW a \in Agents, NEW i \in Slots, Exit(a, i)
      PROVE  RowInv(k)'
  <2>1. CASE a = k
    BY <1>0, <1>4, <2>1 DEF Exit, RowInv, rowVars, opVars
  <2>2. CASE a # k
    BY <1>0, <1>4, <2>2, RowInvSame DEF Exit, SetLoop, TypeOK, rowVars, opVars
  <2> QED
    BY <2>1, <2>2
<1>5. ASSUME NEW a \in Agents, NEW i \in Slots, LeaveBoard(a, i)
      PROVE  RowInv(k)'
  <2>1. CASE a = k
    <3>1. status[k] # "none"
      BY <1>0, <1>5, <2>1 DEF LeaveBoard, RowInv
    <3>2. status'[k] \notin {"none", "idle"}
      BY <1>0, <1>5, <2>1, <3>1
      DEF LeaveBoard, UnlessTerminal, Terminal, RowInv, TypeOK
    <3>3. spawn[k] \notin {"claimed", "created"}
      BY <1>0, <3>1 DEF RowInv
    <3> QED
      BY <1>0, <1>5, <3>1, <3>2, <3>3 DEF LeaveBoard, RowInv, opVars
  <2>2. CASE a # k
    BY <1>0, <1>5, <2>2, RowInvSame
    DEF LeaveBoard, UnlessTerminal, SetLoop, TypeOK, opVars
  <2> QED
    BY <2>1, <2>2
<1>6. ASSUME NEW a \in Agents, NEW i \in Slots, NEW c \in Kids,
             ClaimName(a, i, c)
      PROVE  RowInv(k)'
  <2>1. c # k
    BY <1>6 DEF ClaimName
  <2>2. status'[k] = status[k] /\ spawn'[k] = spawn[k]
    BY <1>0, <1>6, <2>1 DEF ClaimName, TypeOK
  <2> QED
    BY <1>0, <1>6, <2>2, RowInvSame DEF ClaimName, loopVars
<1>7. ASSUME NEW c \in Kids, Spawn(c)
      PROVE  RowInv(k)'
  <2>1. CASE CreateSession(c)
    <3>1. c # k
      BY <1>0, <2>1 DEF CreateSession, RowInv
    <3> QED
      BY <1>0, <2>1, <3>1, RowInvSame DEF CreateSession, rowVars, loopVars, TypeOK
  <2>2. CASE Attach(c)
    <3>1. c # k
      BY <1>0, <2>2 DEF Attach, RowInv
    <3> QED
      BY <1>0, <2>2, <3>1, RowInvSame DEF Attach, loopVars, TypeOK
  <2>3. CASE SpawnFails(c)
    <3>1. CASE c = k
      BY <1>0, <2>3, <3>1 DEF SpawnFails, RowInv, rowVars, loopVars, TypeOK
    <3>2. CASE c # k
      BY <1>0, <2>3, <3>2, RowInvSame DEF SpawnFails, rowVars, loopVars, TypeOK
    <3> QED
      BY <3>1, <3>2
  <2>4. ASSUME NEW i \in Slots, StartChild(c, i)
        PROVE  RowInv(k)'
    <3>1. CASE c = k
      <4>1. status[k] # "none" /\ spawn'[k] = "starting"
        BY <1>0, <2>4, <3>1 DEF StartChild, RowInv, TypeOK
      <4> QED
        BY <1>0, <2>4, <4>1 DEF StartChild, RowInv, rowVars
    <3>2. CASE c # k
      BY <1>0, <2>4, <3>2, RowInvSame
      DEF StartChild, SetLoop, rowVars, TypeOK
    <3> QED
      BY <3>1, <3>2
  <2> QED
    BY <1>7, <2>1, <2>2, <2>3, <2>4 DEF Spawn
<1>8. ASSUME NEW c \in Stoppable, Stop(c)
      PROVE  RowInv(k)'
  <2>1. \A t \in tasks' : t \in tasks \/ t = Claim(c, session[c])
    BY <1>8 DEF Stop
  <2>2. status[c] # "none"
    BY <1>8 DEF Stop
  <2>3. \A t \in tasks' : t.op = "claim" /\ t.agent = k =>
                             status[k] # "none" /\ t.attached
    BY <1>0, <2>1, <2>2 DEF RowInv, Claim
  <2> QED
    BY <1>0, <1>8, <2>3 DEF Stop, RowInv, rowVars, loopVars
<1>9. ASSUME NEW a \in Agents, Abort(a)
      PROVE  RowInv(k)'
  <2>1. \A t \in tasks' : t.op = "claim" => t \in tasks
    BY <1>9 DEF Abort, Roster
  <2> QED
    BY <1>0, <1>9, <2>1 DEF Abort, RowInv, rowVars
<1>10. CASE Sweep
  <2>1. PICK s \in tasks : ReadRoster(s) \/ ClaimRow(s) \/ CancelLoop(s)
    BY <1>10 DEF Sweep
  <2>2. CASE ReadRoster(s)
    <3>1. \A t \in tasks' :
            t \in tasks \/ \E c \in Kids :
                             /\ t = Claim(c, session[c])
                             /\ status[c] \in {"idle", "running"}
      BY <2>2 DEF ReadRoster
    <3>2. \A t \in tasks' : t.op = "claim" /\ t.agent = k =>
                               status[k] # "none" /\ t.attached
      BY <1>0, <3>1 DEF RowInv, Claim
    <3> QED
      BY <1>0, <2>2, <3>2 DEF ReadRoster, RowInv, rowVars, loopVars
  <2>3. CASE ClaimRow(s)
    <3>1. \A t \in tasks' : t.op = "claim" => t \in tasks
      BY <2>3 DEF ClaimRow, Cancel
    <3>2. CASE s.agent = k
      <4>1. status[k] # "none"
        BY <1>0, <2>1, <2>3, <3>2 DEF ClaimRow, RowInv
      <4>2. status'[k] \notin {"none", "idle"}
        BY <1>0, <2>3, <3>2, <4>1
        DEF ClaimRow, UnlessTerminal, Terminal, RowInv, TypeOK
      <4>3. spawn[k] \notin {"claimed", "created"}
        BY <1>0, <4>1 DEF RowInv
      <4> QED
        BY <1>0, <2>3, <3>1, <4>1, <4>2, <4>3 DEF ClaimRow, RowInv, loopVars
    <3>3. CASE s.agent # k
      <4>1. status'[k] = status[k]
        BY <1>0, <2>3, <3>3 DEF ClaimRow, UnlessTerminal, TypeOK
      <4> QED
        BY <1>0, <2>3, <3>1, <4>1 DEF ClaimRow, RowInv, loopVars
    <3> QED
      BY <3>2, <3>3
  <2>4. CASE CancelLoop(s)
    <3>1. \A t \in tasks' : t.op = "claim" => t \in tasks
      BY <2>4 DEF CancelLoop, Roster
    <3> QED
      BY <1>0, <2>4, <3>1 DEF CancelLoop, RowInv, rowVars
  <2> QED
    BY <2>1, <2>2, <2>3, <2>4
<1>11. CASE Restart
  <2>1. status'[k] = Reconciled(k) /\ status[k] \in Statuses
    BY <1>0, <1>11 DEF Restart, TypeOK
  <2>2. /\ status'[k] # "idle"
        /\ status'[k] = "none" <=> status[k] = "none"
    BY <1>0, <2>1 DEF Reconciled, Statuses, Terminal
  <2> QED
    BY <1>0, <1>11, <2>2 DEF Restart, RowInv
<1>12. ASSUME NEW a \in Agents, NEW i \in Slots, NEW c \in Typed,
              LookUpName(a, i, c) \/ BidFails(a, i, c)
       PROVE  RowInv(k)'
  BY <1>0, <1>12, RowInvSame DEF LookUpName, BidFails, rowVars, loopVars
<1>13. ASSUME NEW a \in Agents, NEW i \in Slots, NEW c \in Typed,
              AttachFresh(a, i, c)
       PROVE  RowInv(k)'
  <2>1. CASE c = k
    <3>1. status'[k] = "running" /\ session'[k] /\ spawn'[k] = "attached"
      BY <1>0, <1>13, <2>1 DEF AttachFresh, TypeOK
    <3>2. \A t \in tasks' : t.op = "claim" /\ t.agent = k => t.attached
      BY <1>0, <1>13 DEF AttachFresh, RowInv
    <3> QED
      BY <3>1, <3>2 DEF RowInv
  <2>2. CASE c # k
    <3>1. status'[k] = status[k] /\ session'[k] = session[k] /\ spawn'[k] = spawn[k]
      BY <1>0, <1>13, <2>2 DEF AttachFresh, TypeOK
    <3> QED
      BY <1>0, <1>13, <3>1, RowInvSame DEF AttachFresh, loopVars
  <2> QED
    BY <2>1, <2>2
<1>14. CASE UNCHANGED vars
  BY <1>0, <1>14, RowInvSame DEF vars, rowVars, loopVars, opVars
<1> QED
  BY <1>1, <1>2, <1>3, <1>4, <1>5, <1>6, <1>7, <1>8, <1>9, <1>10, <1>11,
     <1>12, <1>13, <1>14 DEF Next, Turn, Bid

(* What a spawn relies on: nobody acts under a name before its row exists, *)
(* and a row always names its session (spawnTeammate, store.go:Register).  *)
THEOREM RowsKnown == Spec => []LifeInv
<1>1. Spec => []TypeOK
  BY TypeCorrect
<1>2. Init => LifeInv
  BY RowInvInit
<1>3. TypeOK /\ LifeInv /\ [Next]_vars => LifeInv'
  BY RowInvStep
<1> QED
  BY <1>1, <1>2, <1>3, PTL DEF Spec

(***************************************************************************)
(* The board implements TeammateLife for the rows with a chosen name.      *)
(***************************************************************************)

LEMMA LifeInitially == Init => Life!LifeInit
  BY TypedAgents DEF Init, Life!LifeInit, TypedStatus

(* One row moved, from running, to an end. *)
LEMMA RowEnds ==
  ASSUME TypeOK, NEW k \in Typed, NEW s \in Terminal,
         status[k] = "running", status' = [status EXCEPT ![k] = s]
  PROVE  Life!End(k)
<1>1. /\ TypedStatus[k] = "running"
      /\ TypedStatus' = [TypedStatus EXCEPT ![k] = s]
  BY TypedAgents DEF TypedStatus, TypeOK
<1>2. s \in Life!Terminal
  BY DEF Terminal, Life!Terminal
<1> QED
  BY <1>1, <1>2 DEF Life!End

(* A step that leaves every typed row alone. *)
LEMMA RowsStay ==
  ASSUME \A k \in Typed : status'[k] = status[k]
  PROVE  UNCHANGED TypedStatus
  BY DEF TypedStatus

LEMMA LifeStep ==
  TypeOK /\ LifeInv /\ [Next]_vars => [Life!LifeNext]_TypedStatus
<1> SUFFICES ASSUME TypeOK, LifeInv, [Next]_vars
             PROVE  [Life!LifeNext]_TypedStatus
  OBVIOUS
<1>1. ASSUME NEW a \in Agents, NEW i \in Slots,
             Prompt(a, i) \/ Register(a, i) \/ Exit(a, i)
      PROVE  UNCHANGED TypedStatus
  BY <1>1, RowsStay DEF Prompt, Register, Exit, rowVars
<1>2. ASSUME NEW a \in Agents, NEW i \in Slots, JoinBoard(a, i)
      PROVE  UNCHANGED TypedStatus
  BY <1>2, RowsStay, TypedAgents DEF JoinBoard, TypeOK
<1>3. ASSUME NEW a \in Agents, NEW i \in Slots, LeaveBoard(a, i)
      PROVE  [Life!LifeNext]_TypedStatus
  <2>1. CASE a \notin Typed \/ status[a] \in Terminal
    BY <1>3, <2>1, RowsStay DEF LeaveBoard, UnlessTerminal, TypeOK
  <2>2. CASE a \in Typed /\ status[a] \notin Terminal
    <3>1. status' = [status EXCEPT ![a] = "done"]
      BY <1>3, <2>2, TypedAgents DEF LeaveBoard, UnlessTerminal
    <3>2. status[a] # "none"
      BY <1>3, <2>2 DEF LeaveBoard, LifeInv, RowInv
    <3>3. status[a] = "running"
      BY <2>2, <3>2 DEF TypeOK, Statuses, LifeInv, RowInv
    <3>4. Life!End(a)
      BY <2>2, <3>1, <3>3, RowEnds DEF Terminal
    <3> QED
      BY <2>2, <3>4 DEF Life!LifeNext
  <2> QED
    BY <2>1, <2>2
<1>4. ASSUME NEW a \in Agents, NEW i \in Slots, NEW c \in Kids,
             ClaimName(a, i, c)
      PROVE  UNCHANGED TypedStatus
  BY <1>4, RowsStay, TypedAgents DEF ClaimName, TypeOK
<1>5. ASSUME NEW c \in Kids, Spawn(c)
      PROVE  UNCHANGED TypedStatus
  <2>1. CASE \/ CreateSession(c) \/ SpawnFails(c)
             \/ \E i \in Slots : StartChild(c, i)
    BY <2>1, RowsStay DEF CreateSession, SpawnFails, StartChild, rowVars
  <2>2. CASE Attach(c)
    <3>1. c \notin Typed
      BY <2>2 DEF Attach, LifeInv, RowInv
    <3> QED
      BY <2>2, <3>1, RowsStay, TypedAgents DEF Attach, TypeOK
  <2> QED
    BY <1>5, <2>1, <2>2 DEF Spawn
<1>6. ASSUME NEW c \in Stoppable, Stop(c)
      PROVE  UNCHANGED TypedStatus
  BY <1>6, RowsStay DEF Stop, rowVars
<1>7. ASSUME NEW a \in Agents, Abort(a)
      PROVE  UNCHANGED TypedStatus
  BY <1>7, RowsStay DEF Abort, rowVars
<1>8. CASE Sweep
  <2>1. PICK t \in tasks : ReadRoster(t) \/ ClaimRow(t) \/ CancelLoop(t)
    BY <1>8 DEF Sweep
  <2>2. CASE ReadRoster(t) \/ CancelLoop(t)
    BY <2>2, RowsStay DEF ReadRoster, CancelLoop, rowVars
  <2>3. CASE ClaimRow(t)
    <3>1. CASE t.agent \notin Typed \/ status[t.agent] \in Terminal
      BY <2>3, <3>1, RowsStay DEF ClaimRow, UnlessTerminal, TypeOK
    <3>2. CASE t.agent \in Typed /\ status[t.agent] \notin Terminal
      <4>1. status' = [status EXCEPT ![t.agent] = "stopped"]
        BY <2>3, <3>2 DEF ClaimRow, UnlessTerminal
      <4>2. status[t.agent] # "none"
        BY <2>1, <2>3, <3>2 DEF ClaimRow, LifeInv, RowInv
      <4>3. status[t.agent] = "running"
        BY <3>2, <4>2, TypedAgents DEF TypeOK, Statuses, LifeInv, RowInv
      <4>4. Life!End(t.agent)
        BY <3>2, <4>1, <4>3, RowEnds DEF Terminal
      <4> QED
        BY <3>2, <4>4 DEF Life!LifeNext
    <3> QED
      BY <3>1, <3>2
  <2> QED
    BY <2>1, <2>2, <2>3
<1>9. CASE Restart
  <2>1. \A k \in Typed :
          status'[k] = IF status[k] = "running" THEN "stale" ELSE status[k]
    BY <1>9, TypedAgents DEF Restart, Reconciled, LifeInv, RowInv
  <2>2. Life!EndAll
    BY <2>1 DEF Life!EndAll, TypedStatus
  <2> QED
    BY <2>2 DEF Life!LifeNext
<1>10. ASSUME NEW a \in Agents, NEW i \in Slots, NEW c \in Typed,
              LookUpName(a, i, c) \/ BidFails(a, i, c)
       PROVE  UNCHANGED TypedStatus
  BY <1>10, RowsStay DEF LookUpName, BidFails, rowVars
<1>11. ASSUME NEW a \in Agents, NEW i \in Slots, NEW c \in Typed,
              AttachFresh(a, i, c)
       PROVE  [Life!LifeNext]_TypedStatus
  <2>1. status[c] = "none" /\ status' = [status EXCEPT ![c] = "running"]
    BY <1>11 DEF AttachFresh, NameFree
  <2>2. /\ TypedStatus[c] = "none"
        /\ TypedStatus' = [TypedStatus EXCEPT ![c] = "running"]
    BY <2>1, TypedAgents DEF TypedStatus, TypeOK
  <2> QED
    BY <2>2 DEF Life!LifeNext, Life!Join
<1>12. CASE UNCHANGED vars
  BY <1>12, RowsStay DEF vars, rowVars
<1> QED
  BY <1>1, <1>2, <1>3, <1>4, <1>5, <1>6, <1>7, <1>8, <1>9, <1>10, <1>11, <1>12
  DEF Next, Turn, Bid

(* leaveBoard, stopTeammate, the cascade and reconcileBoard race to write  *)
(* a row; whoever comes first ends it and nobody moves it again.           *)
THEOREM RowsImplementLife == Spec => RowsLiveOnce
<1>1. Spec => []TypeOK /\ []LifeInv
  BY TypeCorrect, RowsKnown
<1>2. Init => Life!LifeInit
  BY LifeInitially
<1>3. TypeOK /\ LifeInv /\ [Next]_vars => [Life!LifeNext]_TypedStatus
  BY LifeStep
<1> QED
  BY <1>1, <1>2, <1>3, PTL DEF Spec, RowsLiveOnce, Life!LifeSpec

(***************************************************************************)
(* The rows of every name, rolled ones included, once they name a session: *)
(* no spawn under that name is still to attach one.                        *)
(***************************************************************************)
AttachedInv ==
  \A k \in Kids : session[k] => status[k] # "none" /\ spawn[k] \notin {"claimed", "created"}

LEMMA AttachedInit == Init => AttachedInv
  BY DEF Init, AttachedInv, Agents

(* A step that attaches no session leaves those there are as final as they *)
(* were, if it neither claims their name nor takes them off the board.     *)
LEMMA AttachedSame ==
  ASSUME TypeOK, AttachedInv, UNCHANGED session,
         \A k \in Kids : /\ status[k] # "none" => status'[k] # "none"
                         /\ spawn'[k] \in {"claimed", "created"} =>
                              spawn[k] \in {"claimed", "created"} \/ status[k] = "none"
  PROVE  AttachedInv'
  BY DEF AttachedInv

LEMMA AttachedStep == TypeOK /\ AttachedInv /\ [Next]_vars => AttachedInv'
<1> SUFFICES ASSUME TypeOK, AttachedInv, [Next]_vars PROVE AttachedInv'
  OBVIOUS
<1>0. Kids \subseteq Agents /\ Root \in Agents /\ "none" \notin Terminal
  BY DEF Agents, Terminal
<1>1. ASSUME NEW a \in Agents, NEW i \in Slots, Prompt(a, i) \/ Turn(a, i) PROVE AttachedInv'
  <2>1. UNCHANGED session
    BY <1>1 DEF Prompt, Turn, JoinBoard, Register, Exit, LeaveBoard, rowVars
  <2>2. \A k \in Kids : status[k] # "none" => status'[k] # "none"
    BY <1>0, <1>1 DEF Prompt, Turn, JoinBoard, Register, Exit, LeaveBoard, rowVars,
       UnlessTerminal, TypeOK
  <2>3. \A k \in Kids : spawn'[k] \in {"claimed", "created"} => spawn[k] \in {"claimed", "created"}
    BY <1>1 DEF Prompt, Turn, JoinBoard, Register, Exit, LeaveBoard, opVars, TypeOK
  <2> QED
    BY <2>1, <2>2, <2>3, AttachedSame
<1>2. ASSUME NEW a \in Agents, NEW i \in Slots, NEW k \in Kids, ClaimName(a, i, k)
      PROVE  AttachedInv'
  <2>1. UNCHANGED session /\ status[k] = "none"
    BY <1>2 DEF ClaimName
  <2>2. \A c \in Kids : /\ status[c] # "none" => status'[c] # "none"
                        /\ c # k => spawn'[c] = spawn[c]
    BY <1>0, <1>2 DEF ClaimName, TypeOK
  <2> QED
    BY <2>1, <2>2, AttachedSame
<1>3. ASSUME NEW k \in Kids, Spawn(k) PROVE AttachedInv'
  <2>1. CASE Attach(k)
    BY <1>0, <2>1 DEF Attach, AttachedInv, TypeOK
  <2>2. CASE CreateSession(k)
    BY <2>2, AttachedSame DEF CreateSession, rowVars, TypeOK
  <2>3. CASE SpawnFails(k)
    BY <2>3, AttachedSame DEF SpawnFails, rowVars, TypeOK
  <2>4. CASE \E i \in Slots : StartChild(k, i)
    BY <2>4, AttachedSame DEF StartChild, rowVars, TypeOK
  <2> QED
    BY <1>3, <2>1, <2>2, <2>3, <2>4 DEF Spawn
<1>4. ASSUME NEW k \in Stoppable, Stop(k) PROVE AttachedInv'
  BY <1>4, AttachedSame DEF Stop, rowVars
<1>5. ASSUME NEW a \in Agents, Abort(a) PROVE AttachedInv'
  BY <1>5, AttachedSame DEF Abort, rowVars
<1>6. CASE Sweep
  <2>1. PICK t \in tasks : ReadRoster(t) \/ ClaimRow(t) \/ CancelLoop(t)
    BY <1>6 DEF Sweep
  <2>2. UNCHANGED <<session, spawn>>
    BY <2>1 DEF ReadRoster, ClaimRow, CancelLoop, rowVars
  <2>3. \A k \in Kids : status[k] # "none" => status'[k] # "none"
    BY <2>1, <1>0 DEF ReadRoster, ClaimRow, CancelLoop, rowVars, UnlessTerminal, TypeOK
  <2> QED
    BY <2>2, <2>3, AttachedSame
<1>7. CASE Restart
  <2>1. \A k \in Kids : /\ status[k] # "none" => status'[k] # "none"
                        /\ spawn'[k] = "none"
    BY <1>0, <1>7 DEF Restart, Reconciled
  <2>2. UNCHANGED session
    BY <1>7 DEF Restart
  <2> QED
    BY <2>1, <2>2, AttachedSame
<1>8. ASSUME NEW a \in Agents, NEW i \in Slots, NEW k \in Typed,
             LookUpName(a, i, k) \/ BidFails(a, i, k)
      PROVE  AttachedInv'
  BY <1>8, AttachedSame DEF LookUpName, BidFails, rowVars
<1>9. ASSUME NEW a \in Agents, NEW i \in Slots, NEW k \in Typed, AttachFresh(a, i, k)
      PROVE  AttachedInv'
  <2>1. \A c \in Kids : c # k => /\ status'[c] = status[c]
                                  /\ session'[c] = session[c]
                                  /\ spawn'[c] = spawn[c]
    BY <1>0, <1>9 DEF AttachFresh, TypeOK
  <2>2. status'[k] = "running" /\ spawn'[k] = "attached"
    BY <1>0, <1>9, TypedAgents DEF AttachFresh, TypeOK
  <2> QED
    BY <2>1, <2>2 DEF AttachedInv
<1>10. CASE UNCHANGED vars
  BY <1>10, AttachedSame DEF vars, rowVars, opVars
<1> QED
  BY <1>1, <1>2, <1>3, <1>4, <1>5, <1>6, <1>7, <1>8, <1>9, <1>10 DEF Next, Bid

(* How a row that names its session ended is not overwritten.              *)
LEMMA AttachedStays ==
  ASSUME TypeOK, AttachedInv, Next, NEW k \in Kids, session[k], status[k] \in Terminal
  PROVE  status'[k] = status[k]
<1>0. k \in Agents /\ k # Root /\ status[k] # "none" /\ spawn[k] \notin {"claimed", "created"}
  BY DEF Agents, AttachedInv, Terminal
<1>1. ASSUME NEW a \in Agents, NEW i \in Slots, Prompt(a, i) \/ Turn(a, i)
      PROVE  status'[k] = status[k]
  BY <1>0, <1>1 DEF Prompt, Turn, JoinBoard, Register, Exit, LeaveBoard, rowVars,
     UnlessTerminal, TypeOK
<1>2. ASSUME NEW a \in Agents, NEW i \in Slots, NEW c \in Kids, ClaimName(a, i, c)
      PROVE  status'[k] = status[k]
  BY <1>0, <1>2 DEF ClaimName, TypeOK
<1>3. ASSUME NEW c \in Kids, Spawn(c) PROVE status'[k] = status[k]
  BY <1>0, <1>3 DEF Spawn, CreateSession, Attach, SpawnFails, StartChild, rowVars, TypeOK
<1>4. ASSUME NEW c \in Stoppable, Stop(c) PROVE status'[k] = status[k]
  BY <1>4 DEF Stop, rowVars
<1>5. ASSUME NEW a \in Agents, Abort(a) PROVE status'[k] = status[k]
  BY <1>5 DEF Abort, rowVars
<1>6. CASE Sweep
  BY <1>0, <1>6 DEF Sweep, ReadRoster, ClaimRow, CancelLoop, rowVars, UnlessTerminal, TypeOK
<1>7. CASE Restart
  BY <1>0, <1>7 DEF Restart, Reconciled, Terminal
<1>8. ASSUME NEW a \in Agents, NEW i \in Slots, NEW c \in Typed,
             LookUpName(a, i, c) \/ BidFails(a, i, c)
      PROVE  status'[k] = status[k]
  BY <1>8 DEF LookUpName, BidFails, rowVars
<1>9. ASSUME NEW a \in Agents, NEW i \in Slots, NEW c \in Typed, AttachFresh(a, i, c)
      PROVE  status'[k] = status[k]
  BY <1>0, <1>9 DEF AttachFresh, NameFree, TypeOK
<1> QED
  BY <1>1, <1>2, <1>3, <1>4, <1>5, <1>6, <1>7, <1>8, <1>9 DEF Next, Bid

(* A row that names its session ends once, however its name was chosen:     *)
(* only the upsert that attaches a claimed row's session moves a row that   *)
(* has ended.                                                               *)
THEOREM EndedStaysEnded == Spec => AttachedIsFinal
<1>1. ASSUME TypeOK, AttachedInv, [Next]_vars
      PROVE  [\A k \in Kids : session[k] /\ status[k] \in Terminal => status'[k] = status[k]]_vars
  BY <1>1, AttachedStays
<1> QED
  BY AttachedInit, AttachedStep, <1>1, TypeCorrect, PTL DEF Spec, AttachedIsFinal

(***************************************************************************)
(* Stops.                                                                  *)
(***************************************************************************)

LEMMA CancelRegisteredElsewhere ==
  ASSUME TypeOK, NEW a \in Agents, NEW b \in Agents, a # b
  PROVE  CancelRegistered(a)[b] = cancelled[b]
  BY DEF CancelRegistered, TypeOK

(* stopTeammate claims the row before it cancels; whatever runs in         *)
(* between, the loop it must end is the one the registry still names.      *)
THEOREM StopReachesLoop == Spec => []StoppedIsCancelled
<1>1. Init => StoppedIsCancelled
  BY TypedAgents DEF Init, StoppedIsCancelled
<1>2. TypeOK /\ LifeInv /\ StoppedIsCancelled /\ [Next]_vars
        => StoppedIsCancelled'
  <2> SUFFICES ASSUME TypeOK, LifeInv, StoppedIsCancelled, [Next]_vars,
                      NEW k \in Typed, k \notin late',
                      status'[k] = "stopped", reg'[k] # 0,
                      ~cancelled'[k][reg'[k]]
               PROVE  Cancel(k) \in tasks'
    BY DEF StoppedIsCancelled
  <2>0. /\ k \notin late /\ status[k] = "stopped" /\ reg[k] # 0
        /\ ~cancelled[k][reg[k]]
        => Cancel(k) \in tasks
    BY DEF StoppedIsCancelled
  <2>a. k \in Kids /\ k \in Agents /\ k # Root
    BY TypedAgents
  <2>1. ASSUME NEW a \in Agents, NEW i \in Slots, Prompt(a, i)
        PROVE  Cancel(k) \in tasks'
    BY <2>0, <2>1 DEF Prompt, rowVars, opVars, histVars
  <2>2. ASSUME NEW a \in Agents, NEW i \in Slots, JoinBoard(a, i)
        PROVE  Cancel(k) \in tasks'
    BY <2>0, <2>a, <2>2 DEF JoinBoard, opVars, histVars, TypeOK
  <2>3. ASSUME NEW a \in Agents, NEW i \in Slots, Register(a, i)
        PROVE  Cancel(k) \in tasks'
    <3>1. a # k
      BY <2>3 DEF Register, Terminal, rowVars
    <3> QED
      BY <2>0, <2>a, <2>3, <3>1, CancelRegisteredElsewhere
      DEF Register, rowVars, TypeOK
  <2>4. ASSUME NEW a \in Agents, NEW i \in Slots, Exit(a, i)
        PROVE  Cancel(k) \in tasks'
    <3>1. reg'[k] = reg[k] /\ ~(a = k /\ reg[k] = i)
      BY <2>a, <2>4 DEF Exit, TypeOK
    <3>2. cancelled'[k][reg[k]] = cancelled[k][reg[k]]
      BY <2>a, <2>4, <3>1 DEF Exit, TypeOK
    <3> QED
      BY <2>0, <2>4, <3>1, <3>2 DEF Exit, rowVars, opVars, histVars
  <2>5. ASSUME NEW a \in Agents, NEW i \in Slots, LeaveBoard(a, i)
        PROVE  Cancel(k) \in tasks'
    <3>1. status[k] = "stopped"
      BY <2>a, <2>5 DEF LeaveBoard, UnlessTerminal, TypeOK
    <3> QED
      BY <2>0, <2>5, <3>1 DEF LeaveBoard, opVars, histVars
  <2>6. ASSUME NEW a \in Agents, NEW i \in Slots, NEW c \in Kids,
               ClaimName(a, i, c)
        PROVE  Cancel(k) \in tasks'
    <3>1. status[k] = "stopped"
      BY <2>a, <2>6 DEF ClaimName, TypeOK
    <3> QED
      BY <2>0, <2>6, <3>1 DEF ClaimName, loopVars, histVars
  <2>7. ASSUME NEW c \in Kids, Spawn(c)
        PROVE  Cancel(k) \in tasks'
    <3>1. CASE CreateSession(c)
      BY <2>0, <3>1 DEF CreateSession, rowVars, loopVars, histVars
    <3>2. CASE Attach(c)
      <4>1. status[k] = "stopped"
        BY <2>a, <3>2 DEF Attach, TypeOK
      <4> QED
        BY <2>0, <3>2, <4>1 DEF Attach, loopVars, histVars
    <3>3. CASE SpawnFails(c)
      BY <2>0, <3>3 DEF SpawnFails, rowVars, loopVars
    <3>4. CASE \E i \in Slots : StartChild(c, i)
      BY <2>0, <3>4 DEF StartChild, rowVars, histVars
    <3> QED
      BY <2>7, <3>1, <3>2, <3>3, <3>4 DEF Spawn
  <2>8. ASSUME NEW c \in Stoppable, Stop(c)
        PROVE  Cancel(k) \in tasks'
    BY <2>0, <2>8 DEF Stop, rowVars, loopVars, histVars
  <2>9. ASSUME NEW a \in Agents, Abort(a)
        PROVE  Cancel(k) \in tasks'
    <3>1. a # k
      BY <2>a, <2>9 DEF Abort, TypeOK
    <3> QED
      BY <2>0, <2>a, <2>9, <3>1, CancelRegisteredElsewhere
      DEF Abort, rowVars, TypeOK
  <2>10. CASE Sweep
    <3>1. PICK t \in tasks : ReadRoster(t) \/ ClaimRow(t) \/ CancelLoop(t)
      BY <2>10 DEF Sweep
    <3>2. t.agent \in Agents
      BY <3>1 DEF TypeOK, Task, Agents
    <3>3. CASE ReadRoster(t)
      BY <2>0, <3>3 DEF ReadRoster, rowVars, loopVars, histVars, Cancel
    <3>4. CASE ClaimRow(t)
      <4>1. CASE t.agent = k /\ Moves(k)
        <5>1. t.attached
          BY <3>1, <3>4, <4>1 DEF ClaimRow, LifeInv, RowInv
        <5> QED
          BY <3>4, <4>1, <5>1 DEF ClaimRow
      <4>2. CASE ~(t.agent = k /\ Moves(k))
        <5>1. status[k] = "stopped"
          BY <2>a, <3>4, <4>2 DEF ClaimRow, UnlessTerminal, Moves, TypeOK
        <5>2. Cancel(k) # t
          BY <3>4 DEF ClaimRow, Cancel
        <5> QED
          BY <2>0, <3>4, <5>1, <5>2 DEF ClaimRow, loopVars, histVars
      <4> QED
        BY <4>1, <4>2
    <3>5. CASE CancelLoop(t)
      <4>1. t.agent # k
        BY <3>2, <3>5, CancelRegisteredReaches DEF CancelLoop, rowVars
      <4>2. Cancel(k) # t
        BY <4>1 DEF Cancel
      <4> QED
        BY <2>0, <2>a, <3>2, <3>5, <4>1, <4>2, CancelRegisteredElsewhere
        DEF CancelLoop, rowVars, histVars
    <3> QED
      BY <3>1, <3>3, <3>4, <3>5
  <2>11. CASE Restart
    BY <2>a, <2>11 DEF Restart
  <2>12. ASSUME NEW a \in Agents, NEW i \in Slots, NEW c \in Typed,
                LookUpName(a, i, c) \/ BidFails(a, i, c)
         PROVE  Cancel(k) \in tasks'
    BY <2>0, <2>12 DEF LookUpName, BidFails, rowVars, loopVars, histVars
  <2>13. ASSUME NEW a \in Agents, NEW i \in Slots, NEW c \in Typed,
                AttachFresh(a, i, c)
         PROVE  Cancel(k) \in tasks'
    <3>1. status[k] = "stopped"
      BY <2>a, <2>13 DEF AttachFresh, TypeOK
    <3> QED
      BY <2>0, <2>13, <3>1 DEF AttachFresh, loopVars, histVars
  <2>14. CASE UNCHANGED vars
    BY <2>0, <2>14 DEF vars, rowVars, loopVars, opVars, histVars
  <2> QED
    BY <2>1, <2>2, <2>3, <2>4, <2>5, <2>6, <2>7, <2>8, <2>9, <2>10, <2>11,
       <2>12, <2>13, <2>14 DEF Next, Turn, Bid
<1> QED
  BY <1>1, <1>2, TypeCorrect, RowsKnown, PTL DEF Spec

(***************************************************************************)
(* Rows that say running.  The loop the registry names is running; a row   *)
(* that says running is that of a registered loop, of one on its way into  *)
(* the registry or out of it, or of a spawn under way.                     *)
(***************************************************************************)
RegInv(a) == reg[a] # 0 => loop[a][reg[a]] = "run"

Passing(a) ==
  \E i \in Slots : loop[a][i] \in {"begin", "joined", "leaving"}

HeldInv(a) ==
  status[a] = "running" =>
    \/ reg[a] # 0 \/ Passing(a) \/ a \in orphaned
    \/ a \in Kids /\ spawn[a] # "none"

BusyInv == \A a \in Agents : RegInv(a) /\ HeldInv(a)

LEMMA BusyInvMeans == TypeOK /\ BusyInv => RunningHasLoop
<1> SUFFICES ASSUME TypeOK, BusyInv, NEW a \in Agents, status[a] = "running"
             PROVE  Busy(a) \/ a \in orphaned
  BY DEF RunningHasLoop
<1>1. RegInv(a) /\ HeldInv(a)
  BY DEF BusyInv
<1>2. CASE reg[a] # 0
  <2>1. reg[a] \in Slots /\ loop[a][reg[a]] # "off"
    BY <1>1, <1>2 DEF RegInv, TypeOK
  <2> QED
    BY <2>1 DEF Busy
<1>3. CASE Passing(a)
  BY <1>3 DEF Passing, Busy
<1>4. CASE a \in orphaned \/ (a \in Kids /\ spawn[a] # "none")
  BY <1>4 DEF Busy
<1> QED
  BY <1>1, <1>2, <1>3, <1>4 DEF HeldInv

(* A step that moves no loop of b and does not end its spawn. *)
LEMMA BusySame ==
  ASSUME NEW b \in Agents, RegInv(b), HeldInv(b),
         loop'[b] = loop[b], reg'[b] = reg[b],
         status'[b] = "running" => status[b] = "running",
         b \in orphaned => b \in orphaned',
         b \in Kids /\ spawn[b] # "none" =>
           spawn'[b] # "none" \/ status'[b] # "running" \/ b \in orphaned'
  PROVE  RegInv(b)' /\ HeldInv(b)'
  BY DEF RegInv, HeldInv, Passing

(* A step of loop i of b that leaves it on its way in or out. *)
LEMMA BusyPassing ==
  ASSUME TypeOK, NEW b \in Agents, NEW i \in Slots, RegInv(b),
         NEW p \in {"begin", "joined", "leaving"}, SetLoop(b, i, p),
         reg'[b] = 0 \/ (reg'[b] = reg[b] /\ loop[b][i] # "run")
  PROVE  RegInv(b)' /\ HeldInv(b)'
<1>1. loop'[b][i] = p
  BY DEF SetLoop, TypeOK
<1>2. Passing(b)'
  BY <1>1 DEF Passing
<1>3. RegInv(b)'
  <2>1. CASE reg'[b] = 0
    BY <2>1 DEF RegInv
  <2>2. CASE reg'[b] # 0
    <3>1. reg'[b] = reg[b] /\ reg[b] # i
      BY <2>2 DEF RegInv
    <3> QED
      BY <2>2, <3>1 DEF RegInv, SetLoop, TypeOK
  <2> QED
    BY <2>1, <2>2
<1> QED
  BY <1>2, <1>3 DEF HeldInv

LEMMA BusyStep == TypeOK /\ BusyInv /\ [Next]_vars => BusyInv'
<1> SUFFICES ASSUME TypeOK, BusyInv, [Next]_vars, NEW b \in Agents
             PROVE  RegInv(b)' /\ HeldInv(b)'
  BY DEF BusyInv
<1>0. RegInv(b) /\ HeldInv(b)
  BY DEF BusyInv
<1>1. ASSUME NEW a \in Agents, NEW i \in Slots, Prompt(a, i)
      PROVE  RegInv(b)' /\ HeldInv(b)'
  <2>1. CASE a = b
    BY <1>0, <1>1, <2>1, BusyPassing DEF Prompt, FreeSlot
  <2>2. CASE a # b
    BY <1>0, <1>1, <2>2, BusySame
    DEF Prompt, SetLoop, TypeOK, rowVars, opVars, histVars
  <2> QED
    BY <2>1, <2>2
<1>2. ASSUME NEW a \in Agents, NEW i \in Slots, JoinBoard(a, i)
      PROVE  RegInv(b)' /\ HeldInv(b)'
  <2>1. CASE a = b
    BY <1>0, <1>2, <2>1, BusyPassing DEF JoinBoard
  <2>2. CASE a # b
    <3>1. status'[b] = status[b] /\ loop'[b] = loop[b]
      BY <1>2, <2>2 DEF JoinBoard, SetLoop, TypeOK
    <3> QED
      BY <1>0, <1>2, <3>1, BusySame DEF JoinBoard, opVars, histVars
  <2> QED
    BY <2>1, <2>2
<1>3. ASSUME NEW a \in Agents, NEW i \in Slots, Register(a, i)
      PROVE  RegInv(b)' /\ HeldInv(b)'
  <2>1. CASE a = b
    <3>1. reg'[b] = i /\ i # 0 /\ loop'[b][i] = "run"
      BY <1>3, <2>1, SlotsArePositive DEF Register, SetLoop, TypeOK
    <3> QED
      BY <3>1 DEF RegInv, HeldInv
  <2>2. CASE a # b
    <3>1. loop'[b] = loop[b] /\ reg'[b] = reg[b]
      BY <1>3, <2>2 DEF Register, SetLoop, TypeOK
    <3>2. b \in Kids => spawn'[b] = spawn[b]
      BY <1>3, <2>2 DEF Register, TypeOK
    <3>3. status' = status /\ (b \in orphaned => b \in orphaned')
      BY <1>3, <2>2 DEF Register, rowVars
    <3> QED
      BY <1>0, <3>1, <3>2, <3>3, BusySame
  <2> QED
    BY <2>1, <2>2
<1>4. ASSUME NEW a \in Agents, NEW i \in Slots, Exit(a, i)
      PROVE  RegInv(b)' /\ HeldInv(b)'
  <2>1. CASE a = b /\ reg[a] = i
    <3>1. reg'[b] = 0 /\ SetLoop(b, i, "leaving")
      BY <1>4, <2>1 DEF Exit, TypeOK
    <3> QED
      BY <1>0, <2>1, <3>1, BusyPassing
  <2>2. CASE a = b /\ reg[a] # i
    <3>1. /\ reg' = reg /\ loop' = [loop EXCEPT ![a][i] = "off"]
          /\ loop[a][i] = "run"
      BY <1>4, <2>2 DEF Exit, SetLoop
    <3>2. /\ loop'[a][i] = "off"
          /\ \A j \in Slots : j # i => loop'[a][j] = loop[a][j]
      BY <3>1 DEF TypeOK
    <3>3. reg[a] \in Slots \cup {0}
      BY DEF TypeOK
    <3>4. RegInv(b)'
      BY <1>0, <2>2, <3>1, <3>2, <3>3 DEF RegInv
    <3>5. Passing(b) => Passing(b)'
      BY <2>2, <3>1, <3>2 DEF Passing
    <3>6. /\ status' = status /\ spawn' = spawn /\ orphaned' = orphaned
      BY <1>4 DEF Exit, rowVars, opVars, histVars
    <3>7. HeldInv(b)'
      BY <1>0, <3>1, <3>5, <3>6 DEF HeldInv
    <3> QED
      BY <3>4, <3>7
  <2>3. CASE a # b
    <3>1. loop'[b] = loop[b] /\ reg'[b] = reg[b]
      BY <1>4, <2>3 DEF Exit, SetLoop, TypeOK
    <3> QED
      BY <1>0, <1>4, <3>1, BusySame DEF Exit, rowVars, opVars, histVars
  <2> QED
    BY <2>1, <2>2, <2>3
<1>5. ASSUME NEW a \in Agents, NEW i \in Slots, LeaveBoard(a, i)
      PROVE  RegInv(b)' /\ HeldInv(b)'
  <2>1. CASE a = b
    <3>1. status'[b] # "running"
      BY <1>5, <2>1 DEF LeaveBoard, UnlessTerminal, Terminal, TypeOK
    <3>2. reg[b] # 0 => reg[b] # i
      BY <1>0, <1>5, <2>1 DEF LeaveBoard, RegInv
    <3>3. RegInv(b)'
      BY <1>0, <1>5, <2>1, <3>2 DEF LeaveBoard, SetLoop, RegInv, TypeOK
    <3> QED
      BY <3>1, <3>3 DEF HeldInv
  <2>2. CASE a # b
    <3>1. loop'[b] = loop[b] /\ status'[b] = status[b]
      BY <1>5, <2>2 DEF LeaveBoard, UnlessTerminal, SetLoop, TypeOK
    <3> QED
      BY <1>0, <1>5, <3>1, BusySame DEF LeaveBoard, opVars, histVars
  <2> QED
    BY <2>1, <2>2
<1>6. ASSUME NEW a \in Agents, NEW i \in Slots, NEW c \in Kids,
             ClaimName(a, i, c)
      PROVE  RegInv(b)' /\ HeldInv(b)'
  <2>1. loop' = loop /\ reg' = reg /\ orphaned' = orphaned
    BY <1>6 DEF ClaimName, loopVars, histVars
  <2>2. CASE b = c
    <3>1. spawn'[b] # "none"
      BY <1>6, <2>2 DEF ClaimName, TypeOK
    <3> QED
      BY <1>0, <2>1, <2>2, <3>1 DEF RegInv, HeldInv
  <2>3. CASE b # c
    <3>1. status'[b] = status[b] /\ (b \in Kids => spawn'[b] = spawn[b])
      BY <1>6, <2>3 DEF ClaimName, TypeOK
    <3> QED
      BY <1>0, <2>1, <3>1, BusySame
  <2> QED
    BY <2>2, <2>3
<1>7. ASSUME NEW c \in Kids, Spawn(c)
      PROVE  RegInv(b)' /\ HeldInv(b)'
  <2>1. CASE CreateSession(c) \/ Attach(c)
    <3>1. loop' = loop /\ reg' = reg /\ orphaned' = orphaned
      BY <2>1 DEF CreateSession, Attach, loopVars, histVars
    <3>2. CASE b = c
      <4>1. spawn'[b] # "none"
        BY <2>1, <3>2 DEF CreateSession, Attach, TypeOK
      <4> QED
        BY <1>0, <3>1, <3>2, <4>1 DEF RegInv, HeldInv
    <3>3. CASE b # c
      <4>1. status'[b] = status[b] /\ (b \in Kids => spawn'[b] = spawn[b])
        BY <2>1, <3>3 DEF CreateSession, Attach, rowVars, TypeOK
      <4> QED
        BY <1>0, <3>1, <4>1, BusySame
    <3> QED
      BY <3>2, <3>3
  <2>2. CASE SpawnFails(c)
    <3>1. loop' = loop /\ reg' = reg /\ status' = status
      BY <2>2 DEF SpawnFails, loopVars, rowVars
    <3>2. b \in orphaned => b \in orphaned'
      BY <2>2 DEF SpawnFails
    <3>3. CASE b = c
      BY <1>0, <2>2, <3>1, <3>2, <3>3, BusySame DEF SpawnFails
    <3>4. CASE b # c
      <4>1. b \in Kids => spawn'[b] = spawn[b]
        BY <2>2, <3>4 DEF SpawnFails, TypeOK
      <4> QED
        BY <1>0, <3>1, <3>2, <4>1, BusySame
    <3> QED
      BY <3>3, <3>4
  <2>3. ASSUME NEW i \in Slots, StartChild(c, i)
        PROVE  RegInv(b)' /\ HeldInv(b)'
    <3>1. reg' = reg /\ status' = status /\ orphaned' = orphaned
      BY <2>3 DEF StartChild, rowVars, histVars
    <3>2. CASE b = c
      BY <1>0, <2>3, <3>1, <3>2, BusyPassing DEF StartChild, FreeSlot
    <3>3. CASE b # c
      <4>1. loop'[b] = loop[b] /\ (b \in Kids => spawn'[b] = spawn[b])
        BY <2>3, <3>3 DEF StartChild, SetLoop, Agents, TypeOK
      <4> QED
        BY <1>0, <3>1, <4>1, BusySame
    <3> QED
      BY <3>2, <3>3
  <2> QED
    BY <1>7, <2>1, <2>2, <2>3 DEF Spawn
<1>8. ASSUME NEW c \in Stoppable, Stop(c)
      PROVE  RegInv(b)' /\ HeldInv(b)'
  BY <1>0, <1>8, BusySame DEF Stop, rowVars, loopVars, histVars
<1>9. ASSUME NEW a \in Agents, Abort(a)
      PROVE  RegInv(b)' /\ HeldInv(b)'
  <2>1. /\ loop' = loop /\ status' = status /\ spawn' = spawn
        /\ b \in orphaned => b \in orphaned'
    BY <1>9 DEF Abort, rowVars
  <2>2. CASE a = b
    <3>1. reg'[b] = 0 /\ (reg[b] # 0 => b \in orphaned')
      BY <1>9, <2>2 DEF Abort, TypeOK
    <3>2. Passing(b) => Passing(b)'
      BY <2>1 DEF Passing
    <3> QED
      BY <1>0, <2>1, <3>1, <3>2 DEF RegInv, HeldInv
  <2>3. CASE a # b
    <3>1. reg'[b] = reg[b]
      BY <1>9, <2>3 DEF Abort, TypeOK
    <3> QED
      BY <1>0, <2>1, <3>1, BusySame
  <2> QED
    BY <2>2, <2>3
<1>10. CASE Sweep
  <2>1. PICK t \in tasks : ReadRoster(t) \/ ClaimRow(t) \/ CancelLoop(t)
    BY <1>10 DEF Sweep
  <2>2. loop' = loop /\ reg' = reg /\ spawn' = spawn /\ orphaned' = orphaned
    BY <2>1 DEF ReadRoster, ClaimRow, CancelLoop, loopVars, histVars
  <2>3. status'[b] = "running" => status[b] = "running"
    <3>1. CASE ClaimRow(t)
      BY <3>1 DEF ClaimRow, UnlessTerminal, TypeOK
    <3>2. CASE ~ClaimRow(t)
      BY <2>1, <3>2 DEF ReadRoster, CancelLoop, rowVars
    <3> QED
      BY <3>1, <3>2
  <2> QED
    BY <1>0, <2>2, <2>3, BusySame
<1>11. CASE Restart
  <2>1. reg'[b] = 0
    BY <1>11 DEF Restart
  <2>2. status'[b] = Reconciled(b)
    BY <1>11 DEF Restart
  <2>3. status'[b] # "running"
    BY <2>2 DEF Reconciled
  <2> QED
    BY <2>1, <2>3 DEF RegInv, HeldInv
<1>12. ASSUME NEW a \in Agents, NEW i \in Slots, NEW c \in Typed,
              LookUpName(a, i, c) \/ BidFails(a, i, c)
       PROVE  RegInv(b)' /\ HeldInv(b)'
  BY <1>0, <1>12, BusySame DEF LookUpName, BidFails, rowVars, loopVars, histVars
<1>13. ASSUME NEW a \in Agents, NEW i \in Slots, NEW c \in Typed,
              AttachFresh(a, i, c)
       PROVE  RegInv(b)' /\ HeldInv(b)'
  <2>1. loop' = loop /\ reg' = reg /\ orphaned' = orphaned
    BY <1>13 DEF AttachFresh, loopVars, histVars
  <2>2. CASE b = c
    <3>1. b \in Kids /\ spawn'[b] # "none"
      BY <1>13, <2>2, TypedAgents DEF AttachFresh, TypeOK
    <3> QED
      BY <1>0, <2>1, <3>1 DEF RegInv, HeldInv
  <2>3. CASE b # c
    <3>1. status'[b] = status[b] /\ (b \in Kids => spawn'[b] = spawn[b])
      BY <1>13, <2>3 DEF AttachFresh, TypeOK
    <3> QED
      BY <1>0, <2>1, <3>1, BusySame
  <2> QED
    BY <2>2, <2>3
<1>14. CASE UNCHANGED vars
  BY <1>0, <1>14, BusySame DEF vars, rowVars, loopVars, opVars, histVars
<1> QED
  BY <1>1, <1>2, <1>3, <1>4, <1>5, <1>6, <1>7, <1>8, <1>9, <1>10, <1>11,
     <1>12, <1>13, <1>14 DEF Next, Turn, Bid

(* A row that says running has a loop, or one on the way, unless an abort  *)
(* unregistered it or its spawn failed half-way: what the board shows as   *)
(* running really runs, through turn takeovers, stops and restarts.        *)
THEOREM RunningRowsRun == Spec => []RunningHasLoop
<1>1. Init => BusyInv
  <2> SUFFICES ASSUME Init, NEW a \in Agents PROVE RegInv(a) /\ HeldInv(a)
    BY DEF BusyInv
  <2>1. reg[a] = 0 /\ status[a] = "none"
    BY DEF Init
  <2> QED
    BY <2>1 DEF RegInv, HeldInv
<1>2. TypeOK /\ BusyInv /\ [Next]_vars => BusyInv'
  BY BusyStep
<1>3. TypeOK /\ BusyInv => RunningHasLoop
  BY BusyInvMeans
<1> QED
  BY <1>1, <1>2, <1>3, TypeCorrect, PTL DEF Spec

=============================================================================
