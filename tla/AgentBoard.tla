------------------------------ MODULE AgentBoard ------------------------------
(***************************************************************************)
(* The agent board: one row per agent of a project, the loops that run     *)
(* under those rows, and the operations that race to move them.            *)
(*                                                                         *)
(* Root is a user's session; Kids are the handles of the teammates and     *)
(* background tasks it and they spawn.  A row (internal/board) is durable; *)
(* the registry of running loops (Server.running, runningToken) is not.    *)
(* Database calls are atomic and succeed, except that a spawn may fail     *)
(* between any two of its steps.                                           *)
(***************************************************************************)
EXTENDS Naturals, FiniteSets

CONSTANTS
  Root,        \* the session a user prompts
  Kids,        \* handles a spawn can put on the board
  Typed,       \* the Kids whose name a caller chose (registered late)
  Tasks,       \* the Kids that are background tasks: they spawn nothing,
               \* and their spawn runs on a context of its own
  Prompted,    \* agents whose page a user may prompt or resume
  Aborted,     \* agents whose page a user may abort
  MaxLoops,    \* loops of one agent that can exist at a time
  MaxBids      \* bound: spawns of one loop that want one name at a time

Agents == Kids \cup {Root}
Slots  == 1 .. MaxLoops

ASSUME BoardAssumption ==
  /\ Root \notin Kids
  /\ Typed \subseteq Kids /\ Tasks \subseteq Kids /\ Typed \cap Tasks = {}
  /\ Prompted \subseteq Agents /\ Aborted \subseteq Agents
  /\ MaxLoops \in Nat \ {0} /\ MaxBids \in Nat

VARIABLES
  status,    \* the row's status; "none": not on the board
  session,   \* the row names a session
  parent,    \* spawned_by
  reg,       \* running / runningToken: the registered loop, or 0
  loop,      \* each loop of each agent: where it is
  cancelled, \* ... and whether its context is cancelled
  spawn,     \* the spawn that is putting each kid on the board
  by,        \* ... and the agent and loop whose tool call it is
  bids,      \* the spawns of each loop that found a typed name free, not
             \* registered yet
  tasks,     \* steps of stops and cascades still to run
  late,      \* history: kids whose loop was registered on a terminal row
  orphaned,  \* history: rows whose loop was unregistered, or never started
  torn       \* history: the root was aborted, no loop registered since

rowVars  == <<status, session, parent>>
loopVars == <<reg, loop, cancelled>>
opVars   == <<spawn, by, bids, tasks>>
histVars == <<late, orphaned, torn>>
vars == <<rowVars, loopVars, opVars, histVars>>

Terminal   == {"done", "stopped", "stale"}
Statuses   == {"none", "idle", "running"} \cup Terminal
LoopPhases == {"off", "begin", "joined", "run", "leaving"}
SpawnPhases == {"none", "claimed", "created", "attached", "starting"}

NoAgent == "no agent"
NoLoop  == <<NoAgent, 0>>

Task ==
  [op : {"roster", "cancel"}, agent : Agents]
    \cup [op : {"claim"}, agent : Kids, attached : BOOLEAN]

Roster(a)    == [op |-> "roster", agent |-> a]
Cancel(a)    == [op |-> "cancel", agent |-> a]
Claim(k, at) == [op |-> "claim", agent |-> k, attached |-> at]

TypeOK ==
  /\ status    \in [Agents -> Statuses]
  /\ status[Root] \notin Terminal
  /\ session   \in [Agents -> BOOLEAN]
  /\ parent    \in [Kids -> Agents \cup {NoAgent}]
  /\ reg       \in [Agents -> Slots \cup {0}]
  /\ loop      \in [Agents -> [Slots -> LoopPhases]]
  /\ cancelled \in [Agents -> [Slots -> BOOLEAN]]
  /\ spawn     \in [Kids -> SpawnPhases]
  /\ by        \in [Kids -> (Agents \X Slots) \cup {NoLoop}]
  /\ bids      \in [Typed -> [Agents \X Slots -> 0 .. MaxBids]]
  /\ tasks     \subseteq Task
  /\ late      \subseteq Kids
  /\ orphaned  \subseteq Agents
  /\ torn      \in BOOLEAN

Init ==
  /\ status    = [a \in Agents |-> "none"]
  /\ session   = [a \in Agents |-> a = Root]
  /\ parent    = [k \in Kids |-> NoAgent]
  /\ reg       = [a \in Agents |-> 0]
  /\ loop      = [a \in Agents |-> [i \in Slots |-> "off"]]
  /\ cancelled = [a \in Agents |-> [i \in Slots |-> FALSE]]
  /\ spawn     = [k \in Kids |-> "none"]
  /\ by        = [k \in Kids |-> NoLoop]
  /\ bids      = [k \in Typed |-> [l \in Agents \X Slots |-> 0]]
  /\ tasks     = {}
  /\ late      = {}
  /\ orphaned  = {}
  /\ torn      = FALSE

-----------------------------------------------------------------------------
(* startSessionLoop: join the board, register, run, leave.                 *)

SetLoop(a, i, p) == loop' = [loop EXCEPT ![a][i] = p]

(* The first free name for a loop of a. *)
FreeSlot(a, i) ==
  /\ loop[a][i] = "off"
  /\ \A j \in 1 .. (i - 1) : loop[a][j] # "off"

(* handlePrompt, handleResumeSession (which refuses while a loop is        *)
(* registered, but only checks before it starts one).                      *)
Prompt(a, i) ==
  /\ a \in Prompted /\ session[a]
  /\ FreeSlot(a, i)
  /\ SetLoop(a, i, "begin")
  /\ UNCHANGED <<rowVars, reg, cancelled, opVars, histVars>>

(* boardTurnStart: a session joins, or is marked running unless it says it *)
(* is; the row of a teammate or task is left as it is.                     *)
JoinBoard(a, i) ==
  /\ loop[a][i] = "begin"
  /\ SetLoop(a, i, "joined")
  /\ status' = IF a = Root THEN [status EXCEPT ![a] = "running"] ELSE status
  /\ UNCHANGED <<session, parent, reg, cancelled, opVars, histVars>>

(* Under Server.mu: cancel the loop that is registered, register this one. *)
(* Mutant: forget to cancel it.                                            *)
CancelNone(a)       == cancelled
CancelRegistered(a) ==
  IF reg[a] = 0 THEN cancelled ELSE [cancelled EXCEPT ![a][reg[a]] = TRUE]

Register(a, i) ==
  /\ loop[a][i] = "joined"
  /\ SetLoop(a, i, "run")
  /\ reg'       = [reg EXCEPT ![a] = i]
  /\ cancelled' = CancelRegistered(a)
  /\ spawn'     = IF a \in Kids /\ spawn[a] = "starting"
                  THEN [spawn EXCEPT ![a] = "none"] ELSE spawn
  /\ late'      = IF status[a] \in Terminal THEN late \cup {a} ELSE late
  /\ orphaned'  = orphaned \ {a}
  /\ torn'      = (torn /\ a # Root)
  /\ UNCHANGED <<rowVars, by, bids, tasks>>

(* RunLoop returns only when its tool calls have. *)
Spawning(a, i) ==
  \/ \E k \in Kids : spawn[k] # "none" /\ by[k] = <<a, i>>
  \/ \E k \in Typed : bids[k][<<a, i>>] > 0

Exit(a, i) ==
  /\ loop[a][i] = "run"
  /\ ~Spawning(a, i)
  /\ IF reg[a] = i
       THEN /\ reg' = [reg EXCEPT ![a] = 0]
            /\ SetLoop(a, i, "leaving")
       ELSE /\ SetLoop(a, i, "off")
            /\ UNCHANGED reg
  /\ cancelled' = [cancelled EXCEPT ![a][i] = FALSE]
  /\ UNCHANGED <<rowVars, opVars, histVars>>

(* SetStatusUnlessTerminal.  Mutant: SetStatus. *)
Overwritten(a, s)   == [status EXCEPT ![a] = s]
UnlessTerminal(a, s) ==
  IF status[a] \in Terminal THEN status ELSE [status EXCEPT ![a] = s]

(* leaveBoard: a session is idle again, a teammate or task is done, unless *)
(* its row already says how it ended.                                      *)
LeaveBoard(a, i) ==
  /\ loop[a][i] = "leaving"
  /\ SetLoop(a, i, "off")
  /\ status' = UnlessTerminal(a, IF a = Root THEN "idle" ELSE "done")
  /\ UNCHANGED <<session, parent, reg, cancelled, opVars, histVars>>

-----------------------------------------------------------------------------
(* spawnTeammate, spawnBackgroundTask: a tool call of loop i of agent a.   *)

(* A rolled name is claimed with a row that names no session yet.  A       *)
(* teammate's claim runs on the tool call's context, a task's does not.    *)
ClaimName(a, i, k) ==
  /\ loop[a][i] = "run"
  /\ a \notin Tasks /\ k \notin Typed
  /\ k \in Tasks \/ ~cancelled[a][i]
  /\ status[k] = "none"
  /\ spawn'  = [spawn EXCEPT ![k] = "claimed"]
  /\ by'     = [by EXCEPT ![k] = <<a, i>>]
  /\ status' = [status EXCEPT ![k] = "running"]
  /\ parent' = [parent EXCEPT ![k] = a]
  /\ UNCHANGED <<session, loopVars, bids, tasks, histVars>>

(* A typed name is only looked up: several spawns, of one loop or of       *)
(* several, may find it free and create their sessions.                    *)
LookUpName(a, i, k) ==
  /\ loop[a][i] = "run"
  /\ a \notin Tasks
  /\ ~cancelled[a][i]
  /\ status[k] = "none"
  /\ bids[k][<<a, i>>] < MaxBids
  /\ bids' = [bids EXCEPT ![k][<<a, i>>] = @ + 1]
  /\ UNCHANGED <<rowVars, loopVars, spawn, by, tasks, histVars>>

BidEnds(a, i, k) ==
  /\ bids[k][<<a, i>>] > 0
  /\ bids' = [bids EXCEPT ![k][<<a, i>>] = @ - 1]

(* RegisterFresh inserts a row only where there is none.  Mutant: the      *)
(* upsert of Register.                                                     *)
AnyName(k)  == TRUE
NameFree(k) == status[k] = "none"

AttachFresh(a, i, k) ==
  /\ BidEnds(a, i, k)
  /\ ~cancelled[a][i]
  /\ NameFree(k)
  /\ spawn'   = [spawn EXCEPT ![k] = "attached"]
  /\ by'      = [by EXCEPT ![k] = <<a, i>>]
  /\ status'  = [status EXCEPT ![k] = "running"]
  /\ session' = [session EXCEPT ![k] = TRUE]
  /\ parent'  = [parent EXCEPT ![k] = a]
  /\ UNCHANGED <<loopVars, tasks, histVars>>

(* The name was taken meanwhile (ErrHandleTaken), the store failed, or the *)
(* tool call's context has ended: the child session stays without a row.   *)
BidFails(a, i, k) ==
  /\ BidEnds(a, i, k)
  /\ UNCHANGED <<rowVars, loopVars, spawn, by, tasks, histVars>>

(* The child session and its first message. *)
CreateSession(k) ==
  /\ spawn[k] = "claimed"
  /\ spawn' = [spawn EXCEPT ![k] = "created"]
  /\ UNCHANGED <<rowVars, loopVars, by, bids, tasks, histVars>>

(* Register, an upsert: the row is running again whatever it says.         *)
Attach(k) ==
  /\ spawn[k] = "created"
  /\ k \in Tasks \/ ~cancelled[by[k][1]][by[k][2]]
  /\ spawn'   = [spawn EXCEPT ![k] = "attached"]
  /\ status'  = [status EXCEPT ![k] = "running"]
  /\ session' = [session EXCEPT ![k] = TRUE]
  /\ parent'  = [parent EXCEPT ![k] = by[k][1]]
  /\ UNCHANGED <<loopVars, by, bids, tasks, histVars>>

(* A store error, or the end of the tool call's context, before the loop   *)
(* is started: the row is left as it is.                                   *)
SpawnFails(k) ==
  /\ spawn[k] \in {"claimed", "created", "attached"}
  /\ spawn'    = [spawn EXCEPT ![k] = "none"]
  /\ by'       = [by EXCEPT ![k] = NoLoop]
  /\ orphaned' = orphaned \cup {k}
  /\ UNCHANGED <<rowVars, loopVars, bids, tasks, late, torn>>

StartChild(k, i) ==
  /\ spawn[k] = "attached"
  /\ FreeSlot(k, i)
  /\ SetLoop(k, i, "begin")
  /\ spawn' = [spawn EXCEPT ![k] = "starting"]
  /\ UNCHANGED <<rowVars, reg, cancelled, by, bids, tasks, histVars>>

-----------------------------------------------------------------------------
(* Stopping: the teammate tool and the Agents page, abort, the cascade.    *)

(* A session is stopped from its own page only.  Mutant: no such check.    *)
Anyone    == Agents
Stoppable == Kids

(* stopTeammate reads the row once; what it read decides what it cancels.  *)
Stop(k) ==
  /\ status[k] # "none"
  /\ tasks' = tasks \cup {Claim(k, session[k])}
  /\ UNCHANGED <<rowVars, loopVars, spawn, by, bids, histVars>>

(* handleAbortSession: unregister and cancel, then stopTeammatesOf. *)
Abort(a) ==
  /\ a \in Aborted /\ session[a]
  /\ cancelled' = CancelRegistered(a)
  /\ reg'       = [reg EXCEPT ![a] = 0]
  /\ tasks'     = tasks \cup {Roster(a)}
  /\ orphaned'  = IF reg[a] = 0 THEN orphaned ELSE orphaned \cup {a}
  /\ torn'      = (torn \/ a = Root)
  /\ UNCHANGED <<rowVars, loop, spawn, by, bids, late>>

(* stopTeammatesOf reads the roster: the children that have not ended.     *)
ReadRoster(t) ==
  /\ t \in tasks /\ t.op = "roster"
  /\ tasks' = (tasks \ {t}) \cup
       { Claim(k, session[k]) :
           k \in { c \in Kids : /\ status[t.agent] # "none"
                                /\ parent[c] = t.agent
                                /\ status[c] \in {"idle", "running"} } }
  /\ UNCHANGED <<rowVars, loopVars, spawn, by, bids, histVars>>

(* Claim the row before cancelling; only who moved it goes on.             *)
Moves(k) == status[k] \notin Terminal

ClaimRow(t) ==
  /\ t \in tasks /\ t.op = "claim"
  /\ status' = UnlessTerminal(t.agent, "stopped")
  /\ tasks'  = (tasks \ {t}) \cup
                 IF Moves(t.agent) /\ t.attached THEN {Cancel(t.agent)} ELSE {}
  /\ UNCHANGED <<session, parent, loopVars, spawn, by, bids, histVars>>

(* cancelLoop: cancel what is registered, then stop what it spawned. *)
CancelLoop(t) ==
  /\ t \in tasks /\ t.op = "cancel"
  /\ cancelled' = CancelRegistered(t.agent)
  /\ tasks'     = (tasks \ {t}) \cup {Roster(t.agent)}
  /\ UNCHANGED <<rowVars, reg, loop, spawn, by, bids, histVars>>

-----------------------------------------------------------------------------
(* The process dies and starts again; reconcileBoard runs before anything  *)
(* else: a row without a session is stale, a running one has no loop.      *)
(* Mutant: only teammates and tasks are looked at.                         *)
ReconciledKids(a) ==
  IF a \in Kids /\ status[a] = "running" THEN "stale" ELSE status[a]
Reconciled(a) ==
  IF a = Root
    THEN IF status[a] = "running" THEN "idle" ELSE status[a]
    ELSE IF status[a] \in {"idle", "running"} THEN "stale" ELSE status[a]

Restart ==
  /\ status'    = [a \in Agents |-> Reconciled(a)]
  /\ reg'       = [a \in Agents |-> 0]
  /\ loop'      = [a \in Agents |-> [i \in Slots |-> "off"]]
  /\ cancelled' = [a \in Agents |-> [i \in Slots |-> FALSE]]
  /\ spawn'     = [k \in Kids |-> "none"]
  /\ by'        = [k \in Kids |-> NoLoop]
  /\ bids'      = [k \in Typed |-> [l \in Agents \X Slots |-> 0]]
  /\ tasks'     = {}
  /\ orphaned'  = {}
  /\ torn'      = FALSE
  /\ UNCHANGED <<session, parent, late>>

-----------------------------------------------------------------------------
Turn(a, i) ==
  JoinBoard(a, i) \/ Register(a, i) \/ Exit(a, i) \/ LeaveBoard(a, i)

Bid(a, i) == \E k \in Typed : AttachFresh(a, i, k) \/ BidFails(a, i, k)

Spawn(k) ==
  \/ CreateSession(k) \/ Attach(k) \/ SpawnFails(k)
  \/ \E i \in Slots : StartChild(k, i)

Sweep == \E t \in tasks : ReadRoster(t) \/ ClaimRow(t) \/ CancelLoop(t)

Next ==
  \/ \E a \in Agents, i \in Slots : Prompt(a, i) \/ Turn(a, i)
  \/ \E a \in Agents, i \in Slots, k \in Kids : ClaimName(a, i, k)
  \/ \E a \in Agents, i \in Slots, k \in Typed : LookUpName(a, i, k)
  \/ \E a \in Agents, i \in Slots : Bid(a, i)
  \/ \E k \in Kids : Spawn(k)
  \/ \E a \in Stoppable : Stop(a)
  \/ \E a \in Agents : Abort(a)
  \/ Sweep
  \/ Restart

Spec == Init /\ [][Next]_vars

(* What was started goes on: a loop whose context is cancelled returns,    *)
(* starts, spawns and stops run to their end.  A loop that is not          *)
(* cancelled may run for ever.                                             *)
Fairness ==
  /\ \A a \in Agents, i \in Slots :
       /\ WF_vars(JoinBoard(a, i) \/ Register(a, i) \/ LeaveBoard(a, i))
       /\ WF_vars(cancelled[a][i] /\ Exit(a, i))
       /\ WF_vars(Bid(a, i))
  /\ \A k \in Kids : WF_vars(Spawn(k))
  /\ \A t \in Task : WF_vars(ReadRoster(t) \/ ClaimRow(t) \/ CancelLoop(t))

FairSpec == Spec /\ Fairness

-----------------------------------------------------------------------------
(* At most one loop of an agent runs on a live context, and it is the one  *)
(* the registry knows: an abort or a stop finds every loop there is to     *)
(* cancel (startSessionLoop, handleAbortSession under Server.mu).          *)
LiveLoopIsRegistered ==
  \A a \in Agents, i \in Slots :
    loop[a][i] = "run" /\ ~cancelled[a][i] => reg[a] = i

(* A row that is registered with its session lives as the board promises   *)
(* -- it ends once, and how it ended is not overwritten -- whatever         *)
(* leaveBoard, stopTeammate, the cascade and reconcileBoard race to write. *)
TypedStatus == [k \in Typed |-> status[k]]
Life == INSTANCE TeammateLife WITH Kids <- Typed, status <- TypedStatus
RowsLiveOnce == Life!LifeSpec

(* A terminal row is not moved again (board.go: done, stopped and stale    *)
(* are terminal, nothing will move the row again).                         *)
TerminalIsFinal ==
  [][\A k \in Kids : status[k] \in Terminal => status'[k] = status[k]]_vars

(* ... once it names its session: only the upsert that attaches a claimed  *)
(* row's session can write over how that row ended.                        *)
AttachedIsFinal ==
  [][\A k \in Kids : session[k] /\ status[k] \in Terminal => status'[k] = status[k]]_vars

(* If the loop of a stopped teammate still runs on a live context, its     *)
(* cancel is on the way -- stopTeammate claims the row, then cancels --     *)
(* unless the loop was registered on a row that had already ended.         *)
StoppedIsCancelled ==
  \A k \in Typed \ late :
    status[k] = "stopped" /\ reg[k] # 0 /\ ~cancelled[k][reg[k]] =>
      Cancel(k) \in tasks

(* A row that says running has a loop, or one is being started or is       *)
(* leaving (leaveBoard records that a session's loop ended); the only      *)
(* others are those an abort unregistered, whose exit records nothing, and *)
(* those whose spawn failed half-way.                                      *)
Busy(a) ==
  \/ \E i \in Slots : loop[a][i] # "off"
  \/ a \in Kids /\ spawn[a] # "none"

RunningHasLoop ==
  \A a \in Agents : status[a] = "running" => Busy(a) \/ a \in orphaned

(* When the sweep after an abort of the root is over, no teammate or task  *)
(* runs on a live context (cancelLoop: the cascade runs down every level   *)
(* of nested teammates).                                                   *)
CascadeReachesAll ==
  torn /\ tasks = {} /\ (\A k \in Kids : spawn[k] = "none") =>
    \A k \in Kids \ late : reg[k] # 0 => cancelled[k][reg[k]]

(* A stopped teammate's loop ends, unless it was registered too late for   *)
(* the stop to see it.                                                     *)
StoppedLoopEnds ==
  \A k \in Typed :
    status[k] = "stopped" /\ k \notin late ~>
      k \in late \/ \A i \in Slots : loop[k][i] # "run"

=============================================================================
