---------------------------- MODULE TurnDelivery ----------------------------
(***************************************************************************)
(* How reports reach the turns of one session, and when they count as      *)
(* delivered.                                                              *)
(*                                                                         *)
(* A report is a durable row: a teammate that ended (unreported on the     *)
(* board) or a reminder that came due (due in the timer store).  While a   *)
(* turn runs, whoever completes the report pushes it into the turn's       *)
(* LoopControl (reportTeammateDone, deliverReminder); a build turn that    *)
(* starts hands itself every row still unreported (catchUpTeammates,       *)
(* catchUpReminders).  Either way the row is stamped only when a request   *)
(* carrying the notice has been dispatched (BoardNoticesDelivered).        *)
(*                                                                         *)
(* Whoever hands a row over words it: a teammate's notice quotes its last  *)
(* message, which a stopped one may still be writing, so the reporter and  *)
(* a catch-up can word one row differently; two reminders with the same    *)
(* note and time are worded alike.  Queues and tracker know texts only.    *)
(*                                                                         *)
(* Actors: the loop goroutines of the session (a superseded one may still  *)
(* be unwinding while its successor runs), the reporters, the HTTP         *)
(* handlers of guidance and abort, and the process, which may crash.       *)
(* A turn is one goroutine of startSessionLoop with its own control; a     *)
(* member of Turns names it until it has left and nobody holds it.         *)
(***************************************************************************)
EXTENDS LoopControl

CONSTANTS
  Reports,        \* the rows that can become news
  Texts,          \* the notices a row can be worded as
  Turns,          \* names for the session's turns that can coexist
  NoTurn,         \* no loop is registered for the session
  GuidanceKinds   \* what clients send: a subset of Kinds

(* A guidance request carries text, asks for a cancel, or both.            *)
Kinds == {"text", "text+cancel", "cancel"}

ASSUME TextsAssumption ==
  /\ Texts \in [Reports -> SUBSET Notices]
  /\ \A r \in Reports : Texts[r] # {}
ASSUME TurnsAssumption == NoTurn \notin Turns
ASSUME KindsAssumption == GuidanceKinds \subseteq Kinds

VARIABLES
  live,      \* loopControls[session]: the registered turn, or NoTurn
  pc,        \* where each turn's loop is
  ctl,       \* each turn's LoopControl
  build,     \* it runs the build agent: catch-up, which alone asks, is due
  ctxDone,   \* the turn's own context is cancelled
  cut,       \* the context of the turn's current stream is cancelled
  fresh,     \* wireFresh: taken for the request being built, in full
  digest,    \* wireDigest: taken as headlines
  marks,     \* rows BoardNoticesDelivered is about to stamp
  into,      \* catch-up: the control it looked up
  todo,      \* catch-up: rows it read and has not handed over
  cur,       \* catch-up: the row pushed and not yet tracked, with its text
  tracked,   \* the board report tracker: <<turn, <<row, text>>>>
  ready,     \* durable: the row is terminal (or the reminder due)
  reported,  \* durable: the row is stamped delivered
  hand,      \* the reporter of each row: where it is
  handTo,    \* ... the control it looked up, and its wording
  guide,     \* each guidance request: where its handler is
  guideTo,   \* ... and the control it looked up
  \* history
  caught,    \* the turn's catch-up read the board for this very turn
  told,      \* notices a request of the turn carried in full
  read,      \* notices a request of any turn carried in full
  heard,     \* guidance texts the turn's latest dispatched request carried
  cutOff,    \* notices that rode in full in a request of the turn that was cut
  dropped    \* the turn's latest request was cut

loopVars  == <<pc, ctl, build, ctxDone, cut, fresh, digest, marks>>
catchVars == <<into, todo, cur, caught>>
rowVars   == <<ready, reported>>
handVars  == <<hand, handTo>>
guideVars == <<guide, guideTo>>
seenVars  == <<told, read, heard, cutOff, dropped>>
vars == <<live, loopVars, catchVars, tracked, rowVars, handVars, guideVars,
          seenVars>>

Phases ==
  {"idle",                              \* no goroutine
   "start", "trim", "catchup",          \* RunLoop's prologue
   "top", "drained", "built", "taken", "armed", "dispatch", "marking",
   "streaming", "closing",              \* one step of the loop
   "final", "failed"}                   \* RunLoop returned: nil, or an error

HandPhases  == {"idle", "lookup", "push", "track", "gaveup"}
GuidePhases == {"new", "found", "pushed", "done", "refused"}

Types ==
  /\ live     \in Turns \cup {NoTurn}
  /\ pc       \in [Turns -> Phases]
  /\ ctl      \in [Turns -> Control]
  /\ build    \in [Turns -> BOOLEAN]
  /\ ctxDone  \in [Turns -> BOOLEAN]
  /\ cut      \in [Turns -> BOOLEAN]
  /\ fresh    \in [Turns -> SUBSET Notices]
  /\ digest   \in [Turns -> SUBSET Notices]
  /\ marks    \in [Turns -> SUBSET Reports]
  /\ into     \in [Turns -> Turns \cup {NoTurn}]
  /\ todo     \in [Turns -> SUBSET Reports]
  /\ cur      \in [Turns -> SUBSET (Reports \X Notices)]
  /\ tracked  \in SUBSET (Turns \X (Reports \X Notices))
  /\ ready    \in SUBSET Reports
  /\ reported \in SUBSET Reports
  /\ hand     \in [Reports -> HandPhases]
  /\ handTo   \in [Reports -> (Turns \cup {NoTurn}) \X (Notices \cup {"none"})]
  /\ guide    \in [Guides -> GuidePhases]
  /\ guideTo  \in [Guides -> (Turns \cup {NoTurn}) \X (Kinds \cup {"none"})]
  /\ caught   \in [Turns -> BOOLEAN]
  /\ told     \in [Turns -> SUBSET Notices]
  /\ read     \in SUBSET Notices
  /\ heard    \in [Turns -> SUBSET Guides]
  /\ cutOff   \in [Turns -> SUBSET Notices]
  /\ dropped  \in [Turns -> BOOLEAN]

(* Who is about to use a control holds a turn's, and a wording of its row. *)
Holders ==
  /\ \A r \in Reports : hand[r] \in {"push", "track"} =>
       handTo[r][1] \in Turns /\ handTo[r][2] \in Texts[r]
  /\ \A t \in Turns : pc[t] \in {"trim", "catchup"} => into[t] \in Turns
  /\ \A g \in Guides : guide[g] \in {"found", "pushed"} => guideTo[g][1] \in Turns

(* Every variable keeps its type, and whoever is about to use a control    *)
(* holds a turn's, never the nil of a session that runs none.              *)
TypeOK == Types /\ Holders

NoGuide == <<NoTurn, "none">>
NoHand  == <<NoTurn, "none">>

Each(v) == [t \in Turns |-> v]

Init ==
  /\ live     = NoTurn
  /\ pc       = Each("idle")
  /\ ctl      = Each(NewLoopControl)
  /\ build    = Each(FALSE)
  /\ ctxDone  = Each(FALSE)
  /\ cut      = Each(FALSE)
  /\ fresh    = Each({})
  /\ digest   = Each({})
  /\ marks    = Each({})
  /\ into     = Each(NoTurn)
  /\ todo     = Each({})
  /\ cur      = Each({})
  /\ tracked  = {}
  /\ ready    = {}
  /\ reported = {}
  /\ hand     = [r \in Reports |-> "idle"]
  /\ handTo   = [r \in Reports |-> NoHand]
  /\ guide    = [g \in Guides |-> "new"]
  /\ guideTo  = [g \in Guides |-> NoGuide]
  /\ caught   = Each(FALSE)
  /\ told     = Each({})
  /\ read     = {}
  /\ heard    = Each({})
  /\ cutOff   = Each({})
  /\ dropped  = Each(FALSE)

-----------------------------------------------------------------------------
(* The session's loop: registration, cancellation, exit.                   *)

(* A control somebody still holds a pointer to. *)
Held(t) ==
  \/ \E r \in Reports : hand[r] \in {"push", "track"} /\ handTo[r][1] = t
  \/ \E s \in Turns : pc[s] \in {"trim", "catchup"} /\ into[s] = t
  \/ \E g \in Guides : guide[g] \in {"found", "pushed"} /\ guideTo[g][1] = t

(* startSessionLoop: cancel the loop that is registered, register this one.*)
Start(t) ==
  /\ pc[t] = "idle"
  /\ ~Held(t)
  /\ live'    = t
  /\ pc'      = [pc EXCEPT ![t] = "start"]
  /\ \E b \in BOOLEAN : build' = [build EXCEPT ![t] = b]
  /\ ctxDone' = IF live = NoTurn THEN ctxDone
                ELSE [ctxDone EXCEPT ![live] = TRUE]
  /\ UNCHANGED <<ctl, cut, fresh, digest, marks, catchVars, tracked, rowVars,
                 handVars, guideVars, seenVars>>

(* handleAbortSession: unregister, then cancel. *)
Abort ==
  /\ live # NoTurn
  /\ live'    = NoTurn
  /\ ctxDone' = [ctxDone EXCEPT ![live] = TRUE]
  /\ UNCHANGED <<pc, ctl, build, cut, fresh, digest, marks, catchVars,
                 tracked, rowVars, handVars, guideVars, seenVars>>

(* The goroutine's deferred exit: only the registered loop unregisters.    *)
(* Its control is garbage from here on, and so are the reports tracked for *)
(* it: no later request is dispatched for that control.                    *)
Leave(t) ==
  /\ pc[t] \in {"final", "failed"}
  /\ live'    = IF live = t THEN NoTurn ELSE live
  /\ pc'      = [pc EXCEPT ![t] = "idle"]
  /\ ctl'     = [ctl EXCEPT ![t] = NewLoopControl]
  /\ build'   = [build EXCEPT ![t] = FALSE]
  /\ ctxDone' = [ctxDone EXCEPT ![t] = FALSE]
  /\ cut'     = [cut EXCEPT ![t] = FALSE]
  /\ tracked' = { e \in tracked : e[1] # t }
  /\ caught'  = [caught EXCEPT ![t] = FALSE]
  /\ told'    = [told EXCEPT ![t] = {}]
  /\ heard'   = [heard EXCEPT ![t] = {}]
  /\ cutOff'  = [cutOff EXCEPT ![t] = {}]
  /\ dropped' = [dropped EXCEPT ![t] = FALSE]
  /\ UNCHANGED <<fresh, digest, marks, into, todo, cur, rowVars, handVars,
                 guideVars, read>>

(* The process dies and is started again: only the two tables survive.     *)
Crash ==
  /\ live'    = NoTurn
  /\ pc'      = Each("idle")
  /\ ctl'     = Each(NewLoopControl)
  /\ build'   = Each(FALSE)
  /\ ctxDone' = Each(FALSE)
  /\ cut'     = Each(FALSE)
  /\ fresh'   = Each({})
  /\ digest'  = Each({})
  /\ marks'   = Each({})
  /\ into'    = Each(NoTurn)
  /\ todo'    = Each({})
  /\ cur'     = Each({})
  /\ tracked' = {}
  /\ hand'    = [r \in Reports |-> "idle"]
  /\ handTo'  = [r \in Reports |-> NoHand]
  /\ guide'   = [g \in Guides |-> "refused"]
  /\ guideTo' = [g \in Guides |-> NoGuide]
  /\ caught'  = Each(FALSE)
  /\ told'    = Each({})
  /\ heard'   = Each({})
  /\ cutOff'  = Each({})
  /\ dropped' = Each(FALSE)
  /\ UNCHANGED <<rowVars, read>>

-----------------------------------------------------------------------------
(* Reporters: a teammate's exit, a stop, the reminder poller.              *)

(* The row becomes terminal (or due) before anyone is told. *)
Complete(r) ==
  /\ r \notin ready
  /\ ready' = ready \cup {r}
  /\ hand'  = [hand EXCEPT ![r] = "lookup"]
  /\ UNCHANGED <<live, loopVars, catchVars, tracked, reported, handTo,
                 guideVars, seenVars>>

(* Mutant: a session that runs no loop is not told apart.                  *)
LookupUnchecked(r) ==
  /\ hand[r] = "lookup"
  /\ hand' = [hand EXCEPT ![r] = "push"]
  /\ \E n \in Texts[r] : handTo' = [handTo EXCEPT ![r] = <<live, n>>]
  /\ UNCHANGED <<live, loopVars, catchVars, tracked, rowVars, guideVars,
                 seenVars>>

(* Word the row and find the spawner's control; with no loop running, or   *)
(* when the board cannot be read ("gaveup"), the row waits for the next    *)
(* turn's catch-up.                                                        *)
Lookup(r) ==
  /\ hand[r] = "lookup"
  /\ \/ /\ live # NoTurn
        /\ hand' = [hand EXCEPT ![r] = "push"]
        /\ \E n \in Texts[r] : handTo' = [handTo EXCEPT ![r] = <<live, n>>]
     \/ /\ live = NoTurn
        /\ hand' = [hand EXCEPT ![r] = "idle"]
        /\ UNCHANGED handTo
     \/ /\ hand' = [hand EXCEPT ![r] = "gaveup"]
        /\ UNCHANGED handTo
  /\ UNCHANGED <<live, loopVars, catchVars, tracked, rowVars, guideVars,
                 seenVars>>

(* What is pushed into the control of a turn that has left is lost. *)
Updated(t, c) == IF pc[t] = "idle" THEN ctl ELSE [ctl EXCEPT ![t] = c]

Push(r) ==
  /\ hand[r] = "push"
  /\ hand' = [hand EXCEPT ![r] = "track"]
  /\ LET t == handTo[r][1] IN ctl' = Updated(t, PushNotice(ctl[t], handTo[r][2]))
  /\ UNCHANGED <<live, pc, build, ctxDone, cut, fresh, digest, marks,
                 catchVars, tracked, rowVars, handTo, guideVars, seenVars>>

(* TrackBoardReport: rows with the texts they were pushed as.  Mutant: the  *)
(* entry forgotten.                                                        *)
TrackedNever(t, rs) == tracked
Tracked(t, rs) == IF pc[t] = "idle" THEN tracked ELSE tracked \cup ({t} \X rs)

Track(r) ==
  /\ hand[r] = "track"
  /\ hand'    = [hand EXCEPT ![r] = "idle"]
  /\ handTo'  = [handTo EXCEPT ![r] = NoHand]
  /\ tracked' = Tracked(handTo[r][1], {<<r, handTo[r][2]>>})
  /\ UNCHANGED <<live, loopVars, catchVars, rowVars, guideVars, seenVars>>

-----------------------------------------------------------------------------
(* The loop's prologue: catch-up.                                          *)

(* CatchUpTeammates / CatchUpReminders: build turns only.  The control is  *)
(* looked up by session, so a superseded turn finds its successor's.       *)
CatchUpLookup(t) ==
  /\ pc[t] = "start"
  /\ IF build[t] /\ live # NoTurn
       THEN /\ pc'   = [pc EXCEPT ![t] = "trim"]
            /\ into' = [into EXCEPT ![t] = live]
       ELSE /\ pc' = [pc EXCEPT ![t] = "top"]
            /\ UNCHANGED into
  /\ build' = [build EXCEPT ![t] = FALSE]     \* not asked again
  /\ UNCHANGED <<live, ctl, ctxDone, cut, fresh, digest, marks, todo, cur,
                 caught, tracked, rowVars, handVars, guideVars, seenVars>>

(* The rows a catch-up reads: terminal (or due) and not yet stamped.       *)
(* Mutant: those whose reporter is still at work are left to it.           *)
OwedSettled == { r \in ready \ reported : hand[r] = "idle" }
Owed        == ready \ reported

(* TrimBoardReports, then read the rows that are still unreported.  A      *)
(* failed read is logged and the turn goes on without.                     *)
CatchUpRead(t) ==
  /\ pc[t] = "trim"
  /\ tracked' = { e \in tracked : e[1] = into[t] }
  /\ \/ /\ pc'     = [pc EXCEPT ![t] = "catchup"]
        /\ todo'   = [todo EXCEPT ![t] = Owed]
        /\ caught' = [caught EXCEPT ![t] = (into[t] = t)]
        /\ hand'   = [r \in Reports |->
                        IF hand[r] = "gaveup" /\ into[t] = t /\ live = t
                        THEN "idle"
                        ELSE hand[r]]
        /\ UNCHANGED into
     \/ /\ pc'   = [pc EXCEPT ![t] = "top"]
        /\ into' = [into EXCEPT ![t] = NoTurn]
        /\ UNCHANGED <<todo, caught, hand>>
  /\ UNCHANGED <<live, ctl, build, ctxDone, cut, fresh, digest, marks, cur,
                 rowVars, handTo, guideVars, seenVars>>

CatchUpPush(t) ==
  /\ pc[t] = "catchup"
  /\ cur[t] = {}
  /\ \E r \in todo[t] : \E n \in Texts[r] :
       /\ ctl' = Updated(into[t], PushNotice(ctl[into[t]], n))
       /\ cur' = [cur EXCEPT ![t] = {<<r, n>>}]
  /\ UNCHANGED <<live, pc, build, ctxDone, cut, fresh, digest, marks, into,
                 todo, caught, tracked, rowVars, handVars, guideVars, seenVars>>

CatchUpTrack(t) ==
  /\ pc[t] = "catchup"
  /\ cur[t] # {}
  /\ tracked' = Tracked(into[t], cur[t])
  /\ todo'    = [todo EXCEPT ![t] = @ \ { e[1] : e \in cur[t] }]
  /\ cur'     = [cur EXCEPT ![t] = {}]
  /\ UNCHANGED <<live, loopVars, into, caught, rowVars, handVars, guideVars,
                 seenVars>>

CatchUpDone(t) ==
  /\ pc[t] = "catchup"
  /\ todo[t] = {}
  /\ pc'   = [pc EXCEPT ![t] = "top"]
  /\ into' = [into EXCEPT ![t] = NoTurn]
  /\ UNCHANGED <<live, ctl, build, ctxDone, cut, fresh, digest, marks, todo,
                 cur, caught, tracked, rowVars, handVars, guideVars, seenVars>>

-----------------------------------------------------------------------------
(* One step of the loop.                                                   *)

Goto(t, p) == pc' = [pc EXCEPT ![t] = p]

(* RunLoop returns without settling the queues: a cancelled context, a     *)
(* deleted session, a failed read, a failed stream, the hard step ceiling. *)
Fail(t) ==
  /\ pc[t] \in {"top", "drained", "built", "dispatch", "streaming"}
  /\ Goto(t, "failed")
  /\ fresh'  = [fresh EXCEPT ![t] = {}]
  /\ digest' = [digest EXCEPT ![t] = {}]
  /\ UNCHANGED <<live, ctl, build, ctxDone, cut, marks, catchVars, tracked,
                 rowVars, handVars, guideVars, seenVars>>

(* DrainGuidance and DrainNotices at the top of the step. *)
Drain(t) ==
  /\ pc[t] = "top"
  /\ ~ctxDone[t]
  /\ \E k \in BatchSizes(ctl[t]) :
       ctl' = [ctl EXCEPT ![t] = DrainNotices(DrainGuidance(@), k)]
  /\ Goto(t, IF HasPending(ctl[t]) THEN "built" ELSE "drained")
  /\ UNCHANGED <<live, build, ctxDone, cut, fresh, digest, marks, catchVars,
                 tracked, rowVars, handVars, guideVars, seenVars>>

(* Nothing was drained.  If the last assistant message does not end the    *)
(* turn (shouldBreak) the step goes on; if it does, drain once more and    *)
(* stop unless that found something.                                       *)
Proceed(t) ==
  /\ pc[t] = "drained"
  /\ Goto(t, "built")
  /\ UNCHANGED <<live, ctl, build, ctxDone, cut, fresh, digest, marks,
                 catchVars, tracked, rowVars, handVars, guideVars, seenVars>>

RedrainAlwaysStops(t) ==     \* Mutant: what the second drain found is ignored
  /\ pc[t] = "drained"
  /\ \E k \in BatchSizes(ctl[t]) :
       ctl' = [ctl EXCEPT ![t] = DrainNotices(DrainGuidance(@), k)]
  /\ Goto(t, "final")
  /\ UNCHANGED <<live, build, ctxDone, cut, fresh, digest, marks, catchVars,
                 tracked, rowVars, handVars, guideVars, seenVars>>

Redrain(t) ==
  /\ pc[t] = "drained"
  /\ \E k \in BatchSizes(ctl[t]) :
       ctl' = [ctl EXCEPT ![t] = DrainNotices(DrainGuidance(@), k)]
  /\ Goto(t, IF HasPending(ctl[t]) THEN "built" ELSE "final")
  /\ UNCHANGED <<live, build, ctxDone, cut, fresh, digest, marks, catchVars,
                 tracked, rowVars, handVars, guideVars, seenVars>>

(* TakeNoticesForInjection. *)
Take(t) ==
  /\ pc[t] = "built"
  /\ fresh'  = [fresh EXCEPT ![t] = Fresh(ctl[t])]
  /\ digest' = [digest EXCEPT ![t] = Digest(ctl[t])]
  /\ ctl'    = [ctl EXCEPT ![t] = Taken(@)]
  /\ Goto(t, "taken")
  /\ UNCHANGED <<live, build, ctxDone, cut, marks, catchVars, tracked, rowVars,
                 handVars, guideVars, seenVars>>

(* A new stream context, registered for CancelStream. *)
Arm(t) ==
  /\ pc[t] = "taken"
  /\ ctl' = [ctl EXCEPT ![t] = SetStreamCancel(@)]
  /\ cut' = [cut EXCEPT ![t] = FALSE]
  /\ Goto(t, "armed")
  /\ UNCHANGED <<live, build, ctxDone, fresh, digest, marks, catchVars,
                 tracked, rowVars, handVars, guideVars, seenVars>>

(* The pre-stream gap: input that arrived since the drain restarts the     *)
(* step, and what the step took goes back on unshown.                      *)
GapCheck(t) ==
  /\ pc[t] = "armed"
  /\ IF HasPending(ctl[t])
       THEN /\ ctl' = [ctl EXCEPT ![t] =
                         ClearStreamCancel(RestoreNotices(@, fresh[t]))]
            /\ Goto(t, "top")
            /\ cut'    = [cut EXCEPT ![t] = FALSE]
            /\ fresh'  = [fresh EXCEPT ![t] = {}]
            /\ digest' = [digest EXCEPT ![t] = {}]
       ELSE /\ Goto(t, "dispatch")
            /\ UNCHANGED <<ctl, cut, fresh, digest>>
  /\ UNCHANGED <<live, build, ctxDone, marks, catchVars, tracked, rowVars,
                 handVars, guideVars, seenVars>>

(* The notices this step's request carries.  Mutant: every notice the turn *)
(* was ever handed.                                                        *)
CarriedHanded(t) == Queued(ctl[t]) \cup ctl[t].deliveredNotices
Carried(t)       == fresh[t] \cup digest[t]

(* StreamChat returned a stream: the request landed.  The rows whose text  *)
(* it carried come off the tracker, as far as they are this turn's.        *)
Connect(t) ==
  /\ pc[t] = "dispatch"
  /\ told'    = [told EXCEPT ![t] = @ \cup fresh[t]]
  /\ read'    = read \cup fresh[t]
  /\ heard'   = [heard EXCEPT ![t] = ctl[t].delivered]
  /\ dropped' = [dropped EXCEPT ![t] = FALSE]
  /\ marks'   = [marks EXCEPT ![t] =
                   { r \in Reports : \E n \in Carried(t) : <<t, <<r, n>>>> \in tracked }]
  /\ tracked' = tracked \ ({t} \X (Reports \X Carried(t)))
  /\ Goto(t, "marking")
  /\ UNCHANGED <<live, ctl, build, ctxDone, cut, fresh, digest, catchVars,
                 rowVars, handVars, guideVars, cutOff>>

(* Their marks run outside the lock; a mark that fails is logged. *)
Mark(t) ==
  /\ pc[t] = "marking"
  /\ \E ok \in SUBSET marks[t] : reported' = reported \cup ok
  /\ marks'  = [marks EXCEPT ![t] = {}]
  /\ fresh'  = [fresh EXCEPT ![t] = {}]
  /\ digest' = [digest EXCEPT ![t] = {}]
  /\ Goto(t, "streaming")
  /\ UNCHANGED <<live, ctl, build, ctxDone, cut, catchVars, tracked, ready,
                 handVars, guideVars, seenVars>>

(* StreamChat failed because guidance cancelled the stream while the       *)
(* request was in flight: no retry and no error, the step winds down.      *)
CutDispatch(t) ==
  /\ pc[t] = "dispatch"
  /\ cut[t] /\ ~ctxDone[t]
  /\ fresh'  = [fresh EXCEPT ![t] = {}]
  /\ digest' = [digest EXCEPT ![t] = {}]
  /\ cutOff' = [cutOff EXCEPT ![t] = @ \cup fresh[t]]
  /\ dropped' = [dropped EXCEPT ![t] = TRUE]
  /\ Goto(t, "closing")
  /\ UNCHANGED <<live, ctl, build, ctxDone, cut, marks, catchVars, tracked,
                 rowVars, handVars, guideVars, told, read, heard>>

(* The stream was consumed.  Tools run and the loop always continues; the  *)
(* stream died before any output and the step is dispatched again; or it   *)
(* ended (or was cut) with no tool to run.                                 *)
StreamNext(t) ==
  /\ pc[t] = "streaming"
  /\ ctl' = [ctl EXCEPT ![t] = ClearStreamCancel(@)]
  /\ cut' = [cut EXCEPT ![t] = FALSE]
  /\ Goto(t, "top")
  /\ UNCHANGED <<live, build, ctxDone, fresh, digest, marks, catchVars,
                 tracked, rowVars, handVars, guideVars, seenVars>>

StreamStop(t) ==
  /\ pc[t] = "streaming"
  /\ Goto(t, "closing")
  /\ UNCHANGED <<live, ctl, build, ctxDone, cut, fresh, digest, marks,
                 catchVars, tracked, rowVars, handVars, guideVars, seenVars>>

(* No tool was executed: release the stream, and stop unless input arrived *)
(* meanwhile.  After this check nothing looks at the queues again.         *)
Close(t) ==
  /\ pc[t] = "closing"
  /\ ctl' = [ctl EXCEPT ![t] = ClearStreamCancel(@)]
  /\ cut' = [cut EXCEPT ![t] = FALSE]
  /\ Goto(t, IF HasPending(ctl[t]) THEN "top" ELSE "final")
  /\ UNCHANGED <<live, build, ctxDone, fresh, digest, marks, catchVars,
                 tracked, rowVars, handVars, guideVars, seenVars>>

-----------------------------------------------------------------------------
(* handleGuidance: look the control up, push the text, then cancel.        *)

GuidanceLookup(g) ==
  /\ guide[g] = "new"
  /\ IF live = NoTurn
       THEN /\ guide' = [guide EXCEPT ![g] = "refused"]
            /\ UNCHANGED guideTo
       ELSE /\ guide' = [guide EXCEPT ![g] = "found"]
            /\ \E k \in GuidanceKinds :
                 guideTo' = [guideTo EXCEPT ![g] = <<live, k>>]
  /\ UNCHANGED <<live, loopVars, catchVars, tracked, rowVars, handVars,
                 seenVars>>

GuidancePush(g) ==
  LET t == guideTo[g][1]
      k == guideTo[g][2]
  IN  /\ guide[g] = "found"
      /\ guide' = [guide EXCEPT ![g] = IF k = "text" THEN "done" ELSE "pushed"]
      /\ ctl'   = IF k = "cancel" THEN ctl
                  ELSE Updated(t, PushGuidance(ctl[t], g))
      /\ UNCHANGED <<live, pc, build, ctxDone, cut, fresh, digest, marks,
                     catchVars, tracked, rowVars, handVars, guideTo, seenVars>>

(* CancelStream: the registered stream's context is cancelled, once. *)
GuidanceCancel(g) ==
  LET t == guideTo[g][1]
  IN  /\ guide[g] = "pushed"
      /\ guide'   = [guide EXCEPT ![g] = "done"]
      /\ guideTo' = [guideTo EXCEPT ![g] = NoGuide]
      /\ cut'   = [cut EXCEPT ![t] = @ \/ ctl[t].streamCancel]
      /\ ctl'   = [ctl EXCEPT ![t] = ClearStreamCancel(@)]
      /\ UNCHANGED <<live, pc, build, ctxDone, fresh, digest, marks, catchVars,
                     tracked, rowVars, handVars, seenVars>>

-----------------------------------------------------------------------------
Prologue(t) ==
  CatchUpLookup(t) \/ CatchUpRead(t) \/ CatchUpPush(t) \/ CatchUpTrack(t)
  \/ CatchUpDone(t)

Step(t) ==
  \/ Drain(t) \/ Proceed(t) \/ Redrain(t) \/ Take(t) \/ Arm(t) \/ GapCheck(t)
  \/ Connect(t) \/ Mark(t) \/ CutDispatch(t) \/ StreamNext(t)
  \/ StreamStop(t) \/ Close(t)

Reporter(r) == Complete(r) \/ Lookup(r) \/ Push(r) \/ Track(r)

Guidance(g) == GuidanceLookup(g) \/ GuidancePush(g) \/ GuidanceCancel(g)

Next ==
  \/ \E t \in Turns : Start(t) \/ Prologue(t) \/ Step(t) \/ Fail(t) \/ Leave(t)
  \/ \E r \in Reports : Reporter(r)
  \/ \E g \in Guides : Guidance(g)
  \/ Abort
  \/ Crash

Spec == Init /\ [][Next]_vars

(* Every goroutine the process runs keeps running; nothing obliges a user  *)
(* to prompt, to send guidance or to abort, or a teammate to finish.       *)
Fairness ==
  /\ \A t \in Turns : WF_vars(Prologue(t)) /\ WF_vars(Step(t))
                      /\ WF_vars(Leave(t))
  /\ \A r \in Reports : WF_vars(Lookup(r) \/ Push(r) \/ Track(r))

FairSpec == Spec /\ Fairness

-----------------------------------------------------------------------------
(* What the reports owe the session.                                       *)

InPipeline(t, r) ==
  \/ r \in todo[t]
  \/ \E n \in Texts[r] : n \in Queued(ctl[t]) \cup ctl[t].deliveredNotices

(* No report slips between a turn that starts and a report that completes: *)
(* once the registered turn has read the board, every row still unreported *)
(* is in that turn's pipeline, or its reporter has yet to look the turn up *)
(* or to push into it.  (catchUpTeammates / reportTeammateDone: the row is *)
(* written before the control is looked up, and the control is registered  *)
(* before the rows are read.)                                              *)
NoReportSlips ==
  \A r \in ready \ reported :
    live # NoTurn /\ caught[live] =>
      \/ InPipeline(live, r)
      \/ hand[r] \in {"lookup", "gaveup"}
      \/ hand[r] = "push" /\ handTo[r][1] = live

(* A row is stamped only if some dispatched request carried its full text, *)
(* in one of its wordings: a stamped report is one the model has read      *)
(* (BoardNoticesDelivered).                                                *)
StampMeansRead == \A r \in reported : \E n \in Texts[r] : n \in read

(* A request carries a notice as a headline only if an earlier request of  *)
(* the turn carried its full text (TakeNoticesForInjection).               *)
HeadlineAfterText ==
  \A t \in Turns : pc[t] = "marking" => digest[t] \subseteq told[t]

(* A turn that ends normally has told the model every notice it drained.   *)
NoticesToldAtEnd ==
  \A t \in Turns : pc[t] = "final" => ctl[t].deliveredNotices \subseteq told[t]

(* No two requests of a turn carry the same text in full (PushNotice       *)
(* drops what the turn has seen, RestoreNotices only returns what was not  *)
(* sent).  Of texts, not of rows: a row worded anew is told again.         *)
TextOncePerTurn ==
  \A t \in Turns : pc[t] = "dispatch" => fresh[t] \cap told[t] = {}

(* A turn that ends normally has sent every guidance text it drained.      *)
DrainedGuidanceHeard ==
  \A t \in Turns : pc[t] = "final" => ctl[t].delivered \subseteq heard[t]

(* What a cancel costs, for any clients.  A row is stamped only once its    *)
(* full text has been put in a request of a turn that has not left: one     *)
(* that landed, or one that was cut on its way.                            *)
StampMeansSent ==
  [][\A r \in reported' \ reported :
       \E t \in Turns, n \in Texts[r] : n \in told[t] \cup cutOff[t]]_vars

(* Only the notices that rode in full in the request that was cut can be   *)
(* headlined untold, or left untold by a turn that ends normally.          *)
OnlyCutsLoseReports ==
  \A t \in Turns :
    /\ pc[t] = "marking" => digest[t] \subseteq told[t] \cup cutOff[t]
    /\ pc[t] = "final" => ctl[t].deliveredNotices \subseteq told[t] \cup cutOff[t]

(* A turn that ends normally has sent every guidance text it drained,      *)
(* unless its very last request was cut: any later one carries them again. *)
OnlyLastCutLosesGuidance ==
  \A t \in Turns :
    pc[t] = "final" /\ ~dropped[t] => ctl[t].delivered \subseteq heard[t]

(* A cancel of the stream finds only a stream of the step in flight: it    *)
(* never lands on the next step's request (SetStreamCancel and             *)
(* ClearStreamCancel bracket the stream on every path through the step).   *)
CutHitsItsStep ==
  \A t \in Turns :
    pc[t] \in {"top", "drained", "built", "taken"} =>
      ~cut[t] /\ ~ctl[t].streamCancel

(* A turn that ends normally leaves no accepted guidance in its queue.     *)
NoGuidanceLeft ==
  \A t \in Turns : pc[t] = "final" => ctl[t].guidance = {}

(* At least once: if from some point on nothing fails, aborts or           *)
(* supersedes, and build turns keep being started, every completed report  *)
(* is stamped in the end.                                                  *)
Fault ==
  \/ Crash /\ ~(\E t \in Turns : Leave(t))
  \/ live # NoTurn /\ (Abort \/ \E t \in Turns : Start(t))
  \/ \E t \in Turns : \/ Fail(t)
                      \/ Mark(t) /\ ~(marks[t] \subseteq reported')
                      \/ CatchUpRead(t) /\ todo'[t] # ready \ reported

Quiet == <>[][~Fault]_vars

KeepsPrompting == []<><<\E t \in Turns : Start(t) /\ build'[t]>>_vars

EventuallyReported ==
  Quiet /\ KeepsPrompting => \A r \in Reports : r \in ready ~> r \in reported

=============================================================================
