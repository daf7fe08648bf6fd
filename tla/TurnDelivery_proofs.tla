------------------------- MODULE TurnDelivery_proofs -------------------------
(***************************************************************************)
(* What holds of the delivery of reports and guidance for any number of    *)
(* turns, reports and guidance requests: the types, that no report slips   *)
(* between a turn and its reporter, that a cancel hits the step it was     *)
(* meant for, and that no text is sent twice in a turn.                    *)
(***************************************************************************)
EXTENDS TurnDelivery, SequenceTheorems, TLAPS

USE TurnsAssumption, KindsAssumption, NoticeCapAssumption

-----------------------------------------------------------------------------
(***************************************************************************)
(* The operations of one control.                                          *)
(***************************************************************************)
(* All that was pushed into a control in this turn.                        *)
Pipe(c) == Queued(c) \cup c.deliveredNotices

(* No notice is queued twice, nor queued once it was drained.              *)
Sound(c) ==
  /\ \A i, j \in DOMAIN c.notices : c.notices[i] = c.notices[j] => i = j
  /\ Queued(c) \cap c.deliveredNotices = {}
  /\ c.unshown \subseteq c.deliveredNotices

(* What others may do to a turn's control: add to its queues.              *)
Grew(c, d) ==
  /\ d \in Control
  /\ d.delivered = c.delivered
  /\ d.deliveredNotices = c.deliveredNotices
  /\ d.unshown = c.unshown
  /\ Queued(c) \subseteq Queued(d)
  /\ HasPending(c) => HasPending(d)
  /\ Sound(c) => Sound(d)

LEMMA NewIsControl ==
  /\ NewLoopControl \in Control
  /\ Queued(NewLoopControl) = {}
  /\ Sound(NewLoopControl)
<1>1. << >> \in Seq(Notices) /\ DOMAIN << >> = {}
  OBVIOUS
<1> QED
  BY <1>1 DEF NewLoopControl, Control, Queued, Sound

LEMMA QueuedType ==
  ASSUME NEW c \in Control
  PROVE  Queued(c) \subseteq Notices
<1>1. c.notices \in Seq(Notices)
  BY DEF Control
<1>2. \A i \in DOMAIN c.notices : c.notices[i] \in Notices
  BY <1>1
<1> QED
  BY <1>2 DEF Queued

(* A notice that is pushed is in the pipeline, whether or not the push was  *)
(* dropped as a repetition.                                                *)
LEMMA PushNoticeGrows ==
  ASSUME NEW c \in Control, NEW n \in Notices
  PROVE  /\ Grew(c, PushNotice(c, n))
         /\ n \in Pipe(PushNotice(c, n))
         /\ PushNotice(c, n).streamCancel = c.streamCancel
<1>1. CASE n \in Pipe(c)
  BY <1>1 DEF PushNotice, Grew, Pipe
<1>2. CASE n \notin Pipe(c)
  <2> DEFINE d == [c EXCEPT !.notices = Append(@, n)]
  <2>1. PushNotice(c, n) = d
    BY <1>2 DEF PushNotice, Pipe
  <2>2. c.notices \in Seq(Notices)
    BY DEF Control
  <2>3. /\ Append(c.notices, n) \in Seq(Notices)
        /\ Len(Append(c.notices, n)) = Len(c.notices) + 1
        /\ \A i \in 1 .. Len(c.notices) : Append(c.notices, n)[i] = c.notices[i]
        /\ Append(c.notices, n)[Len(c.notices) + 1] = n
    BY <2>2, AppendProperties
  <2>4. /\ d \in Control /\ d.notices = Append(c.notices, n)
        /\ d.delivered = c.delivered /\ d.deliveredNotices = c.deliveredNotices
        /\ d.unshown = c.unshown /\ d.guidance = c.guidance
        /\ d.streamCancel = c.streamCancel
    BY <2>3 DEF Control
  <2> HIDE DEF d
  <2>5. DOMAIN c.notices = 1 .. Len(c.notices) /\ DOMAIN d.notices = 1 .. (Len(c.notices) + 1)
        /\ Len(c.notices) \in Nat
    BY <2>2, <2>3, <2>4
  <2>6. Queued(d) = Queued(c) \cup {n}
    BY <2>3, <2>4, <2>5 DEF Queued
  <2>7. d.notices # << >>
    BY <2>3, <2>4, <2>5
  <2>8. ASSUME Sound(c) PROVE Sound(d)
    <3>1. ASSUME NEW i \in DOMAIN d.notices, NEW j \in DOMAIN d.notices,
                 d.notices[i] = d.notices[j]
          PROVE  i = j
      <4>1. \A k \in 1 .. Len(c.notices) : d.notices[k] # n
        BY <1>2, <2>3, <2>4, <2>5 DEF Pipe, Queued
      <4> QED
        BY <2>3, <2>4, <2>5, <2>8, <3>1, <4>1 DEF Sound
    <3>2. Queued(d) \cap d.deliveredNotices = {}
      BY <1>2, <2>4, <2>6, <2>8 DEF Sound, Pipe
    <3> QED
      BY <2>4, <2>8, <3>1, <3>2 DEF Sound
  <2> QED
    BY <2>1, <2>4, <2>6, <2>7, <2>8 DEF Grew, HasPending, Pipe
<1> QED
  BY <1>1, <1>2

LEMMA ControlSame ==
  ASSUME NEW c, NEW d \in Control,
         d.notices = c.notices, d.deliveredNotices = c.deliveredNotices,
         d.unshown = c.unshown, d.delivered = c.delivered,
         c.guidance \subseteq d.guidance
  PROVE  Grew(c, d) /\ Queued(d) = Queued(c)
BY DEF Grew, Queued, Sound, HasPending

LEMMA PushGuidanceGrows ==
  ASSUME NEW c \in Control, NEW g \in Guides
  PROVE  Grew(c, PushGuidance(c, g)) /\ PushGuidance(c, g).streamCancel = c.streamCancel
<1>1. /\ PushGuidance(c, g) \in Control
      /\ PushGuidance(c, g).notices = c.notices
      /\ PushGuidance(c, g).deliveredNotices = c.deliveredNotices
      /\ PushGuidance(c, g).unshown = c.unshown
      /\ PushGuidance(c, g).delivered = c.delivered
      /\ PushGuidance(c, g).streamCancel = c.streamCancel
      /\ c.guidance \subseteq PushGuidance(c, g).guidance
  BY DEF PushGuidance, Control
<1> QED
  BY <1>1, ControlSame

LEMMA StreamCancelSets ==
  ASSUME NEW c \in Control
  PROVE  /\ Grew(c, SetStreamCancel(c)) /\ Grew(c, ClearStreamCancel(c))
         /\ ~ClearStreamCancel(c).streamCancel
         /\ HasPending(SetStreamCancel(c)) = HasPending(c)
         /\ HasPending(ClearStreamCancel(c)) = HasPending(c)
<1>1. ASSUME NEW b \in BOOLEAN, NEW d, d = [c EXCEPT !.streamCancel = b]
      PROVE  Grew(c, d) /\ HasPending(d) = HasPending(c) /\ d.streamCancel = b
  <2>1. /\ d \in Control /\ d.notices = c.notices
        /\ d.deliveredNotices = c.deliveredNotices /\ d.unshown = c.unshown
        /\ d.delivered = c.delivered /\ d.guidance = c.guidance /\ d.streamCancel = b
    BY <1>1 DEF Control
  <2> QED
    BY <2>1, ControlSame DEF HasPending
<1> QED
  BY <1>1 DEF SetStreamCancel, ClearStreamCancel

(* A drain moves a batch from the queue to what the turn remembers; the     *)
(* pipeline keeps what it held, and an empty queue yields an empty batch.   *)
Drained(c, B, d) ==
  /\ B \subseteq Queued(c)
  /\ d \in Control
  /\ d.deliveredNotices = c.deliveredNotices \cup B
  /\ d.unshown = c.unshown \cup B
  /\ d.delivered = c.delivered \cup c.guidance
  /\ d.streamCancel = c.streamCancel
  /\ Pipe(d) = Pipe(c)
  /\ Sound(c) => Sound(d)
  /\ ~HasPending(c) => B = {} /\ c.guidance = {}

LEMMA DrainMoves ==
  ASSUME NEW c \in Control, NEW k \in BatchSizes(c)
  PROVE  \E B \in SUBSET Queued(c) : Drained(c, B, DrainNotices(DrainGuidance(c), k))
<1> DEFINE q == c.notices
           e == DrainGuidance(c)
           d == DrainNotices(e, k)
           B == { q[i] : i \in 1 .. k }
           rest == SubSeq(q, k + 1, Len(q))
<1>1. q \in Seq(Notices) /\ Len(q) \in Nat /\ DOMAIN q = 1 .. Len(q)
  BY DEF Control
<1>2. k \in Nat /\ k <= Len(q) /\ (q = << >> => k = 0)
  BY <1>1 DEF BatchSizes
<1>3. B \subseteq Queued(c)
  BY <1>1, <1>2 DEF Queued
<1>4. /\ rest \in Seq(Notices)
      /\ Len(rest) = Len(q) - k
      /\ \A i \in 1 .. Len(q) - k : rest[i] = q[k + i]
  <2>1. \A i \in k + 1 .. Len(q) : q[i] \in Notices
    BY <1>1, <1>2
  <2>2. /\ rest \in Seq(Notices)
        /\ Len(rest) = IF k + 1 <= Len(q) THEN Len(q) - (k + 1) + 1 ELSE 0
        /\ \A i \in 1 .. Len(q) - (k + 1) + 1 : rest[i] = q[(k + 1) + i - 1]
    BY <1>1, <1>2, <2>1, SubSeqProperties
  <2>3. Len(q) - (k + 1) + 1 = Len(q) - k
    BY <1>1, <1>2
  <2> QED
    BY <1>1, <1>2, <2>2, <2>3
<1>5. c.delivered \subseteq Guides /\ c.guidance \subseteq Guides
      /\ c.deliveredNotices \subseteq Notices /\ c.unshown \subseteq Notices
      /\ B \subseteq Notices
  BY <1>3, QueuedType DEF Control
<1>6. /\ e \in Control /\ e.notices = q /\ e.delivered = c.delivered \cup c.guidance
      /\ e.deliveredNotices = c.deliveredNotices /\ e.unshown = c.unshown
      /\ e.streamCancel = c.streamCancel
  BY DEF DrainGuidance, Control
<1> HIDE DEF e
<1>7. DrainNotices(e, k) = [e EXCEPT !.deliveredNotices = @ \cup B,
                                     !.unshown = @ \cup B, !.notices = rest]
  BY <1>6, Zenon DEF DrainNotices
<1> HIDE DEF rest, B
<1>8. /\ d \in Control
      /\ d.deliveredNotices = c.deliveredNotices \cup B /\ d.unshown = c.unshown \cup B
      /\ d.delivered = c.delivered \cup c.guidance /\ d.streamCancel = c.streamCancel
      /\ d.notices = rest
  BY <1>4, <1>5, <1>6, <1>7 DEF Control
<1> HIDE DEF d
<1>9. DOMAIN rest = 1 .. Len(q) - k
  BY <1>1, <1>2, <1>4
<1>10. Queued(d) = { q[i] : i \in k + 1 .. Len(q) }
  <2>1. ASSUME NEW i \in k + 1 .. Len(q) PROVE i - k \in 1 .. Len(q) - k /\ k + (i - k) = i
    BY <1>1, <1>2
  <2>2. ASSUME NEW i \in 1 .. Len(q) - k PROVE k + i \in k + 1 .. Len(q)
    BY <1>1, <1>2
  <2> QED
    BY <1>4, <1>8, <1>9, <2>1, <2>2 DEF Queued
<1>11. Queued(c) = B \cup Queued(d)
  <2>1. 1 .. Len(q) = 1 .. k \cup k + 1 .. Len(q)
    BY <1>1, <1>2
  <2> QED
    BY <1>1, <1>10, <2>1 DEF Queued, B
<1>12. ASSUME Sound(c) PROVE Sound(d)
  <2>1. ASSUME NEW i \in DOMAIN d.notices, NEW j \in DOMAIN d.notices,
               d.notices[i] = d.notices[j]
        PROVE  i = j
    <3>1. /\ i \in 1 .. Len(q) - k /\ j \in 1 .. Len(q) - k
          /\ k + i \in DOMAIN q /\ k + j \in DOMAIN q
          /\ q[k + i] = q[k + j]
      BY <1>1, <1>2, <1>4, <1>8, <1>9, <2>1
    <3>2. k + i = k + j
      BY <1>12, <3>1 DEF Sound
    <3> QED
      BY <1>2, <3>1, <3>2
  <2>2. B \cap Queued(d) = {}
    <3>1. ASSUME NEW i \in 1 .. k, NEW j \in k + 1 .. Len(q) PROVE q[i] # q[j]
      <4>1. i \in DOMAIN q /\ j \in DOMAIN q /\ i # j
        BY <1>1, <1>2
      <4> QED
        BY <1>12, <4>1 DEF Sound
    <3> QED
      BY <1>10, <3>1 DEF B
  <2>3. Queued(d) \cap d.deliveredNotices = {}
    BY <1>8, <1>11, <1>12, <2>2 DEF Sound
  <2> QED
    BY <1>8, <1>12, <2>1, <2>3 DEF Sound
<1>13. ~HasPending(c) => B = {} /\ c.guidance = {}
  BY <1>2 DEF HasPending, B
<1>14. Drained(c, B, d)
  BY <1>3, <1>8, <1>11, <1>12, <1>13 DEF Drained, Pipe
<1> QED
  BY <1>3, <1>14 DEF d, e

-----------------------------------------------------------------------------
(***************************************************************************)
(* The inductive invariant.                                                *)
(***************************************************************************)
Registered == live # NoTurn => pc[live] # "idle"

Before  == {"idle", "start", "trim", "catchup", "top", "drained", "built"}
Sending == {"taken", "armed", "dispatch"}
After   == {"marking", "streaming", "closing", "final"}

(* What a turn has been told it once drained; what it has not been told is  *)
(* with the control before a request is built, with the step until it is    *)
(* sent, and nowhere afterwards.                                           *)
Telling(t) ==
  /\ Sound(ctl[t])
  /\ told[t] \subseteq ctl[t].deliveredNotices
  /\ pc[t] \in Before => ctl[t].unshown \cap told[t] = {}
  /\ pc[t] \in Sending => /\ ctl[t].unshown = {}
                          /\ fresh[t] \subseteq ctl[t].deliveredNotices \ told[t]
  /\ pc[t] \in After \ {"final"} => ctl[t].unshown = {}

(* A turn's own catch-up pushes before it forgets. *)
Catching(t) ==
  /\ pc[t] = "idle" => ~caught[t] /\ told[t] = {}
  /\ \A e \in cur[t] : e[1] \in todo[t] /\ e[2] \in Texts[e[1]]
  /\ pc[t] # "catchup" => cur[t] = {}
  /\ pc[t] = "catchup" /\ caught[t] => /\ into[t] = t
                                      /\ \A e \in cur[t] : e[2] \in Pipe(ctl[t])

Uncut(t) == pc[t] \in Before \cup {"taken"} => ~cut[t] /\ ~ctl[t].streamCancel

IInv ==
  /\ TypeOK
  /\ Registered
  /\ \A t \in Turns : Telling(t) /\ Catching(t) /\ Uncut(t)
  /\ NoReportSlips

-----------------------------------------------------------------------------
(***************************************************************************)
(* Types.                                                                  *)
(***************************************************************************)
LEMMA WordingIsNotice == \A r \in Reports : Texts[r] \subseteq Notices
BY TextsAssumption

LEMMA GrewSame == ASSUME NEW c \in Control PROVE Grew(c, c)
BY DEF Grew

LEMMA ControlTypes ==
  ASSUME NEW c \in Control
  PROVE  /\ Fresh(c) \in SUBSET Notices
         /\ Digest(c) \in SUBSET Notices
         /\ Taken(c) \in Control
         /\ \A rs \in SUBSET Notices : RestoreNotices(c, rs) \in Control
         /\ \A rs \in SUBSET Notices : ClearStreamCancel(RestoreNotices(c, rs)) \in Control
         /\ SetStreamCancel(c) \in Control /\ ClearStreamCancel(c) \in Control
         /\ \A n \in Notices : PushNotice(c, n) \in Control
         /\ \A g \in Guides : PushGuidance(c, g) \in Control
         /\ \A k \in BatchSizes(c) : DrainNotices(DrainGuidance(c), k) \in Control
<1>1. /\ Fresh(c) \in SUBSET Notices /\ Digest(c) \in SUBSET Notices
      /\ Taken(c) \in Control
      /\ \A rs \in SUBSET Notices : RestoreNotices(c, rs) \in Control
  BY DEF Fresh, Digest, Taken, RestoreNotices, Control
<1>2. SetStreamCancel(c) \in Control
  BY DEF SetStreamCancel, Control
<1>3. \A d \in Control : ClearStreamCancel(d) \in Control
  BY DEF ClearStreamCancel, Control
<1>4. \A n \in Notices : PushNotice(c, n) \in Control
  BY PushNoticeGrows DEF Grew
<1>5. \A g \in Guides : PushGuidance(c, g) \in Control
  BY PushGuidanceGrows DEF Grew
<1>6. \A k \in BatchSizes(c) : DrainNotices(DrainGuidance(c), k) \in Control
  BY DrainMoves DEF Drained
<1> QED
  BY <1>1, <1>2, <1>3, <1>4, <1>5, <1>6

LEMMA TypeInit == Init => TypeOK
<1> SUFFICES ASSUME Init PROVE TypeOK
  OBVIOUS
<1>1. Types
  BY NewIsControl DEF Init, Types, Each, NoGuide, NoHand, Phases, HandPhases, GuidePhases
<1>2. Holders
  BY DEF Init, Holders, Each
<1> QED
  BY <1>1, <1>2 DEF TypeOK

LEMMA UpdatedType ==
  ASSUME ctl \in [Turns -> Control], NEW t \in Turns, NEW c \in Control
  PROVE  Updated(t, c) \in [Turns -> Control]
BY DEF Updated

LEMMA TrackedType ==
  ASSUME tracked \in SUBSET (Turns \X (Reports \X Notices)), NEW t \in Turns, NEW rs \in SUBSET (Reports \X Notices)
  PROVE  Tracked(t, rs) \in SUBSET (Turns \X (Reports \X Notices))
BY DEF Tracked

LEMMA TypeStep ==
  ASSUME TypeOK, Next
  PROVE  TypeOK'
<1> USE ControlTypes DEF TypeOK, loopVars, catchVars, rowVars, handVars, guideVars, seenVars
<1>0. Types /\ Holders
  OBVIOUS
<1>1. ASSUME NEW t \in Turns, Start(t) PROVE TypeOK'
  BY <1>0, <1>1 DEF Start, Types, Holders, Phases
<1>2. ASSUME NEW t \in Turns, CatchUpLookup(t) PROVE TypeOK'
  <2>1. CASE build[t] /\ live # NoTurn
    <3>1. live \in Turns
      BY <1>0, <2>1 DEF Types
    <3>2. /\ pc' = [pc EXCEPT ![t] = "trim"] /\ into' = [into EXCEPT ![t] = live]
          /\ build' = [build EXCEPT ![t] = FALSE]
          /\ UNCHANGED <<live, ctl, ctxDone, cut, fresh, digest, marks, todo, cur, caught,
                         tracked, rowVars, handVars, guideVars, seenVars>>
      BY <1>2, <2>1 DEF CatchUpLookup
    <3>3. pc' \in [Turns -> Phases] /\ into' \in [Turns -> Turns \cup {NoTurn}]
      BY <1>0, <3>1, <3>2 DEF Types, Phases
    <3>4. \A s \in Turns : pc'[s] \in {"trim", "catchup"} => into'[s] \in Turns
      BY <1>0, <3>1, <3>2 DEF Types, Holders
    <3> QED
      BY <1>0, <3>2, <3>3, <3>4 DEF Types, Holders
  <2>2. CASE ~(build[t] /\ live # NoTurn)
    BY <1>0, <1>2, <2>2 DEF CatchUpLookup, Types, Holders, Phases
  <2> QED
    BY <2>1, <2>2
<1>3. ASSUME NEW t \in Turns, CatchUpRead(t) PROVE TypeOK'
  <2>1. /\ UNCHANGED <<live, ctl, build, ctxDone, cut, fresh, digest, marks, cur,
                       ready, reported, handTo, guide, guideTo, told, read, heard,
                       cutOff, dropped>>
        /\ tracked' \in SUBSET (Turns \X (Reports \X Notices))
    BY <1>0, <1>3 DEF CatchUpRead, Types
  <2>2. /\ pc' \in [Turns -> Phases] /\ todo' \in [Turns -> SUBSET Reports]
        /\ into' \in [Turns -> Turns \cup {NoTurn}]
        /\ caught' \in [Turns -> BOOLEAN]
    <3>1. pc' \in [Turns -> Phases]
      <4>1. PICK p \in {"catchup", "top"} : pc' = [pc EXCEPT ![t] = p]
        BY <1>3 DEF CatchUpRead
      <4> QED
        BY <1>0, <4>1 DEF Types, Phases
    <3>2. todo' \in [Turns -> SUBSET Reports]
      <4>1. todo' = [todo EXCEPT ![t] = Owed] \/ todo' = todo
        BY <1>3 DEF CatchUpRead
      <4>2. Owed \in SUBSET Reports
        BY <1>0 DEF Types, Owed
      <4> QED
        BY <1>0, <4>1, <4>2 DEF Types
    <3>3. into' \in [Turns -> Turns \cup {NoTurn}]
      BY <1>0, <1>3 DEF CatchUpRead, Types
    <3>4. caught' \in [Turns -> BOOLEAN]
      <4>1. (into[t] = t) \in BOOLEAN
        OBVIOUS
      <4> DEFINE b == into[t] = t
      <4>2. caught' = [caught EXCEPT ![t] = b] \/ caught' = caught
        BY <1>3 DEF CatchUpRead
      <4>3. b \in BOOLEAN
        BY <4>1
      <4> HIDE DEF b
      <4> QED
        BY <1>0, <4>2, <4>3 DEF Types
    <3> QED
      BY <3>1, <3>2, <3>3, <3>4
  <2>3. /\ hand' \in [Reports -> HandPhases]
        /\ \A r \in Reports : hand'[r] \in {"push", "track"} => hand[r] \in {"push", "track"}
    BY <1>0, <1>3 DEF CatchUpRead, Types, HandPhases
  <2>4. \A s \in Turns : pc'[s] \in {"trim", "catchup"} => into'[s] \in Turns
    BY <1>0, <1>3 DEF CatchUpRead, Types, Holders
  <2> QED
    BY <1>0, <2>1, <2>2, <2>3, <2>4 DEF Types, Holders
<1>4. ASSUME NEW t \in Turns, CatchUpPush(t) PROVE TypeOK'
  <2>1. PICK r \in todo[t], n \in Notices :
               /\ n \in Texts[r]
               /\ ctl' = Updated(into[t], PushNotice(ctl[into[t]], n))
               /\ cur' = [cur EXCEPT ![t] = {<<r, n>>}]
    BY <1>0, <1>4, WordingIsNotice DEF CatchUpPush, Types
  <2>2. into[t] \in Turns /\ ctl[into[t]] \in Control /\ r \in Reports
    BY <1>0, <1>4 DEF CatchUpPush, Types, Holders
  <2>3. ctl' \in [Turns -> Control]
    BY <1>0, <2>1, <2>2, UpdatedType DEF Types
  <2> QED
    BY <1>0, <1>4, <2>1, <2>2, <2>3 DEF CatchUpPush, Types, Holders
<1>5. ASSUME NEW t \in Turns, CatchUpTrack(t) PROVE TypeOK'
  <2>1. into[t] \in Turns /\ cur[t] \in SUBSET (Reports \X Notices)
    BY <1>0, <1>5 DEF CatchUpTrack, Types, Holders
  <2>2. tracked' \in SUBSET (Turns \X (Reports \X Notices))
    BY <1>0, <1>5, <2>1, TrackedType DEF CatchUpTrack, Types
  <2> QED
    BY <1>0, <1>5, <2>2 DEF CatchUpTrack, Types, Holders
<1>6. ASSUME NEW t \in Turns, CatchUpDone(t) PROVE TypeOK'
  BY <1>0, <1>6 DEF CatchUpDone, Types, Holders, Phases
<1>7. ASSUME NEW t \in Turns, Fail(t) PROVE TypeOK'
  BY <1>0, <1>7 DEF Fail, Goto, Types, Holders, Phases
<1>8. ASSUME NEW t \in Turns, Drain(t) \/ Redrain(t) PROVE TypeOK'
  <2>1. PICK k \in BatchSizes(ctl[t]) :
          ctl' = [ctl EXCEPT ![t] = DrainNotices(DrainGuidance(@), k)]
    BY <1>8 DEF Drain, Redrain
  <2>2. ctl[t] \in Control /\ ctl' \in [Turns -> Control]
    BY <1>0, <2>1 DEF Types
  <2>3. PICK p \in {"built", "drained", "final"} : pc' = [pc EXCEPT ![t] = p]
    BY <1>8 DEF Drain, Redrain, Goto
  <2> QED
    BY <1>0, <1>8, <2>2, <2>3 DEF Drain, Redrain, Types, Holders, Phases
<1>9. ASSUME NEW t \in Turns, Proceed(t) \/ StreamStop(t) PROVE TypeOK'
  BY <1>0, <1>9 DEF Proceed, StreamStop, Goto, Types, Holders, Phases
<1>10. ASSUME NEW t \in Turns, Take(t) PROVE TypeOK'
  BY <1>0, <1>10 DEF Take, Goto, Types, Holders, Phases
<1>11. ASSUME NEW t \in Turns, Arm(t) PROVE TypeOK'
  BY <1>0, <1>11 DEF Arm, Goto, Types, Holders, Phases
<1>12. ASSUME NEW t \in Turns, GapCheck(t) PROVE TypeOK'
  <2>1. CASE HasPending(ctl[t])
    <3> DEFINE c == ClearStreamCancel(RestoreNotices(ctl[t], fresh[t]))
    <3>1. c \in Control
      BY <1>0 DEF Types
    <3>2. ctl' = [ctl EXCEPT ![t] = c]
      BY <1>12, <2>1 DEF GapCheck
    <3> HIDE DEF c
    <3>3. ctl' \in [Turns -> Control]
      BY <1>0, <3>1, <3>2 DEF Types
    <3>4. /\ pc' = [pc EXCEPT ![t] = "top"] /\ cut' = [cut EXCEPT ![t] = FALSE]
          /\ fresh' = [fresh EXCEPT ![t] = {}] /\ digest' = [digest EXCEPT ![t] = {}]
      BY <1>12, <2>1 DEF GapCheck, Goto
    <3> QED
      BY <1>0, <1>12, <3>3, <3>4 DEF GapCheck, Types, Holders, Phases
  <2>2. CASE ~HasPending(ctl[t])
    BY <1>0, <1>12, <2>2 DEF GapCheck, Goto, Types, Holders, Phases
  <2> QED
    BY <2>1, <2>2
<1>13. ASSUME NEW t \in Turns, Connect(t) PROVE TypeOK'
  BY <1>0, <1>13 DEF Connect, Carried, Goto, Types, Holders, Phases, Control
<1>14. ASSUME NEW t \in Turns, Mark(t) PROVE TypeOK'
  BY <1>0, <1>14 DEF Mark, Goto, Types, Holders, Phases
<1>15. ASSUME NEW t \in Turns, CutDispatch(t) PROVE TypeOK'
  BY <1>0, <1>15 DEF CutDispatch, Goto, Types, Holders, Phases
<1>16. ASSUME NEW t \in Turns, StreamNext(t) \/ Close(t) PROVE TypeOK'
  <2>1. PICK p \in {"top", "final"} : pc' = [pc EXCEPT ![t] = p]
    BY <1>16 DEF StreamNext, Close, Goto
  <2>2. ctl' = [ctl EXCEPT ![t] = ClearStreamCancel(@)] /\ cut' = [cut EXCEPT ![t] = FALSE]
    BY <1>16 DEF StreamNext, Close
  <2>3. ctl' \in [Turns -> Control]
    <3>1. ctl[t] \in Control /\ ClearStreamCancel(ctl[t]) \in Control
      BY <1>0 DEF Types
    <3> QED
      BY <1>0, <2>2, <3>1 DEF Types
  <2> QED
    BY <1>0, <1>16, <2>1, <2>2, <2>3 DEF StreamNext, Close, Types, Holders, Phases
<1>17. ASSUME NEW t \in Turns, Leave(t) PROVE TypeOK'
  BY <1>0, <1>17, NewIsControl DEF Leave, Types, Holders, Phases
<1>18. ASSUME NEW r \in Reports, Complete(r) \/ Lookup(r) PROVE TypeOK'
  <2>1. CASE Complete(r)
    BY <1>0, <2>1 DEF Complete, Types, Holders, HandPhases
  <2>2. CASE Lookup(r)
    <3>1. ASSUME live # NoTurn, hand' = [hand EXCEPT ![r] = "push"],
                 NEW n \in Texts[r], handTo' = [handTo EXCEPT ![r] = <<live, n>>]
          PROVE  TypeOK'
      <4>1. live \in Turns /\ n \in Notices
        BY <1>0, <3>1, WordingIsNotice DEF Types
      <4>2. /\ hand' \in [Reports -> HandPhases]
            /\ handTo' \in [Reports -> (Turns \cup {NoTurn}) \X (Notices \cup {"none"})]
        BY <1>0, <3>1, <4>1 DEF Types, HandPhases
      <4>3. \A q \in Reports : hand'[q] \in {"push", "track"} =>
              handTo'[q][1] \in Turns /\ handTo'[q][2] \in Texts[q]
        BY <1>0, <3>1, <4>1 DEF Types, Holders
      <4> QED
        BY <1>0, <2>2, <4>2, <4>3 DEF Lookup, Types, Holders
    <3>2. CASE \E p \in {"idle", "gaveup"} : hand' = [hand EXCEPT ![r] = p]
                                            /\ UNCHANGED handTo
      BY <1>0, <2>2, <3>2 DEF Lookup, Types, Holders, HandPhases
    <3> QED
      BY <2>2, <3>1, <3>2 DEF Lookup
  <2> QED
    BY <1>18, <2>1, <2>2
<1>19. ASSUME NEW r \in Reports, Push(r) PROVE TypeOK'
  <2>1. handTo[r][1] \in Turns /\ ctl[handTo[r][1]] \in Control /\ handTo[r][2] \in Notices
    BY <1>0, <1>19, WordingIsNotice DEF Push, Types, Holders
  <2>2. ctl' \in [Turns -> Control]
    BY <1>0, <1>19, <2>1, UpdatedType DEF Push, Types
  <2>3. Holders'
    BY <1>0, <1>19 DEF Push, Types, Holders
  <2>4. hand' \in [Reports -> HandPhases]
    BY <1>0, <1>19 DEF Push, Types, HandPhases
  <2>5. UNCHANGED <<live, pc, build, ctxDone, cut, fresh, digest, marks, catchVars,
                    tracked, rowVars, handTo, guideVars, seenVars>>
    BY <1>19 DEF Push
  <2>6. Types'
    BY <1>0, <2>2, <2>4, <2>5, Zenon DEF Types
  <2> QED
    BY <2>3, <2>6
<1>20. ASSUME NEW r \in Reports, Track(r) PROVE TypeOK'
  <2>0. handTo[r][1] \in Turns /\ handTo[r][2] \in Notices
    BY <1>0, <1>20, WordingIsNotice DEF Track, Holders
  <2>1. handTo[r][1] \in Turns /\ {<<r, handTo[r][2]>>} \in SUBSET (Reports \X Notices)
    BY <2>0
  <2>2. tracked' \in SUBSET (Turns \X (Reports \X Notices))
    BY <1>0, <1>20, <2>1, TrackedType DEF Track, Types
  <2> QED
    BY <1>0, <1>20, <2>2 DEF Track, NoHand, Types, Holders, HandPhases
<1>21. ASSUME NEW g \in Guides, GuidanceLookup(g) PROVE TypeOK'
  <2>1. CASE live = NoTurn
    BY <1>0, <1>21, <2>1 DEF GuidanceLookup, Types, Holders, GuidePhases
  <2>2. CASE live # NoTurn
    <3>1. PICK k \in GuidanceKinds : guideTo' = [guideTo EXCEPT ![g] = <<live, k>>]
      BY <1>21, <2>2 DEF GuidanceLookup
    <3>2. live \in Turns /\ k \in Kinds
      BY <1>0, <2>2 DEF Types
    <3> QED
      BY <1>0, <1>21, <2>2, <3>1, <3>2 DEF GuidanceLookup, Types, Holders, GuidePhases
  <2> QED
    BY <2>1, <2>2
<1>22. ASSUME NEW g \in Guides, GuidancePush(g) PROVE TypeOK'
  <2>1. guideTo[g][1] \in Turns /\ ctl[guideTo[g][1]] \in Control
    BY <1>0, <1>22 DEF GuidancePush, Types, Holders
  <2>2. ctl' \in [Turns -> Control]
    BY <1>0, <1>22, <2>1, UpdatedType DEF GuidancePush, Types
  <2> QED
    BY <1>0, <1>22, <2>2 DEF GuidancePush, Types, Holders, GuidePhases
<1>23. ASSUME NEW g \in Guides, GuidanceCancel(g) PROVE TypeOK'
  <2>1. guideTo[g][1] \in Turns /\ ctl[guideTo[g][1]] \in Control
    BY <1>0, <1>23 DEF GuidanceCancel, Types, Holders
  <2>2. ctl[guideTo[g][1]].streamCancel \in BOOLEAN
    BY <2>1 DEF Control
  <2>3. cut' \in [Turns -> BOOLEAN]
    <3>1. (cut[guideTo[g][1]] \/ ctl[guideTo[g][1]].streamCancel) \in BOOLEAN
      OBVIOUS
    <3> QED
      BY <1>0, <1>23, <2>1, <3>1 DEF GuidanceCancel, Types
  <2>4. ctl' \in [Turns -> Control]
    BY <1>0, <1>23, <2>1 DEF GuidanceCancel, Types
  <2>5. /\ guide' \in [Guides -> GuidePhases] /\ guide'[g] = "done"
        /\ \A h \in Guides : h # g => guide'[h] = guide[h]
    BY <1>0, <1>23 DEF GuidanceCancel, Types, GuidePhases
  <2>6. /\ guideTo' \in [Guides -> (Turns \cup {NoTurn}) \X (Kinds \cup {"none"})]
        /\ \A h \in Guides : h # g => guideTo'[h] = guideTo[h]
    BY <1>0, <1>23 DEF GuidanceCancel, Types, NoGuide
  <2>7. \A h \in Guides : guide'[h] \in {"found", "pushed"} => guideTo'[h][1] \in Turns
    BY <1>0, <2>5, <2>6 DEF Holders
  <2>8. UNCHANGED <<live, pc, build, ctxDone, fresh, digest, marks, catchVars,
                    tracked, rowVars, handVars, seenVars>>
    BY <1>23 DEF GuidanceCancel
  <2> QED
    BY <1>0, <2>3, <2>4, <2>5, <2>6, <2>7, <2>8 DEF Types, Holders
<1>24. CASE Abort
  BY <1>0, <1>24 DEF Abort, Types, Holders
<1>25. CASE Crash
  BY <1>0, <1>25, NewIsControl DEF Crash, Types, Holders, Each, NoGuide, NoHand, Phases, HandPhases, GuidePhases
<1> QED
  BY <1>1, <1>2, <1>3, <1>4, <1>5, <1>6, <1>7, <1>8, <1>9, <1>10, <1>11, <1>12,
     <1>13, <1>14, <1>15, <1>16, <1>17, <1>18, <1>19, <1>20, <1>21, <1>22, <1>23,
     <1>24, <1>25
  DEF Next, Prologue, Step, Reporter, Guidance

LEMMA TypeStutter == TypeOK /\ UNCHANGED vars => TypeOK'
BY DEF TypeOK, Types, Holders, vars, loopVars, catchVars, rowVars, handVars,
       guideVars, seenVars

(***************************************************************************)
(* Every variable keeps its type, and nobody holds a control of no turn,   *)
(* for any number of turns, reports and guidance requests.                 *)
(***************************************************************************)
THEOREM Typed == Spec => []TypeOK
BY TypeInit, TypeStep, TypeStutter, PTL DEF Spec

-----------------------------------------------------------------------------
(***************************************************************************)
(* What a turn sees of the steps of others.                                *)
(***************************************************************************)
Kept(s) ==
  /\ pc'[s] = pc[s] /\ fresh'[s] = fresh[s] /\ digest'[s] = digest[s]
  /\ marks'[s] = marks[s] /\ told'[s] = told[s] /\ caught'[s] = caught[s]
  /\ into'[s] = into[s] /\ todo'[s] = todo[s] /\ cur'[s] = cur[s]
  /\ heard'[s] = heard[s] /\ cutOff'[s] = cutOff[s] /\ dropped'[s] = dropped[s]
  /\ Grew(ctl[s], ctl'[s])

LEMMA UpdatedGrows ==
  ASSUME Types, NEW t \in Turns, NEW c, Grew(ctl[t], c), ctl' = Updated(t, c),
         NEW s \in Turns
  PROVE  /\ Grew(ctl[s], ctl'[s])
         /\ s = t /\ pc[t] # "idle" => ctl'[s] = c
<1>1. ctl[s] \in Control
  BY DEF Types
<1>2. CASE pc[t] = "idle"
  BY <1>1, <1>2, GrewSame DEF Updated
<1>3. CASE pc[t] # "idle"
  BY <1>1, <1>3, GrewSame DEF Updated, Types
<1> QED
  BY <1>2, <1>3

\* The steps of a turn's own loop, but for its catch-up's push.
OwnStep(t) ==
  \/ Start(t) \/ CatchUpLookup(t) \/ CatchUpRead(t) \/ CatchUpTrack(t)
  \/ CatchUpDone(t) \/ Step(t) \/ Fail(t) \/ Leave(t)

LEMMA OthersKept ==
  ASSUME TypeOK, NEW t \in Turns, OwnStep(t), NEW s \in Turns, s # t
  PROVE  Kept(s)
<1> USE DEF loopVars, catchVars, rowVars, handVars, guideVars, seenVars, TypeOK, Types
<1>0. ctl[s] \in Control
  OBVIOUS
<1>1. Start(t) => Kept(s)
  BY <1>0, GrewSame DEF Start, Kept
<1>2. CatchUpLookup(t) => Kept(s)
  BY <1>0, GrewSame DEF CatchUpLookup, Kept
<1>3. CatchUpRead(t) => Kept(s)
  BY <1>0, GrewSame DEF CatchUpRead, Kept
<1>4. CatchUpTrack(t) => Kept(s)
  BY <1>0, GrewSame DEF CatchUpTrack, Kept
<1>5. CatchUpDone(t) => Kept(s)
  BY <1>0, GrewSame DEF CatchUpDone, Kept
<1>6. Fail(t) => Kept(s)
  BY <1>0, GrewSame DEF Fail, Goto, Kept
<1>7. Leave(t) => Kept(s)
  BY <1>0, GrewSame DEF Leave, Kept
<1>8. Drain(t) \/ Redrain(t) => Kept(s)
  <2> SUFFICES ASSUME Drain(t) \/ Redrain(t) PROVE Kept(s)
    OBVIOUS
  <2>1. ctl'[s] = ctl[s]
    BY DEF Drain, Redrain
  <2>2. pc'[s] = pc[s]
    BY DEF Drain, Redrain, Goto
  <2> QED
    BY <1>0, <2>1, <2>2, GrewSame DEF Drain, Redrain, Kept
<1>9. Proceed(t) \/ StreamStop(t) => Kept(s)
  BY <1>0, GrewSame DEF Proceed, StreamStop, Goto, Kept
<1>10. Take(t) => Kept(s)
  BY <1>0, GrewSame DEF Take, Goto, Kept
<1>11. Arm(t) => Kept(s)
  BY <1>0, GrewSame DEF Arm, Goto, Kept
<1>12. GapCheck(t) => Kept(s)
  BY <1>0, GrewSame DEF GapCheck, Goto, Kept
<1>13. Connect(t) => Kept(s)
  BY <1>0, GrewSame DEF Connect, Goto, Kept
<1>14. Mark(t) => Kept(s)
  BY <1>0, GrewSame DEF Mark, Goto, Kept
<1>15. CutDispatch(t) => Kept(s)
  BY <1>0, GrewSame DEF CutDispatch, Goto, Kept
<1>16. StreamNext(t) => Kept(s)
  BY <1>0, GrewSame DEF StreamNext, Goto, Kept
<1>17. Close(t) => Kept(s)
  BY <1>0, GrewSame DEF Close, Goto, Kept
<1> QED
  BY <1>1, <1>2, <1>3, <1>4, <1>5, <1>6, <1>7, <1>8, <1>9, <1>10, <1>11, <1>12,
     <1>13, <1>14, <1>15, <1>16, <1>17 DEF OwnStep, Step

\* The steps of everybody else, the process excepted.
OutsideStep ==
  \/ \E r \in Reports : Reporter(r)
  \/ \E g \in Guides : Guidance(g)
  \/ Abort
  \/ UNCHANGED vars

LEMMA OutsideKept ==
  ASSUME TypeOK, OutsideStep, NEW s \in Turns
  PROVE  Kept(s)
<1> USE DEF loopVars, catchVars, rowVars, handVars, guideVars, seenVars
<1>0. ctl[s] \in Control /\ Types /\ Holders
  BY DEF TypeOK, Types
<1>1. ASSUME NEW r \in Reports, Complete(r) \/ Lookup(r) \/ Track(r) PROVE Kept(s)
  <2>1. UNCHANGED <<pc, ctl, fresh, digest, marks, told, caught, into, todo, cur, heard,
                  cutOff, dropped>>
    BY <1>1 DEF Complete, Lookup, Track
  <2> QED
    BY <1>0, <2>1, GrewSame DEF Kept
<1>2. ASSUME NEW r \in Reports, Push(r) PROVE Kept(s)
  <2>1. handTo[r][1] \in Turns /\ ctl[handTo[r][1]] \in Control /\ handTo[r][2] \in Notices
    BY <1>0, <1>2, WordingIsNotice DEF Push, Holders, Types
  <2>2. Grew(ctl[s], ctl'[s])
    BY <1>0, <1>2, <2>1, PushNoticeGrows, UpdatedGrows DEF Push
  <2> QED
    BY <1>2, <2>2 DEF Push, Kept
<1>3. ASSUME NEW g \in Guides, GuidanceLookup(g) PROVE Kept(s)
  <2>1. UNCHANGED <<pc, ctl, fresh, digest, marks, told, caught, into, todo, cur, heard,
                  cutOff, dropped>>
    BY <1>3 DEF GuidanceLookup
  <2> QED
    BY <1>0, <2>1, GrewSame DEF Kept
<1>4. ASSUME NEW g \in Guides, GuidancePush(g) PROVE Kept(s)
  <2>1. guideTo[g][1] \in Turns /\ ctl[guideTo[g][1]] \in Control
    BY <1>0, <1>4 DEF GuidancePush, Holders, Types
  <2>2. \/ ctl' = ctl
        \/ ctl' = Updated(guideTo[g][1], PushGuidance(ctl[guideTo[g][1]], g))
    BY <1>4 DEF GuidancePush
  <2>3. Grew(ctl[s], ctl'[s])
    BY <1>0, <2>1, <2>2, GrewSame, PushGuidanceGrows, UpdatedGrows
  <2> QED
    BY <1>4, <2>3 DEF GuidancePush, Kept
<1>5. ASSUME NEW g \in Guides, GuidanceCancel(g) PROVE Kept(s)
  <2> DEFINE t == guideTo[g][1]
  <2>1. t \in Turns /\ ctl[t] \in Control
    BY <1>0, <1>5 DEF GuidanceCancel, Holders, Types
  <2>2. ctl' = [ctl EXCEPT ![t] = ClearStreamCancel(ctl[t])]
    BY <1>5 DEF GuidanceCancel
  <2> HIDE DEF t
  <2>3. Grew(ctl[s], ctl'[s])
    <3>1. ctl'[s] = IF s = t THEN ClearStreamCancel(ctl[t]) ELSE ctl[s]
      BY <1>0, <2>1, <2>2 DEF Types
    <3> QED
      BY <1>0, <2>1, <3>1, GrewSame, StreamCancelSets
  <2> QED
    BY <1>5, <2>3 DEF GuidanceCancel, Kept
<1>6. CASE Abort
  BY <1>0, <1>6, GrewSame DEF Abort, Kept
<1>7. CASE UNCHANGED vars
  BY <1>0, <1>7, GrewSame DEF vars, Kept
<1> QED
  BY <1>1, <1>2, <1>3, <1>4, <1>5, <1>6, <1>7 DEF OutsideStep, Reporter, Guidance

\* A catch-up pushes into the control it found, which may be another turn's.
LEMMA CatchUpPushKeeps ==
  ASSUME TypeOK, NEW t \in Turns, CatchUpPush(t), NEW s \in Turns
  PROVE  /\ pc'[s] = pc[s] /\ fresh'[s] = fresh[s] /\ digest'[s] = digest[s]
         /\ marks'[s] = marks[s] /\ told'[s] = told[s] /\ caught'[s] = caught[s]
         /\ into'[s] = into[s] /\ todo'[s] = todo[s]
         /\ heard'[s] = heard[s] /\ cutOff'[s] = cutOff[s] /\ dropped'[s] = dropped[s]
         /\ s # t => cur'[s] = cur[s]
         /\ Grew(ctl[s], ctl'[s])
         /\ \E r \in todo[t], n \in Notices :
               n \in Texts[r] /\ cur'[t] = {<<r, n>>} /\ (into[t] = t => n \in Pipe(ctl'[t]))
<1> USE DEF loopVars, catchVars, rowVars, handVars, guideVars, seenVars
<1>0. Types /\ Holders
  BY DEF TypeOK
<1>1. PICK r \in todo[t], n \in Notices :
             /\ n \in Texts[r]
             /\ ctl' = Updated(into[t], PushNotice(ctl[into[t]], n))
             /\ cur' = [cur EXCEPT ![t] = {<<r, n>>}]
  BY <1>0, WordingIsNotice DEF CatchUpPush, Types
<1>2. pc[t] = "catchup" /\ into[t] \in Turns /\ ctl[into[t]] \in Control
  BY <1>0 DEF CatchUpPush, Types, Holders
<1>3. Grew(ctl[s], ctl'[s])
  BY <1>0, <1>1, <1>2, PushNoticeGrows, UpdatedGrows
<1>4. into[t] = t => n \in Pipe(ctl'[t])
  BY <1>0, <1>1, <1>2, PushNoticeGrows, UpdatedGrows
<1>5. cur'[t] = {<<r, n>>} /\ (s # t => cur'[s] = cur[s])
  BY <1>0, <1>1 DEF Types
<1> QED
  BY <1>1, <1>3, <1>4, <1>5 DEF CatchUpPush

LEMMA NextCases ==
  ASSUME [Next]_vars
  PROVE  \/ \E t \in Turns : OwnStep(t)
         \/ \E t \in Turns : CatchUpPush(t)
         \/ OutsideStep
         \/ Crash
BY DEF Next, Prologue, OwnStep, OutsideStep

-----------------------------------------------------------------------------
(***************************************************************************)
(* What a turn sees of its own steps.                                      *)
(***************************************************************************)
Sees(t, p, c, f, d, o) ==
  pc'[t] = p /\ ctl'[t] = c /\ fresh'[t] = f /\ digest'[t] = d /\ told'[t] = o

LEMMA TakenForm ==
  ASSUME NEW c \in Control
  PROVE  /\ Fresh(c) = c.unshown
         /\ Digest(c) = c.deliveredNotices \ c.unshown
         /\ Taken(c).unshown = {}
         /\ Taken(c).deliveredNotices = c.deliveredNotices
         /\ Taken(c).delivered = c.delivered
         /\ Taken(c).streamCancel = c.streamCancel
         /\ Pipe(Taken(c)) = Pipe(c)
         /\ Sound(c) => Sound(Taken(c))
<1>1. /\ Taken(c).unshown = {} /\ Taken(c).notices = c.notices
      /\ Taken(c).deliveredNotices = c.deliveredNotices
      /\ Taken(c).delivered = c.delivered /\ Taken(c).streamCancel = c.streamCancel
  BY DEF Taken, Control
<1>2. Queued(Taken(c)) = Queued(c)
  BY <1>1 DEF Queued
<1> QED
  BY <1>1, <1>2 DEF Fresh, Digest, Pipe, Sound

LEMMA RestoredForm ==
  ASSUME NEW c \in Control, NEW f \in SUBSET Notices, NEW d,
         d = ClearStreamCancel(RestoreNotices(c, f))
  PROVE  /\ d.unshown = c.unshown \cup f
         /\ d.deliveredNotices = c.deliveredNotices
         /\ d.delivered = c.delivered
         /\ ~d.streamCancel
         /\ HasPending(d) = HasPending(c)
         /\ Pipe(d) = Pipe(c)
         /\ Sound(c) /\ f \subseteq c.deliveredNotices => Sound(d)
<1>1. /\ d.unshown = c.unshown \cup f /\ d.notices = c.notices
      /\ d.deliveredNotices = c.deliveredNotices /\ d.delivered = c.delivered
      /\ d.guidance = c.guidance /\ ~d.streamCancel
  BY DEF ClearStreamCancel, RestoreNotices, Control
<1>2. Queued(d) = Queued(c)
  BY <1>1 DEF Queued
<1> QED
  BY <1>1, <1>2 DEF HasPending, Pipe, Sound

LEMMA OwnSees ==
  ASSUME TypeOK, NEW t \in Turns
  PROVE
    LET Same(p) == Sees(t, p, ctl[t], fresh[t], digest[t], told[t])
        To(p, c) == Sees(t, p, c, fresh[t], digest[t], told[t])
        Drains == \E B \in SUBSET Queued(ctl[t]) : Drained(ctl[t], B, ctl'[t])
    IN  /\ Start(t) => pc[t] = "idle" /\ Same("start")
        /\ CatchUpLookup(t) => pc[t] = "start" /\ (Same("trim") \/ Same("top"))
        /\ CatchUpRead(t) => pc[t] = "trim" /\ (Same("catchup") \/ Same("top"))
        /\ CatchUpTrack(t) => pc[t] = "catchup" /\ Same("catchup")
        /\ CatchUpDone(t) => pc[t] = "catchup" /\ Same("top")
        /\ Fail(t) => Sees(t, "failed", ctl[t], {}, {}, told[t])
        /\ Leave(t) => /\ pc[t] \in {"final", "failed"}
                       /\ Sees(t, "idle", NewLoopControl, fresh[t], digest[t], {})
        /\ Drain(t) => /\ pc[t] = "top" /\ Drains
                       /\ To(IF HasPending(ctl[t]) THEN "built" ELSE "drained", ctl'[t])
        /\ Redrain(t) => /\ pc[t] = "drained" /\ Drains
                         /\ To(IF HasPending(ctl[t]) THEN "built" ELSE "final", ctl'[t])
        /\ Proceed(t) => pc[t] = "drained" /\ Same("built")
        /\ Take(t) => /\ pc[t] = "built"
                      /\ Sees(t, "taken", Taken(ctl[t]), Fresh(ctl[t]), Digest(ctl[t]), told[t])
        /\ Arm(t) => pc[t] = "taken" /\ To("armed", SetStreamCancel(ctl[t]))
        /\ GapCheck(t) =>
              /\ pc[t] = "armed"
              /\ \/ /\ HasPending(ctl[t])
                    /\ Sees(t, "top", ClearStreamCancel(RestoreNotices(ctl[t], fresh[t])),
                            {}, {}, told[t])
                 \/ ~HasPending(ctl[t]) /\ Same("dispatch")
        /\ Connect(t) =>
              /\ pc[t] = "dispatch"
              /\ Sees(t, "marking", ctl[t], fresh[t], digest[t], told[t] \cup fresh[t])
        /\ Mark(t) => pc[t] = "marking" /\ Sees(t, "streaming", ctl[t], {}, {}, told[t])
        /\ CutDispatch(t) =>
              pc[t] = "dispatch" /\ cut[t] /\ Sees(t, "closing", ctl[t], {}, {}, told[t])
        /\ StreamNext(t) => pc[t] = "streaming" /\ To("top", ClearStreamCancel(ctl[t]))
        /\ StreamStop(t) => pc[t] = "streaming" /\ Same("closing")
        /\ Close(t) => /\ pc[t] = "closing"
                       /\ To(IF HasPending(ctl[t]) THEN "top" ELSE "final",
                             ClearStreamCancel(ctl[t]))
<1> USE DEF loopVars, catchVars, rowVars, handVars, guideVars, seenVars, Goto
<1>0. /\ pc \in [Turns -> Phases] /\ ctl \in [Turns -> Control]
      /\ fresh \in [Turns -> SUBSET Notices] /\ digest \in [Turns -> SUBSET Notices]
      /\ told \in [Turns -> SUBSET Notices]
  BY DEF TypeOK, Types
<1> DEFINE Same(p) == Sees(t, p, ctl[t], fresh[t], digest[t], told[t])
           Drains == \E B \in SUBSET Queued(ctl[t]) : Drained(ctl[t], B, ctl'[t])
<1>1. Start(t) => pc[t] = "idle" /\ Same("start")
  BY <1>0 DEF Start, Sees
<1>2. CatchUpLookup(t) => pc[t] = "start" /\ (Same("trim") \/ Same("top"))
  BY <1>0 DEF CatchUpLookup, Sees
<1>3. CatchUpRead(t) => pc[t] = "trim" /\ (Same("catchup") \/ Same("top"))
  BY <1>0 DEF CatchUpRead, Sees
<1>4. CatchUpTrack(t) => pc[t] = "catchup" /\ Same("catchup")
  BY <1>0 DEF CatchUpTrack, Sees
<1>5. CatchUpDone(t) => pc[t] = "catchup" /\ Same("top")
  BY <1>0 DEF CatchUpDone, Sees
<1>6. Fail(t) => Sees(t, "failed", ctl[t], {}, {}, told[t])
  BY <1>0 DEF Fail, Sees
<1>7. Leave(t) => /\ pc[t] \in {"final", "failed"}
                  /\ Sees(t, "idle", NewLoopControl, fresh[t], digest[t], {})
  BY <1>0 DEF Leave, Sees
<1>8. ASSUME NEW k \in BatchSizes(ctl[t]),
             ctl' = [ctl EXCEPT ![t] = DrainNotices(DrainGuidance(@), k)]
      PROVE  Drains
  <2>1. ctl[t] \in Control
    BY <1>0
  <2>2. ctl'[t] = DrainNotices(DrainGuidance(ctl[t]), k)
    BY <1>0, <1>8
  <2>3. PICK B \in SUBSET Queued(ctl[t]) :
          Drained(ctl[t], B, DrainNotices(DrainGuidance(ctl[t]), k))
    BY <2>1, DrainMoves
  <2> QED
    BY <2>2, <2>3
<1>9. Drain(t) => /\ pc[t] = "top" /\ Drains
                  /\ Sees(t, IF HasPending(ctl[t]) THEN "built" ELSE "drained", ctl'[t],
                          fresh[t], digest[t], told[t])
  <2> SUFFICES ASSUME Drain(t) PROVE /\ pc[t] = "top" /\ Drains
                  /\ Sees(t, IF HasPending(ctl[t]) THEN "built" ELSE "drained", ctl'[t],
                          fresh[t], digest[t], told[t])
    OBVIOUS
  <2>1. Drains
    BY <1>8 DEF Drain
  <2>2. pc'[t] = IF HasPending(ctl[t]) THEN "built" ELSE "drained"
    BY <1>0 DEF Drain
  <2> QED
    BY <2>1, <2>2 DEF Drain, Sees
<1>10. Redrain(t) => /\ pc[t] = "drained" /\ Drains
                     /\ Sees(t, IF HasPending(ctl[t]) THEN "built" ELSE "final", ctl'[t],
                             fresh[t], digest[t], told[t])
  <2> SUFFICES ASSUME Redrain(t) PROVE /\ pc[t] = "drained" /\ Drains
                     /\ Sees(t, IF HasPending(ctl[t]) THEN "built" ELSE "final", ctl'[t],
                             fresh[t], digest[t], told[t])
    OBVIOUS
  <2>1. Drains
    BY <1>8 DEF Redrain
  <2>2. pc'[t] = IF HasPending(ctl[t]) THEN "built" ELSE "final"
    BY <1>0 DEF Redrain
  <2> QED
    BY <2>1, <2>2 DEF Redrain, Sees
<1>11. Proceed(t) => pc[t] = "drained" /\ Same("built")
  BY <1>0 DEF Proceed, Sees
<1>12. Take(t) => /\ pc[t] = "built"
                  /\ Sees(t, "taken", Taken(ctl[t]), Fresh(ctl[t]), Digest(ctl[t]), told[t])
  BY <1>0 DEF Take, Sees
<1>13. Arm(t) => /\ pc[t] = "taken"
                 /\ Sees(t, "armed", SetStreamCancel(ctl[t]), fresh[t], digest[t], told[t])
  BY <1>0 DEF Arm, Sees
<1>14. GapCheck(t) =>
         /\ pc[t] = "armed"
         /\ \/ /\ HasPending(ctl[t])
               /\ Sees(t, "top", ClearStreamCancel(RestoreNotices(ctl[t], fresh[t])),
                       {}, {}, told[t])
            \/ ~HasPending(ctl[t]) /\ Same("dispatch")
  BY <1>0 DEF GapCheck, Sees
<1>15. Connect(t) =>
         /\ pc[t] = "dispatch"
         /\ Sees(t, "marking", ctl[t], fresh[t], digest[t], told[t] \cup fresh[t])
  BY <1>0 DEF Connect, Sees
<1>16. Mark(t) => pc[t] = "marking" /\ Sees(t, "streaming", ctl[t], {}, {}, told[t])
  BY <1>0 DEF Mark, Sees
<1>17. CutDispatch(t) =>
         pc[t] = "dispatch" /\ cut[t] /\ Sees(t, "closing", ctl[t], {}, {}, told[t])
  BY <1>0 DEF CutDispatch, Sees
<1>18. StreamNext(t) => /\ pc[t] = "streaming"
                        /\ Sees(t, "top", ClearStreamCancel(ctl[t]), fresh[t], digest[t], told[t])
  BY <1>0 DEF StreamNext, Sees
<1>19. StreamStop(t) => pc[t] = "streaming" /\ Same("closing")
  BY <1>0 DEF StreamStop, Sees
<1>20. Close(t) => /\ pc[t] = "closing"
                   /\ Sees(t, IF HasPending(ctl[t]) THEN "top" ELSE "final",
                           ClearStreamCancel(ctl[t]), fresh[t], digest[t], told[t])
  BY <1>0 DEF Close, Sees
<1> QED
  BY <1>1, <1>2, <1>3, <1>4, <1>5, <1>6, <1>7, <1>9, <1>10, <1>11, <1>12,
     <1>13, <1>14, <1>15, <1>16, <1>17, <1>18, <1>19, <1>20, Zenon

-----------------------------------------------------------------------------
(***************************************************************************)
(* A turn that keeps its place keeps its part of the invariant.            *)
(***************************************************************************)
LEMMA KeptKeeps ==
  ASSUME NEW s \in Turns, Kept(s), Telling(s), Catching(s)
  PROVE  Telling(s)' /\ Catching(s)'
<1>1. Telling(s)'
  BY DEF Kept, Grew, Telling
<1>2. Pipe(ctl[s]) \subseteq Pipe(ctl'[s])
  BY DEF Kept, Grew, Pipe
<1>3. Catching(s)'
  BY <1>2 DEF Kept, Catching
<1> QED
  BY <1>1, <1>3

LEMMA TellingOwn ==
  ASSUME TypeOK, NEW t \in Turns, OwnStep(t), Telling(t)
  PROVE  Telling(t)'
<1> USE DEF Before, Sending, After
<1> DEFINE c == ctl[t]
<1>0. c \in Control /\ fresh[t] \in SUBSET Notices /\ told[t] \in SUBSET Notices
  BY DEF TypeOK, Types
<1>1. Start(t) \/ CatchUpLookup(t) \/ CatchUpRead(t) \/ CatchUpTrack(t) \/ CatchUpDone(t)
        \/ Proceed(t) \/ StreamStop(t) => Telling(t)'
  BY OwnSees DEF Sees, Telling
<1>2. Fail(t) => Telling(t)'
  BY OwnSees DEF Sees, Telling
<1>3. Leave(t) => Telling(t)'
  <2> SUFFICES ASSUME Leave(t) PROVE Telling(t)'
    OBVIOUS
  <2>1. pc'[t] = "idle" /\ ctl'[t] = NewLoopControl /\ told'[t] = {}
    BY OwnSees DEF Sees
  <2> QED
    BY <2>1, NewIsControl DEF Telling
<1>4. Drain(t) \/ Redrain(t) => Telling(t)'
  <2> SUFFICES ASSUME Drain(t) \/ Redrain(t) PROVE Telling(t)'
    OBVIOUS
  <2>1. /\ pc[t] \in Before /\ pc'[t] \in {"built", "drained", "final"}
        /\ told'[t] = told[t]
        /\ \E B \in SUBSET Queued(c) : Drained(c, B, ctl'[t])
    BY OwnSees DEF Sees
  <2>2. PICK B \in SUBSET Queued(c) : Drained(c, B, ctl'[t])
    BY <2>1
  <2>3. B \cap told[t] = {}
    BY DEF Telling, Sound
  <2> QED
    BY <2>1, <2>2, <2>3 DEF Telling, Drained
<1>5. Take(t) => Telling(t)'
  <2> SUFFICES ASSUME Take(t) PROVE Telling(t)'
    OBVIOUS
  <2>1. /\ pc[t] = "built" /\ pc'[t] = "taken" /\ ctl'[t] = Taken(c)
        /\ fresh'[t] = Fresh(c) /\ told'[t] = told[t]
    BY OwnSees DEF Sees
  <2> QED
    BY <1>0, <2>1, TakenForm DEF Telling, Sound
<1>6. Arm(t) => Telling(t)'
  <2> SUFFICES ASSUME Arm(t) PROVE Telling(t)'
    OBVIOUS
  <2>1. /\ pc[t] = "taken" /\ pc'[t] = "armed" /\ ctl'[t] = SetStreamCancel(c)
        /\ fresh'[t] = fresh[t] /\ told'[t] = told[t]
    BY OwnSees DEF Sees
  <2> QED
    BY <1>0, <2>1, StreamCancelSets DEF Telling, Grew
<1>7. GapCheck(t) => Telling(t)'
  <2> SUFFICES ASSUME GapCheck(t) PROVE Telling(t)'
    OBVIOUS
  <2>1. pc[t] = "armed" /\ told'[t] = told[t]
    BY OwnSees DEF Sees
  <2>2. CASE pc'[t] = "dispatch" /\ ctl'[t] = c /\ fresh'[t] = fresh[t]
    BY <2>1, <2>2 DEF Telling
  <2>3. CASE pc'[t] = "top" /\ ctl'[t] = ClearStreamCancel(RestoreNotices(c, fresh[t]))
    BY <1>0, <2>1, <2>3, RestoredForm DEF Telling
  <2> QED
    BY <2>2, <2>3, OwnSees DEF Sees
<1>8. Connect(t) => Telling(t)'
  BY OwnSees DEF Sees, Telling
<1>9. Mark(t) \/ CutDispatch(t) => Telling(t)'
  BY OwnSees DEF Sees, Telling
<1>10. StreamNext(t) \/ Close(t) => Telling(t)'
  <2> SUFFICES ASSUME StreamNext(t) \/ Close(t) PROVE Telling(t)'
    OBVIOUS
  <2>1. /\ pc[t] \in {"streaming", "closing"} /\ pc'[t] \in {"top", "final"}
        /\ ctl'[t] = ClearStreamCancel(c) /\ told'[t] = told[t]
    BY OwnSees DEF Sees
  <2> QED
    BY <1>0, <2>1, StreamCancelSets DEF Telling, Grew
<1> QED
  BY <1>1, <1>2, <1>3, <1>4, <1>5, <1>6, <1>7, <1>8, <1>9, <1>10 DEF OwnStep, Step

\* A running turn forgets nothing it was handed, and stays where it is known.
LEMMA OwnPipe ==
  ASSUME TypeOK, NEW t \in Turns, OwnStep(t), ~Leave(t)
  PROVE  pc'[t] # "idle" /\ Pipe(ctl[t]) \subseteq Pipe(ctl'[t])
<1> DEFINE c == ctl[t]
           Goal == pc'[t] # "idle" /\ Pipe(c) \subseteq Pipe(ctl'[t])
<1>0. c \in Control /\ fresh[t] \in SUBSET Notices
  BY DEF TypeOK, Types
<1>1. Start(t) \/ CatchUpLookup(t) \/ CatchUpRead(t) \/ CatchUpTrack(t) \/ CatchUpDone(t)
        \/ Proceed(t) \/ StreamStop(t) \/ Fail(t) \/ Connect(t) \/ Mark(t)
        \/ CutDispatch(t) => Goal
  BY OwnSees DEF Sees
<1>2. Drain(t) \/ Redrain(t) => Goal
  <2> SUFFICES ASSUME Drain(t) \/ Redrain(t) PROVE Goal
    OBVIOUS
  <2>1. /\ pc'[t] \in {"built", "drained", "final"}
        /\ \E B \in SUBSET Queued(c) : Drained(c, B, ctl'[t])
    BY OwnSees DEF Sees
  <2> QED
    BY <2>1 DEF Drained
<1>3. Take(t) => Goal
  BY <1>0, OwnSees, TakenForm DEF Sees
<1>4. ASSUME NEW d, Grew(c, d) PROVE Pipe(c) \subseteq Pipe(d)
  BY <1>4 DEF Grew, Pipe
<1>5. Arm(t) \/ StreamNext(t) \/ Close(t) => Goal
  <2> SUFFICES ASSUME Arm(t) \/ StreamNext(t) \/ Close(t) PROVE Goal
    OBVIOUS
  <2>1. /\ pc'[t] \in {"armed", "top", "final"}
        /\ ctl'[t] = SetStreamCancel(c) \/ ctl'[t] = ClearStreamCancel(c)
    BY OwnSees DEF Sees
  <2> QED
    BY <1>0, <1>4, <2>1, StreamCancelSets
<1>6. GapCheck(t) => Goal
  <2> SUFFICES ASSUME GapCheck(t) PROVE Goal
    OBVIOUS
  <2>1. \/ pc'[t] = "top" /\ ctl'[t] = ClearStreamCancel(RestoreNotices(c, fresh[t]))
        \/ pc'[t] = "dispatch" /\ ctl'[t] = c
    BY OwnSees DEF Sees
  <2> QED
    BY <1>0, <2>1, RestoredForm
<1> QED
  BY <1>1, <1>2, <1>3, <1>5, <1>6 DEF OwnStep, Step

LEMMA CatchingOwn ==
  ASSUME TypeOK, NEW t \in Turns, OwnStep(t), Catching(t)
  PROVE  Catching(t)'
<1> USE DEF loopVars, catchVars, rowVars, handVars, guideVars, seenVars, Goto
<1>0. Types
  BY DEF TypeOK
<1>1. Start(t) => Catching(t)'
  BY <1>0 DEF Start, Catching, Types
<1>2. CatchUpLookup(t) => Catching(t)'
  BY <1>0 DEF CatchUpLookup, Catching, Types
<1>3. CatchUpRead(t) => Catching(t)'
  BY <1>0 DEF CatchUpRead, Catching, Types
<1>4. CatchUpTrack(t) => Catching(t)'
  BY <1>0 DEF CatchUpTrack, Catching, Types
<1>5. CatchUpDone(t) => Catching(t)'
  BY <1>0 DEF CatchUpDone, Catching, Types
<1>6. Leave(t) => Catching(t)'
  BY <1>0 DEF Leave, Catching, Types
<1>7. Fail(t) \/ Step(t) => Catching(t)'
  <2> SUFFICES ASSUME Fail(t) \/ Step(t) PROVE Catching(t)'
    OBVIOUS
  <2>1. UNCHANGED <<todo, cur, into>>
    BY DEF Fail, Step, Drain, Proceed, Redrain, Take, Arm, GapCheck, Connect, Mark,
           CutDispatch, StreamNext, StreamStop, Close
  <2>2. pc'[t] \notin {"idle", "catchup"} /\ pc[t] # "catchup"
    BY OwnSees DEF Sees, Fail, Step
  <2> QED
    BY <2>1, <2>2 DEF Catching
<1> QED
  BY <1>1, <1>2, <1>3, <1>4, <1>5, <1>6, <1>7 DEF OwnStep

LEMMA CatchUpPushInv ==
  ASSUME TypeOK, NEW t \in Turns, CatchUpPush(t), NEW s \in Turns, Telling(s), Catching(s)
  PROVE  Telling(s)' /\ Catching(s)'
<1>1. s # t => Kept(s)
  BY CatchUpPushKeeps DEF Kept
<1>2. CASE s = t
  <2>1. Telling(t)'
    BY <1>2, CatchUpPushKeeps DEF Grew, Telling
  <2>2. pc[t] = "catchup"
    BY DEF CatchUpPush
  <2>3. PICK r \in todo[t], n \in Notices :
               n \in Texts[r] /\ cur'[t] = {<<r, n>>} /\ (into[t] = t => n \in Pipe(ctl'[t]))
    BY CatchUpPushKeeps
  <2>4. Catching(t)'
    BY <1>2, <2>2, <2>3, CatchUpPushKeeps DEF Catching
  <2> QED
    BY <1>2, <2>1, <2>4
<1> QED
  BY <1>1, <1>2, KeptKeeps

-----------------------------------------------------------------------------
(***************************************************************************)
(* The cancel of a stream.                                                 *)
(***************************************************************************)
\* Nobody but the turn itself registers a stream of the turn or uncuts it.
CutOnlyWhileOpen(s) ==
  /\ pc'[s] = pc[s]
  /\ cut'[s] => cut[s] \/ ctl[s].streamCancel
  /\ ctl'[s].streamCancel => ctl[s].streamCancel

LEMMA UpdatedCancel ==
  ASSUME Types, NEW t \in Turns, NEW c, c.streamCancel = ctl[t].streamCancel,
         ctl' = Updated(t, c), NEW s \in Turns
  PROVE  ctl'[s].streamCancel = ctl[s].streamCancel
<1>1. CASE pc[t] = "idle"
  BY <1>1 DEF Updated
<1>2. CASE pc[t] # "idle"
  BY <1>2 DEF Updated, Types
<1> QED
  BY <1>1, <1>2

LEMMA OutsideCancel ==
  ASSUME TypeOK, OutsideStep, NEW s \in Turns
  PROVE  CutOnlyWhileOpen(s)
<1> USE DEF loopVars, catchVars, rowVars, handVars, guideVars, seenVars
<1>0. Types /\ Holders
  BY DEF TypeOK
<1>1. ASSUME NEW r \in Reports, Complete(r) \/ Lookup(r) \/ Track(r) PROVE CutOnlyWhileOpen(s)
  BY <1>1 DEF Complete, Lookup, Track, CutOnlyWhileOpen
<1>2. ASSUME NEW r \in Reports, Push(r) PROVE CutOnlyWhileOpen(s)
  <2>1. handTo[r][1] \in Turns /\ ctl[handTo[r][1]] \in Control /\ handTo[r][2] \in Notices
    BY <1>0, <1>2, WordingIsNotice DEF Push, Holders, Types
  <2>2. ctl'[s].streamCancel = ctl[s].streamCancel
    BY <1>0, <1>2, <2>1, PushNoticeGrows, UpdatedCancel DEF Push
  <2> QED
    BY <1>2, <2>2 DEF Push, CutOnlyWhileOpen
<1>3. ASSUME NEW g \in Guides, GuidanceLookup(g) PROVE CutOnlyWhileOpen(s)
  BY <1>3 DEF GuidanceLookup, CutOnlyWhileOpen
<1>4. ASSUME NEW g \in Guides, GuidancePush(g) PROVE CutOnlyWhileOpen(s)
  <2>1. guideTo[g][1] \in Turns /\ ctl[guideTo[g][1]] \in Control
    BY <1>0, <1>4 DEF GuidancePush, Holders, Types
  <2>2. \/ ctl' = ctl
        \/ ctl' = Updated(guideTo[g][1], PushGuidance(ctl[guideTo[g][1]], g))
    BY <1>4 DEF GuidancePush
  <2>3. ctl'[s].streamCancel = ctl[s].streamCancel
    BY <1>0, <2>1, <2>2, PushGuidanceGrows, UpdatedCancel
  <2> QED
    BY <1>4, <2>3 DEF GuidancePush, CutOnlyWhileOpen
<1>5. ASSUME NEW g \in Guides, GuidanceCancel(g) PROVE CutOnlyWhileOpen(s)
  <2> DEFINE t == guideTo[g][1]
  <2>1. t \in Turns /\ ctl[t] \in Control /\ ctl[s] \in Control
    BY <1>0, <1>5 DEF GuidanceCancel, Holders, Types
  <2>2. /\ ctl' = [ctl EXCEPT ![t] = ClearStreamCancel(ctl[t])]
        /\ cut' = [cut EXCEPT ![t] = @ \/ ctl[t].streamCancel]
        /\ pc' = pc
    BY <1>5 DEF GuidanceCancel
  <2> HIDE DEF t
  <2>3. CASE s = t
    <3>1. ctl'[t] = ClearStreamCancel(ctl[t]) /\ cut'[t] = (cut[t] \/ ctl[t].streamCancel)
      BY <1>0, <2>1, <2>2 DEF Types
    <3> QED
      BY <2>1, <2>2, <2>3, <3>1, StreamCancelSets DEF CutOnlyWhileOpen
  <2>4. CASE s # t
    BY <1>0, <2>2, <2>4 DEF CutOnlyWhileOpen, Types
  <2> QED
    BY <2>3, <2>4
<1>6. CASE Abort
  BY <1>6 DEF Abort, CutOnlyWhileOpen
<1>7. CASE UNCHANGED vars
  BY <1>7 DEF vars, CutOnlyWhileOpen
<1> QED
  BY <1>1, <1>2, <1>3, <1>4, <1>5, <1>6, <1>7 DEF OutsideStep, Reporter, Guidance

LEMMA OthersCancel ==
  ASSUME TypeOK, NEW t \in Turns, OwnStep(t), NEW s \in Turns, s # t
  PROVE  CutOnlyWhileOpen(s)
<1> USE DEF loopVars, catchVars, rowVars, handVars, guideVars, seenVars, Goto
<1>0. Types
  BY DEF TypeOK
<1>1. pc'[s] = pc[s]
  BY OthersKept DEF Kept
<1>2. cut'[s] = cut[s]
  BY <1>0 DEF Types, OwnStep, Start, CatchUpLookup, CatchUpRead, CatchUpTrack, CatchUpDone,
     Fail, Leave, Step, Drain, Proceed, Redrain, Take, Arm, GapCheck, Connect, Mark,
     CutDispatch, StreamNext, StreamStop, Close
<1>3. ctl'[s] = ctl[s]
  BY <1>0 DEF Types, OwnStep, Start, CatchUpLookup, CatchUpRead, CatchUpTrack, CatchUpDone,
     Fail, Leave, Step, Drain, Proceed, Redrain, Take, Arm, GapCheck, Connect, Mark,
     CutDispatch, StreamNext, StreamStop, Close
<1> QED
  BY <1>1, <1>2, <1>3 DEF CutOnlyWhileOpen

LEMMA CatchUpPushCancel ==
  ASSUME TypeOK, NEW t \in Turns, CatchUpPush(t), NEW s \in Turns
  PROVE  CutOnlyWhileOpen(s)
<1> USE DEF loopVars, catchVars, rowVars, handVars, guideVars, seenVars
<1>0. Types /\ Holders
  BY DEF TypeOK
<1>1. PICK r \in todo[t], n \in Notices :
             ctl' = Updated(into[t], PushNotice(ctl[into[t]], n))
  BY <1>0, WordingIsNotice DEF CatchUpPush, Types
<1>2. into[t] \in Turns /\ ctl[into[t]] \in Control
  BY <1>0 DEF CatchUpPush, Types, Holders
<1>3. ctl'[s].streamCancel = ctl[s].streamCancel
  BY <1>0, <1>1, <1>2, PushNoticeGrows, UpdatedCancel
<1> QED
  BY <1>3 DEF CatchUpPush, CutOnlyWhileOpen

\* Every path through a step brackets its stream.
LEMMA UncutOwn ==
  ASSUME TypeOK, NEW t \in Turns, OwnStep(t), Uncut(t)
  PROVE  Uncut(t)'
<1> USE DEF loopVars, catchVars, rowVars, handVars, guideVars, seenVars, Before
<1> DEFINE c == ctl[t]
<1>0. /\ c \in Control /\ fresh[t] \in SUBSET Notices
      /\ pc \in [Turns -> Phases] /\ cut \in [Turns -> BOOLEAN]
  BY DEF TypeOK, Types
<1>1. Start(t) \/ CatchUpLookup(t) \/ CatchUpRead(t) \/ CatchUpTrack(t) \/ CatchUpDone(t)
        \/ Proceed(t) => Uncut(t)'
  <2>1. ASSUME Start(t) \/ CatchUpLookup(t) \/ CatchUpRead(t) \/ CatchUpTrack(t)
                 \/ CatchUpDone(t) \/ Proceed(t)
        PROVE  pc[t] \in Before /\ ctl'[t] = c
    BY <2>1, OwnSees DEF Sees
  <2>2. ASSUME Start(t) \/ CatchUpLookup(t) \/ CatchUpRead(t) \/ CatchUpTrack(t)
                 \/ CatchUpDone(t) \/ Proceed(t)
        PROVE  cut' = cut
    BY <2>2 DEF Start, CatchUpLookup, CatchUpRead, CatchUpTrack, CatchUpDone, Proceed
  <2> QED
    BY <2>1, <2>2 DEF Uncut
<1>2. Fail(t) \/ StreamStop(t) \/ Connect(t) \/ Mark(t) \/ CutDispatch(t) \/ Arm(t)
        => Uncut(t)'
  <2>1. ASSUME Fail(t) \/ StreamStop(t) \/ Connect(t) \/ Mark(t) \/ CutDispatch(t) \/ Arm(t)
        PROVE  pc'[t] \notin Before \cup {"taken"}
    BY <2>1, OwnSees DEF Sees
  <2> QED
    BY <2>1 DEF Uncut
<1>3. Leave(t) => Uncut(t)'
  <2> SUFFICES ASSUME Leave(t) PROVE Uncut(t)'
    OBVIOUS
  <2>1. ctl'[t] = NewLoopControl
    BY OwnSees DEF Sees
  <2>2. cut'[t] = FALSE
    BY <1>0 DEF Leave
  <2> QED
    BY <2>1, <2>2 DEF Uncut, NewLoopControl
<1>4. Drain(t) \/ Redrain(t) => Uncut(t)'
  <2> SUFFICES ASSUME Drain(t) \/ Redrain(t) PROVE Uncut(t)'
    OBVIOUS
  <2>1. pc[t] \in Before /\ \E B \in SUBSET Queued(c) : Drained(c, B, ctl'[t])
    BY OwnSees
  <2>2. cut' = cut
    BY DEF Drain, Redrain
  <2> QED
    BY <2>1, <2>2 DEF Uncut, Drained
<1>5. Take(t) => Uncut(t)'
  <2> SUFFICES ASSUME Take(t) PROVE Uncut(t)'
    OBVIOUS
  <2>1. pc[t] = "built" /\ ctl'[t] = Taken(c)
    BY OwnSees DEF Sees
  <2>2. cut' = cut
    BY DEF Take
  <2> QED
    BY <1>0, <2>1, <2>2, TakenForm DEF Uncut
<1>6. GapCheck(t) => Uncut(t)'
  <2> SUFFICES ASSUME GapCheck(t) PROVE Uncut(t)'
    OBVIOUS
  <2>1. CASE HasPending(c)
    <3>1. ctl'[t] = ClearStreamCancel(RestoreNotices(c, fresh[t]))
      BY <2>1, OwnSees DEF Sees
    <3>2. cut'[t] = FALSE
      BY <1>0, <2>1 DEF GapCheck
    <3> QED
      BY <1>0, <3>1, <3>2, RestoredForm DEF Uncut
  <2>2. CASE ~HasPending(c)
    <3>1. pc'[t] = "dispatch"
      BY <2>2, OwnSees DEF Sees
    <3> QED
      BY <3>1 DEF Uncut
  <2> QED
    BY <2>1, <2>2
<1>7. StreamNext(t) \/ Close(t) => Uncut(t)'
  <2> SUFFICES ASSUME StreamNext(t) \/ Close(t) PROVE Uncut(t)'
    OBVIOUS
  <2>1. ctl'[t] = ClearStreamCancel(c)
    BY OwnSees DEF Sees
  <2>2. cut'[t] = FALSE
    BY <1>0 DEF StreamNext, Close
  <2> QED
    BY <1>0, <2>1, <2>2, StreamCancelSets DEF Uncut
<1> QED
  BY <1>1, <1>2, <1>3, <1>4, <1>5, <1>6, <1>7 DEF OwnStep, Step

-----------------------------------------------------------------------------
(***************************************************************************)
(* The registered turn, and no report that slips past it.                  *)
(***************************************************************************)
LEMMA RegisteredStep ==
  ASSUME TypeOK, Registered, [Next]_vars
  PROVE  Registered'
<1> USE DEF loopVars, catchVars, rowVars, handVars, guideVars, seenVars, Goto
<1>0. Types
  BY DEF TypeOK
<1>1. ASSUME NEW t \in Turns, OwnStep(t) PROVE Registered'
  <2>1. CASE Start(t)
    <3>1. live' = t /\ pc'[t] = "start"
      BY <1>0, <2>1 DEF Start, Types
    <3> QED
      BY <3>1 DEF Registered
  <2>2. CASE ~Start(t) /\ ~Leave(t)
    <3>1. live' = live
      BY <1>1, <2>2 DEF OwnStep, CatchUpLookup, CatchUpRead, CatchUpTrack, CatchUpDone, Fail,
         Step, Drain, Proceed, Redrain, Take, Arm, GapCheck, Connect, Mark, CutDispatch,
         StreamNext, StreamStop, Close
    <3>2. pc'[t] # "idle"
      BY <1>1, <2>2, OwnPipe
    <3>3. \A s \in Turns : s # t => pc'[s] = pc[s]
      BY <1>1, OthersKept DEF Kept
    <3> QED
      BY <1>0, <3>1, <3>2, <3>3 DEF Registered, Types
  <2>3. CASE Leave(t)
    <3>1. \A s \in Turns : s # t => pc'[s] = pc[s]
      BY <1>1, OthersKept DEF Kept
    <3>2. live' = IF live = t THEN NoTurn ELSE live
      BY <2>3 DEF Leave
    <3> QED
      BY <1>0, <3>1, <3>2 DEF Registered, Types
  <2> QED
    BY <2>1, <2>2, <2>3
<1>2. ASSUME NEW t \in Turns, CatchUpPush(t) PROVE Registered'
  BY <1>2 DEF CatchUpPush, Registered
<1>3. CASE OutsideStep
  <2>1. live' = live \/ live' = NoTurn
    BY <1>3 DEF OutsideStep, Reporter, Complete, Lookup, Push, Track, Guidance, GuidanceLookup,
       GuidancePush, GuidanceCancel, Abort, vars
  <2>2. \A s \in Turns : pc'[s] = pc[s]
    BY <1>3, OutsideKept DEF Kept
  <2> QED
    BY <1>0, <2>1, <2>2 DEF Registered, Types
<1>4. CASE Crash
  BY <1>4 DEF Crash, Registered
<1> QED
  BY <1>1, <1>2, <1>3, <1>4, NextCases

\* What NoReportSlips says of one report.
Placed(r) ==
  live # NoTurn /\ caught[live] =>
    \/ InPipeline(live, r)
    \/ hand[r] \in {"lookup", "gaveup"}
    \/ hand[r] = "push" /\ handTo[r][1] = live

LEMMA PlacedOwn ==
  ASSUME TypeOK, NEW t \in Turns, OwnStep(t), Catching(t), NoReportSlips,
         NEW r \in ready' \ reported'
  PROVE  Placed(r)'
<1> USE DEF loopVars, catchVars, rowVars, handVars, guideVars, seenVars, Goto
<1>0. Types
  BY DEF TypeOK
<1> SUFFICES ASSUME live' # NoTurn, caught'[live']
             PROVE  \/ InPipeline(live, r)'
                    \/ hand'[r] \in {"lookup", "gaveup"}
                    \/ hand'[r] = "push" /\ handTo'[r][1] = live'
  BY DEF Placed
<1>1. ~Start(t)
  BY <1>0 DEF Start, Catching, Types
<1>2. live' = live /\ live \in Turns /\ (Leave(t) => live # t)
  BY <1>0, <1>1 DEF OwnStep, CatchUpLookup, CatchUpRead, CatchUpTrack, CatchUpDone, Fail,
     Leave, Step, Drain, Proceed, Redrain, Take, Arm, GapCheck, Connect, Mark, CutDispatch,
     StreamNext, StreamStop, Close, Types
<1>3. r \in ready \ reported /\ r \in Reports
  BY <1>0 DEF OwnStep, Start, CatchUpLookup, CatchUpRead, CatchUpTrack, CatchUpDone, Fail,
     Leave, Step, Drain, Proceed, Redrain, Take, Arm, GapCheck, Connect, Mark, CutDispatch,
     StreamNext, StreamStop, Close, Types
<1>4. handTo' = handTo /\ (~CatchUpRead(t) => hand' = hand)
  BY DEF OwnStep, Start, CatchUpLookup, CatchUpRead, CatchUpTrack, CatchUpDone, Fail,
     Leave, Step, Drain, Proceed, Redrain, Take, Arm, GapCheck, Connect, Mark, CutDispatch,
     StreamNext, StreamStop, Close
<1>5. CASE live # t
  <2>1. Kept(live)
    BY <1>2, <1>5, OthersKept
  <2>2. caught[live] /\ todo'[live] = todo[live] /\ Pipe(ctl[live]) \subseteq Pipe(ctl'[live])
    BY <1>2, <2>1 DEF Kept, Grew, Pipe
  <2>3. hand' = hand
    <3>1. CatchUpRead(t) => hand' = hand
      <4> SUFFICES ASSUME CatchUpRead(t) PROVE hand' = hand
        OBVIOUS
      <4>1. \/ hand' = [q \in Reports |-> IF hand[q] = "gaveup" /\ into[t] = t /\ live = t
                                          THEN "idle" ELSE hand[q]]
            \/ hand' = hand
        BY DEF CatchUpRead
      <4> QED
        BY <1>0, <1>5, <4>1 DEF Types
    <3> QED
      BY <1>4, <3>1
  <2> QED
    BY <1>2, <1>3, <1>4, <2>2, <2>3 DEF NoReportSlips, InPipeline, Pipe
<1>6. CASE live = t /\ ~CatchUpRead(t)
  <2>1. Pipe(ctl[t]) \subseteq Pipe(ctl'[t])
    BY <1>2, <1>6, OwnPipe
  <2>2. caught'[t] = caught[t]
    BY <1>1, <1>2, <1>6 DEF OwnStep, CatchUpLookup, CatchUpTrack, CatchUpDone, Fail,
       Step, Drain, Proceed, Redrain, Take, Arm, GapCheck, Connect, Mark, CutDispatch,
       StreamNext, StreamStop, Close
  <2>3. \A q \in todo[t] : q \in todo'[t] \/ \E n \in Texts[q] : n \in Pipe(ctl[t])
    <3>1. CASE CatchUpTrack(t)
      <4>1. todo'[t] = todo[t] \ { e[1] : e \in cur[t] }
        BY <1>0, <3>1 DEF CatchUpTrack, Types
      <4>2. \A e \in cur[t] : e[2] \in Texts[e[1]] /\ e[2] \in Pipe(ctl[t])
        BY <1>2, <1>6, <2>2, <3>1 DEF CatchUpTrack, Catching
      <4> QED
        BY <4>1, <4>2
    <3>2. CASE ~CatchUpTrack(t)
      BY <1>1, <1>2, <1>6, <3>2 DEF OwnStep, CatchUpLookup, CatchUpDone, Fail,
         Step, Drain, Proceed, Redrain, Take, Arm, GapCheck, Connect, Mark, CutDispatch,
         StreamNext, StreamStop, Close
    <3> QED
      BY <3>1, <3>2
  <2> QED
    BY <1>2, <1>3, <1>4, <1>6, <2>1, <2>2, <2>3 DEF NoReportSlips, InPipeline, Pipe
<1>7. CASE live = t /\ CatchUpRead(t)
  <2>1. CASE todo' = [todo EXCEPT ![t] = Owed]
    <3>1. todo'[t] = ready \ reported
      BY <1>0, <2>1 DEF Owed, Types
    <3> QED
      BY <1>2, <1>3, <1>7, <3>1 DEF InPipeline
  <2>2. CASE UNCHANGED <<todo, caught, hand>>
    <3>1. ctl' = ctl
      BY <1>7 DEF CatchUpRead
    <3> QED
      BY <1>2, <1>3, <1>4, <1>7, <2>2, <3>1 DEF NoReportSlips, InPipeline
  <2> QED
    BY <1>7, <2>1, <2>2 DEF CatchUpRead
<1> QED
  BY <1>5, <1>6, <1>7

LEMMA PlacedReporter ==
  ASSUME TypeOK, Registered, NEW q \in Reports, Reporter(q), NoReportSlips,
         NEW r \in ready' \ reported'
  PROVE  Placed(r)'
<1> USE DEF loopVars, catchVars, rowVars, handVars, guideVars, seenVars
<1>0. Types /\ Holders
  BY DEF TypeOK
<1> SUFFICES ASSUME live' # NoTurn, caught'[live']
             PROVE  \/ InPipeline(live, r)'
                    \/ hand'[r] \in {"lookup", "gaveup"}
                    \/ hand'[r] = "push" /\ handTo'[r][1] = live'
  BY DEF Placed
<1>1. live' = live /\ live \in Turns /\ caught[live] /\ todo' = todo
      /\ reported' = reported
  BY <1>0 DEF Reporter, Complete, Lookup, Push, Track, Types
<1>2. Pipe(ctl[live]) \subseteq Pipe(ctl'[live])
  <2>1. OutsideStep
    BY DEF OutsideStep
  <2> QED
    BY <1>1, <2>1, OutsideKept DEF Kept, Grew, Pipe
<1>3. ready' \subseteq Reports
  BY <1>0 DEF Reporter, Complete, Lookup, Push, Track, Types
<1>4. \A p \in Reports : p # q => hand'[p] = hand[p] /\ handTo'[p] = handTo[p]
  BY <1>0 DEF Reporter, Complete, Lookup, Push, Track, Types
<1>5. CASE r # q
  <2>1. r \in ready \ reported
    BY <1>1, <1>5 DEF Reporter, Complete, Lookup, Push, Track
  <2> QED
    BY <1>1, <1>2, <1>3, <1>4, <1>5, <2>1 DEF NoReportSlips, InPipeline, Pipe
<1>6. CASE r = q /\ (Complete(q) \/ Lookup(q))
  <2>1. \/ hand'[q] \in {"lookup", "gaveup"}
        \/ hand'[q] = "push" /\ handTo'[q][1] = live
    BY <1>0, <1>1, <1>6 DEF Complete, Lookup, Types
  <2> QED
    BY <1>1, <1>6, <2>1
<1>7. CASE r = q /\ Push(q)
  <2>1. r \in ready \ reported /\ hand[q] = "push"
    BY <1>1, <1>7 DEF Push
  <2>2. CASE handTo[q][1] = live
    <3> DEFINE n == handTo[q][2]
    <3>1. pc[live] # "idle" /\ ctl[live] \in Control /\ n \in Texts[q] /\ n \in Notices
      BY <1>0, <1>1, <2>1, WordingIsNotice DEF Registered, Types, Holders
    <3>2. ctl' = Updated(live, PushNotice(ctl[live], n))
      BY <1>7, <2>2 DEF Push
    <3>3. n \in Pipe(ctl'[live])
      BY <1>0, <1>1, <3>1, <3>2, PushNoticeGrows, UpdatedGrows
    <3> QED
      BY <1>1, <1>7, <3>1, <3>3 DEF InPipeline, Pipe
  <2>3. CASE handTo[q][1] # live
    BY <1>1, <1>2, <1>7, <2>1, <2>3 DEF NoReportSlips, InPipeline, Pipe
  <2> QED
    BY <2>2, <2>3
<1>8. CASE r = q /\ Track(q)
  <2>1. r \in ready \ reported /\ hand[q] = "track" /\ ctl' = ctl
    BY <1>1, <1>8 DEF Track
  <2> QED
    BY <1>1, <1>8, <2>1 DEF NoReportSlips, InPipeline
<1> QED
  BY <1>5, <1>6, <1>7, <1>8 DEF Reporter

LEMMA NoReportSlipsStep ==
  ASSUME IInv, [Next]_vars
  PROVE  NoReportSlips'
<1> USE DEF loopVars, catchVars, rowVars, handVars, guideVars, seenVars
<1>0. TypeOK /\ Registered /\ NoReportSlips /\ \A t \in Turns : Catching(t)
  BY DEF IInv
<1> SUFFICES ASSUME NEW r \in ready' \ reported' PROVE Placed(r)'
  BY DEF NoReportSlips, Placed
<1>1. ASSUME NEW t \in Turns, OwnStep(t) PROVE Placed(r)'
  BY <1>0, <1>1, PlacedOwn
<1>2. ASSUME NEW q \in Reports, Reporter(q) PROVE Placed(r)'
  BY <1>0, <1>2, PlacedReporter
<1>3. ASSUME NEW t \in Turns, CatchUpPush(t) PROVE Placed(r)'
  <2>1. UNCHANGED <<live, caught, todo, ready, reported, hand, handTo>>
    BY <1>3 DEF CatchUpPush
  <2>2. live # NoTurn => Pipe(ctl[live]) \subseteq Pipe(ctl'[live])
    BY <1>0, <1>3, CatchUpPushKeeps DEF Grew, Pipe, TypeOK, Types
  <2> QED
    BY <1>0, <2>1, <2>2 DEF NoReportSlips, Placed, InPipeline, Pipe
<1>4. ASSUME OutsideStep, ~\E q \in Reports : Reporter(q) PROVE Placed(r)'
  <2>1. CASE Abort
    BY <2>1 DEF Abort, Placed
  <2>2. CASE ~Abort
    <3>1. UNCHANGED <<live, caught, todo, ready, reported, hand, handTo>>
      BY <1>4, <2>2 DEF OutsideStep, Guidance, GuidanceLookup, GuidancePush, GuidanceCancel, vars
    <3>2. live # NoTurn => Pipe(ctl[live]) \subseteq Pipe(ctl'[live])
      BY <1>0, <1>4, OutsideKept DEF Kept, Grew, Pipe, TypeOK, Types
    <3> QED
      BY <1>0, <3>1, <3>2 DEF NoReportSlips, Placed, InPipeline, Pipe
  <2> QED
    BY <2>1, <2>2
<1>5. CASE Crash
  BY <1>5 DEF Crash, Placed
<1> QED
  BY <1>1, <1>2, <1>3, <1>4, <1>5, NextCases

-----------------------------------------------------------------------------
(***************************************************************************)
(* The theorems.                                                           *)
(***************************************************************************)
LEMMA TurnFresh ==
  ASSUME NEW t \in Turns, pc[t] = "idle", ctl[t] = NewLoopControl, ~cut[t],
         ~caught[t], told[t] = {}, cur[t] = {}
  PROVE  Telling(t) /\ Catching(t) /\ Uncut(t)
<1>1. /\ ~ctl[t].streamCancel /\ ctl[t].unshown = {}
  BY DEF NewLoopControl
<1> QED
  BY <1>1, NewIsControl DEF Telling, Catching, Uncut, Before, Sending, After

LEMMA IInvInit == Init => IInv
<1> SUFFICES ASSUME Init PROVE IInv
  OBVIOUS
<1>1. TypeOK
  BY TypeInit
<1>2. Registered /\ NoReportSlips
  BY DEF Init, Registered, NoReportSlips
<1>3. ASSUME NEW t \in Turns PROVE Telling(t) /\ Catching(t) /\ Uncut(t)
  <2>1. /\ pc[t] = "idle" /\ ctl[t] = NewLoopControl /\ ~cut[t] /\ ~caught[t]
        /\ told[t] = {} /\ cur[t] = {}
    BY DEF Init, Each
  <2> QED
    BY <2>1, TurnFresh
<1> QED
  BY <1>1, <1>2, <1>3 DEF IInv

LEMMA IInvStep == IInv /\ [Next]_vars => IInv'
<1> SUFFICES ASSUME IInv, [Next]_vars PROVE IInv'
  OBVIOUS
<1>0. TypeOK /\ Registered /\ \A t \in Turns : Telling(t) /\ Catching(t) /\ Uncut(t)
  BY DEF IInv
<1>1. TypeOK'
  BY <1>0, TypeStep, TypeStutter
<1>2. Registered' /\ NoReportSlips'
  BY <1>0, RegisteredStep, NoReportSlipsStep
<1>3. ASSUME NEW s \in Turns PROVE Telling(s)' /\ Catching(s)' /\ Uncut(s)'
  <2>0. Telling(s) /\ Catching(s) /\ Uncut(s)
    BY <1>0
  <2>1. CutOnlyWhileOpen(s) => Uncut(s)'
    BY <2>0 DEF CutOnlyWhileOpen, Uncut
  <2>2. ASSUME NEW t \in Turns, OwnStep(t) PROVE Telling(s)' /\ Catching(s)' /\ Uncut(s)'
    <3>1. CASE s = t
      BY <1>0, <2>0, <2>2, <3>1, TellingOwn, CatchingOwn, UncutOwn
    <3>2. CASE s # t
      BY <1>0, <2>0, <2>1, <2>2, <3>2, OthersKept, OthersCancel, KeptKeeps
    <3> QED
      BY <3>1, <3>2
  <2>3. ASSUME NEW t \in Turns, CatchUpPush(t) PROVE Telling(s)' /\ Catching(s)' /\ Uncut(s)'
    BY <1>0, <2>0, <2>1, <2>3, CatchUpPushInv, CatchUpPushCancel
  <2>4. CASE OutsideStep
    BY <1>0, <2>0, <2>1, <2>4, OutsideKept, OutsideCancel, KeptKeeps
  <2>5. CASE Crash
    <3>1. /\ pc'[s] = "idle" /\ ctl'[s] = NewLoopControl /\ ~cut'[s] /\ ~caught'[s]
          /\ told'[s] = {} /\ cur'[s] = {}
      BY <2>5 DEF Crash, Each
    <3>2. ~ctl'[s].streamCancel /\ ctl'[s].unshown = {}
      BY <3>1 DEF NewLoopControl
    <3> QED
      BY <3>1, <3>2, NewIsControl DEF Telling, Catching, Uncut, Before, Sending, After
  <2> QED
    BY <2>2, <2>3, <2>4, <2>5, NextCases
<1> QED
  BY <1>1, <1>2, <1>3 DEF IInv

LEMMA Inductive == Spec => []IInv
BY IInvInit, IInvStep, PTL DEF Spec

(* No report slips between a turn that starts and a report that completes   *)
(* (the row is written before the control is looked up, the control is      *)
(* registered before the rows are read), whatever is superseded, aborted or *)
(* crashes in between and however many turns and reports there are.         *)
THEOREM NothingSlips == Spec => []NoReportSlips
<1>1. IInv => NoReportSlips
  BY DEF IInv
<1> QED
  BY <1>1, Inductive, PTL

(* A cancel finds only the stream of the step in flight: between two steps  *)
(* of a turn no stream is registered and none is cut (SetStreamCancel and   *)
(* ClearStreamCancel bracket the stream on every path through runLoop).     *)
THEOREM CancelHitsItsStep == Spec => []CutHitsItsStep
<1>1. IInv => CutHitsItsStep
  BY DEF IInv, CutHitsItsStep, Uncut, Before
<1> QED
  BY <1>1, Inductive, PTL

(* No two requests of one turn carry the same text in full, however many    *)
(* rows are worded alike and however often a row is worded anew: what a step *)
(* took and never sent goes back unshown, and only that (RestoreNotices,    *)
(* PushNotice, TakeNoticesForInjection).                                   *)
THEOREM TextSentOnce == Spec => []TextOncePerTurn
<1>1. IInv => TextOncePerTurn
  BY DEF IInv, TextOncePerTurn, Telling, Sending
<1> QED
  BY <1>1, Inductive, PTL
=============================================================================
