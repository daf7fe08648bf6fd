--------------------- MODULE TurnDeliveryText_proofs ---------------------
(***************************************************************************)
(* What a cancel of a stream costs, for any clients: the reports that rode *)
(* in full in a request that was cut on its way may be stamped, headlined  *)
(* or left untold although the model never read them, and no others; and   *)
(* guidance is lost only with the turn's very last request.  While no      *)
(* client asks for a cancel there are no such requests, so the same        *)
(* invariant says that a row is stamped only when its text was read and a  *)
(* turn that ends normally has told the model all it drained.  With a      *)
(* cancel that is false: the run turn_cut_stamps_unread shows how.         *)
(***************************************************************************)
EXTENDS TurnDelivery_proofs

USE TurnsAssumption, KindsAssumption, NoticeCapAssumption

(* The notices a request of the turn carried in full, cut or not. *)
Sent(t) == told[t] \cup cutOff[t]

(* Every notice the turn drained was sent, is about to be, or is queued to  *)
(* be sent; a turn stops at its top only with nothing left to send.  What   *)
(* is headlined was sent before, and so was a wording of each row marked    *)
(* for its stamp.                                                           *)
Shown(t) ==
  /\ pc[t] \in Before => ctl[t].deliveredNotices \ ctl[t].unshown \subseteq Sent(t)
  /\ pc[t] \in Before \ {"built"} => ctl[t].unshown = {} \/ HasPending(ctl[t])
  /\ pc[t] = "drained" => ctl[t].unshown = {}
  /\ pc[t] \in Sending => /\ ctl[t].deliveredNotices \subseteq Sent(t) \cup fresh[t]
                          /\ digest[t] \subseteq Sent(t)
  /\ pc[t] \in After => ctl[t].deliveredNotices \subseteq Sent(t)
  /\ pc[t] = "marking" =>
        /\ digest[t] \subseteq Sent(t)
        /\ \A r \in marks[t] : \E n \in Texts[r] : n \in Sent(t)

(* All the guidance the turn drained rode in its latest request, unless     *)
(* that one was cut, or there is something left that makes it send another. *)
Heard(t) ==
  ~dropped[t] =>
    /\ pc[t] \in After \cup {"drained"} => ctl[t].delivered \subseteq heard[t]
    /\ pc[t] \in Before \ {"built"} =>
          ctl[t].delivered \subseteq heard[t] \/ HasPending(ctl[t])

(* The tracker knows each row by a wording of that row.                     *)
Worded == \A e \in tracked : e[2][2] \in Texts[e[2][1]]

SentInv ==
  /\ \A t \in Turns : Shown(t) /\ Heard(t)
  /\ Worded

-----------------------------------------------------------------------------
(***************************************************************************)
(* What is sent, for any clients.                                          *)
(***************************************************************************)
\* What a turn's own steps do to the record of what its requests carried.
LEMMA OwnCarries ==
  ASSUME TypeOK, NEW t \in Turns, OwnStep(t)
  PROVE  /\ Leave(t) => heard'[t] = {} /\ cutOff'[t] = {} /\ ~dropped'[t]
         /\ Connect(t) => /\ heard'[t] = ctl[t].delivered /\ cutOff'[t] = cutOff[t]
                          /\ ~dropped'[t]
         /\ CutDispatch(t) => cutOff'[t] = cutOff[t] \cup fresh[t] /\ dropped'[t]
         /\ ~Leave(t) /\ ~Connect(t) /\ ~CutDispatch(t) =>
              /\ heard'[t] = heard[t] /\ cutOff'[t] = cutOff[t]
              /\ dropped'[t] = dropped[t]
<1> USE DEF loopVars, catchVars, rowVars, handVars, guideVars, seenVars
<1>0. /\ heard \in [Turns -> SUBSET Guides] /\ cutOff \in [Turns -> SUBSET Notices]
      /\ dropped \in [Turns -> BOOLEAN]
  BY DEF TypeOK, Types
<1>1. Leave(t) => heard'[t] = {} /\ cutOff'[t] = {} /\ ~dropped'[t]
  BY <1>0 DEF Leave
<1>2. Connect(t) => /\ heard'[t] = ctl[t].delivered /\ cutOff'[t] = cutOff[t]
                    /\ ~dropped'[t]
  BY <1>0 DEF Connect
<1>3. CutDispatch(t) => cutOff'[t] = cutOff[t] \cup fresh[t] /\ dropped'[t]
  BY <1>0 DEF CutDispatch
<1>4. ~Leave(t) /\ ~Connect(t) /\ ~CutDispatch(t) =>
        UNCHANGED <<heard, cutOff, dropped>>
  BY DEF OwnStep, Start, CatchUpLookup, CatchUpRead, CatchUpTrack, CatchUpDone, Fail,
     Step, Drain, Proceed, Redrain, Take, Arm, GapCheck, Mark, StreamNext, StreamStop,
     Close
<1> QED
  BY <1>1, <1>2, <1>3, <1>4

\* A turn that keeps its place has as much sent, and as much pending.
LEMMA KeptShows ==
  ASSUME NEW s \in Turns, Shown(s), Heard(s),
         pc'[s] = pc[s], fresh'[s] = fresh[s], digest'[s] = digest[s],
         marks'[s] = marks[s], told'[s] = told[s], heard'[s] = heard[s],
         cutOff'[s] = cutOff[s], dropped'[s] = dropped[s], Grew(ctl[s], ctl'[s])
  PROVE  Shown(s)' /\ Heard(s)'
<1>1. /\ ctl'[s].deliveredNotices = ctl[s].deliveredNotices
      /\ ctl'[s].unshown = ctl[s].unshown
      /\ ctl'[s].delivered = ctl[s].delivered
      /\ HasPending(ctl[s]) => HasPending(ctl'[s])
  BY DEF Grew
<1>2. Shown(s)'
  BY <1>1 DEF Shown, Sent
<1>3. Heard(s)'
  BY <1>1 DEF Heard
<1> QED
  BY <1>2, <1>3

LEMMA OwnShows ==
  ASSUME TypeOK, Worded, NEW t \in Turns, OwnStep(t), Telling(t), Shown(t), Heard(t)
  PROVE  Shown(t)' /\ Heard(t)'
<1> USE DEF Before, Sending, After, Sent
<1> DEFINE c == ctl[t]
           Goal == Shown(t)' /\ Heard(t)'
<1>0. /\ c \in Control /\ fresh[t] \in SUBSET Notices /\ told[t] \in SUBSET Notices
      /\ cutOff[t] \in SUBSET Notices /\ Types
  BY DEF TypeOK, Types
<1>a. pc[t] \notin {"dispatch", "final", "failed"} =>
        heard'[t] = heard[t] /\ cutOff'[t] = cutOff[t] /\ dropped'[t] = dropped[t]
  BY OwnCarries DEF Leave, Connect, CutDispatch
<1>1. Start(t) \/ CatchUpLookup(t) \/ CatchUpRead(t) \/ CatchUpTrack(t) \/ CatchUpDone(t)
        \/ Proceed(t) => Goal
  <2> SUFFICES ASSUME Start(t) \/ CatchUpLookup(t) \/ CatchUpRead(t) \/ CatchUpTrack(t)
                        \/ CatchUpDone(t) \/ Proceed(t)
               PROVE  Goal
    OBVIOUS
  <2>1. /\ pc[t] \in Before \ {"built"} /\ pc'[t] \in Before \ {"drained"}
        /\ ctl'[t] = c /\ told'[t] = told[t]
    BY OwnSees DEF Sees
  <2>2. Shown(t)'
    BY <1>a, <2>1 DEF Shown
  <2>3. Heard(t)'
    BY <1>a, <2>1 DEF Heard
  <2> QED
    BY <2>2, <2>3
<1>2. Fail(t) => Goal
  BY OwnSees DEF Sees, Shown, Heard
<1>3. Leave(t) => Goal
  <2> SUFFICES ASSUME Leave(t) PROVE Goal
    OBVIOUS
  <2>1. pc'[t] = "idle" /\ ctl'[t] = NewLoopControl /\ told'[t] = {}
    BY OwnSees DEF Sees
  <2>2. /\ ctl'[t].deliveredNotices = {} /\ ctl'[t].unshown = {}
        /\ ctl'[t].delivered = {}
    BY <2>1 DEF NewLoopControl
  <2> QED
    BY <1>a, <2>1, <2>2 DEF Shown, Heard
<1>4. Drain(t) \/ Redrain(t) => Goal
  <2> SUFFICES ASSUME Drain(t) \/ Redrain(t) PROVE Goal
    OBVIOUS
  <2>1. /\ pc[t] \in {"top", "drained"} /\ told'[t] = told[t]
        /\ pc'[t] = IF HasPending(c) THEN "built"
                    ELSE IF pc[t] = "top" THEN "drained" ELSE "final"
        /\ \E B \in SUBSET Queued(c) : Drained(c, B, ctl'[t])
    BY OwnSees DEF Sees
  <2>2. PICK B \in SUBSET Queued(c) : Drained(c, B, ctl'[t])
    BY <2>1
  <2>3. /\ ctl'[t].deliveredNotices = c.deliveredNotices \cup B
        /\ ctl'[t].unshown = c.unshown \cup B
        /\ ctl'[t].delivered = c.delivered \cup c.guidance
        /\ ~HasPending(c) => B = {} /\ c.guidance = {}
    BY <2>2 DEF Drained
  <2>4. Shown(t)'
    BY <1>a, <2>1, <2>3 DEF Shown
  <2>5. Heard(t)'
    BY <1>a, <2>1, <2>3 DEF Heard
  <2> QED
    BY <2>4, <2>5
<1>5. Take(t) => Goal
  <2> SUFFICES ASSUME Take(t) PROVE Goal
    OBVIOUS
  <2>1. /\ pc[t] = "built" /\ pc'[t] = "taken" /\ ctl'[t] = Taken(c)
        /\ fresh'[t] = Fresh(c) /\ digest'[t] = Digest(c) /\ told'[t] = told[t]
    BY OwnSees DEF Sees
  <2>2. /\ fresh'[t] = c.unshown /\ digest'[t] = c.deliveredNotices \ c.unshown
        /\ ctl'[t].deliveredNotices = c.deliveredNotices
    BY <1>0, <2>1, TakenForm
  <2> QED
    BY <1>a, <2>1, <2>2 DEF Shown, Heard
<1>6. Arm(t) => Goal
  <2> SUFFICES ASSUME Arm(t) PROVE Goal
    OBVIOUS
  <2>1. /\ pc[t] = "taken" /\ pc'[t] = "armed" /\ ctl'[t] = SetStreamCancel(c)
        /\ fresh'[t] = fresh[t] /\ digest'[t] = digest[t] /\ told'[t] = told[t]
    BY OwnSees DEF Sees
  <2>2. ctl'[t].deliveredNotices = c.deliveredNotices
    BY <1>0, <2>1, StreamCancelSets DEF Grew
  <2> QED
    BY <1>a, <2>1, <2>2 DEF Shown, Heard
<1>7. GapCheck(t) => Goal
  <2> SUFFICES ASSUME GapCheck(t) PROVE Goal
    OBVIOUS
  <2>1. pc[t] = "armed" /\ told'[t] = told[t]
    BY OwnSees DEF Sees
  <2>2. CASE HasPending(c)
    <3>1. pc'[t] = "top" /\ ctl'[t] = ClearStreamCancel(RestoreNotices(c, fresh[t]))
      BY <2>2, OwnSees DEF Sees
    <3>2. /\ ctl'[t].unshown = c.unshown \cup fresh[t]
          /\ ctl'[t].deliveredNotices = c.deliveredNotices
          /\ HasPending(ctl'[t])
      BY <1>0, <2>2, <3>1, RestoredForm
    <3> QED
      BY <1>a, <2>1, <3>1, <3>2 DEF Shown, Heard
  <2>3. CASE ~HasPending(c)
    <3>1. /\ pc'[t] = "dispatch" /\ ctl'[t] = c /\ fresh'[t] = fresh[t]
          /\ digest'[t] = digest[t]
      BY <2>3, OwnSees DEF Sees
    <3> QED
      BY <1>a, <2>1, <3>1 DEF Shown, Heard
  <2> QED
    BY <2>2, <2>3
<1>8. Connect(t) => Goal
  <2> SUFFICES ASSUME Connect(t) PROVE Goal
    OBVIOUS
  <2>1. /\ pc[t] = "dispatch" /\ pc'[t] = "marking" /\ ctl'[t] = c
        /\ digest'[t] = digest[t] /\ told'[t] = told[t] \cup fresh[t]
    BY OwnSees DEF Sees
  <2>2. heard'[t] = c.delivered /\ cutOff'[t] = cutOff[t]
    BY OwnCarries
  <2>3. \A r \in marks'[t] : \E n \in Texts[r] : n \in fresh[t] \cup digest[t]
    <3>1. marks'[t] = { r \in Reports : \E n \in Carried(t) : <<t, <<r, n>>>> \in tracked }
      BY <1>0 DEF Connect, Types
    <3>2. \A r, n : <<t, <<r, n>>>> \in tracked => n \in Texts[r]
      BY DEF Worded
    <3> QED
      BY <3>1, <3>2 DEF Carried
  <2>4. Shown(t)'
    BY <2>1, <2>2, <2>3 DEF Shown
  <2> QED
    BY <2>1, <2>2, <2>4 DEF Heard
<1>9. Mark(t) \/ StreamStop(t) => Goal
  <2> SUFFICES ASSUME Mark(t) \/ StreamStop(t) PROVE Goal
    OBVIOUS
  <2>1. /\ pc[t] \in {"marking", "streaming"} /\ pc'[t] \in {"streaming", "closing"}
        /\ ctl'[t] = c /\ told'[t] = told[t]
    BY OwnSees DEF Sees
  <2>2. Shown(t)'
    BY <1>a, <2>1 DEF Shown
  <2> QED
    BY <1>a, <2>1, <2>2 DEF Heard
<1>10. CutDispatch(t) => Goal
  <2> SUFFICES ASSUME CutDispatch(t) PROVE Goal
    OBVIOUS
  <2>1. /\ pc[t] = "dispatch" /\ pc'[t] = "closing" /\ ctl'[t] = c
        /\ told'[t] = told[t]
    BY OwnSees DEF Sees
  <2>2. cutOff'[t] = cutOff[t] \cup fresh[t] /\ dropped'[t]
    BY OwnCarries
  <2>3. Shown(t)'
    BY <2>1, <2>2 DEF Shown
  <2> QED
    BY <2>2, <2>3 DEF Heard
<1>11. StreamNext(t) \/ Close(t) => Goal
  <2> SUFFICES ASSUME StreamNext(t) \/ Close(t) PROVE Goal
    OBVIOUS
  <2>1. /\ pc[t] \in {"streaming", "closing"} /\ pc'[t] \in {"top", "final"}
        /\ ctl'[t] = ClearStreamCancel(c) /\ told'[t] = told[t]
    BY OwnSees DEF Sees
  <2>2. /\ ctl'[t].deliveredNotices = c.deliveredNotices
        /\ ctl'[t].unshown = c.unshown /\ ctl'[t].delivered = c.delivered
    BY <1>0, <2>1, StreamCancelSets DEF Grew
  <2>3. c.unshown = {}
    BY <2>1 DEF Telling
  <2>4. Shown(t)'
    BY <1>a, <2>1, <2>2, <2>3 DEF Shown
  <2> QED
    BY <1>a, <2>1, <2>2, <2>4 DEF Heard
<1> QED
  BY <1>1, <1>2, <1>3, <1>4, <1>5, <1>6, <1>7, <1>8, <1>9, <1>10, <1>11 DEF OwnStep, Step

\* Whoever tracks a row worded it himself.
LEMMA WordedStep ==
  ASSUME TypeOK, \A t \in Turns : Catching(t), Worded, [Next]_vars
  PROVE  Worded'
<1> USE DEF loopVars, catchVars, rowVars, handVars, guideVars, seenVars
<1>1. ASSUME NEW t \in Turns, NEW rs, tracked' = Tracked(t, rs),
             \A e \in rs : e[2] \in Texts[e[1]]
      PROVE  Worded'
  BY <1>1 DEF Worded, Tracked
<1>2. ASSUME tracked' \subseteq tracked PROVE Worded'
  BY <1>2 DEF Worded
<1>3. ASSUME NEW r \in Reports, Track(r) PROVE Worded'
  <2>1. handTo[r][1] \in Turns /\ handTo[r][2] \in Texts[r]
    BY <1>3 DEF Track, TypeOK, Holders
  <2>2. tracked' = Tracked(handTo[r][1], {<<r, handTo[r][2]>>})
    BY <1>3 DEF Track
  <2> QED
    BY <1>1, <2>1, <2>2
<1>4. ASSUME NEW t \in Turns, CatchUpTrack(t) PROVE Worded'
  <2>1. into[t] \in Turns /\ \A e \in cur[t] : e[2] \in Texts[e[1]]
    BY <1>4 DEF CatchUpTrack, TypeOK, Holders, Catching
  <2>2. tracked' = Tracked(into[t], cur[t])
    BY <1>4 DEF CatchUpTrack
  <2> QED
    BY <1>1, <2>1, <2>2
<1>5. ASSUME ~\E r \in Reports : Track(r), ~\E t \in Turns : CatchUpTrack(t)
      PROVE  tracked' \subseteq tracked
  BY <1>5 DEF Next, vars, Start, Prologue, CatchUpLookup, CatchUpRead, CatchUpPush,
     CatchUpDone, Step, Drain, Proceed, Redrain, Take, Arm, GapCheck, Connect, Mark,
     CutDispatch, StreamNext, StreamStop, Close, Fail, Leave, Reporter, Complete,
     Lookup, Push, Guidance, GuidanceLookup, GuidancePush, GuidanceCancel, Abort, Crash
<1> QED
  BY <1>2, <1>3, <1>4, <1>5

(***************************************************************************)
(* The invariant, for any clients.                                         *)
(***************************************************************************)
LEMMA SentInit == Init => SentInv
<1>0. Init => Worded
  BY DEF Init, Worded
<1> SUFFICES ASSUME Init, NEW t \in Turns PROVE Shown(t) /\ Heard(t)
  BY <1>0 DEF SentInv
<1>1. pc[t] = "idle" /\ ctl[t] = NewLoopControl
  BY DEF Init, Each
<1>2. ctl[t].deliveredNotices = {} /\ ctl[t].unshown = {} /\ ctl[t].delivered = {}
  BY <1>1 DEF NewLoopControl
<1> QED
  BY <1>1, <1>2 DEF Shown, Heard, Before, Sending, After

LEMMA SentStep ==
  ASSUME IInv, SentInv, [Next]_vars
  PROVE  SentInv'
<1>0. /\ TypeOK /\ Worded
      /\ \A t \in Turns : Telling(t) /\ Catching(t) /\ Shown(t) /\ Heard(t)
  BY DEF IInv, SentInv
<1>w. Worded'
  BY <1>0, WordedStep
<1> SUFFICES ASSUME NEW s \in Turns PROVE Shown(s)' /\ Heard(s)'
  BY <1>w DEF SentInv
<1>1. ASSUME NEW t \in Turns, OwnStep(t) PROVE Shown(s)' /\ Heard(s)'
  <2>1. CASE s = t
    BY <1>0, <1>1, <2>1, OwnShows
  <2>2. CASE s # t
    <3>1. Kept(s)
      BY <1>0, <1>1, <2>2, OthersKept
    <3> QED
      BY <1>0, <3>1, KeptShows DEF Kept
  <2> QED
    BY <2>1, <2>2
<1>2. ASSUME NEW t \in Turns, CatchUpPush(t) PROVE Shown(s)' /\ Heard(s)'
  <2>1. /\ pc'[s] = pc[s] /\ fresh'[s] = fresh[s] /\ digest'[s] = digest[s]
        /\ marks'[s] = marks[s] /\ told'[s] = told[s] /\ heard'[s] = heard[s]
        /\ cutOff'[s] = cutOff[s] /\ dropped'[s] = dropped[s] /\ Grew(ctl[s], ctl'[s])
    BY <1>0, <1>2, CatchUpPushKeeps
  <2> QED
    BY <1>0, <2>1, KeptShows
<1>3. CASE OutsideStep
  <2>1. Kept(s)
    BY <1>0, <1>3, OutsideKept
  <2> QED
    BY <1>0, <2>1, KeptShows DEF Kept
<1>4. CASE Crash
  <2>1. pc'[s] = "idle" /\ ctl'[s] = NewLoopControl
    BY <1>4 DEF Crash, Each
  <2>2. ctl'[s].deliveredNotices = {} /\ ctl'[s].unshown = {} /\ ctl'[s].delivered = {}
    BY <2>1 DEF NewLoopControl
  <2> QED
    BY <2>1, <2>2 DEF Shown, Heard, Before, Sending, After
<1> QED
  BY <1>1, <1>2, <1>3, <1>4, NextCases

LEMMA SentInductive == Spec => [](IInv /\ SentInv)
<1>1. Init => IInv /\ SentInv
  BY IInvInit, SentInit
<1>2. IInv /\ SentInv /\ [Next]_vars => (IInv /\ SentInv)'
  BY IInvStep, SentStep
<1> QED
  BY <1>1, <1>2, PTL DEF Spec

\* Only a turn's marks stamp rows.
LEMMA OnlyMarksStamp ==
  ASSUME [Next]_vars, NEW r \in reported' \ reported
  PROVE  \E t \in Turns : Mark(t) /\ r \in marks[t]
<1> USE DEF loopVars, catchVars, rowVars, handVars, guideVars, seenVars
<1>1. PICK t \in Turns : Mark(t)
  BY DEF Next, vars, Start, Prologue, CatchUpLookup, CatchUpRead, CatchUpPush,
     CatchUpTrack, CatchUpDone, Step, Drain, Proceed, Redrain, Take, Arm, GapCheck,
     Connect, CutDispatch, StreamNext, StreamStop, Close, Fail, Leave, Reporter,
     Complete, Lookup, Push, Track, Guidance, GuidanceLookup, GuidancePush,
     GuidanceCancel, Abort, Crash
<1> QED
  BY <1>1 DEF Mark

(* A row is stamped only once its full text rode in a request of a turn     *)
(* that has not left, one that landed or one that guidance cut on its way   *)
(* (BoardNoticesDelivered; the wind-down of a cut dispatch).               *)
THEOREM StampedWasSent == Spec => StampMeansSent
<1>1. SentInv /\ [Next]_vars =>
        [\A r \in reported' \ reported :
           \E t \in Turns, n \in Texts[r] : n \in told[t] \cup cutOff[t]]_vars
  <2> SUFFICES ASSUME SentInv, [Next]_vars, NEW r \in reported' \ reported
               PROVE  \E t \in Turns, n \in Texts[r] : n \in told[t] \cup cutOff[t]
    OBVIOUS
  <2>1. PICK t \in Turns : Mark(t) /\ r \in marks[t]
    BY OnlyMarksStamp
  <2>2. pc[t] = "marking" /\ Shown(t)
    BY <2>1 DEF Mark, SentInv
  <2> QED
    BY <2>1, <2>2 DEF Shown, Sent
<1> QED
  BY <1>1, SentInductive, PTL DEF Spec, StampMeansSent

(* A notice is headlined untold, or left untold by a turn that ends         *)
(* normally, only if it rode in full in a request that guidance cut: the    *)
(* cap of a batch, the pre-stream gap and the second drain lose none.      *)
THEOREM OnlyCutsLose == Spec => []OnlyCutsLoseReports
<1>1. SentInv => OnlyCutsLoseReports
  BY DEF SentInv, Shown, Sent, OnlyCutsLoseReports, After
<1> QED
  BY <1>1, SentInductive, PTL

(* A turn that ends normally has sent every guidance text it drained,       *)
(* unless its very last request was cut (handleGuidance's cancel landing on *)
(* the request that was built with its text).                              *)
THEOREM OnlyTheLastCutLoses == Spec => []OnlyLastCutLosesGuidance
<1>1. SentInv => OnlyLastCutLosesGuidance
  BY DEF SentInv, Heard, OnlyLastCutLosesGuidance, After
<1> QED
  BY <1>1, SentInductive, PTL

-----------------------------------------------------------------------------
(***************************************************************************)
(* While no client asks for a cancel.                                      *)
(***************************************************************************)
TextOnly == GuidanceKinds \subseteq {"text"}

(* Without a cancel no stream, and so no request, is ever cut. *)
NoCuts ==
  /\ \A t \in Turns : ~cut[t] /\ cutOff[t] = {} /\ ~dropped[t]
  /\ \A g \in Guides : /\ guide[g] # "pushed"
                       /\ guide[g] = "found" => guideTo[g][2] = "text"

(* What a turn told was read; so no stamp and no headline is untold. *)
TextInv ==
  /\ NoCuts
  /\ \A t \in Turns : told[t] \subseteq read
  /\ StampMeansRead

LEMMA NoCutsStep ==
  ASSUME TextOnly, TypeOK, NoCuts, [Next]_vars
  PROVE  NoCuts'
<1> USE DEF loopVars, catchVars, rowVars, handVars, guideVars, seenVars, Goto
<1>0. Types
  BY DEF TypeOK
<1> DEFINE Asked == \A g \in Guides : /\ guide[g] # "pushed"
                                      /\ guide[g] = "found" => guideTo[g][2] = "text"
<1>1. ASSUME NEW t \in Turns, OwnStep(t) PROVE NoCuts'
  <2>1. guide' = guide /\ guideTo' = guideTo
    BY <1>1 DEF OwnStep, Start, CatchUpLookup, CatchUpRead, CatchUpTrack, CatchUpDone,
       Fail, Leave, Step, Drain, Proceed, Redrain, Take, Arm, GapCheck, Connect, Mark,
       CutDispatch, StreamNext, StreamStop, Close
  <2>2. cut' = cut \/ cut' = [cut EXCEPT ![t] = FALSE]
    BY <1>1 DEF OwnStep, Start, CatchUpLookup, CatchUpRead, CatchUpTrack, CatchUpDone,
       Fail, Leave, Step, Drain, Proceed, Redrain, Take, Arm, GapCheck, Connect, Mark,
       CutDispatch, StreamNext, StreamStop, Close
  <2>3. \A s \in Turns : ~cut'[s]
    BY <1>0, <2>2 DEF NoCuts, Types
  <2>4. ~CutDispatch(t)
    BY DEF CutDispatch, NoCuts
  <2>5. ASSUME NEW s \in Turns PROVE cutOff'[s] = {} /\ ~dropped'[s]
    <3>1. CASE s = t
      BY <1>1, <2>4, <3>1, OwnCarries DEF NoCuts
    <3>2. CASE s # t
      BY <1>1, <3>2, OthersKept DEF Kept, NoCuts
    <3> QED
      BY <3>1, <3>2
  <2> QED
    BY <2>1, <2>3, <2>5 DEF NoCuts
<1>2. ASSUME NEW t \in Turns, CatchUpPush(t) PROVE NoCuts'
  BY <1>2 DEF CatchUpPush, NoCuts
<1>3. ASSUME OutsideStep, ~\E g \in Guides : Guidance(g) PROVE NoCuts'
  <2>1. UNCHANGED <<cut, guide, guideTo, cutOff, dropped>>
    BY <1>3 DEF OutsideStep, Reporter, Complete, Lookup, Push, Track, Abort, vars
  <2> QED
    BY <2>1 DEF NoCuts
<1>4. ASSUME NEW g \in Guides, Guidance(g) PROVE NoCuts'
  <2>1. UNCHANGED <<cut, cutOff, dropped>>
    BY <1>4 DEF Guidance, GuidanceLookup, GuidancePush, GuidanceCancel, NoCuts
  <2>2. \A h \in Guides : h # g => guide'[h] = guide[h] /\ guideTo'[h] = guideTo[h]
    BY <1>0, <1>4 DEF Guidance, GuidanceLookup, GuidancePush, GuidanceCancel, Types
  <2>3. /\ guide'[g] # "pushed"
        /\ guide'[g] = "found" => guideTo'[g][2] = "text"
    <3>1. CASE GuidanceLookup(g)
      <4>1. CASE guide' = [guide EXCEPT ![g] = "refused"]
        BY <1>0, <4>1 DEF Types
      <4>2. ASSUME NEW k \in GuidanceKinds, guide' = [guide EXCEPT ![g] = "found"],
                   guideTo' = [guideTo EXCEPT ![g] = <<live, k>>]
            PROVE  guide'[g] = "found" /\ guideTo'[g][2] = "text"
        <5>1. guideTo'[g] = <<live, k>> /\ guide'[g] = "found"
          BY <1>0, <4>2 DEF Types
        <5>2. k = "text"
          BY DEF TextOnly
        <5> QED
          BY <5>1, <5>2
      <4> QED
        BY <3>1, <4>1, <4>2 DEF GuidanceLookup
    <3>2. CASE GuidancePush(g)
      <4>1. guideTo[g][2] = "text"
        BY <3>2 DEF GuidancePush, NoCuts
      <4> QED
        BY <1>0, <3>2, <4>1 DEF GuidancePush, Types
    <3>3. CASE GuidanceCancel(g)
      BY <3>3 DEF GuidanceCancel, NoCuts
    <3> QED
      BY <1>4, <3>1, <3>2, <3>3 DEF Guidance
  <2> QED
    BY <2>1, <2>2, <2>3 DEF NoCuts
<1>5. CASE Crash
  BY <1>5 DEF Crash, Each, NoCuts
<1> QED
  BY <1>1, <1>2, <1>3, <1>4, <1>5, NextCases

\* What was read stays read, and a turn tells only what it reads.
LEMMA ReadGrows ==
  ASSUME TypeOK, \A t \in Turns : told[t] \subseteq read, [Next]_vars
  PROVE  /\ read \subseteq read'
         /\ \A t \in Turns : told'[t] \subseteq read'
<1> USE DEF loopVars, catchVars, rowVars, handVars, guideVars, seenVars
<1>0. Types
  BY DEF TypeOK
<1>1. ASSUME NEW t \in Turns, Connect(t)
      PROVE  /\ read \subseteq read'
             /\ \A s \in Turns : told'[s] \subseteq read'
  BY <1>0, <1>1 DEF Connect, Types
<1>2. ASSUME NEW t \in Turns, Leave(t)
      PROVE  /\ read \subseteq read'
             /\ \A s \in Turns : told'[s] \subseteq read'
  BY <1>0, <1>2 DEF Leave, Types
<1>3. CASE Crash
  BY <1>3 DEF Crash, Each
<1>4. ASSUME ~Crash, ~\E t \in Turns : Connect(t) \/ Leave(t)
      PROVE  UNCHANGED <<told, read>>
  BY <1>4 DEF Next, vars, Start, Prologue, CatchUpLookup, CatchUpRead, CatchUpPush,
     CatchUpTrack, CatchUpDone, Step, Drain, Proceed, Redrain, Take, Arm, GapCheck,
     Mark, CutDispatch, StreamNext, StreamStop, Close, Fail, Reporter, Complete,
     Lookup, Push, Track, Guidance, GuidanceLookup, GuidancePush, GuidanceCancel,
     Abort
<1> QED
  BY <1>1, <1>2, <1>3, <1>4

LEMMA TextInvInit == Init => TextInv
BY DEF Init, Each, TextInv, NoCuts, StampMeansRead

LEMMA TextInvStep ==
  ASSUME TextOnly, IInv, SentInv, TextInv, [Next]_vars
  PROVE  TextInv'
<1>0. TypeOK
  BY DEF IInv
<1>1. NoCuts'
  BY <1>0, NoCutsStep DEF TextInv
<1>2. read \subseteq read' /\ \A t \in Turns : told'[t] \subseteq read'
  BY <1>0, ReadGrows DEF TextInv
<1>3. ASSUME NEW r \in reported' PROVE \E n \in Texts[r] : n \in read
  <2>1. CASE r \in reported
    BY <2>1 DEF TextInv, StampMeansRead
  <2>2. CASE r \notin reported
    <3>1. PICK t \in Turns : Mark(t) /\ r \in marks[t]
      BY <2>2, OnlyMarksStamp
    <3>2. \E n \in Texts[r] : n \in Sent(t)
      BY <3>1 DEF Mark, SentInv, Shown
    <3>3. cutOff[t] = {} /\ told[t] \subseteq read
      BY DEF TextInv, NoCuts
    <3> QED
      BY <3>2, <3>3 DEF Sent
  <2> QED
    BY <2>1, <2>2
<1> QED
  BY <1>1, <1>2, <1>3 DEF TextInv, StampMeansRead

LEMMA TextInductive ==
  ASSUME TextOnly
  PROVE  Spec => [](SentInv /\ TextInv)
<1>1. Init => IInv /\ SentInv /\ TextInv
  BY IInvInit, SentInit, TextInvInit
<1>2. IInv /\ SentInv /\ TextInv /\ [Next]_vars => (IInv /\ SentInv /\ TextInv)'
  BY IInvStep, SentStep, TextInvStep
<1> QED
  BY <1>1, <1>2, PTL DEF Spec

(* While guidance is text only, a row is stamped only if a dispatched       *)
(* request carried its full text (BoardNoticesDelivered).                  *)
THEOREM StampedWasRead ==
  ASSUME TextOnly
  PROVE  Spec => []StampMeansRead
<1>1. TextInv => StampMeansRead
  BY DEF TextInv
<1> QED
  BY <1>1, TextInductive, PTL

(* While guidance is text only, a request carries a notice as a headline    *)
(* only if an earlier request of the turn carried its full text             *)
(* (TakeNoticesForInjection, RestoreNotices).                              *)
THEOREM TextBeforeHeadline ==
  ASSUME TextOnly
  PROVE  Spec => []HeadlineAfterText
<1>1. SentInv /\ TextInv => HeadlineAfterText
  BY DEF SentInv, TextInv, NoCuts, Shown, Sent, HeadlineAfterText
<1> QED
  BY <1>1, TextInductive, PTL

(* While guidance is text only, a turn that ends normally has told the      *)
(* model every notice it drained (the second drain of runLoop, the pre-     *)
(* stream gap and the check at the end of the step lose none).             *)
THEOREM ToldAtEnd ==
  ASSUME TextOnly
  PROVE  Spec => []NoticesToldAtEnd
<1>1. SentInv /\ TextInv => NoticesToldAtEnd
  BY DEF SentInv, TextInv, NoCuts, Shown, Sent, NoticesToldAtEnd, After
<1> QED
  BY <1>1, TextInductive, PTL

(* While guidance is text only, a turn that ends normally has sent every    *)
(* guidance text it drained.                                               *)
THEOREM GuidanceHeardAtEnd ==
  ASSUME TextOnly
  PROVE  Spec => []DrainedGuidanceHeard
<1>1. SentInv /\ TextInv => DrainedGuidanceHeard
  BY DEF SentInv, TextInv, NoCuts, Heard, DrainedGuidanceHeard, After
<1> QED
  BY <1>1, TextInductive, PTL

=============================================================================
