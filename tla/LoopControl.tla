----------------------------- MODULE LoopControl -----------------------------
(***************************************************************************)
(* The side channel of one running turn: agent.LoopControl                 *)
(* (internal/agent/loop_control.go).  One control exists per turn; its     *)
(* mutex makes every method below one atomic step of whoever calls it.     *)
(*                                                                         *)
(* A control is a record and every method an operator from a control to    *)
(* the control it leaves behind.  A notice is its text, which is all the   *)
(* code compares; its Headline is "the same text, first line only", which  *)
(* the callers keep apart by the set they put it in.                       *)
(***************************************************************************)
EXTENDS Naturals, Sequences, FiniteSets

CONSTANTS
  Notices,     \* texts of notices: teammate completions, reminders
  Guides,      \* guidance requests a user can send while a turn runs
  NoticeCap    \* maxNoticesPerInjection

ASSUME NoticeCapAssumption == NoticeCap \in Nat \ {0}

Control ==
  [ guidance         : SUBSET Guides,     \* queued, not yet drained
    delivered        : SUBSET Guides,     \* drained: rides every later request
    notices          : Seq(Notices),      \* pushed, not yet drained
    deliveredNotices : SUBSET Notices,    \* drained at some step of this turn
    unshown          : SUBSET Notices,    \* drained, not yet taken by a request
    streamCancel     : BOOLEAN ]          \* is a stream's cancel registered

NewLoopControl ==
  [ guidance |-> {}, delivered |-> {}, notices |-> << >>,
    deliveredNotices |-> {}, unshown |-> {}, streamCancel |-> FALSE ]

(* The notices still waiting in the queue. *)
Queued(c) == { c.notices[i] : i \in DOMAIN c.notices }

HasPending(c) == c.guidance # {} \/ c.notices # << >>

PushGuidance(c, g) == [c EXCEPT !.guidance = @ \cup {g}]

(* All of it at once; drained guidance accumulates for the whole turn. *)
DrainGuidance(c) ==
  [c EXCEPT !.delivered = @ \cup c.guidance, !.guidance = {}]

(* A text is injected at most once per turn: one already queued or already *)
(* drained is dropped.  Mutant: only the queue is searched.                *)
PushNoticeQueueOnly(c, n) ==
  IF n \in Queued(c) THEN c ELSE [c EXCEPT !.notices = Append(@, n)]
PushNotice(c, n) ==
  IF n \in Queued(c) \cup c.deliveredNotices
    THEN c
    ELSE [c EXCEPT !.notices = Append(@, n)]

(* How many notices one drain may take: up to NoticeCap, fewer when the    *)
(* byte budget runs out first, never none while any is queued.             *)
BatchSizes(c) ==
  IF c.notices = << >>
    THEN {0}
    ELSE { k \in 1 .. NoticeCap : k <= Len(c.notices) }

DrainNotices(c, k) ==
  LET batch == { c.notices[i] : i \in 1 .. k }
  IN  [c EXCEPT !.deliveredNotices = @ \cup batch,
                !.unshown          = @ \cup batch,
                !.notices          = SubSeq(@, k + 1, Len(@))]

(* TakeNoticesForInjection: what the next request carries in full, what it *)
(* carries as headlines only, and the control after the take.              *)
Fresh(c)  == c.unshown
Digest(c) == c.deliveredNotices \ c.unshown
Taken(c)  == [c EXCEPT !.unshown = {}]

(* Put back what a step took and never sent.  Mutant: forget to. *)
RestoreNoticesNot(c, fresh) == c
RestoreNotices(c, fresh) == [c EXCEPT !.unshown = @ \cup fresh]

(* Mutant: the stream's cancel stays registered when the stream is over.   *)
KeepStreamCancel(c)  == c
SetStreamCancel(c)   == [c EXCEPT !.streamCancel = TRUE]
ClearStreamCancel(c) == [c EXCEPT !.streamCancel = FALSE]

=============================================================================
