--------------------------- MODULE Approvals_proofs ---------------------------
(***************************************************************************)
(* Proofs about Approvals, for any number of sessions, calls, pages,       *)
(* targets, requests and events: types first, then what consent is worth.  *)
(***************************************************************************)
EXTENDS Approvals, SequenceTheorems, TLAPS

USE ApprovalsAssumption

Event == [type : {"requested", "replied"}, at : Sessions, req : Asks]
Blocking == {"announce", "mirror", "wait"}
Closing == {"retract", "unmirror"}

(* A call knows the request it made.                                        *)
Requests == \A c \in Calls :
    /\ call[c].req # 0 => /\ call[c].req \in 1 .. Len(asked)
                          /\ asked[call[c].req] = [call |-> c, target |-> call[c].target]
    /\ call[c].pc \in Blocking \cup Closing => call[c].req # 0

(* An answer fits the kind of its request, wherever it is.                  *)
Fits ==
    /\ \A post \in posts : post.req \in 1 .. Len(asked) /\ post.answer \in Answers(post.req)
    /\ \A q \in Asks : ch[q] # None => q \in 1 .. Len(asked) /\ ch[q] \in Answers(q)
    /\ \A q \in sending : q \in 1 .. Len(asked) /\ said[q] \in Answers(q)

TypeInv == TypeOK /\ Requests /\ Fits

-------------------------------------------------------------------------------
LEMMA IdleType == Idle \in CallRecord
BY DEF Idle, CallRecord

(* One call is given a record, or moves to another place.                   *)
LEMMA Placed ==
  ASSUME call \in [Calls -> CallRecord], NEW c \in Calls, NEW r \in CallRecord,
         call' = [call EXCEPT ![c] = r]
  PROVE  /\ call' \in [Calls -> CallRecord]
         /\ call'[c] = r
         /\ \A d \in Calls : d # c => call'[d] = call[d]
OBVIOUS

LEMMA Moved ==
  ASSUME call \in [Calls -> CallRecord], NEW c \in Calls,
         NEW pc \in {"idle", "ask", "announce", "mirror", "wait", "retract", "unmirror", "run"},
         call' = [call EXCEPT ![c].pc = pc]
  PROVE  /\ call' \in [Calls -> CallRecord]
         /\ call'[c].pc = pc /\ call'[c].req = call[c].req
         /\ call'[c].target = call[c].target
         /\ \A d \in Calls : d # c => call'[d] = call[d]
<1> DEFINE r == [call[c] EXCEPT !.pc = pc]
<1>1. call[c] \in CallRecord
  OBVIOUS
<1>2. r \in CallRecord /\ r.pc = pc /\ r.req = call[c].req /\ r.target = call[c].target
  BY <1>1 DEF CallRecord
<1>3. call' = [call EXCEPT ![c] = r]
  OBVIOUS
<1> HIDE DEF r
<1>4. /\ call' \in [Calls -> CallRecord]
      /\ call'[c] = r
      /\ \A d \in Calls : d # c => call'[d] = call[d]
  BY <1>2, <1>3, Placed
<1> QED
  BY <1>2, <1>4

TearsTyped ==
    /\ lost \subseteq Pages \X Sessions \X Asks
    /\ since \in [Pages -> [Fetches -> SUBSET Asks]]

(* What Requests says of the calls survives both.                           *)
LEMMA RequestsKept ==
  ASSUME Requests, NEW c \in Calls, UNCHANGED asked,
         \A d \in Calls : d # c => call'[d] = call[d],
         \/ call'[c].req = 0 /\ call'[c].pc \notin Blocking \cup Closing
         \/ call'[c].req = call[c].req /\ call'[c].target = call[c].target /\ call[c].req # 0
  PROVE  Requests'
BY DEF Requests

(* What a step tears stays within the pages' views.                         *)
LEMMA TearTypes ==
  ASSUME PageTypes, NEW gap, gap \subseteq Pages \X Sessions \X Asks, Tear(gap)
  PROVE  TearsTyped'
<1>1. ASSUME NEW p \in Pages, NEW f \in Fetches
      PROVE  (IF fetch[p][f].at = "served"
              THEN since[p][f] \cup {q \in Asks : <<p, fetch[p][f].of, q>> \in gap}
              ELSE since[p][f]) \in SUBSET Asks
  BY DEF PageTypes
<1>2. since' \in [Pages -> [Fetches -> SUBSET Asks]]
  BY <1>1 DEF Tear
<1> QED
  BY <1>2 DEF Tear, PageTypes, TearsTyped

LEMMA PublishTypes ==
  ASSUME StreamTypes, PageTypes, NEW type \in {"requested", "replied"},
         NEW s \in Sessions, NEW q \in Asks, Publish(type, s, q)
  PROVE  /\ stream' \in [Pages -> Seq(Event)]
         /\ \A p \in Pages : Len(stream'[p]) <= BufSize
         /\ TearsTyped'
<1> DEFINE e == [type |-> type, at |-> s, req |-> q]
<1>1. e \in Event
  BY DEF Event
<1>2. ASSUME NEW p \in Pages
      PROVE  /\ (IF Hears(p) THEN Append(stream[p], e) ELSE stream[p]) \in Seq(Event)
             /\ Len(IF Hears(p) THEN Append(stream[p], e) ELSE stream[p]) <= BufSize
  <2>1. stream[p] \in Seq(Event) /\ Len(stream[p]) <= BufSize
    BY DEF StreamTypes, Event
  <2>2. /\ Append(stream[p], e) \in Seq(Event)
        /\ Len(Append(stream[p], e)) = Len(stream[p]) + 1
    BY <1>1, <2>1, AppendProperties
  <2>3. Len(stream[p]) \in Nat
    BY <2>1, LenProperties
  <2> QED
    BY <2>1, <2>2, <2>3 DEF Hears
<1>3. stream' = [p \in Pages |-> IF Hears(p) THEN Append(stream[p], e) ELSE stream[p]]
  BY DEF Publish
<1>4. TearsTyped'
  BY TearTypes DEF Publish
<1> QED
  BY <1>2, <1>3, <1>4

(* Init.                                                                    *)
LEMMA InitTypes == Init => TypeInv
<1> SUFFICES ASSUME Init PROVE TypeInv
  OBVIOUS
<1>1. ServerTypes
  BY IdleType DEF Init, ServerTypes, Replies, None
<1>2. StreamTypes
  BY DEF Init, StreamTypes
<1>3. PageTypes
  <2>1. NoFetch \in [at : {None, "asked", "served"}, of : Sessions \cup {None},
                      kind : {None, "permission", "question"},
                      list : SUBSET Asks, seen : SUBSET Asks]
    BY DEF NoFetch
  <2> QED
    BY <2>1 DEF Init, PageTypes, Sessions
<1>4. Requests
  BY DEF Init, Requests, Idle, Blocking, Closing
<1>5. Fits
  BY DEF Init, Fits
<1> QED
  BY <1>1, <1>2, <1>3, <1>4, <1>5 DEF TypeInv, TypeOK

-------------------------------------------------------------------------------
(* The calls.                                                               *)

LEMMA RunGrantedTypes ==
  ASSUME TypeInv, NEW c \in Calls, NEW t \in Targets, RunGranted(c, t)
  PROVE  TypeInv'
<1> USE DEF TypeInv, TypeOK
<1>1. ServerTypes'
  BY IdleType DEF RunGranted, ServerTypes, CallRecord, Idle, gate, server
<1>2. StreamTypes' /\ PageTypes' /\ Fits'
  BY DEF RunGranted, StreamTypes, PageTypes, Fits, Answers, Kind, server, client, tears
<1>3. Requests'
  BY DEF RunGranted, Requests, ServerTypes, Idle, Blocking, Closing, server
<1> QED
  BY <1>1, <1>2, <1>3

LEMMA EvaluateTypes ==
  ASSUME TypeInv, NEW c \in Calls, NEW t \in Targets \cup {Question}, Evaluate(c, t)
  PROVE  TypeInv'
<1> USE DEF TypeInv, TypeOK
<1>1. ServerTypes'
  BY IdleType DEF Evaluate, ServerTypes, CallRecord, Idle, gate, server
<1>2. StreamTypes' /\ PageTypes' /\ Fits'
  BY DEF Evaluate, StreamTypes, PageTypes, Fits, Answers, Kind, server, client, tears
<1>3. Requests'
  BY DEF Evaluate, Requests, ServerTypes, Idle, Blocking, Closing, server
<1> QED
  BY <1>1, <1>2, <1>3

LEMMA AskTypes ==
  ASSUME TypeInv, NEW c \in Calls, Ask(c)
  PROVE  TypeInv'
<1> DEFINE q == Len(asked) + 1
           t == call[c].target
           r == [call |-> c, target |-> t]
           l == [call[c] EXCEPT !.pc = "announce", !.req = q]
<1> USE DEF TypeInv, TypeOK
<1>1. /\ asked \in Seq([call : Calls, target : Targets \cup {Question}])
      /\ Len(asked) \in Nat
  BY LenProperties DEF ServerTypes
<1>2. /\ asked' = Append(asked, r)
      /\ q \in Asks /\ t \in Targets \cup {Question}
  BY <1>1 DEF Ask, Asks, ServerTypes, CallRecord
<1>3. /\ asked' \in Seq([call : Calls, target : Targets \cup {Question}])
      /\ Len(asked') = q
      /\ asked'[q] = r
      /\ \A i \in 1 .. Len(asked) : asked'[i] = asked[i]
  BY <1>1, <1>2, AppendProperties
<1>4. /\ call' \in [Calls -> CallRecord]
      /\ call'[c].req = q /\ call'[c].target = t
      /\ \A d \in Calls : d # c => call'[d] = call[d]
  <2>1. call[c] \in CallRecord
    BY DEF ServerTypes
  <2>2. l \in CallRecord /\ l.req = q /\ l.target = t
    BY <1>2, <2>1 DEF CallRecord
  <2>3. call' = [call EXCEPT ![c] = l]
    BY DEF Ask
  <2> HIDE DEF l
  <2> QED
    BY <2>2, <2>3, Placed DEF ServerTypes
<1>5. ServerTypes'
  <2>1. Len(asked') <= MaxAsks
    BY <1>2, <1>3 DEF Asks
  <2>2. pending' \subseteq Asks
    BY <1>2 DEF Ask, ServerTypes
  <2> QED
    BY <2>1, <2>2, <1>3, <1>4 DEF Ask, ServerTypes, gate
<1>6. StreamTypes' /\ PageTypes'
  BY DEF Ask, StreamTypes, PageTypes, client, tears
<1>7. Requests'
  <2> SUFFICES ASSUME NEW d \in Calls
               PROVE  /\ call'[d].req # 0 => /\ call'[d].req \in 1 .. Len(asked')
                                             /\ asked'[call'[d].req] = [call |-> d, target |-> call'[d].target]
                      /\ call'[d].pc \in Blocking \cup Closing => call'[d].req # 0
    BY Zenon DEF Requests
  <2>1. CASE d = c
    BY <2>1, <1>1, <1>2, <1>3, <1>4
  <2>2. CASE d # c
    <3>1. call'[d] = call[d]
      BY <2>2, <1>4
    <3>2. ASSUME NEW i \in 1 .. Len(asked) PROVE i \in 1 .. Len(asked')
      BY <1>1, <1>3
    <3> QED
      BY <3>1, <3>2, <1>3 DEF Requests
  <2> QED
    BY <2>1, <2>2
<1>8. Fits'
  <2>1. \A i \in 1 .. Len(asked) : i \in 1 .. Len(asked') /\ Answers(i)' = Answers(i)
    BY <1>1, <1>3 DEF Answers, Kind
  <2>2. UNCHANGED <<posts, ch, said, sending>>
    BY DEF Ask
  <2> QED
    BY <2>1, <2>2 DEF Fits
<1> QED
  BY <1>5, <1>6, <1>7, <1>8

LEMMA AskMoves ==
  ASSUME call \in [Calls -> CallRecord], NEW c \in Calls, Ask(c)
  PROVE  /\ call[c].pc = "ask"
         /\ call'[c].pc = "announce" /\ call'[c].req = Len(asked) + 1
         /\ \A d \in Calls : d # c => call'[d] = call[d]
<1> DEFINE l == [call[c] EXCEPT !.pc = "announce", !.req = Len(asked) + 1]
<1>1. l.pc = "announce" /\ l.req = Len(asked) + 1
  BY DEF CallRecord
<1>2. call[c].pc = "ask" /\ call' = [call EXCEPT ![c] = l]
  BY DEF Ask
<1> HIDE DEF l
<1> QED
  BY <1>1, <1>2

(* Announce, Mirror, Retract and Unmirror publish and move one call along.  *)
LEMMA MoveTypes ==
  ASSUME TypeInv, NEW c \in Calls,
         Announce(c) \/ Mirror(c) \/ Retract(c) \/ Unmirror(c)
  PROVE  TypeInv'
<1> USE DEF TypeInv, TypeOK
<1>1. call[c].req \in Asks /\ SessionOf[c] \in Sessions /\ Root \in Sessions
  BY DEF Announce, Mirror, Retract, Unmirror, Requests, Blocking, Closing, ServerTypes,
         CallRecord, Sessions
<1>2. PICK type \in {"requested", "replied"}, s \in Sessions : Publish(type, s, call[c].req)
  BY <1>1 DEF Announce, Mirror, Retract, Unmirror
<1>3. UNCHANGED <<gate, server, subs, client, posts>>
  BY DEF Announce, Mirror, Retract, Unmirror
<1>4. /\ call' \in [Calls -> CallRecord]
      /\ \A d \in Calls : d # c => call'[d] = call[d]
      /\ \/ call'[c].req = 0 /\ call'[c].pc \notin Blocking \cup Closing
         \/ call'[c].req = call[c].req /\ call'[c].target = call[c].target /\ call[c].req # 0
  <2>0. call \in [Calls -> CallRecord] /\ call[c].req # 0
    BY DEF Announce, Mirror, Retract, Unmirror, Requests, Blocking, Closing, ServerTypes
  <2>1. CASE call' = [call EXCEPT ![c] = Idle]
    <3>1. Idle.req = 0 /\ Idle.pc = "idle"
      BY DEF Idle
    <3> QED
      BY <2>0, <2>1, <3>1, IdleType, Placed DEF Blocking, Closing
  <2>2. ASSUME NEW pc \in {"wait", "mirror", "unmirror"}, call' = [call EXCEPT ![c].pc = pc]
        PROVE  /\ call' \in [Calls -> CallRecord]
               /\ \A d \in Calls : d # c => call'[d] = call[d]
               /\ call'[c].req = call[c].req /\ call'[c].target = call[c].target
    BY <2>0, <2>2, Moved
  <2>3. Announce(c) => \E pc \in {"wait", "mirror", "unmirror"} : call' = [call EXCEPT ![c].pc = pc]
    BY DEF Announce
  <2>4. Mirror(c) => call' = [call EXCEPT ![c].pc = "wait"]
    BY DEF Mirror
  <2>5. Retract(c) => \/ call' = [call EXCEPT ![c] = Idle]
                     \/ call' = [call EXCEPT ![c].pc = "unmirror"]
    BY DEF Retract
  <2>6. Unmirror(c) => call' = [call EXCEPT ![c] = Idle]
    BY DEF Unmirror
  <2> QED
    BY <2>0, <2>1, <2>2, <2>3, <2>4, <2>5, <2>6
<1>5. ServerTypes'
  BY <1>3, <1>4 DEF ServerTypes, gate, server
<1>6. StreamTypes' /\ PageTypes'
  <2>1. /\ stream' \in [Pages -> Seq(Event)]
        /\ \A p \in Pages : Len(stream'[p]) <= BufSize
        /\ TearsTyped'
    BY <1>1, <1>2, PublishTypes
  <2> QED
    BY <2>1, <1>3 DEF StreamTypes, PageTypes, client, Event, TearsTyped
<1>7. Requests'
  BY <1>3, <1>4, RequestsKept DEF server
<1>8. Fits'
  BY <1>3 DEF Fits, Answers, Kind, server
<1> QED
  BY <1>5, <1>6, <1>7, <1>8

LEMMA CutTypes ==
  ASSUME TypeInv, NEW s \in Sessions, Cut(s)
  PROVE  TypeInv'
<1> USE DEF TypeInv, TypeOK
<1>1. \A c \in Calls : /\ call'[c] \in CallRecord
                       /\ call'[c].pc = call[c].pc /\ call'[c].req = call[c].req
                       /\ call'[c].target = call[c].target
  BY DEF Cut, ServerTypes, CallRecord
<1>2. call' \in [Calls -> CallRecord]
  BY <1>1 DEF Cut
<1>3. ServerTypes'
  BY <1>2 DEF Cut, ServerTypes, gate, server
<1>4. StreamTypes' /\ PageTypes' /\ Fits'
  BY DEF Cut, StreamTypes, PageTypes, Fits, Answers, Kind, server, client, tears
<1>5. Requests'
  BY <1>1 DEF Cut, Requests, server
<1> QED
  BY <1>3, <1>4, <1>5

LEMMA TakeReplyTypes ==
  ASSUME TypeInv, NEW c \in Calls, TakeReply(c)
  PROVE  TypeInv'
<1> DEFINE q == call[c].req
           t == call[c].target
<1> USE DEF TypeInv, TypeOK
<1>1. /\ q \in Asks /\ q \in 1 .. Len(asked) /\ asked[q] = [call |-> c, target |-> t]
      /\ ch[q] \in Answers(q)
  BY DEF TakeReply, Requests, Fits, Blocking, ServerTypes, CallRecord
<1>2. ch[q] = "always" => t \in Targets
  BY <1>1 DEF Answers, Kind, ServerTypes, CallRecord
<1>3. global' \subseteq Targets /\ own' \in [Sessions -> SUBSET Targets]
  <2>1. CASE ch[q] = "always"
    <3>1. AddRule(SessionOf[c], t) /\ t \in Targets /\ SessionOf[c] \in Sessions
      BY <2>1, <1>2 DEF TakeReply
    <3>2. CASE global' = global \cup {t} /\ UNCHANGED own
      BY <3>1, <3>2 DEF ServerTypes
    <3>3. CASE own' = [own EXCEPT ![SessionOf[c]] = @ \cup {t}] /\ UNCHANGED global
      <4>1. own[SessionOf[c]] \cup {t} \in SUBSET Targets
        BY <3>1 DEF ServerTypes
      <4> QED
        BY <3>1, <3>3, <4>1 DEF ServerTypes
    <3> QED
      BY <3>1, <3>2, <3>3 DEF AddRule
  <2>2. CASE ch[q] # "always"
    BY <2>2 DEF TakeReply, ServerTypes
  <2> QED
    BY <2>1, <2>2
<1>4. PICK r \in CallRecord : /\ call' = [call EXCEPT ![c] = r]
                              /\ r.pc \notin Blocking \cup Closing
                              /\ r.req = 0 \/ (r.req = q /\ r.target = t)
  <2>1. Idle \in CallRecord /\ Idle.pc = "idle" /\ Idle.req = 0
    BY IdleType DEF Idle
  <2>2. [Idle EXCEPT !.pc = "run", !.req = q, !.target = t] \in CallRecord
    BY <1>1 DEF Idle, CallRecord, ServerTypes
  <2>3. /\ [Idle EXCEPT !.pc = "run", !.req = q, !.target = t].pc = "run"
        /\ [Idle EXCEPT !.pc = "run", !.req = q, !.target = t].req = q
        /\ [Idle EXCEPT !.pc = "run", !.req = q, !.target = t].target = t
    BY DEF Idle
  <2> QED
    BY <2>1, <2>2, <2>3 DEF TakeReply, Blocking, Closing
<1>5. /\ call' \in [Calls -> CallRecord]
      /\ call'[c] = r
      /\ \A d \in Calls : d # c => call'[d] = call[d]
  BY <1>4, Placed DEF ServerTypes
<1>6. ch' \in [Asks -> Replies]
  BY DEF TakeReply, ServerTypes, Replies, None
<1>7. ServerTypes'
  BY <1>3, <1>5, <1>6 DEF TakeReply, ServerTypes
<1>8. StreamTypes' /\ PageTypes'
  BY DEF TakeReply, StreamTypes, PageTypes, client, tears
<1>9. Requests'
  <2>1. q # 0 /\ asked' = asked
    BY <1>1 DEF TakeReply
  <2> QED
    BY <1>4, <1>5, <2>1, RequestsKept
<1>10. Fits'
  BY DEF TakeReply, Fits, Answers, Kind, ServerTypes, None
<1> QED
  BY <1>7, <1>8, <1>9, <1>10

LEMMA AbandonTypes ==
  ASSUME TypeInv, NEW c \in Calls, Abandon(c) \/ Finish(c)
  PROVE  TypeInv'
<1> USE DEF TypeInv, TypeOK
<1>1. /\ call' \in [Calls -> CallRecord]
      /\ \A d \in Calls : d # c => call'[d] = call[d]
      /\ \/ call'[c].req = 0 /\ call'[c].pc \notin Blocking \cup Closing
         \/ call'[c].req = call[c].req /\ call'[c].target = call[c].target /\ call[c].req # 0
  <2>0. call \in [Calls -> CallRecord]
    BY DEF ServerTypes
  <2>1. CASE Abandon(c)
    <3>1. call[c].req # 0 /\ call' = [call EXCEPT ![c].pc = "retract"]
      BY <2>1 DEF Abandon, Requests, Blocking
    <3> QED
      BY <2>0, <3>1, Moved
  <2>2. CASE Finish(c)
    <3>1. Idle.req = 0 /\ Idle.pc = "idle" /\ call' = [call EXCEPT ![c] = Idle]
      BY <2>2 DEF Finish, Idle
    <3> QED
      BY <2>0, <3>1, IdleType, Placed DEF Blocking, Closing
  <2> QED
    BY <2>1, <2>2
<1>3. ServerTypes'
  BY <1>1 DEF Abandon, Finish, ServerTypes, gate, server
<1>4. StreamTypes' /\ PageTypes' /\ Fits'
  BY DEF Abandon, Finish, StreamTypes, PageTypes, Fits, Answers, Kind, server, client, tears
<1>5. Requests'
  <2>1. asked' = asked
    BY DEF Abandon, Finish, server
  <2> QED
    BY <1>1, <2>1, RequestsKept
<1> QED
  BY <1>3, <1>4, <1>5

-------------------------------------------------------------------------------
(* The routes and the pages.                                                *)

LEMMA ReplyTypes ==
  ASSUME TypeInv, NEW post \in posts, Reply(post)
  PROVE  TypeInv'
<1> DEFINE q == post.req
<1> USE DEF TypeInv, TypeOK
<1>1. /\ q \in Asks /\ q \in 1 .. Len(asked) /\ post.answer \in Answers(q)
      /\ post.answer \in Replies
  BY DEF Fits, PageTypes
<1>2. Owner(q) \in Sessions /\ Root \in Sessions
  <2>1. asked[q] \in [call : Calls, target : Targets \cup {Question}]
    BY <1>1, ElementOfSeq DEF ServerTypes
  <2> QED
    BY <2>1 DEF Owner, Sessions
<1>3. Audience(Owner(q)) \in Seq(Sessions) /\ Unannounced(q) \subseteq Sessions
  <2>1. Audience(Owner(q)) \in Seq(Sessions)
    BY <1>2 DEF Audience
  <2>2. Unannounced(q) \subseteq {Owner(q), Root}
    BY DEF Unannounced
  <2> QED
    BY <1>2, <2>1, <2>2
<1>4. ServerTypes'
  <2>1. said' \in [Asks -> Replies]
    BY <1>1 DEF Reply, ServerTypes
  <2>2. notify' \in [Asks -> Seq(Sessions)]
    <3>1. notify' = notify \/ notify' = [notify EXCEPT ![q] = Audience(Owner(q))]
      BY DEF Reply
    <3> QED
      BY <1>1, <1>3, <3>1 DEF ServerTypes
  <2>3. pending' \subseteq Asks /\ sending' \subseteq Asks
    BY <1>1 DEF Reply, ServerTypes
  <2> QED
    BY <2>1, <2>2, <2>3 DEF Reply, ServerTypes, gate
<1>5. StreamTypes'
  BY DEF Reply, StreamTypes
<1>6. PageTypes'
  <2>1. Pages \X Unannounced(q) \X {q} \subseteq Pages \X Sessions \X Asks
    BY <1>1, <1>3
  <2>2. TearsTyped'
    <3>1. CASE Tear(Pages \X Unannounced(q) \X {q})
      BY <2>1, <3>1, TearTypes
    <3>2. CASE UNCHANGED tears
      BY <3>2 DEF tears, TearsTyped, PageTypes
    <3> QED
      BY <3>1, <3>2 DEF Reply
  <2> QED
    BY <2>2 DEF Reply, PageTypes, client, TearsTyped
<1>7. Requests'
  BY DEF Reply, Requests
<1>8. Fits'
  <2>1. UNCHANGED <<asked, ch>> /\ posts' \subseteq posts
    BY DEF Reply
  <2>2. ASSUME NEW i \in sending'
        PROVE  i \in 1 .. Len(asked) /\ said'[i] \in Answers(i)
    <3>1. \/ i \in sending /\ said'[i] = said[i]
          \/ i = q /\ said'[i] = post.answer
      BY <1>1, <2>2 DEF Reply, ServerTypes
    <3> QED
      BY <3>1, <1>1 DEF Fits
  <2>3. \A i \in Asks : Answers(i)' = Answers(i)
    BY <2>1 DEF Answers, Kind
  <2>4. sending' \subseteq Asks
    BY <1>4 DEF ServerTypes
  <2> QED
    BY <2>1, <2>2, <2>3, <2>4, <1>1 DEF Fits, PageTypes
<1> QED
  BY <1>4, <1>5, <1>6, <1>7, <1>8

LEMMA SendTypes ==
  ASSUME TypeInv, NEW q \in Asks, Send(q)
  PROVE  TypeInv'
<1> USE DEF TypeInv, TypeOK
<1>1. q \in 1 .. Len(asked) /\ said[q] \in Answers(q) /\ said[q] \in Replies
  BY DEF Send, Fits, ServerTypes
<1>2. /\ UNCHANGED <<asked, said, posts>> /\ sending' \subseteq sending
      /\ ch' = [ch EXCEPT ![q] = said[q]]
  BY DEF Send
<1>3. ServerTypes'
  BY <1>1, <1>2 DEF Send, ServerTypes, gate
<1>4. StreamTypes' /\ PageTypes'
  BY DEF Send, StreamTypes, PageTypes, client, tears
<1>5. Requests'
  BY DEF Send, Requests
<1>6. Fits'
  BY <1>1, <1>2 DEF Fits, Answers, Kind, ServerTypes
<1> QED
  BY <1>3, <1>4, <1>5, <1>6

LEMMA NotifyTypes ==
  ASSUME TypeInv, NEW q \in Asks, Notify(q)
  PROVE  TypeInv'
<1> USE DEF TypeInv, TypeOK
<1>1. /\ Head(notify[q]) \in Sessions
      /\ Tail(notify[q]) \in Seq(Sessions)
  BY HeadTailProperties DEF Notify, ServerTypes
<1>2. /\ stream' \in [Pages -> Seq(Event)]
      /\ \A p \in Pages : Len(stream'[p]) <= BufSize
      /\ TearsTyped'
  BY <1>1, PublishTypes DEF Notify
<1>3. ServerTypes'
  BY <1>1 DEF Notify, ServerTypes, gate
<1>4. StreamTypes' /\ PageTypes'
  BY <1>2 DEF Notify, StreamTypes, PageTypes, client, Event, TearsTyped
<1>5. Requests' /\ Fits'
  BY DEF Notify, Requests, Fits, Answers, Kind
<1> QED
  BY <1>3, <1>4, <1>5

(* What a page does on its own leaves the server as it is.                  *)
LEMMA ServerUntouched ==
  ASSUME TypeInv, UNCHANGED <<gate, call, server>>, posts' \subseteq posts
  PROVE  ServerTypes' /\ Requests' /\ Fits'
<1>1. ServerTypes'
  BY DEF TypeInv, TypeOK, ServerTypes, gate, server
<1>2. Requests'
  BY DEF TypeInv, Requests, server
<1>3. Fits'
  BY DEF TypeInv, Fits, Answers, Kind, server
<1> QED
  BY <1>1, <1>2, <1>3

FetchRecord == [at : {None, "asked", "served"}, of : Sessions \cup {None},
                kind : {None, "permission", "question"},
                list : SUBSET Asks, seen : SUBSET Asks]

LEMMA FetchTypes ==
  ASSUME PageTypes, NEW p \in Pages, NEW f \in Fetches
  PROVE  /\ NoFetch \in FetchRecord
         /\ NextFetch(p, f) \in FetchRecord
         /\ \A s \in Sessions : FetchOf(s, "permission") \in FetchRecord
<1>1. NoFetch \in FetchRecord
  BY DEF NoFetch, FetchRecord
<1>2. ASSUME NEW s \in Sessions \cup {None}, NEW kind \in {"permission", "question"}
      PROVE  FetchOf(s, kind) \in FetchRecord
  BY DEF FetchOf, NoFetch, FetchRecord
<1>3. fetch[p][f].of \in Sessions \cup {None}
  BY DEF PageTypes
<1> QED
  BY <1>1, <1>2, <1>3 DEF NextFetch

(* One of a page's lists to come moves along.                               *)
LEMMA FetchPlaced ==
  ASSUME PageTypes, NEW p \in Pages, NEW f \in Fetches, NEW r \in FetchRecord,
         fetch' = [fetch EXCEPT ![p][f] = r]
  PROVE  fetch' \in [Pages -> [Fetches -> FetchRecord]]
<1>1. fetch \in [Pages -> [Fetches -> FetchRecord]]
  BY DEF PageTypes, FetchRecord
<1> QED
  BY <1>1

LEMMA FetchStepTypes ==
  ASSUME TypeInv, NEW p \in Pages, NEW f \in Fetches,
         \/ ServeList(p, f) \/ Outdated(p, f) \/ FetchFails(p, f)
         \/ \E s \in Sessions : Select(p, f, s)
  PROVE  TypeInv'
<1> USE DEF TypeInv, TypeOK
<1>1. ServerTypes' /\ Requests' /\ Fits'
  BY ServerUntouched DEF ServeList, Outdated, FetchFails, Select
<1>2. StreamTypes'
  BY DEF ServeList, Outdated, FetchFails, Select, StreamTypes
<1>3. PICK r \in FetchRecord : fetch' = [fetch EXCEPT ![p][f] = r]
  <2>1. CASE ServeList(p, f)
    <3> DEFINE l == Listed(fetch[p][f].of, fetch[p][f].kind)
               r == [fetch[p][f] EXCEPT !.at = "served", !.list = l]
    <3>1. l \subseteq Asks
      BY DEF Listed, ServerTypes
    <3>2. fetch[p][f] \in FetchRecord
      BY DEF PageTypes, FetchRecord
    <3>3. r \in FetchRecord
      <4> HIDE DEF l
      <4> QED
        BY <3>1, <3>2 DEF FetchRecord
    <3>4. fetch' = [fetch EXCEPT ![p][f] = r]
      BY <2>1 DEF ServeList
    <3> QED
      BY <3>3, <3>4
  <2>2. CASE Outdated(p, f) \/ FetchFails(p, f)
    BY <2>2, FetchTypes DEF Outdated, FetchFails
  <2>3. CASE \E s \in Sessions : Select(p, f, s)
    BY <2>3, FetchTypes DEF Select
  <2> QED
    BY <2>1, <2>2, <2>3
<1>4. fetch' \in [Pages -> [Fetches -> FetchRecord]]
  BY <1>3, FetchPlaced
<1>5. view' \in [Pages -> Sessions] /\ UNCHANGED <<shown, posts, lost>>
  <2>1. view' = view \/ \E s \in Sessions : view' = [view EXCEPT ![p] = s]
    BY DEF ServeList, Outdated, FetchFails, Select
  <2>2. UNCHANGED <<shown, posts, lost>>
    BY DEF ServeList, Outdated, FetchFails, Select, tears
  <2> QED
    BY <2>1, <2>2 DEF PageTypes
<1>6. since' \in [Pages -> [Fetches -> SUBSET Asks]]
  <2>1. since' = since \/ since' = [since EXCEPT ![p][f] = {}]
    BY DEF ServeList, Outdated, FetchFails, Select, tears
  <2>2. {} \in SUBSET Asks /\ since \in [Pages -> [Fetches -> SUBSET Asks]]
    BY DEF PageTypes
  <2> QED
    BY <2>1, <2>2
<1>7. PageTypes'
  BY <1>4, <1>5, <1>6 DEF PageTypes, FetchRecord
<1> QED
  BY <1>1, <1>2, <1>7

LEMMA DeliverTypes ==
  ASSUME TypeInv, NEW p \in Pages, Deliver(p)
  PROVE  TypeInv'
<1> DEFINE e == Head(stream[p])
<1> USE DEF TypeInv, TypeOK
<1>1. ServerTypes' /\ Requests' /\ Fits'
  BY ServerUntouched DEF Deliver
<1>2. /\ stream[p] \in Seq(Event) /\ stream[p] # <<>>
      /\ Len(stream[p]) <= BufSize
  BY DEF Deliver, StreamTypes, Event
<1>3. /\ e \in Event
      /\ Tail(stream[p]) \in Seq(Event)
      /\ Len(Tail(stream[p])) <= BufSize
  BY <1>2, HeadTailProperties, LenProperties
<1>4. StreamTypes'
  <2>1. stream' = [stream EXCEPT ![p] = Tail(@)] /\ subs' = subs
    BY DEF Deliver
  <2> QED
    BY <1>3, <2>1 DEF StreamTypes, Event
<1>5. shown' \in [Pages -> [Sessions -> SUBSET Asks]]
  <2>1. e.at \in Sessions /\ e.req \in Asks
    BY <1>3 DEF Event
  <2>2. shown' = [shown EXCEPT ![p][e.at] =
                    IF e.type = "requested" THEN @ \cup {e.req} ELSE @ \ {e.req}]
    BY DEF Deliver
  <2> HIDE DEF e
  <2> QED
    BY <2>1, <2>2 DEF PageTypes
<1>6. fetch' \in [Pages -> [Fetches -> FetchRecord]]
  <2> DEFINE R == [f \in Fetches |-> Noted(p, f, e)]
  <2>1. fetch \in [Pages -> [Fetches -> FetchRecord]]
    BY DEF PageTypes, FetchRecord
  <2>2. ASSUME NEW f \in Fetches PROVE Noted(p, f, e) \in FetchRecord
    <3>1. fetch[p][f] \in FetchRecord /\ e.req \in Asks
      BY <1>3, <2>1 DEF Event
    <3> HIDE DEF e
    <3> QED
      BY <3>1 DEF FetchRecord, Noted
  <2>3. R \in [Fetches -> FetchRecord]
    BY <2>2
  <2>4. fetch' = [fetch EXCEPT ![p] = R]
    BY DEF Deliver
  <2> HIDE DEF R
  <2> QED
    BY <2>1, <2>3, <2>4
<1>7. PageTypes'
  BY <1>5, <1>6 DEF Deliver, PageTypes, FetchRecord, tears
<1> QED
  BY <1>1, <1>4, <1>7

LEMMA TornTyped ==
  ASSUME PageTypes, NEW p \in Pages, NEW f \in Fetches
  PROVE  Torn(p, f) \subseteq Asks
BY DEF PageTypes, Torn

LEMMA MergeTypes ==
  ASSUME TypeInv, NEW p \in Pages, NEW f \in Fetches, Merge(p, f)
  PROVE  TypeInv'
<1> DEFINE s == fetch[p][f].of
<1> USE DEF TypeInv, TypeOK
<1>1. ServerTypes' /\ Requests' /\ Fits'
  BY ServerUntouched DEF Merge
<1>2. StreamTypes'
  BY DEF Merge, StreamTypes
<1>3. s \in Sessions /\ fetch[p][f].list \subseteq Asks
  BY DEF Merge, PageTypes
<1>4. shown' \in [Pages -> [Sessions -> SUBSET Asks]]
  <2>1. PICK gone \in SUBSET Asks :
           shown' = [shown EXCEPT ![p][s] = (@ \ gone) \cup fetch[p][f].list]
    <3>1. {q \in shown[p][s] : Kind(q) = fetch[p][f].kind} \subseteq Asks
      BY <1>3 DEF PageTypes
    <3> QED
      BY <3>1 DEF Merge
  <2> QED
    BY <1>3, <2>1 DEF PageTypes
<1>5. TearsTyped'
  <2>1. lost' \subseteq lost \cup {<<p, s, q>> : q \in Torn(p, f)}
    BY DEF Merge
  <2>2. since' \in [Pages -> [Fetches -> SUBSET Asks]]
    <3> DEFINE r(g) == CASE g = f -> {}
                         [] g # f /\ fetch[p][g].at = "served" /\ fetch[p][g].of = s ->
                              since[p][g] \cup Torn(p, f)
                         [] OTHER -> since[p][g]
               R == [g \in Fetches |-> r(g)]
    <3>1. since \in [Pages -> [Fetches -> SUBSET Asks]]
      BY DEF PageTypes
    <3>2. ASSUME NEW g \in Fetches PROVE r(g) \in SUBSET Asks
      BY <3>1, TornTyped
    <3>3. R \in [Fetches -> SUBSET Asks]
      <4> HIDE DEF r
      <4> QED
        BY <3>2
    <3>4. since' = [since EXCEPT ![p] = R]
      BY <3>1 DEF Merge
    <3> HIDE DEF R
    <3> QED
      BY <3>1, <3>3, <3>4
  <2> QED
    BY <1>3, <2>1, <2>2, TornTyped DEF PageTypes, TearsTyped
<1>6. fetch' \in [Pages -> [Fetches -> FetchRecord]]
  BY FetchTypes, FetchPlaced DEF Merge
<1>7. PageTypes'
  BY <1>4, <1>5, <1>6 DEF Merge, PageTypes, FetchRecord, TearsTyped
<1> QED
  BY <1>1, <1>2, <1>7

LEMMA RespondTypes ==
  ASSUME TypeInv, NEW p \in Pages, NEW q \in 1 .. Len(asked), NEW a \in Answers(q),
         Respond(p, q, a)
  PROVE  TypeInv'
<1> DEFINE post == [page |-> p, at |-> view[p], req |-> q, answer |-> a]
<1> USE DEF TypeInv, TypeOK
<1>1. q \in Asks /\ a \in Replies /\ view[p] \in Sessions
  BY LenProperties DEF Answers, Replies, ServerTypes, PageTypes, Asks
<1>2. ServerTypes'
  BY DEF Respond, ServerTypes, gate, server
<1>3. StreamTypes'
  BY DEF Respond, StreamTypes
<1>4. posts' = posts \cup {post}
  BY DEF Respond
<1>5. PageTypes'
  <2>1. post \in [page : Pages, at : Sessions, req : Asks, answer : Replies]
    BY <1>1
  <2>2. shown' \in [Pages -> [Sessions -> SUBSET Asks]]
    BY <1>1 DEF Respond, PageTypes
  <2> QED
    BY <1>4, <2>1, <2>2 DEF Respond, PageTypes, tears
<1>6. Requests'
  BY DEF Respond, Requests, server
<1>7. Fits'
  <2>1. UNCHANGED <<asked, ch, said, sending>>
    BY DEF Respond, server
  <2> QED
    BY <1>4, <2>1 DEF Fits, Answers, Kind
<1> QED
  BY <1>2, <1>3, <1>5, <1>6, <1>7

LEMMA PostFailsTypes ==
  ASSUME TypeInv, NEW post \in posts, PostFails(post)
  PROVE  TypeInv'
<1> USE DEF TypeInv, TypeOK
<1>1. ServerTypes' /\ Requests' /\ Fits'
  BY ServerUntouched DEF PostFails
<1>2. StreamTypes'
  BY DEF PostFails, StreamTypes
<1>3. PageTypes'
  <2>1. post \in [page : Pages, at : Sessions, req : Asks, answer : Replies]
    BY DEF PageTypes
  <2>2. TearsTyped' /\ posts' \subseteq posts
    <3>1. {<<post.page, post.at, post.req>>} \subseteq Pages \X Sessions \X Asks
      BY <2>1
    <3> QED
      BY <3>1, TearTypes DEF PostFails
  <2> QED
    BY <2>2 DEF PostFails, PageTypes, client, TearsTyped
<1> QED
  BY <1>1, <1>2, <1>3

LEMMA ConnectionTypes ==
  ASSUME TypeInv, NEW p \in Pages, Disconnect(p) \/ Reconnect(p)
  PROVE  TypeInv'
<1> USE DEF TypeInv, TypeOK
<1>1. ServerTypes' /\ Requests' /\ Fits'
  BY ServerUntouched DEF Disconnect, Reconnect
<1>2. StreamTypes'
  <2>1. CASE Disconnect(p)
    <3>1. <<>> \in Seq(Event) /\ Len(<<>>) <= BufSize
      BY EmptySeq
    <3>2. stream' = [stream EXCEPT ![p] = <<>>] /\ subs' \subseteq subs
      BY <2>1 DEF Disconnect
    <3> QED
      BY <3>1, <3>2 DEF StreamTypes, Event
  <2>2. CASE Reconnect(p)
    BY <2>2 DEF Reconnect, StreamTypes
  <2> QED
    BY <2>1, <2>2
<1>3. PageTypes'
  <2>1. CASE Disconnect(p)
    <3>1. \A i \in DOMAIN stream[p] : stream[p][i] \in Event
      <4>1. stream[p] \in Seq(Event)
        BY DEF StreamTypes, Event
      <4> QED
        BY <4>1, ElementOfSeq, LenProperties
    <3>2. {<<p, stream[p][i].at, stream[p][i].req>> : i \in DOMAIN stream[p]}
            \subseteq Pages \X Sessions \X Asks
      BY <3>1 DEF Event
    <3>3. TearsTyped'
      BY <2>1, <3>2, TearTypes DEF Disconnect
    <3> QED
      BY <2>1, <3>3 DEF Disconnect, PageTypes, client, TearsTyped
  <2>2. CASE Reconnect(p)
    BY <2>2 DEF Reconnect, PageTypes, client, tears
  <2> QED
    BY <2>1, <2>2
<1> QED
  BY <1>1, <1>2, <1>3

-------------------------------------------------------------------------------
LEMMA TypeStep == TypeInv /\ [Next]_vars => TypeInv'
<1> SUFFICES ASSUME TypeInv, [Next]_vars PROVE TypeInv'
  OBVIOUS
<1>1. ASSUME NEW c \in Calls, CallStep(c) PROVE TypeInv'
  BY <1>1, RunGrantedTypes, EvaluateTypes, AskTypes, MoveTypes, TakeReplyTypes, AbandonTypes
     DEF CallStep
<1>2. ASSUME NEW s \in Sessions, Cut(s) PROVE TypeInv'
  BY <1>2, CutTypes
<1>3. ASSUME NEW q \in Asks, Send(q) \/ Notify(q) PROVE TypeInv'
  BY <1>3, SendTypes, NotifyTypes
<1>4. ASSUME NEW post \in posts, Reply(post) \/ PostFails(post) PROVE TypeInv'
  BY <1>4, ReplyTypes, PostFailsTypes
<1>5. ASSUME NEW p \in Pages, PageStep(p) PROVE TypeInv'
  BY <1>5, DeliverTypes, FetchStepTypes, MergeTypes, RespondTypes, ConnectionTypes DEF PageStep
<1>6. CASE UNCHANGED vars
  <2>1. StreamTypes' /\ PageTypes'
    BY <1>6 DEF vars, client, tears, StreamTypes, PageTypes, TypeInv, TypeOK
  <2>2. ServerTypes' /\ Requests' /\ Fits'
    BY <1>6, ServerUntouched DEF vars
  <2> QED
    BY <2>1, <2>2 DEF TypeInv, TypeOK
<1> QED
  BY <1>1, <1>2, <1>3, <1>4, <1>5, <1>6 DEF Next

(* Every variable keeps its type, whatever the sessions, calls and pages:   *)
(* an "always" only ever grants a gated call, and no buffer overflows.      *)
THEOREM TypesHold == Spec => []TypeOK
<1>1. TypeInv => TypeOK
  BY DEF TypeInv
<1> QED
  BY InitTypes, TypeStep, <1>1, PTL DEF Spec

-------------------------------------------------------------------------------
(***************************************************************************)
(* What the user's consent is worth: a blocked call can be answered, the   *)
(* managers hold no request nobody waits for, and nothing gated runs       *)
(* without an accepted answer.                                             *)
(***************************************************************************)
(* An answer is accepted once, from then on the request is not pending, and *)
(* what the channel holds is what was accepted, once it has been sent.      *)
AnsweredOnce ==
    /\ pending \subseteq 1 .. Len(asked)
    /\ \A q \in Asks :
         /\ said[q] # None => q \in 1 .. Len(asked) /\ q \notin pending
         /\ ch[q] # None => ch[q] = said[q] /\ q \notin sending
         /\ q \in sending => said[q] # None

(* Every grant was given: by an accepted "always" to a request for it.      *)
GrantsWereGiven == \A s \in Sessions : \A g \in global \cup own[s] :
    \E q \in 1 .. Len(asked) : said[q] = "always" /\ asked[q].target = g

ConsentInv ==
    /\ TypeInv
    /\ AnsweredOnce /\ GrantsWereGiven
    /\ WaiterIsAnswerable /\ PendingHasWaiter /\ RunsAreApproved

-------------------------------------------------------------------------------
LEMMA ConsentInit == Init => ConsentInv
<1> SUFFICES ASSUME Init PROVE ConsentInv
  OBVIOUS
<1>1. TypeInv
  BY InitTypes
<1>2. AnsweredOnce /\ GrantsWereGiven
  BY DEF Init, AnsweredOnce, GrantsWereGiven
<1>3. WaiterIsAnswerable /\ PendingHasWaiter /\ RunsAreApproved
  BY DEF Init, WaiterIsAnswerable, PendingHasWaiter, RunsAreApproved, Idle
<1> QED
  BY <1>1, <1>2, <1>3 DEF ConsentInv

LEMMA AskedTypes ==
  ASSUME ConsentInv
  PROVE  /\ Len(asked) \in Nat
         /\ \A q \in 1 .. Len(asked) : /\ q \in Asks
                                       /\ asked[q].call \in Calls
                                       /\ asked[q].target \in Targets \cup {Question}
<1>1. asked \in Seq([call : Calls, target : Targets \cup {Question}]) /\ Len(asked) <= MaxAsks
  BY DEF ConsentInv, TypeInv, TypeOK, ServerTypes
<1>2. Len(asked) \in Nat
  BY <1>1, LenProperties
<1>3. \A q \in 1 .. Len(asked) : asked[q] \in [call : Calls, target : Targets \cup {Question}]
  BY <1>1, ElementOfSeq
<1>4. \A q \in 1 .. Len(asked) : q \in Asks
  BY <1>1, <1>2 DEF Asks
<1>5. \A q \in 1 .. Len(asked) : asked[q].call \in Calls /\ asked[q].target \in Targets \cup {Question}
  BY <1>3
<1> QED
  BY <1>2, <1>4, <1>5

(* A blocked call has a request, and no other call has it.                  *)
LEMMA OwnRequest ==
  ASSUME ConsentInv, NEW d \in Calls, call[d].pc \in Blocking
  PROVE  /\ call[d].req \in 1 .. Len(asked) /\ call[d].req \in Asks
         /\ call[d].req # 0
         /\ asked[call[d].req].call = d
<1>1. Requests
  BY DEF ConsentInv, TypeInv
<1>2. call[d].pc \in Blocking \cup Closing
  OBVIOUS
<1>3. call[d].req # 0
  BY <1>1, <1>2 DEF Requests
<1>4. /\ call[d].req \in 1 .. Len(asked)
      /\ asked[call[d].req] = [call |-> d, target |-> call[d].target]
  BY <1>1, <1>3 DEF Requests
<1> QED
  BY <1>3, <1>4, AskedTypes

(* What a call was approved for stays approved: requests and accepted       *)
(* answers are never rewritten.                                             *)
LEMMA ApprovedStays ==
  ASSUME ConsentInv, NEW d \in Calls, call'[d].pc = "run" => call[d].pc = "run",
         call'[d].req = call[d].req, call'[d].target = call[d].target,
         Len(asked) \in Nat, Len(asked') \in Nat, Len(asked) <= Len(asked'),
         \A q \in 1 .. Len(asked) : /\ asked'[q] = asked[q]
                                    /\ said[q] # None => said'[q] = said[q]
  PROVE  call'[d].pc = "run" => Approved(d)'
<1> SUFFICES ASSUME call'[d].pc = "run" PROVE Approved(d)'
  OBVIOUS
<1>1. Approved(d)
  BY DEF ConsentInv, RunsAreApproved
<1>2. CASE call[d].req # 0
  <2>1. call[d].req \in 1 .. Len(asked)
    BY <1>2 DEF ConsentInv, TypeInv, Requests
  <2> QED
    BY <1>1, <1>2, <2>1 DEF Approved, None
<1>3. CASE call[d].req = 0
  <2>1. PICK q \in 1 .. Len(asked) :
           /\ said[q] = "always"
           /\ asked[q].target.tool = call[d].target.tool
           /\ asked[q].target.pattern \in {"*", call[d].target.pattern}
    BY <1>1, <1>3 DEF Approved
  <2>2. q \in 1 .. Len(asked') /\ said'[q] = "always" /\ asked'[q] = asked[q]
    BY <2>1 DEF None
  <2> QED
    BY <1>3, <2>1, <2>2 DEF Approved
<1> QED
  BY <1>2, <1>3

(* The steps that move one call along and leave the requests alone.         *)
LEMMA CallMoves ==
  ASSUME ConsentInv, NEW c \in Calls,
         UNCHANGED <<gate, asked, pending, sending, ch, said>>,
         \A d \in Calls : d # c => call'[d] = call[d],
         call[c].pc \in Blocking =>
            call'[c].pc \in Blocking /\ call'[c].req = call[c].req,
         call'[c].pc \in Blocking => call[c].pc \in Blocking /\ call'[c].req = call[c].req,
         call'[c].pc # "run"
  PROVE  /\ AnsweredOnce' /\ GrantsWereGiven'
         /\ WaiterIsAnswerable' /\ PendingHasWaiter' /\ RunsAreApproved'
<1> USE DEF ConsentInv
<1>0. Len(asked) \in Nat
  BY LenProperties DEF TypeInv, TypeOK, ServerTypes
<1>1. AnsweredOnce' /\ GrantsWereGiven'
  BY DEF AnsweredOnce, GrantsWereGiven, gate
<1>2. WaiterIsAnswerable'
  BY DEF WaiterIsAnswerable, Blocking
<1>3. PendingHasWaiter'
  <2>1. \A q \in pending : asked[q].call \in Calls
    BY AskedTypes DEF AnsweredOnce
  <2> QED
    BY <2>1 DEF PendingHasWaiter, Blocking
<1>4. RunsAreApproved'
  <2> SUFFICES ASSUME NEW d \in Calls, call'[d].pc = "run" PROVE Approved(d)'
    BY DEF RunsAreApproved
  <2> QED
    BY <1>0, ApprovedStays
<1> QED
  BY <1>1, <1>2, <1>3, <1>4

LEMMA MoveConsent ==
  ASSUME ConsentInv, NEW c \in Calls,
         \/ Announce(c) \/ Mirror(c) \/ Retract(c) \/ Unmirror(c) \/ Finish(c)
  PROVE  ConsentInv'
<1> USE DEF ConsentInv
<1>1. TypeInv'
  BY MoveTypes, AbandonTypes
<1>2. UNCHANGED <<gate, asked, pending, sending, ch, said>>
  BY DEF Announce, Mirror, Retract, Unmirror, Finish, server
<1>3. call \in [Calls -> CallRecord]
  BY DEF TypeInv, TypeOK, ServerTypes
<1>4. /\ \A d \in Calls : d # c => call'[d] = call[d]
      /\ call[c].pc \in Blocking => call'[c].pc \in Blocking /\ call'[c].req = call[c].req
      /\ call'[c].pc \in Blocking => call[c].pc \in Blocking /\ call'[c].req = call[c].req
      /\ call'[c].pc # "run"
  <2>1. CASE /\ call' = [call EXCEPT ![c] = Idle]
             /\ call[c].pc \notin Blocking
    <3>1. Idle.pc = "idle"
      BY DEF Idle
    <3> QED
      BY <1>3, <2>1, <3>1, IdleType, Placed DEF Blocking
  <2>2. ASSUME NEW pc \in {"wait", "mirror"},
               call' = [call EXCEPT ![c].pc = pc], call[c].pc \in Blocking
        PROVE  /\ \A d \in Calls : d # c => call'[d] = call[d]
               /\ call'[c].pc \in Blocking /\ call'[c].req = call[c].req
               /\ call'[c].pc # "run"
    BY <1>3, <2>2, Moved DEF Blocking
  <2>3. CASE /\ call' = [call EXCEPT ![c].pc = "unmirror"]
             /\ call[c].pc \notin Blocking
    BY <1>3, <2>3, Moved DEF Blocking
  <2> QED
    BY <2>1, <2>2, <2>3 DEF Announce, Mirror, Retract, Unmirror, Finish, Blocking
<1>5. /\ AnsweredOnce' /\ GrantsWereGiven'
      /\ WaiterIsAnswerable' /\ PendingHasWaiter' /\ RunsAreApproved'
  BY <1>2, <1>4, CallMoves
<1> QED
  BY <1>1, <1>5

LEMMA CutConsent ==
  ASSUME ConsentInv, NEW s \in Sessions, Cut(s)
  PROVE  ConsentInv'
<1> USE DEF ConsentInv
<1>1. TypeInv'
  BY CutTypes
<1>2. UNCHANGED <<gate, asked, pending, sending, ch, said>>
  BY DEF Cut, server
<1>3. \A c \in Calls : /\ call'[c].pc = call[c].pc /\ call'[c].req = call[c].req
                       /\ call'[c].target = call[c].target
  BY DEF Cut, TypeInv, TypeOK, ServerTypes, CallRecord
<1>4. AnsweredOnce' /\ GrantsWereGiven'
  BY <1>2 DEF AnsweredOnce, GrantsWereGiven, gate
<1>5. WaiterIsAnswerable'
  BY <1>2, <1>3 DEF WaiterIsAnswerable
<1>6. PendingHasWaiter'
  <2>1. \A q \in pending : asked[q].call \in Calls
    BY AskedTypes DEF AnsweredOnce
  <2> QED
    BY <1>2, <1>3, <2>1 DEF PendingHasWaiter
<1>7. RunsAreApproved'
  <2> SUFFICES ASSUME NEW d \in Calls, call'[d].pc = "run" PROVE Approved(d)'
    BY DEF RunsAreApproved
  <2> QED
    BY <1>2, <1>3, AskedTypes, ApprovedStays
<1> QED
  BY <1>1, <1>4, <1>5, <1>6, <1>7

LEMMA RunGrantedConsent ==
  ASSUME ConsentInv, NEW c \in Calls, NEW t \in Targets, RunGranted(c, t)
  PROVE  ConsentInv'
<1> USE DEF ConsentInv
<1>1. TypeInv'
  BY RunGrantedTypes
<1>2. UNCHANGED <<gate, asked, pending, sending, ch, said>>
  BY DEF RunGranted, server
<1>3. /\ call[c].pc = "idle"
      /\ call'[c].pc = "run" /\ call'[c].req = 0 /\ call'[c].target = t
      /\ \A d \in Calls : d # c => call'[d] = call[d]
  BY DEF RunGranted, TypeInv, TypeOK, ServerTypes, Idle
<1>4. AnsweredOnce' /\ GrantsWereGiven'
  BY <1>2 DEF AnsweredOnce, GrantsWereGiven, gate
<1>5. WaiterIsAnswerable'
  BY <1>2, <1>3 DEF WaiterIsAnswerable
<1>6. PendingHasWaiter'
  <2>1. \A q \in pending : asked[q].call \in Calls
    BY AskedTypes DEF AnsweredOnce
  <2> QED
    BY <1>2, <1>3, <2>1 DEF PendingHasWaiter
<1>7. RunsAreApproved'
  <2> SUFFICES ASSUME NEW d \in Calls, call'[d].pc = "run" PROVE Approved(d)'
    BY DEF RunsAreApproved
  <2>1. CASE d # c
    BY <1>2, <1>3, <2>1, AskedTypes, ApprovedStays
  <2>2. CASE d = c
    <3>1. PICK g \in global \cup own[SessionOf[c]] :
             g.tool = t.tool /\ g.pattern \in {"*", t.pattern}
      BY DEF RunGranted, Granted
    <3>2. PICK q \in 1 .. Len(asked) : said[q] = "always" /\ asked[q].target = g
      BY <3>1 DEF GrantsWereGiven
    <3> QED
      BY <1>2, <1>3, <2>2, <3>1, <3>2 DEF Approved
  <2> QED
    BY <2>1, <2>2
<1> QED
  BY <1>1, <1>4, <1>5, <1>6, <1>7

LEMMA EvaluateConsent ==
  ASSUME ConsentInv, NEW c \in Calls, NEW t \in Targets \cup {Question}, Evaluate(c, t)
  PROVE  ConsentInv'
<1>1. TypeInv'
  BY EvaluateTypes DEF ConsentInv
<1>2. UNCHANGED <<gate, asked, pending, sending, ch, said>>
  BY DEF Evaluate, server
<1>3. /\ call[c].pc = "idle" /\ call'[c].pc = "ask"
      /\ \A d \in Calls : d # c => call'[d] = call[d]
  BY DEF Evaluate, ConsentInv, TypeInv, TypeOK, ServerTypes, Idle
<1>4. /\ AnsweredOnce' /\ GrantsWereGiven'
      /\ WaiterIsAnswerable' /\ PendingHasWaiter' /\ RunsAreApproved'
  BY <1>2, <1>3, CallMoves DEF Blocking
<1> QED
  BY <1>1, <1>4 DEF ConsentInv

LEMMA AskConsent ==
  ASSUME ConsentInv, NEW c \in Calls, Ask(c)
  PROVE  ConsentInv'
<1> DEFINE n == Len(asked) + 1
           t == call[c].target
<1> USE DEF ConsentInv
<1>1. TypeInv'
  BY AskTypes
<1>2. /\ n \in Asks /\ n \notin 1 .. Len(asked) /\ Len(asked) \in Nat
      /\ Len(asked') = n
      /\ asked'[n] = [call |-> c, target |-> t]
      /\ \A q \in 1 .. Len(asked) : asked'[q] = asked[q]
  <2>1. /\ asked \in Seq([call : Calls, target : Targets \cup {Question}])
        /\ t \in Targets \cup {Question}
    BY DEF TypeInv, TypeOK, ServerTypes, CallRecord
  <2>2. asked' = Append(asked, [call |-> c, target |-> t]) /\ n <= MaxAsks
    BY DEF Ask
  <2> QED
    BY <2>1, <2>2, LenProperties, AppendProperties DEF Asks
<1>3. /\ call[c].pc = "ask"
      /\ call'[c].pc = "announce" /\ call'[c].req = n
      /\ \A d \in Calls : d # c => call'[d] = call[d]
  BY AskMoves DEF TypeInv, TypeOK, ServerTypes
<1>4. pending' = pending \cup {n} /\ UNCHANGED <<gate, sending, ch, said>>
  BY DEF Ask
<1>5. \A q \in 1 .. Len(asked) : q \in 1 .. Len(asked') /\ q # n
  BY <1>2
<1>6. AnsweredOnce'
  <2>1. pending' \subseteq 1 .. Len(asked')
    <3>1. pending \subseteq 1 .. Len(asked)
      BY DEF AnsweredOnce
    <3>2. n \in 1 .. Len(asked')
      BY <1>2
    <3> QED
      BY <1>4, <1>5, <3>1, <3>2
  <2>2. ASSUME NEW q \in Asks
        PROVE  /\ said'[q] # None => q \in 1 .. Len(asked') /\ q \notin pending'
               /\ ch'[q] # None => ch'[q] = said'[q] /\ q \notin sending'
               /\ q \in sending' => said'[q] # None
    <3>1. said'[q] # None => q \in 1 .. Len(asked) /\ q \notin pending
      BY <1>4 DEF AnsweredOnce
    <3>2. /\ ch'[q] # None => ch'[q] = said'[q] /\ q \notin sending'
          /\ q \in sending' => said'[q] # None
      BY <1>4 DEF AnsweredOnce
    <3> QED
      BY <1>4, <1>5, <3>1, <3>2
  <2> QED
    BY <2>1, <2>2 DEF AnsweredOnce
<1>7. GrantsWereGiven'
  BY <1>2, <1>4, <1>5 DEF GrantsWereGiven, gate
<1>8. WaiterIsAnswerable'
  BY <1>3, <1>4 DEF WaiterIsAnswerable
<1>9. PendingHasWaiter'
  <2> SUFFICES ASSUME NEW q \in pending'
               PROVE  /\ call'[asked'[q].call].req = q
                      /\ call'[asked'[q].call].pc \in {"announce", "mirror", "wait"}
    BY DEF PendingHasWaiter
  <2>1. CASE q = n
    BY <1>2, <1>3, <2>1
  <2>2. CASE q # n
    <3>1. q \in pending /\ q \in 1 .. Len(asked)
      BY <1>4, <2>2 DEF AnsweredOnce
    <3>2. asked[q].call \in Calls /\ asked[q].call # c /\ asked'[q] = asked[q]
      BY <1>2, <1>3, <3>1, AskedTypes DEF PendingHasWaiter
    <3> QED
      BY <1>3, <3>1, <3>2 DEF PendingHasWaiter
  <2> QED
    BY <2>1, <2>2
<1>10. RunsAreApproved'
  <2> SUFFICES ASSUME NEW d \in Calls, call'[d].pc = "run" PROVE Approved(d)'
    BY DEF RunsAreApproved
  <2>1. d # c /\ call'[d] = call[d]
    BY <1>3
  <2> QED
    BY <1>2, <1>4, <2>1, ApprovedStays
<1> QED
  BY <1>1, <1>6, <1>7, <1>8, <1>9, <1>10

LEMMA TakeReplyConsent ==
  ASSUME ConsentInv, NEW c \in Calls, TakeReply(c)
  PROVE  ConsentInv'
<1> DEFINE n == call[c].req
           t == call[c].target
<1> USE DEF ConsentInv
<1>1. TypeInv'
  BY TakeReplyTypes
<1>2. /\ n \in Asks /\ n \in 1 .. Len(asked) /\ n # 0
      /\ asked[n] = [call |-> c, target |-> t]
      /\ ch[n] # None /\ ch[n] = said[n] /\ n \notin pending \cup sending
  BY DEF TakeReply, TypeInv, TypeOK, ServerTypes, CallRecord, Requests, Blocking, AnsweredOnce
<1>3. UNCHANGED <<asked, pending, sending, said>> /\ ch' = [ch EXCEPT ![n] = None]
  BY DEF TakeReply
<1>4. /\ \A d \in Calls : d # c => call'[d] = call[d]
      /\ call'[c].pc \in {"idle", "run"}
      /\ call'[c].pc = "run" => /\ call'[c].req = n /\ call'[c].target = t
                                /\ ch[n] \in {"once", "always", "answer"}
  BY DEF TakeReply, TypeInv, TypeOK, ServerTypes, Idle
<1>5. AnsweredOnce'
  <2>1. ASSUME NEW q \in Asks, ch'[q] # None
        PROVE  ch'[q] = said[q] /\ q \notin sending
    BY <1>2, <1>3, <2>1 DEF AnsweredOnce, TypeInv, TypeOK, ServerTypes
  <2> QED
    BY <1>3, <2>1 DEF AnsweredOnce
<1>6. GrantsWereGiven'
  <2> SUFFICES ASSUME NEW s \in Sessions, NEW g \in global' \cup own'[s]
               PROVE  \E q \in 1 .. Len(asked) : said[q] = "always" /\ asked[q].target = g
    BY <1>3 DEF GrantsWereGiven
  <2>1. g \in global \cup own[s] \/ (ch[n] = "always" /\ g = t)
    <3>1. CASE ch[n] = "always"
      <4>1. AddRule(SessionOf[c], t)
        BY <3>1 DEF TakeReply
      <4> QED
        BY <3>1, <4>1 DEF AddRule, TypeInv, TypeOK, ServerTypes
    <3>2. CASE ch[n] # "always"
      BY <3>2 DEF TakeReply
    <3> QED
      BY <3>1, <3>2
  <2> QED
    BY <1>2, <2>1 DEF GrantsWereGiven
<1>7. WaiterIsAnswerable'
  <2> SUFFICES ASSUME NEW d \in Calls, call'[d].pc \in Blocking
               PROVE  call'[d].req \in pending \cup sending \/ ch'[call'[d].req] # None
    BY <1>3 DEF WaiterIsAnswerable, Blocking
  <2>1. d # c /\ call'[d] = call[d]
    BY <1>4 DEF Blocking
  <2>2. call[d].req \in Asks /\ call[d].req # n
    BY <1>2, <2>1, OwnRequest
  <2> QED
    BY <1>3, <2>1, <2>2 DEF WaiterIsAnswerable, Blocking, TypeInv, TypeOK, ServerTypes
<1>8. PendingHasWaiter'
  <2> SUFFICES ASSUME NEW q \in pending
               PROVE  /\ call'[asked[q].call].req = q
                      /\ call'[asked[q].call].pc \in {"announce", "mirror", "wait"}
    BY <1>3 DEF PendingHasWaiter
  <2>1. asked[q].call \in Calls /\ asked[q].call # c
    BY <1>2, AskedTypes DEF PendingHasWaiter, AnsweredOnce
  <2> QED
    BY <1>4, <2>1 DEF PendingHasWaiter
<1>9. RunsAreApproved'
  <2> SUFFICES ASSUME NEW d \in Calls, call'[d].pc = "run" PROVE Approved(d)'
    BY DEF RunsAreApproved
  <2>1. CASE d # c
    BY <1>3, <1>4, <2>1, AskedTypes, ApprovedStays
  <2>2. CASE d = c
    BY <1>2, <1>3, <1>4, <2>2 DEF Approved
  <2> QED
    BY <2>1, <2>2
<1> QED
  BY <1>1, <1>5, <1>6, <1>7, <1>8, <1>9

LEMMA AbandonConsent ==
  ASSUME ConsentInv, NEW c \in Calls, Abandon(c)
  PROVE  ConsentInv'
<1> DEFINE n == call[c].req
<1> USE DEF ConsentInv
<1>1. TypeInv'
  BY AbandonTypes
<1>2. UNCHANGED <<gate, asked, sending, ch, said>> /\ pending' = pending \ {n}
  BY DEF Abandon
<1>3. /\ call[c].pc = "wait" /\ call'[c].pc = "retract"
      /\ \A d \in Calls : d # c => call'[d] = call[d]
  BY Moved DEF Abandon, TypeInv, TypeOK, ServerTypes
<1>4. n # 0 /\ asked[n].call = c
  BY <1>3, OwnRequest DEF Blocking
<1>5. AnsweredOnce' /\ GrantsWereGiven'
  BY <1>2 DEF AnsweredOnce, GrantsWereGiven, gate
<1>6. WaiterIsAnswerable'
  <2> SUFFICES ASSUME NEW d \in Calls, call'[d].pc \in Blocking
               PROVE  call'[d].req \in pending' \cup sending' \/ ch'[call'[d].req] # None
    BY DEF WaiterIsAnswerable, Blocking
  <2>1. d # c /\ call'[d] = call[d]
    BY <1>3 DEF Blocking
  <2>2. call[d].req # n
    BY <1>4, <2>1, OwnRequest
  <2> QED
    BY <1>2, <2>1, <2>2 DEF WaiterIsAnswerable, Blocking
<1>7. PendingHasWaiter'
  <2> SUFFICES ASSUME NEW q \in pending, q # n
               PROVE  /\ call'[asked[q].call].req = q
                      /\ call'[asked[q].call].pc \in {"announce", "mirror", "wait"}
    BY <1>2 DEF PendingHasWaiter
  <2>1. asked[q].call \in Calls /\ asked[q].call # c
    BY AskedTypes DEF PendingHasWaiter, AnsweredOnce
  <2> QED
    BY <1>3, <2>1 DEF PendingHasWaiter
<1>8. RunsAreApproved'
  <2> SUFFICES ASSUME NEW d \in Calls, call'[d].pc = "run" PROVE Approved(d)'
    BY DEF RunsAreApproved
  <2>1. call'[d] = call[d]
    BY <1>3
  <2> QED
    BY <1>2, <2>1, AskedTypes, ApprovedStays
<1> QED
  BY <1>1, <1>5, <1>6, <1>7, <1>8

LEMMA ReplyConsent ==
  ASSUME ConsentInv, NEW post \in posts, Reply(post), post.req \in pending
  PROVE  ConsentInv'
<1> DEFINE n == post.req
<1> USE DEF ConsentInv
<1>1. TypeInv'
  BY ReplyTypes
<1>2. /\ n \in 1 .. Len(asked) /\ n \in Asks
      /\ post.answer # None /\ said[n] = None /\ ch[n] = None
  <2>1. n \in 1 .. Len(asked) /\ post.answer \in Answers(n)
    BY DEF TypeInv, Fits
  <2>2. post.answer # None
    BY <2>1 DEF Answers, None
  <2> QED
    BY <2>1, <2>2, AskedTypes DEF AnsweredOnce
<1>3. /\ UNCHANGED <<gate, asked, call>> /\ pending' = pending \ {n}
      /\ sending' = sending \cup {n} /\ UNCHANGED ch
      /\ said' = [said EXCEPT ![n] = post.answer]
  BY DEF Reply
<1>4. /\ said'[n] = post.answer
      /\ \A q \in Asks : q # n => said'[q] = said[q]
  BY <1>2, <1>3 DEF TypeInv, TypeOK, ServerTypes
<1>5. AnsweredOnce'
  BY <1>2, <1>3, <1>4 DEF AnsweredOnce
<1>6. \A q \in 1 .. Len(asked) : said[q] # None => said'[q] = said[q]
  BY <1>2, <1>4, AskedTypes
<1>7. GrantsWereGiven'
  <2>1. \A q \in 1 .. Len(asked) : said[q] = "always" => said'[q] = "always"
    BY <1>6 DEF None
  <2> QED
    BY <1>3, <2>1 DEF GrantsWereGiven, gate
<1>8. WaiterIsAnswerable'
  <2> SUFFICES ASSUME NEW d \in Calls, call[d].pc \in Blocking
               PROVE  call[d].req \in pending' \cup sending' \/ ch[call[d].req] # None
    BY <1>3 DEF WaiterIsAnswerable, Blocking
  <2>1. call[d].req \in Asks
    BY DEF TypeInv, TypeOK, ServerTypes, CallRecord, Requests
  <2> QED
    BY <1>2, <1>3, <1>4, <2>1 DEF WaiterIsAnswerable, Blocking
<1>9. PendingHasWaiter'
  BY <1>3 DEF PendingHasWaiter
<1>10. RunsAreApproved'
  <2> SUFFICES ASSUME NEW d \in Calls, call'[d].pc = "run" PROVE Approved(d)'
    BY DEF RunsAreApproved
  <2> QED
    BY <1>3, <1>6, AskedTypes, ApprovedStays
<1> QED
  BY <1>1, <1>5, <1>7, <1>8, <1>9, <1>10

(* The answer moves from the reply handler to the channel.                  *)
LEMMA SendConsent ==
  ASSUME ConsentInv, NEW q \in Asks, Send(q)
  PROVE  ConsentInv'
<1> USE DEF ConsentInv
<1>1. TypeInv'
  BY SendTypes
<1>2. said[q] # None
  BY DEF Send, AnsweredOnce
<1>3. /\ UNCHANGED <<gate, asked, pending, call, said>> /\ sending' = sending \ {q}
      /\ ch'[q] = said[q] /\ \A i \in Asks : i # q => ch'[i] = ch[i]
  BY DEF Send, TypeInv, TypeOK, ServerTypes
<1>4. AnsweredOnce' /\ GrantsWereGiven'
  BY <1>3 DEF AnsweredOnce, GrantsWereGiven, gate
<1>5. WaiterIsAnswerable'
  <2> SUFFICES ASSUME NEW d \in Calls, call[d].pc \in Blocking
               PROVE  call[d].req \in pending \cup sending' \/ ch'[call[d].req] # None
    BY <1>3 DEF WaiterIsAnswerable, Blocking
  <2>1. call[d].req \in Asks
    BY OwnRequest
  <2> QED
    BY <1>2, <1>3, <2>1 DEF WaiterIsAnswerable, Blocking
<1>6. PendingHasWaiter' /\ RunsAreApproved'
  BY <1>3 DEF PendingHasWaiter, RunsAreApproved, Approved
<1> QED
  BY <1>1, <1>4, <1>5, <1>6

(* Every other step leaves the calls and the requests as they are.          *)
LEMMA ConsentUntouched ==
  ASSUME ConsentInv, TypeInv', UNCHANGED <<gate, call, asked, pending, sending, ch, said>>
  PROVE  ConsentInv'
<1> USE DEF ConsentInv
<1>1. AnsweredOnce' /\ GrantsWereGiven'
  BY DEF AnsweredOnce, GrantsWereGiven, gate
<1>2. WaiterIsAnswerable' /\ PendingHasWaiter' /\ RunsAreApproved'
  BY DEF WaiterIsAnswerable, PendingHasWaiter, RunsAreApproved, Approved
<1> QED
  BY <1>1, <1>2

(* What happens in a page stays in the page.                                *)
LEMMA PageLeavesServer ==
  ASSUME NEW p \in Pages, PageStep(p)
  PROVE  UNCHANGED <<gate, call, server>>
<1>1. ASSUME NEW f, NEW s, Select(p, f, s) PROVE UNCHANGED <<gate, call, server>>
  BY <1>1 DEF Select
<1>2. ASSUME NEW f,
             ServeList(p, f) \/ Merge(p, f) \/ Outdated(p, f) \/ FetchFails(p, f)
      PROVE  UNCHANGED <<gate, call, server>>
  BY <1>2 DEF ServeList, Merge, Outdated, FetchFails
<1>3. ASSUME NEW q, NEW a, Respond(p, q, a) PROVE UNCHANGED <<gate, call, server>>
  BY <1>3 DEF Respond
<1>4. ASSUME Deliver(p) \/ Disconnect(p) \/ Reconnect(p)
      PROVE  UNCHANGED <<gate, call, server>>
  BY <1>4 DEF Deliver, Disconnect, Reconnect
<1> QED
  BY <1>1, <1>2, <1>3, <1>4 DEF PageStep

LEMMA ConsentStep == ConsentInv /\ [Next]_vars => ConsentInv'
<1> SUFFICES ASSUME ConsentInv, [Next]_vars PROVE ConsentInv'
  OBVIOUS
<1>0. TypeInv'
  BY TypeStep DEF ConsentInv
<1>1. ASSUME NEW c \in Calls, CallStep(c) PROVE ConsentInv'
  BY <1>1, RunGrantedConsent, EvaluateConsent, AskConsent, MoveConsent, TakeReplyConsent,
     AbandonConsent DEF CallStep
<1>2. ASSUME NEW s \in Sessions, Cut(s) PROVE ConsentInv'
  BY <1>2, CutConsent
<1>3. ASSUME NEW q \in Asks, Send(q) \/ Notify(q) PROVE ConsentInv'
  <2>1. Notify(q) => UNCHANGED <<gate, call, asked, pending, sending, ch, said>>
    BY DEF Notify
  <2> QED
    BY <1>0, <1>3, <2>1, ConsentUntouched, SendConsent
<1>4. ASSUME NEW post \in posts, Reply(post) PROVE ConsentInv'
  <2>1. CASE post.req \in pending
    BY <1>4, <2>1, ReplyConsent
  <2>2. CASE post.req \notin pending
    <3>1. UNCHANGED <<gate, call, asked, pending, sending, ch, said>>
      BY <1>4, <2>2 DEF Reply
    <3> QED
      BY <1>0, <3>1, ConsentUntouched
  <2> QED
    BY <2>1, <2>2
<1>5. ASSUME NEW post \in posts, PostFails(post) PROVE ConsentInv'
  <2>1. UNCHANGED <<gate, call, asked, pending, sending, ch, said>>
    BY <1>5 DEF PostFails, server
  <2> QED
    BY <1>0, <2>1, ConsentUntouched
<1>6. ASSUME NEW p \in Pages, PageStep(p) PROVE ConsentInv'
  <2>1. UNCHANGED <<gate, call, server>>
    BY <1>6, PageLeavesServer
  <2>2. UNCHANGED <<gate, call, asked, pending, sending, ch, said>>
    BY <2>1 DEF server
  <2> QED
    BY <1>0, <2>2, ConsentUntouched
<1>7. CASE UNCHANGED vars
  <2>1. UNCHANGED <<gate, call, asked, pending, sending, ch, said>>
    BY <1>7 DEF vars, server
  <2> QED
    BY <1>0, <2>1, ConsentUntouched
<1> QED
  BY <1>1, <1>2, <1>3, <1>4, <1>5, <1>6, <1>7 DEF Next

LEMMA ConsentHolds == Spec => []ConsentInv
BY ConsentInit, ConsentStep, PTL DEF Spec

-------------------------------------------------------------------------------
(* A loop blocked on the user can always be unblocked: its request is still *)
(* in the manager, or in the hands of a reply handler that has the send to  *)
(* do, or its answer is in the channel, however replies, other pages,       *)
(* cancellations and lists interleave with the two halves of a reply.       *)
THEOREM BlockedCanBeAnswered == Spec => []WaiterIsAnswerable
<1>1. ConsentInv => WaiterIsAnswerable
  BY DEF ConsentInv
<1> QED
  BY ConsentHolds, <1>1, PTL

(* The managers hold no request that nobody waits for.                      *)
THEOREM NothingLeaks == Spec => []PendingHasWaiter
<1>1. ConsentInv => PendingHasWaiter
  BY DEF ConsentInv
<1> QED
  BY ConsentHolds, <1>1, PTL

(* A gated call runs only on an accepted answer: to its own request, or an  *)
(* "always" given for the same tool and target.                             *)
THEOREM NothingRunsUnapproved == Spec => []RunsAreApproved
<1>1. ConsentInv => RunsAreApproved
  BY DEF ConsentInv
<1> QED
  BY ConsentHolds, <1>1, PTL

-------------------------------------------------------------------------------
(***************************************************************************)
(* Approvals implements Consent: the stages of the requests, the grants    *)
(* and what each call is doing, read off the manager, the channels and the *)
(* calls, move as Consent says.                                            *)
(***************************************************************************)
LEMMA QuestionIsNoTarget == Question \notin Targets
OBVIOUS

(* The stages move only for the requests a step touches.                    *)
LEMMA StageStays ==
  ASSUME ConsentInv, UNCHANGED <<asked, pending>>, NEW c \in Calls,
         \A d \in Calls : d # c => call'[d] = call[d],
         \/ /\ call'[c].req = call[c].req
            /\ call[c].pc \in Blocking /\ call'[c].pc \in Blocking
         \/ call[c].pc \notin Blocking /\ call'[c].pc \notin Blocking
  PROVE  Stage' = Stage
<1>1. ASSUME NEW q \in 1 .. Len(asked)
      PROVE  (call'[asked[q].call].req = q /\ call'[asked[q].call].pc \in Blocking)
             <=> (call[asked[q].call].req = q /\ call[asked[q].call].pc \in Blocking)
  <2>1. asked[q].call \in Calls
    BY AskedTypes
  <2> QED
    BY <2>1
<1>2. ASSUME NEW q \in Asks PROVE q > Len(asked) \/ q \in 1 .. Len(asked)
  BY AskedTypes DEF Asks
<1> QED
  BY <1>1, <1>2 DEF Stage, StageOf, Blocking

LEMMA StageCloses ==
  ASSUME ConsentInv, NEW c \in Calls, UNCHANGED asked, pending' = pending \ {call[c].req},
         call[c].pc \in Blocking, call'[c].pc \notin Blocking,
         \A d \in Calls : d # c => call'[d] = call[d]
  PROVE  /\ Stage' = [Stage EXCEPT ![call[c].req] = "closed"]
         /\ Stage[call[c].req] = IF call[c].req \in pending THEN "open" ELSE "decided"
<1> DEFINE n == call[c].req
<1>1. n \in 1 .. Len(asked) /\ n \in Asks /\ asked[n].call = c
  BY OwnRequest
<1>2. Len(asked) \in Nat /\ ~(n > Len(asked))
  BY <1>1, AskedTypes
<1>3. Stage[n] = IF n \in pending THEN "open" ELSE "decided"
  BY <1>1, <1>2 DEF Stage, StageOf, Blocking
<1>4. Stage'[n] = "closed"
  BY <1>1, <1>2 DEF Stage, StageOf, Blocking
<1>5. ASSUME NEW q \in Asks, q # n PROVE Stage'[q] = Stage[q]
  <2>1. CASE q > Len(asked)
    BY <2>1 DEF Stage, StageOf
  <2>2. CASE q \in 1 .. Len(asked)
    <3>1. asked[q].call \in Calls /\ ~(q > Len(asked)) /\ q <= Len(asked)
      BY <2>2, <1>2, AskedTypes
    <3>2. asked[q].call # c => call'[asked[q].call] = call[asked[q].call]
      BY <3>1
    <3>3. asked[q].call = c => /\ call[c].req # q
                               /\ call'[c].pc \notin Blocking
      BY <1>5
    <3>4. (q \in pending') = (q \in pending)
      BY <1>5
    <3> QED
      BY <3>1, <3>2, <3>3, <3>4 DEF Stage, StageOf, Blocking
  <2> QED
    BY <2>1, <2>2, <1>2 DEF Asks
<1>6. Stage = [q \in Asks |-> Stage[q]] /\ Stage' = [q \in Asks |-> Stage'[q]]
  BY DEF Stage
<1> HIDE DEF n
<1>7. Stage' = [Stage EXCEPT ![n] = "closed"]
  BY <1>1, <1>4, <1>5, <1>6
<1> QED
  BY <1>3, <1>7 DEF n

LEMMA DoingMoves ==
  ASSUME NEW c \in Calls, \A d \in Calls : d # c => call'[d] = call[d]
  PROVE  Doing' = [Doing EXCEPT ![c] = IF call'[c].pc = "run" THEN {call'[c].target} ELSE {}]
BY DEF Doing

LEMMA CheckedMoves ==
  ASSUME NEW c \in Calls, \A d \in Calls : d # c => call'[d] = call[d]
  PROVE  Checked' = [Checked EXCEPT ![c] = IF call'[c].pc = "ask" THEN {call'[c].target} ELSE {}]
BY DEF Checked

LEMMA CheckedStays ==
  ASSUME NEW c \in Calls, \A d \in Calls : d # c => call'[d] = call[d],
         call[c].pc # "ask", call'[c].pc # "ask"
  PROVE  UNCHANGED Checked
<1>1. \A d \in Calls : (IF call'[d].pc = "ask" THEN {call'[d].target} ELSE {})
                       = (IF call[d].pc = "ask" THEN {call[d].target} ELSE {})
  OBVIOUS
<1> QED
  BY <1>1 DEF Checked

LEMMA DoingStays ==
  ASSUME NEW c \in Calls, \A d \in Calls : d # c => call'[d] = call[d],
         call[c].pc # "run", call'[c].pc # "run"
  PROVE  UNCHANGED Doing
<1>1. \A d \in Calls : (IF call'[d].pc = "run" THEN {call'[d].target} ELSE {})
                       = (IF call[d].pc = "run" THEN {call[d].target} ELSE {})
  OBVIOUS
<1> QED
  BY <1>1 DEF Doing

(* An idle call has nothing in hand and no request under way.               *)
LEMMA IdleIsFree ==
  ASSUME ConsentInv, NEW c \in Calls, call[c].pc = "idle"
  PROVE  Promise!Free(c)
<1>1. Doing[c] = {} /\ Checked[c] = {}
  BY DEF Doing, Checked
<1>2. ASSUME NEW q \in 1 .. Len(asked), asked[q].call = c PROVE Stage[q] = "closed"
  <2>1. q \notin pending
    BY <1>2 DEF ConsentInv, PendingHasWaiter
  <2>2. q \in Asks /\ ~(q > Len(asked)) /\ q <= Len(asked)
    BY AskedTypes
  <2> QED
    BY <1>2, <2>1, <2>2 DEF Stage, StageOf
<1> QED
  BY <1>1, <1>2 DEF Promise!Free

(* Ruleset.Evaluate finds the grants Consent speaks of.                     *)
LEMMA GrantedIsCovered ==
  ASSUME ConsentInv, NEW c \in Calls, NEW t
  PROVE  Granted(SessionOf[c], t) <=> Promise!Covered(c, t)
<1> DEFINE s == SessionOf[c]
<1>1. s \in Sessions /\ global \subseteq Targets /\ own[s] \subseteq Targets
  BY DEF ConsentInv, TypeInv, TypeOK, ServerTypes
<1>2. \A g : g \in global \cup own[s] <=> <<s, g>> \in Grants
  BY <1>1 DEF Grants
<1>3. ASSUME NEW g \in Grants, g[1] = s PROVE g[2] \in global \cup own[s]
  BY <1>3 DEF Grants
<1>4. Granted(s, t) => Promise!Covered(c, t)
  <2> SUFFICES ASSUME NEW g \in global \cup own[s],
                      g.tool = t.tool /\ g.pattern \in {"*", t.pattern}
               PROVE  Promise!Covered(c, t)
    BY DEF Granted
  <2>1. <<s, g>> \in Grants /\ <<s, g>>[1] = s /\ <<s, g>>[2] = g
    BY <1>2
  <2> HIDE DEF s
  <2> QED
    BY <2>1 DEF Promise!Covered, s
<1>5. Promise!Covered(c, t) => Granted(s, t)
  <2> SUFFICES ASSUME NEW g \in Grants, g[1] = s,
                      g[2].tool = t.tool /\ g[2].pattern \in {"*", t.pattern}
               PROVE  Granted(s, t)
    BY DEF Promise!Covered
  <2> QED
    BY <1>3 DEF Granted
<1> QED
  BY <1>4, <1>5

LEMMA GrantsStay == UNCHANGED gate => UNCHANGED Grants
BY DEF gate, Grants
-------------------------------------------------------------------------------
LEMMA RunGrantedKeeps ==
  ASSUME ConsentInv, NEW c \in Calls, NEW t \in Targets, RunGranted(c, t)
  PROVE  Promise!Go(c, t)
<1>1. /\ call[c].pc = "idle" /\ Granted(SessionOf[c], t)
      /\ UNCHANGED <<gate, asked, pending, said>>
  BY DEF RunGranted, server
<1>2. /\ call'[c].pc = "run" /\ call'[c].target = t
      /\ \A d \in Calls : d # c => call'[d] = call[d]
  BY DEF RunGranted, Idle, ConsentInv, TypeInv, TypeOK, ServerTypes
<1>3. Promise!Free(c) /\ Promise!Covered(c, t)
  BY <1>1, IdleIsFree, GrantedIsCovered
<1>4. UNCHANGED Stage
  BY <1>1, <1>2, StageStays DEF Blocking
<1>5. Doing' = [Doing EXCEPT ![c] = {t}]
  BY <1>2, DoingMoves
<1>6. UNCHANGED Checked
  BY <1>1, <1>2, CheckedStays
<1> QED
  BY <1>1, <1>3, <1>4, <1>5, <1>6, GrantsStay DEF Promise!Go

LEMMA EvaluateKeeps ==
  ASSUME ConsentInv, NEW c \in Calls, NEW t \in Targets \cup {Question}, Evaluate(c, t)
  PROVE  Promise!Check(c, t)
<1>1. /\ call[c].pc = "idle" /\ (t = Question \/ ~Granted(SessionOf[c], t))
      /\ UNCHANGED <<gate, asked, pending, said>>
  BY DEF Evaluate, server
<1>2. /\ call'[c].pc = "ask" /\ call'[c].target = t
      /\ \A d \in Calls : d # c => call'[d] = call[d]
  BY DEF Evaluate, Idle, ConsentInv, TypeInv, TypeOK, ServerTypes
<1>3. ~Promise!Covered(c, t)
  <2>1. CASE ~Granted(SessionOf[c], t)
    BY <2>1, GrantedIsCovered
  <2>2. CASE t = Question
    <3>1. \A g \in Grants : g[2] \in Targets
      BY DEF Grants
    <3> QED
      BY <2>2, <3>1 DEF Promise!Covered
  <2> QED
    BY <1>1, <2>1, <2>2
<1>4. UNCHANGED Stage
  BY <1>1, <1>2, StageStays DEF Blocking
<1>5. UNCHANGED Doing
  BY <1>1, <1>2, DoingStays
<1>6. Checked' = [Checked EXCEPT ![c] = {t}]
  BY <1>2, CheckedMoves
<1> QED
  BY <1>1, <1>3, <1>4, <1>5, <1>6, IdleIsFree, GrantsStay DEF Promise!Check

LEMMA AskKeeps ==
  ASSUME ConsentInv, NEW c \in Calls, Ask(c)
  PROVE  Promise!Open(c, call[c].target)
<1> DEFINE n == Len(asked) + 1
           t == call[c].target
<1>0. /\ asked \in Seq([call : Calls, target : Targets \cup {Question}])
      /\ Len(asked) \in Nat
      /\ t \in Targets \cup {Question}
  BY LenProperties DEF ConsentInv, TypeInv, TypeOK, ServerTypes, CallRecord
<1>1. /\ n \in Asks
      /\ asked' = Append(asked, [call |-> c, target |-> t])
      /\ pending' = pending \cup {n}
      /\ UNCHANGED <<gate, said>>
  BY <1>0 DEF Ask, Asks
<1>2. /\ call[c].pc = "ask"
      /\ call'[c].pc = "announce" /\ call'[c].req = n
      /\ \A d \in Calls : d # c => call'[d] = call[d]
  BY AskMoves DEF ConsentInv, TypeInv, TypeOK, ServerTypes
<1>3. t \in Checked[c] /\ Checked' = [Checked EXCEPT ![c] = {}]
  BY <1>2, CheckedMoves DEF Checked
<1>4. /\ Len(asked') = n
      /\ \A i \in 1 .. Len(asked) : asked'[i] = asked[i]
      /\ asked'[n] = [call |-> c, target |-> t]
  BY <1>0, <1>1, AppendProperties
<1>5. Stage' = [Stage EXCEPT ![n] = "open"]
  <2>1. Stage'[n] = "open"
    BY <1>0, <1>1, <1>4 DEF Stage, StageOf
  <2>2. ASSUME NEW q \in Asks, q # n PROVE Stage'[q] = Stage[q]
    <3>1. CASE q > Len(asked)
      BY <3>1, <2>2, <1>0, <1>4 DEF Stage, StageOf, Asks
    <3>2. CASE q \in 1 .. Len(asked)
      <4>1. /\ asked[q].call \in Calls /\ asked'[q] = asked[q]
            /\ ~(q > Len(asked)) /\ q <= Len(asked) /\ ~(q > Len(asked')) /\ q <= Len(asked')
            /\ (q \in pending') = (q \in pending)
        BY <3>2, <2>2, <1>0, <1>1, <1>4, AskedTypes
      <4>2. asked[q].call # c => call'[asked[q].call] = call[asked[q].call]
        BY <4>1, <1>2
      <4>3. asked[q].call = c => call'[c].req # q /\ call[c].pc = "ask"
        BY <1>2, <2>2
      <4> QED
        BY <4>1, <4>2, <4>3 DEF Stage, StageOf
    <3> QED
      BY <3>1, <3>2, <1>0 DEF Asks
  <2>3. Stage = [q \in Asks |-> Stage[q]] /\ Stage' = [q \in Asks |-> Stage'[q]]
    BY DEF Stage
  <2> HIDE DEF n
  <2> QED
    BY <2>1, <2>2, <2>3, <1>1
<1>6. UNCHANGED Doing
  BY <1>2, DoingStays
<1> QED
  BY <1>1, <1>3, <1>5, <1>6, GrantsStay DEF Promise!Open

LEMMA TakeReplyKeeps ==
  ASSUME ConsentInv, NEW c \in Calls, TakeReply(c)
  PROVE  \E q \in 1 .. Len(asked) : Promise!Use(q)
<1> DEFINE n == call[c].req
           t == call[c].target
           s == SessionOf[c]
<1>1. /\ n \in Asks /\ n \in 1 .. Len(asked) /\ n # 0
      /\ asked[n] = [call |-> c, target |-> t]
      /\ ch[n] # None /\ ch[n] = said[n] /\ n \notin pending
      /\ ch[n] \in Answers(n)
  BY DEF TakeReply, ConsentInv, TypeInv, TypeOK, ServerTypes, CallRecord, Requests, Blocking,
         AnsweredOnce, Fits
<1>2. /\ UNCHANGED <<asked, pending, said>>
      /\ IF ch[n] = "always" THEN AddRule(s, t) ELSE UNCHANGED gate
  BY DEF TakeReply, gate
<1>3. /\ call[c].pc = "wait"
      /\ \A d \in Calls : d # c => call'[d] = call[d]
      /\ call'[c].pc = IF ch[n] = "reject" THEN "idle" ELSE "run"
      /\ ch[n] # "reject" => call'[c].target = t
  BY <1>1 DEF TakeReply, ConsentInv, TypeInv, TypeOK, ServerTypes, Idle, Answers
<1>4. Stage[n] = "decided" /\ Stage' = [Stage EXCEPT ![n] = "closed"]
  <2>1. pending' = pending \ {n}
    BY <1>1, <1>2
  <2>2. call[c].pc \in Blocking /\ call'[c].pc \notin Blocking
    BY <1>3 DEF Blocking
  <2> QED
    BY <1>1, <1>2, <1>3, <2>1, <2>2, StageCloses
<1>5. Doing' = [Doing EXCEPT ![c] = IF said[n] = "reject" THEN {} ELSE {t}]
  BY <1>1, <1>3, DoingMoves
<1>6. IF said[n] = "always"
      THEN \E who \in {{s}, Sessions} : Grants' = Grants \cup (who \X {t})
      ELSE UNCHANGED Grants
  <2>1. CASE said[n] = "always"
    <3>1. AddRule(s, t)
      BY <2>1, <1>1, <1>2
    <3>2. t \in Targets /\ s \in Sessions /\ own \in [Sessions -> SUBSET Targets]
      BY <1>1, <2>1 DEF Answers, Kind, ConsentInv, TypeInv, TypeOK, ServerTypes, CallRecord
    <3>3. CASE global' = global \cup {t} /\ UNCHANGED own
      <4>1. Grants' = Grants \cup (Sessions \X {t})
        BY <3>2, <3>3 DEF Grants
      <4> QED
        BY <2>1, <4>1
    <3>4. CASE own' = [own EXCEPT ![s] = @ \cup {t}] /\ UNCHANGED global
      <4>1. \A x \in Sessions : own'[x] = IF x = s THEN own[x] \cup {t} ELSE own[x]
        BY <3>2, <3>4
      <4>2. Grants' = Grants \cup ({s} \X {t})
        BY <3>2, <3>4, <4>1 DEF Grants
      <4> QED
        BY <2>1, <4>2
    <3> QED
      BY <3>1, <3>3, <3>4 DEF AddRule
  <2>2. CASE said[n] # "always"
    BY <2>2, <1>1, <1>2, GrantsStay
  <2> QED
    BY <2>1, <2>2
<1>7. UNCHANGED Checked
  BY <1>3, CheckedStays
<1> HIDE DEF n, s, t
<1>8. asked[n].call = c /\ asked[n].target = t
  BY <1>1
<1>9. Promise!Use(n)
  BY <1>1, <1>2, <1>4, <1>5, <1>6, <1>7, <1>8 DEF Promise!Use, s
<1> QED
  BY <1>1, <1>9

LEMMA AbandonKeeps ==
  ASSUME ConsentInv, NEW c \in Calls, Abandon(c)
  PROVE  \E q \in 1 .. Len(asked) : Promise!Withdraw(q)
<1> DEFINE n == call[c].req
<1>1. UNCHANGED <<gate, asked, said>> /\ pending' = pending \ {n}
  BY DEF Abandon
<1>2. /\ call[c].pc = "wait" /\ call'[c].pc = "retract"
      /\ \A d \in Calls : d # c => call'[d] = call[d]
  BY Moved DEF Abandon, ConsentInv, TypeInv, TypeOK, ServerTypes
<1>3. n \in 1 .. Len(asked)
  BY <1>2, OwnRequest DEF Blocking
<1>4. Stage[n] \in {"open", "decided"} /\ Stage' = [Stage EXCEPT ![n] = "closed"]
  BY <1>1, <1>2, StageCloses DEF Blocking
<1>5. UNCHANGED <<Doing, Checked>>
  BY <1>2, DoingStays, CheckedStays
<1> HIDE DEF n
<1>6. Promise!Withdraw(n)
  BY <1>1, <1>4, <1>5, GrantsStay DEF Promise!Withdraw
<1> QED
  BY <1>3, <1>6

LEMMA FinishKeeps ==
  ASSUME ConsentInv, NEW c \in Calls, Finish(c)
  PROVE  Promise!Done(c)
<1>1. UNCHANGED <<gate, asked, pending, said>>
  BY DEF Finish, server
<1>2. /\ call[c].pc = "run" /\ call'[c].pc = "idle"
      /\ \A d \in Calls : d # c => call'[d] = call[d]
  BY IdleType, Placed DEF Finish, Idle, ConsentInv, TypeInv, TypeOK, ServerTypes
<1>3. UNCHANGED Stage
  BY <1>1, <1>2, StageStays DEF Blocking
<1>4. Doing[c] # {} /\ Doing' = [Doing EXCEPT ![c] = {}]
  BY <1>2, DoingMoves DEF Doing
<1>5. UNCHANGED Checked
  BY <1>2, CheckedStays
<1> QED
  BY <1>1, <1>3, <1>4, <1>5, GrantsStay DEF Promise!Done

LEMMA ReplyKeeps ==
  ASSUME ConsentInv, NEW post \in posts, Reply(post), post.req \in pending
  PROVE  \E q \in 1 .. Len(asked), a \in {"once", "always", "reject", "answer"} :
            Promise!Decide(q, a)
<1> DEFINE n == post.req
           a == post.answer
           c == asked[n].call
<1>1. /\ n \in 1 .. Len(asked) /\ n \in Asks
      /\ a \in {"once", "always", "reject", "answer"}
      /\ (a = "answer") = (asked[n].target = Question)
  BY AskedTypes DEF ConsentInv, TypeInv, Fits, Answers, Kind
<1>2. /\ UNCHANGED <<gate, asked, call>> /\ pending' = pending \ {n}
      /\ said' = [said EXCEPT ![n] = a]
  BY DEF Reply
<1>3. Len(asked) \in Nat /\ ~(n > Len(asked)) /\ n <= Len(asked)
  BY <1>1, AskedTypes
<1>4. call[c].req = n /\ call[c].pc \in Blocking
  BY DEF ConsentInv, PendingHasWaiter, Blocking
<1>5. Stage[n] = "open" /\ Stage'[n] = "decided"
  BY <1>1, <1>2, <1>3, <1>4 DEF Stage, StageOf, Blocking
<1>6. \A q \in Asks : q # n => Stage'[q] = Stage[q]
  BY <1>2 DEF Stage, StageOf
<1>7. Stage = [q \in Asks |-> Stage[q]] /\ Stage' = [q \in Asks |-> Stage'[q]]
  BY DEF Stage
<1>8. UNCHANGED <<Doing, Checked>>
  BY <1>2 DEF Doing, Checked
<1> HIDE DEF n, a, c
<1>9. Stage' = [Stage EXCEPT ![n] = "decided"]
  BY <1>1, <1>5, <1>6, <1>7
<1>10. Promise!Decide(n, a)
  BY <1>1, <1>2, <1>5, <1>8, <1>9, GrantsStay DEF Promise!Decide
<1> QED
  BY <1>1, <1>10

(* Announcements, mirrors and retractions only carry the news.              *)
LEMMA MoveKeeps ==
  ASSUME ConsentInv, NEW c \in Calls,
         Announce(c) \/ Mirror(c) \/ Retract(c) \/ Unmirror(c)
  PROVE  UNCHANGED <<asked, Stage, said, Grants, Checked, Doing>>
<1>1. UNCHANGED <<gate, asked, pending, said>>
  BY DEF Announce, Mirror, Retract, Unmirror, server
<1>2. /\ \A d \in Calls : d # c => call'[d] = call[d]
      /\ \/ /\ call'[c].req = call[c].req
            /\ call[c].pc \in Blocking /\ call'[c].pc \in Blocking
         \/ call[c].pc \in Closing /\ call'[c].pc \in Closing \cup {"idle"}
  <2>0. call \in [Calls -> CallRecord]
    BY DEF ConsentInv, TypeInv, TypeOK, ServerTypes
  <2>1. CASE Announce(c)
    <3>1. PICK pc \in Blocking : call' = [call EXCEPT ![c].pc = pc]
      BY <2>1 DEF Announce, Blocking
    <3> QED
      BY <2>0, <2>1, <3>1, Moved DEF Announce, Blocking
  <2>2. CASE Mirror(c)
    BY <2>0, <2>2, Moved DEF Mirror, Blocking
  <2>3. CASE Retract(c) \/ Unmirror(c)
    <3>1. call[c].pc \in Closing
      BY <2>3 DEF Retract, Unmirror, Closing
    <3>2. CASE call' = [call EXCEPT ![c] = Idle]
      BY <2>0, <3>1, <3>2, IdleType, Placed DEF Idle
    <3>3. CASE call' = [call EXCEPT ![c].pc = "unmirror"]
      BY <2>0, <3>1, <3>3, Moved DEF Closing
    <3> QED
      BY <2>3, <3>2, <3>3 DEF Retract, Unmirror
  <2> QED
    BY <2>1, <2>2, <2>3
<1>3. UNCHANGED Stage
  BY <1>1, <1>2, StageStays DEF Blocking, Closing
<1>4. UNCHANGED <<Doing, Checked>>
  BY <1>2, DoingStays, CheckedStays DEF Blocking, Closing
<1> QED
  BY <1>1, <1>3, <1>4, GrantsStay

(* A cancelled context shows only when the call takes notice.               *)
LEMMA CutKeeps ==
  ASSUME ConsentInv, NEW s \in Sessions, Cut(s)
  PROVE  UNCHANGED <<asked, Stage, said, Grants, Checked, Doing>>
<1>1. UNCHANGED <<gate, asked, pending, said>>
  BY DEF Cut, server
<1>2. \A d \in Calls : /\ call'[d].pc = call[d].pc /\ call'[d].req = call[d].req
                       /\ call'[d].target = call[d].target
  BY DEF Cut, ConsentInv, TypeInv, TypeOK, ServerTypes, CallRecord
<1>3. UNCHANGED <<Doing, Checked>>
  BY <1>2 DEF Doing, Checked
<1>4. ASSUME NEW q \in Asks PROVE Stage'[q] = Stage[q]
  <2>1. q \in 1 .. Len(asked) => asked[q].call \in Calls
    BY AskedTypes
  <2>2. q > Len(asked) \/ q \in 1 .. Len(asked)
    BY AskedTypes DEF Asks
  <2> QED
    BY <1>1, <1>2, <2>1, <2>2 DEF Stage, StageOf
<1>5. UNCHANGED Stage
  BY <1>4 DEF Stage, StageOf
<1> QED
  BY <1>1, <1>3, <1>5, GrantsStay

LEMMA CarryKeeps ==
  ASSUME UNCHANGED <<gate, call, asked, pending, said>>
  PROVE  UNCHANGED <<asked, Stage, said, Grants, Checked, Doing>>
BY GrantsStay DEF Stage, StageOf, Doing, Checked

LEMMA PromiseStep ==
  ASSUME ConsentInv, [Next]_vars
  PROVE  [Promise!ConsentNext]_(Promise!consent)
<1> DEFINE Carried == UNCHANGED <<asked, Stage, said, Grants, Checked, Doing>>
<1>0. Carried => Promise!ConsentNext
  BY DEF Promise!ConsentNext, Promise!Carry, Promise!consent
<1>1. ASSUME NEW c \in Calls, CallStep(c) PROVE Promise!ConsentNext
  <2>1. ASSUME NEW t \in Targets, RunGranted(c, t) PROVE Promise!ConsentNext
    BY <2>1, RunGrantedKeeps DEF Promise!ConsentNext
  <2>2. ASSUME NEW t \in Targets \cup {Question}, Evaluate(c, t) PROVE Promise!ConsentNext
    BY <2>2, EvaluateKeeps DEF Promise!ConsentNext
  <2>3. CASE Ask(c)
    <3>1. call[c].target \in Targets \cup {Question}
      BY DEF ConsentInv, TypeInv, TypeOK, ServerTypes, CallRecord
    <3> QED
      BY <2>3, <3>1, AskKeeps DEF Promise!ConsentNext
  <2>4. CASE Announce(c) \/ Mirror(c) \/ Retract(c) \/ Unmirror(c)
    BY <2>4, <1>0, MoveKeeps
  <2>5. CASE TakeReply(c)
    BY <2>5, TakeReplyKeeps DEF Promise!ConsentNext
  <2>6. CASE Abandon(c)
    BY <2>6, AbandonKeeps DEF Promise!ConsentNext
  <2>7. CASE Finish(c)
    BY <2>7, FinishKeeps DEF Promise!ConsentNext
  <2> QED
    BY <1>1, <2>1, <2>2, <2>3, <2>4, <2>5, <2>6, <2>7 DEF CallStep
<1>2. ASSUME NEW s \in Sessions, Cut(s) PROVE Promise!ConsentNext
  BY <1>2, <1>0, CutKeeps
<1>3. ASSUME NEW q \in Asks, Send(q) \/ Notify(q) PROVE Promise!ConsentNext
  BY <1>3, <1>0, CarryKeeps DEF Send, Notify
<1>4. ASSUME NEW post \in posts, Reply(post) PROVE Promise!ConsentNext
  <2>1. CASE post.req \in pending
    BY <1>4, <2>1, ReplyKeeps DEF Promise!ConsentNext
  <2>2. CASE post.req \notin pending
    BY <1>4, <2>2, <1>0, CarryKeeps DEF Reply
  <2> QED
    BY <2>1, <2>2
<1>5. ASSUME NEW post \in posts, PostFails(post) PROVE Promise!ConsentNext
  BY <1>5, <1>0, CarryKeeps DEF PostFails, server
<1>6. ASSUME NEW p \in Pages, PageStep(p) PROVE Promise!ConsentNext
  <2>1. UNCHANGED <<gate, call, server>>
    BY <1>6, PageLeavesServer
  <2> QED
    BY <2>1, <1>0, CarryKeeps DEF server
<1>7. CASE UNCHANGED vars
  BY <1>7, <1>0, CarryKeeps DEF vars, server
<1> QED
  BY <1>1, <1>2, <1>3, <1>4, <1>5, <1>6, <1>7 DEF Next

(* The manager, the channels, the routes and the pages implement Consent:   *)
(* however replies, cancellations, lists and events interleave, a request   *)
(* is decided once, its decision is used at most once, by the call that     *)
(* asked and for what it asked, and nothing else leaves a grant.  A call    *)
(* that asks had no grant when it looked; one may have come since.          *)
THEOREM ApprovalsImplementConsent == Spec => ConsentKept
<1>1. Init => Promise!ConsentStart
  <2> SUFFICES ASSUME Init PROVE Promise!ConsentStart
    OBVIOUS
  <2>1. Stage = [q \in Asks |-> "unasked"]
    BY DEF Init, Stage, StageOf, Asks
  <2>2. /\ Grants = {}
        /\ Checked = [c \in Calls |-> {}] /\ Doing = [c \in Calls |-> {}]
    BY DEF Init, Grants, Checked, Doing, Idle
  <2> QED
    BY <2>1, <2>2 DEF Init, Promise!ConsentStart, None
<1>2. ConsentInv /\ [Next]_vars => [Promise!ConsentNext]_(Promise!consent)
  BY PromiseStep
<1> QED
  BY <1>1, <1>2, ConsentHolds, PTL DEF Spec, ConsentKept, Promise!ConsentSpec
===============================================================================
