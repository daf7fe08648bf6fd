------------------------ MODULE ApprovalsPrompts_proofs ------------------------
(***************************************************************************)
(* Where the prompts are, for any number of sessions, calls, pages,        *)
(* requests and events: a live prompt finds its page, and no dead prompt   *)
(* stays up, but for the pages whose view of it was torn.                  *)
(***************************************************************************)
EXTENDS Approvals_proofs

USE ApprovalsAssumption

Ev(type, s, q) == [type |-> type, at |-> s, req |-> q]
InStream(p, e) == \E i \in DOMAIN stream[p] : stream[p][i] = e
TornAt(p, s, q) == <<p, s, q>> \in lost
Queues(q) == {Root, Owner(q)}

(* The clearing event has still to be published: by the reply handler or by *)
(* the loop that gave the request up.                                       *)
Owing(s, q) ==
    LET l == call[asked[q].call] IN
    \/ \E i \in DOMAIN notify[q] : notify[q][i] = s
    \/ l.req = q /\ (l.pc = "retract" \/ (l.pc = "unmirror" /\ s = Root))

Due(p, s, q) == InStream(p, Ev("replied", s, q)) \/ Owing(s, q)
Owed(p, s, q) == TornAt(p, s, q) \/ Due(p, s, q)

Answering(p, s, q) == \E post \in posts : post.page = p /\ post.req = q /\ post.at = s

(* A list of the session's is on its way.                                   *)
Loading(p, f, s) == fetch[p][f].at = "served" /\ fetch[p][f].of = s

(* Torn, and if it was in a list on its way, since that list was taken.     *)
Missed(p, s, q) ==
    /\ TornAt(p, s, q)
    /\ \A f \in Fetches : Loading(p, f, s) /\ q \in fetch[p][f].list => q \in since[p][f]

(* A page and its stream speak of requests that were made, and a list holds *)
(* requests of one kind.                                                    *)
Known(p) ==
    /\ \A s \in Sessions : shown[p][s] \subseteq 1 .. Len(asked)
    /\ \A f \in Fetches : \A q \in fetch[p][f].list :
          q \in 1 .. Len(asked) /\ Kind(q) = fetch[p][f].kind
    /\ \A i \in DOMAIN stream[p] : stream[p][i].req \in 1 .. Len(asked)

(* No clearing event of a live request is on its way.                       *)
Silent(p) == \A i \in DOMAIN stream[p] :
    stream[p][i].req \in pending => stream[p][i].type = "requested"

(* The announcement of a dead request is followed by the event that clears  *)
(* it.                                                                      *)
Cleared(p, i, s, q) ==
    \/ Missed(p, s, q) \/ Owing(s, q)
    \/ \E j \in DOMAIN stream[p] : j > i /\ stream[p][j] = Ev("replied", s, q)

InOrder(p) == \A i \in DOMAIN stream[p] : \A q \in (1 .. Len(asked)) \ pending :
    \A s \in Queues(q) : stream[p][i] = Ev("requested", s, q) => Cleared(p, i, s, q)

(* A list that is older than the page's events differs from the queue only  *)
(* where an event was seen since, or is on its way.                         *)
StaleDead(p, f) == fetch[p][f].at = "served" =>
    \A q \in fetch[p][f].list \ pending : fetch[p][f].of \in Queues(q) =>
        \/ q \in since[p][f] \/ Due(p, fetch[p][f].of, q)
        \/ q \in fetch[p][f].seen /\ q \notin shown[p][fetch[p][f].of]

StaleNew(p, f) == fetch[p][f].at = "served" =>
    \A q \in pending \ fetch[p][f].list :
        Kind(q) = fetch[p][f].kind /\ fetch[p][f].of \in Announced(q) =>
            \/ q \in since[p][f]
            \/ InStream(p, Ev("requested", fetch[p][f].of, q))
            \/ /\ q \in fetch[p][f].seen
               /\ q \in shown[p][fetch[p][f].of] \/ Answering(p, fetch[p][f].of, q)

Stale(p) == \A f \in Fetches : StaleDead(p, f) /\ StaleNew(p, f)

(* A live prompt is in the queue, on its way to it, or being answered there. *)
InQueue(p) == \A q \in pending : \A s \in Announced(q) :
    \/ TornAt(p, s, q) \/ q \in shown[p][s]
    \/ InStream(p, Ev("requested", s, q)) \/ Answering(p, s, q)

NoGhosts(p) == \A s \in Sessions : \A q \in shown[p][s] \ pending :
    s \in Queues(q) => Owed(p, s, q)

(* A request answered before a queue heard of it is lost to that queue.     *)
Early(p) == \A q \in (1 .. Len(asked)) \ pending : \A s \in Unannounced(q) : Missed(p, s, q)

PageInv(p) == /\ Known(p) /\ Silent(p) /\ InOrder(p) /\ Early(p)
              /\ Stale(p) /\ InQueue(p) /\ NoGhosts(p)

(* The reply handlers are at work on dead requests only.                    *)
Handlers == \A q \in Asks : notify[q] # <<>> => q \in (1 .. Len(asked)) \ pending

PromptInv == ConsentInv /\ Handlers /\ \A p \in Pages : PageInv(p)

-------------------------------------------------------------------------------
LEMMA Facts ==
  ASSUME ConsentInv
  PROVE  /\ Len(asked) \in Nat /\ pending \subseteq 1 .. Len(asked)
         /\ \A q \in 1 .. Len(asked) : /\ q \in Asks /\ asked[q].call \in Calls
                                       /\ Owner(q) \in Sessions
                                       /\ Queues(q) \subseteq Sessions
         /\ asked \in Seq([call : Calls, target : Targets \cup {Question}])
         /\ call \in [Calls -> CallRecord]
         /\ notify \in [Asks -> Seq(Sessions)]
         /\ stream \in [Pages -> Seq(Event)]
         /\ view \in [Pages -> Sessions]
         /\ shown \in [Pages -> [Sessions -> SUBSET Asks]]
         /\ fetch \in [Pages -> [Fetches -> FetchRecord]]
         /\ since \in [Pages -> [Fetches -> SUBSET Asks]]
         /\ Root \in Sessions
<1>1. \A q \in 1 .. Len(asked) : q \in Asks /\ asked[q].call \in Calls
  BY AskedTypes
<1>2. Root \in Sessions /\ \A c \in Calls : SessionOf[c] \in Sessions
  BY DEF Sessions
<1>3. \A q \in 1 .. Len(asked) : Owner(q) \in Sessions /\ Queues(q) \subseteq Sessions
  BY <1>1, <1>2 DEF Owner, Queues
<1>4. Len(asked) \in Nat /\ pending \subseteq 1 .. Len(asked)
  BY AskedTypes DEF ConsentInv, AnsweredOnce
<1> QED
  BY <1>1, <1>2, <1>3, <1>4
     DEF ConsentInv, TypeInv, TypeOK, ServerTypes, StreamTypes, PageTypes, Event, FetchRecord

(* Where an event of one page's stream can be.                              *)
LEMMA Places ==
  ASSUME ConsentInv, NEW p \in Pages
  PROVE  /\ stream[p] \in Seq(Event) /\ Len(stream[p]) \in Nat
         /\ DOMAIN stream[p] = 1 .. Len(stream[p])
BY Facts, LenProperties

(* A call that blocks or gives up is the one that asked.                    *)
LEMMA Asker ==
  ASSUME ConsentInv, NEW c \in Calls, call[c].pc \in Blocking \cup Closing
  PROVE  /\ call[c].req \in 1 .. Len(asked) /\ asked[call[c].req].call = c
         /\ Owner(call[c].req) = SessionOf[c]
<1>1. call[c].req # 0
  BY DEF ConsentInv, TypeInv, Requests
<1>2. /\ call[c].req \in 1 .. Len(asked)
      /\ asked[call[c].req] = [call |-> c, target |-> call[c].target]
  BY <1>1 DEF ConsentInv, TypeInv, Requests
<1> QED
  BY <1>2 DEF Owner

-------------------------------------------------------------------------------
(***************************************************************************)
(* What the server may do to the prompts.                                  *)
(***************************************************************************)
Grown(p) == \A i \in DOMAIN stream[p] : i \in DOMAIN stream'[p] /\ stream'[p][i] = stream[p][i]

(* What was torn stays torn, and what the page tears since its list was     *)
(* taken adds up.                                                           *)
TornKept(p) == \A s, q : TornAt(p, s, q) => TornAt(p, s, q)'

TearsGrow(p) == TornKept(p) /\ \A f \in Fetches : since[p][f] \subseteq since'[p][f]

(* Torn, and noticed by the lists on their way.                             *)
Gap(p, s, q) ==
    /\ TornAt(p, s, q)'
    /\ \A f \in Fetches : Loading(p, f, s) => q \in since'[p][f]

LEMMA TearGrows ==
  ASSUME ConsentInv, NEW gap, Tear(gap), NEW p \in Pages
  PROVE  /\ TearsGrow(p)
         /\ \A s : \A q \in Asks : <<p, s, q>> \in gap => Gap(p, s, q)
<1>1. \A f \in Fetches : since'[p][f] =
          IF fetch[p][f].at = "served"
          THEN since[p][f] \cup {q \in Asks : <<p, fetch[p][f].of, q>> \in gap}
          ELSE since[p][f]
  BY DEF Tear
<1>2. TornKept(p) /\ \A s, q : <<p, s, q>> \in gap => TornAt(p, s, q)'
  BY DEF TornKept, TornAt, Tear
<1>3. TearsGrow(p)
  BY <1>1, <1>2 DEF TearsGrow
<1>4. ASSUME NEW s, NEW q \in Asks, <<p, s, q>> \in gap PROVE Gap(p, s, q)
  BY <1>1, <1>2, <1>4 DEF Gap, Loading
<1> QED
  BY <1>3, <1>4

LEMMA CalmGrows ==
  ASSUME UNCHANGED tears, NEW p \in Pages
  PROVE  TearsGrow(p)
BY DEF tears, TearsGrow, TornKept, TornAt

(* The event is behind all that was on its way, or dropped.                 *)
Behind(p, e) ==
    \/ Gap(p, e.at, e.req)
    \/ \E j \in DOMAIN stream'[p] : /\ stream'[p][j] = e
                                    /\ \A i \in DOMAIN stream[p] : i < j

(* What is new in the stream of a page is about requests that were made,    *)
(* clears none that is live, and announces no dead one unnoticed.           *)
Proper(p) == \A i \in DOMAIN stream'[p] \ DOMAIN stream[p] :
    LET e == stream'[p][i] IN
    /\ e.req \in 1 .. Len(asked')
    /\ e.req \in pending' => e.type = "requested"
    /\ \A s, q : e = Ev("requested", s, q) /\ q \notin pending' /\ s \in Queues(q)'
         => Missed(p, s, q)'

ServerMove ==
    /\ UNCHANGED client
    /\ \A p \in Pages : TearsGrow(p)
    /\ \A q \in 1 .. Len(asked) : q \in 1 .. Len(asked') /\ asked'[q] = asked[q]
    /\ pending' \cap 1 .. Len(asked) \subseteq pending
    /\ \A p \in Pages : Grown(p) /\ Proper(p)
    /\ \A q \in 1 .. Len(asked) : \A s \in Queues(q) :
          Owing(s, q) \/ (q \in pending /\ q \notin pending') =>
             Owing(s, q)' \/ \A p \in Pages : Behind(p, Ev("replied", s, q))
    /\ \A q \in pending' : \A s \in Announced(q)' :
          \/ q \in pending /\ s \in Announced(q)
          \/ \A p \in Pages : Behind(p, Ev("requested", s, q))
    /\ \A q \in (1 .. Len(asked')) \ pending' : \A s \in Unannounced(q)' :
          \/ q \in (1 .. Len(asked)) \ pending /\ s \in Unannounced(q)
          \/ \A p \in Pages : Gap(p, s, q)
    /\ \A post \in posts : post \in posts' \/ post.req \notin pending'

LEMMA ServerKeeps ==
  ASSUME PromptInv, ServerMove, NEW p \in Pages
  PROVE  PageInv(p)'
<1>1. PageInv(p) /\ pending \subseteq 1 .. Len(asked)
  BY Facts DEF PromptInv
<1>2. /\ view'[p] = view[p] /\ shown'[p] = shown[p] /\ fetch'[p] = fetch[p]
      /\ Grown(p) /\ Proper(p) /\ TearsGrow(p)
  BY DEF ServerMove, client
<1>3. ASSUME NEW q \in 1 .. Len(asked)
      PROVE  /\ q \in 1 .. Len(asked') /\ Owner(q)' = Owner(q) /\ Kind(q)' = Kind(q)
             /\ Queues(q)' = Queues(q) /\ (q \in pending' => q \in pending)
  BY <1>3 DEF ServerMove, Owner, Kind, Queues
<1>4. /\ \A s, q : TornAt(p, s, q) => TornAt(p, s, q)'
      /\ \A s, q : Missed(p, s, q) \/ Gap(p, s, q) => Missed(p, s, q)'
      /\ \A s, q : Gap(p, s, q) => TornAt(p, s, q)'
      /\ \A f \in Fetches : since[p][f] \subseteq since'[p][f]
  BY <1>2 DEF TearsGrow, TornKept, Missed, Gap, Loading
<1>5. \A e : InStream(p, e) => InStream(p, e)'
  BY <1>2 DEF InStream, Grown
<1>6. ASSUME NEW e, Behind(p, e) PROVE Gap(p, e.at, e.req) \/ InStream(p, e)'
  BY <1>6 DEF Behind, InStream
<1>7. ASSUME NEW q \in 1 .. Len(asked), NEW s \in Queues(q), q \notin pending',
             q \in pending \/ Due(p, s, q)
      PROVE  Gap(p, s, q) \/ Due(p, s, q)'
  <2>1. CASE Owing(s, q) \/ q \in pending
    <3>1. Owing(s, q)' \/ Behind(p, Ev("replied", s, q))
      BY <1>7, <2>1 DEF ServerMove
    <3> QED
      BY <1>6, <3>1 DEF Due, Ev
  <2>2. CASE InStream(p, Ev("replied", s, q))
    BY <1>5, <2>2 DEF Due
  <2> QED
    BY <1>7, <2>1, <2>2 DEF Due
<1>8. Known(p)'
  <2>1. \A i \in DOMAIN stream'[p] : stream'[p][i].req \in 1 .. Len(asked')
    BY <1>1, <1>2, <1>3 DEF PageInv, Known, Grown, Proper
  <2> QED
    BY <1>1, <1>2, <1>3, <2>1 DEF PageInv, Known
<1>9. Silent(p)'
  <2> SUFFICES ASSUME NEW i \in DOMAIN stream'[p], stream'[p][i].req \in pending'
               PROVE  stream'[p][i].type = "requested"
    BY DEF Silent
  <2>1. CASE i \in DOMAIN stream[p]
    BY <1>1, <1>2, <1>3, <2>1 DEF PageInv, Known, Silent, Grown
  <2>2. CASE i \notin DOMAIN stream[p]
    BY <1>2, <2>2 DEF Proper
  <2> QED
    BY <2>1, <2>2
<1>10. InOrder(p)'
  <2> SUFFICES ASSUME NEW i \in DOMAIN stream'[p], NEW q \in 1 .. Len(asked'),
                      q \notin pending', NEW s \in Queues(q)',
                      stream'[p][i] = Ev("requested", s, q)
               PROVE  Cleared(p, i, s, q)'
    BY DEF InOrder, Ev
  <2>1. CASE i \notin DOMAIN stream[p]
    BY <1>2, <2>1 DEF Proper, Cleared
  <2>2. CASE i \in DOMAIN stream[p]
    <3>1. stream'[p][i] = stream[p][i] /\ q \in 1 .. Len(asked) /\ s \in Queues(q)
      <4>1. stream'[p][i] = stream[p][i]
        BY <1>2, <2>2 DEF Grown
      <4>2. stream[p][i].req \in 1 .. Len(asked) /\ stream[p][i].req = q
        BY <1>1, <2>2, <4>1 DEF PageInv, Known, Ev
      <4> QED
        BY <1>3, <4>1, <4>2
    <3>2. CASE Owing(s, q) \/ q \in pending
      <4>1. Owing(s, q)' \/ Behind(p, Ev("replied", s, q))
        BY <3>1, <3>2 DEF ServerMove
      <4>2. CASE Behind(p, Ev("replied", s, q))
        <5>1. CASE Gap(p, s, q)
          BY <1>4, <5>1 DEF Cleared
        <5>2. CASE \E j \in DOMAIN stream'[p] : /\ stream'[p][j] = Ev("replied", s, q)
                                              /\ \A k \in DOMAIN stream[p] : k < j
          <6>1. PICK j \in DOMAIN stream'[p] : /\ stream'[p][j] = Ev("replied", s, q)
                                               /\ \A k \in DOMAIN stream[p] : k < j
            BY <5>2
          <6> QED
            BY <2>2, <6>1 DEF Cleared, Ev
        <5> QED
          BY <4>2, <5>1, <5>2 DEF Behind, Ev
      <4> QED
        BY <4>1, <4>2 DEF Cleared
    <3>3. CASE ~Owing(s, q) /\ q \notin pending
      <4>1. \/ Missed(p, s, q)
            \/ \E j \in DOMAIN stream[p] : j > i /\ stream[p][j] = Ev("replied", s, q)
        BY <1>1, <2>2, <3>1, <3>3 DEF PageInv, InOrder, Cleared
      <4>2. CASE Missed(p, s, q)
        BY <1>4, <4>2 DEF Cleared
      <4>3. ASSUME NEW j \in DOMAIN stream[p], j > i, stream[p][j] = Ev("replied", s, q)
            PROVE  Cleared(p, i, s, q)'
        BY <1>2, <4>3 DEF Cleared, Grown, Ev
      <4> QED
        BY <4>1, <4>2, <4>3
    <3> QED
      BY <3>2, <3>3
  <2> QED
    BY <2>1, <2>2
<1>11. ASSUME NEW f \in Fetches PROVE StaleDead(p, f)'
  <2> SUFFICES ASSUME fetch[p][f].at = "served", NEW s, s = fetch[p][f].of,
                      NEW q \in fetch[p][f].list, q \notin pending', s \in Queues(q)'
               PROVE  \/ q \in since'[p][f] \/ Due(p, s, q)'
                      \/ q \in fetch[p][f].seen /\ q \notin shown[p][s]
    BY <1>2 DEF StaleDead
  <2>1. q \in 1 .. Len(asked) /\ s \in Queues(q)
    BY <1>1, <1>3 DEF PageInv, Known
  <2>2. \/ q \in pending \/ q \in since[p][f] \/ Due(p, s, q)
        \/ q \in fetch[p][f].seen /\ q \notin shown[p][s]
    BY <1>1, <2>1 DEF PageInv, Stale, StaleDead
  <2>3. Gap(p, s, q) => q \in since'[p][f]
    BY DEF Gap, Loading
  <2> QED
    BY <1>4, <1>7, <2>1, <2>2, <2>3
<1>12. ASSUME NEW q \in pending', NEW s \in Announced(q)'
       PROVE  \/ Gap(p, s, q) \/ InStream(p, Ev("requested", s, q))'
              \/ q \in pending /\ s \in Announced(q)
  <2>1. \/ q \in pending /\ s \in Announced(q)
        \/ Behind(p, Ev("requested", s, q))
    BY <1>12 DEF ServerMove
  <2> QED
    BY <1>6, <2>1 DEF Ev
<1>13. ASSUME NEW f \in Fetches PROVE StaleNew(p, f)'
  <2> SUFFICES ASSUME fetch[p][f].at = "served", NEW s, s = fetch[p][f].of,
                      NEW q \in pending', q \notin fetch[p][f].list,
                      Kind(q)' = fetch[p][f].kind, s \in Announced(q)'
               PROVE  \/ q \in since'[p][f] \/ InStream(p, Ev("requested", s, q))'
                      \/ q \in fetch[p][f].seen /\ (q \in shown[p][s] \/ Answering(p, s, q)')
    BY <1>2 DEF StaleNew
  <2>1. CASE q \in pending /\ s \in Announced(q)
    <3>1. Kind(q) = fetch[p][f].kind
      BY <1>1, <1>3, <2>1
    <3>2. \/ q \in since[p][f] \/ InStream(p, Ev("requested", s, q))
          \/ q \in fetch[p][f].seen /\ (q \in shown[p][s] \/ Answering(p, s, q))
      BY <1>1, <2>1, <3>1 DEF PageInv, Stale, StaleNew
    <3>3. Answering(p, s, q) => Answering(p, s, q)'
      BY DEF ServerMove, Answering
    <3> QED
      BY <1>4, <1>5, <3>2, <3>3
  <2>2. Gap(p, s, q) => q \in since'[p][f]
    BY DEF Gap, Loading
  <2> QED
    BY <1>12, <2>1, <2>2
<1>14. InQueue(p)'
  <2> SUFFICES ASSUME NEW q \in pending', NEW s \in Announced(q)'
               PROVE  \/ TornAt(p, s, q)' \/ q \in shown[p][s]
                      \/ InStream(p, Ev("requested", s, q))' \/ Answering(p, s, q)'
    BY <1>2 DEF InQueue
  <2>1. CASE q \in pending /\ s \in Announced(q)
    <3>1. Answering(p, s, q) => Answering(p, s, q)'
      BY DEF ServerMove, Answering
    <3> QED
      BY <1>1, <1>4, <1>5, <2>1, <3>1 DEF PageInv, InQueue
  <2> QED
    BY <1>4, <1>12, <2>1
<1>15. NoGhosts(p)'
  <2> SUFFICES ASSUME NEW s \in Sessions, NEW q \in shown[p][s], q \notin pending',
                      s \in Queues(q)'
               PROVE  Owed(p, s, q)'
    BY <1>2 DEF NoGhosts
  <2>1. q \in 1 .. Len(asked) /\ s \in Queues(q)
    BY <1>1, <1>3 DEF PageInv, Known
  <2> QED
    BY <1>1, <1>4, <1>7, <2>1 DEF PageInv, NoGhosts, Owed
<1>16. Early(p)'
  BY <1>1, <1>4 DEF ServerMove, PageInv, Early
<1> QED
  BY <1>8, <1>9, <1>10, <1>11, <1>13, <1>14, <1>15, <1>16 DEF PageInv, Stale

-------------------------------------------------------------------------------
(***************************************************************************)
(* The server's steps, one by one.                                         *)
(***************************************************************************)
LEMMA PublishAppends ==
  ASSUME ConsentInv, NEW type \in {"requested", "replied"}, NEW s \in Sessions,
         NEW q \in 1 .. Len(asked), Publish(type, s, q), NEW p \in Pages
  PROVE  /\ Grown(p)
         /\ \A i \in DOMAIN stream'[p] \ DOMAIN stream[p] : stream'[p][i] = Ev(type, s, q)
         /\ Behind(p, Ev(type, s, q))
         /\ TearsGrow(p)
<1> DEFINE e == Ev(type, s, q)
<1>0. e \in Event
  BY Facts DEF Ev, Event
<1>1. stream[p] \in Seq(Event) /\ DOMAIN stream[p] = 1 .. Len(stream[p])
      /\ Len(stream[p]) \in Nat
  BY Places
<1> DEFINE gap == {<<x, s, q>> : x \in {y \in Pages : ~Hears(y)}}
<1>2. TearsGrow(p) /\ (<<p, s, q>> \in gap => Gap(p, s, q))
  <2>1. Tear(gap) /\ q \in Asks
    BY Facts DEF Publish
  <2> HIDE DEF gap
  <2> QED
    BY <2>1, TearGrows
<1>3. CASE Hears(p)
  <2>1. stream'[p] = Append(stream[p], e)
    BY <1>3 DEF Publish, Ev
  <2> HIDE DEF e
  <2>2. /\ Append(stream[p], e) \in Seq(Event)
        /\ Len(Append(stream[p], e)) = Len(stream[p]) + 1
        /\ \A i \in 1 .. Len(stream[p]) : Append(stream[p], e)[i] = stream[p][i]
        /\ Append(stream[p], e)[Len(stream[p]) + 1] = e
    BY <1>0, <1>1, AppendProperties
  <2>3. DOMAIN stream'[p] = 1 .. Len(stream[p]) + 1
    BY <1>1, <2>1, <2>2, LenProperties
  <2>4. Grown(p)
    BY <1>1, <2>1, <2>2, <2>3 DEF Grown
  <2>5. \A i \in DOMAIN stream'[p] \ DOMAIN stream[p] : stream'[p][i] = e
    <3>1. ASSUME NEW i \in 1 .. Len(stream[p]) + 1, i \notin 1 .. Len(stream[p])
          PROVE  i = Len(stream[p]) + 1
      BY <1>1, <3>1
    <3> QED
      BY <1>1, <2>1, <2>2, <2>3, <3>1
  <2>6. Behind(p, e)
    <3>1. /\ Len(stream[p]) + 1 \in DOMAIN stream'[p]
          /\ stream'[p][Len(stream[p]) + 1] = e
          /\ \A i \in DOMAIN stream[p] : i < Len(stream[p]) + 1
      BY <1>1, <2>1, <2>2, <2>3
    <3> QED
      BY <3>1 DEF Behind
  <2> QED
    BY <1>2, <2>4, <2>5, <2>6 DEF e
<1>4. CASE ~Hears(p)
  <2>1. stream'[p] = stream[p] /\ <<p, s, q>> \in gap
    BY <1>4 DEF Publish
  <2> QED
    BY <1>2, <2>1 DEF Grown, Behind, Ev
<1> QED
  BY <1>3, <1>4

LEMMA StillStream ==
  ASSUME UNCHANGED stream, NEW p \in Pages
  PROVE  Grown(p) /\ Proper(p)
BY DEF Grown, Proper

\* A call that is not about to publish anything for q owes it nothing.
Speaking == {"announce", "mirror", "retract", "unmirror"}
Mute(d, q) == call[d].req # q \/ call[d].pc \notin Speaking

LEMMA SameFor ==
  ASSUME NEW q \in 1 .. Len(asked), asked'[q] = asked[q], notify'[q] = notify[q],
         \/ /\ call'[asked[q].call].pc = call[asked[q].call].pc
            /\ call'[asked[q].call].req = call[asked[q].call].req
         \/ Mute(asked[q].call, q) /\ Mute(asked[q].call, q)'
  PROVE  /\ Unannounced(q)' = Unannounced(q)
         /\ Announced(q)' = Announced(q)
         /\ \A s : Owing(s, q)' = Owing(s, q)
<1> DEFINE d == asked[q].call
<1>1. Owner(q)' = Owner(q)
  BY DEF Owner
<1>2. Unannounced(q)' = Unannounced(q)
  <2>1. CASE call'[d].pc = call[d].pc /\ call'[d].req = call[d].req
    BY <1>1, <2>1 DEF Unannounced
  <2>2. CASE Mute(d, q) /\ Mute(d, q)'
    <3>1. Unannounced(q) = {} /\ Unannounced(q)' = {}
      BY <2>2 DEF Unannounced, Mute, Speaking
    <3> QED
      BY <3>1
  <2> QED
    BY <2>1, <2>2
<1>3. ASSUME NEW s PROVE Owing(s, q)' = Owing(s, q)
  BY DEF Owing, Mute, Speaking
<1> QED
  BY <1>1, <1>2, <1>3 DEF Announced

\* The step concerns one request only, or none.
LEMMA OneRequest ==
  ASSUME PromptInv, NEW q0,
         UNCHANGED client, \A p \in Pages : TearsGrow(p),
         \A q \in 1 .. Len(asked) : q \in 1 .. Len(asked') /\ asked'[q] = asked[q],
         1 .. Len(asked') \subseteq 1 .. Len(asked) \cup {q0},
         \A p \in Pages : Grown(p) /\ Proper(p),
         pending' \subseteq pending \cup {q0}, pending \subseteq pending' \cup {q0},
         q0 \in 1 .. Len(asked) /\ q0 \in pending' => q0 \in pending,
         \A post \in posts : post \in posts' \/ post.req \notin pending',
         \A q \in (1 .. Len(asked)) \ {q0} :
            /\ notify'[q] = notify[q]
            /\ \/ /\ call'[asked[q].call].pc = call[asked[q].call].pc
                  /\ call'[asked[q].call].req = call[asked[q].call].req
               \/ Mute(asked[q].call, q) /\ Mute(asked[q].call, q)',
         q0 \in 1 .. Len(asked) => \A s \in Queues(q0) :
            Owing(s, q0) \/ (q0 \in pending /\ q0 \notin pending') =>
               Owing(s, q0)' \/ \A p \in Pages : Behind(p, Ev("replied", s, q0)),
         q0 \in pending' => \A s \in Announced(q0)' :
            \/ q0 \in pending /\ s \in Announced(q0)
            \/ \A p \in Pages : Behind(p, Ev("requested", s, q0)),
         q0 \in (1 .. Len(asked')) \ pending' => \A s \in Unannounced(q0)' :
            \/ q0 \in (1 .. Len(asked)) \ pending /\ s \in Unannounced(q0)
            \/ \A p \in Pages : Gap(p, s, q0)
  PROVE  ServerMove
<1>0. pending \subseteq 1 .. Len(asked)
  BY Facts DEF PromptInv
<1>1. ASSUME NEW q \in (1 .. Len(asked)) \ {q0}
      PROVE  /\ Unannounced(q)' = Unannounced(q) /\ Announced(q)' = Announced(q)
             /\ \A s : Owing(s, q)' = Owing(s, q)
             /\ (q \in pending <=> q \in pending')
  BY <1>1, SameFor
<1>2. pending' \cap 1 .. Len(asked) \subseteq pending
  BY <1>1
<1>3. ASSUME NEW q \in 1 .. Len(asked), NEW s \in Queues(q),
             Owing(s, q) \/ (q \in pending /\ q \notin pending')
      PROVE  Owing(s, q)' \/ \A p \in Pages : Behind(p, Ev("replied", s, q))
  BY <1>1, <1>3
<1>4. ASSUME NEW q \in pending', NEW s \in Announced(q)'
      PROVE  \/ q \in pending /\ s \in Announced(q)
             \/ \A p \in Pages : Behind(p, Ev("requested", s, q))
  <2>1. CASE q = q0
    BY <1>4, <2>1
  <2>2. CASE q # q0
    <3>1. q \in pending /\ q \in (1 .. Len(asked)) \ {q0}
      BY <1>0, <1>4, <2>2
    <3> QED
      BY <1>1, <1>4, <3>1
  <2> QED
    BY <2>1, <2>2
<1>5. ASSUME NEW q \in (1 .. Len(asked')) \ pending', NEW s \in Unannounced(q)'
      PROVE  \/ q \in (1 .. Len(asked)) \ pending /\ s \in Unannounced(q)
             \/ \A p \in Pages : Gap(p, s, q)
  <2>1. CASE q = q0
    BY <1>5, <2>1
  <2>2. CASE q # q0
    <3>1. q \in (1 .. Len(asked)) \ {q0}
      BY <2>2
    <3> QED
      BY <1>1, <1>5, <3>1
  <2> QED
    BY <2>1, <2>2
<1> QED
  BY <1>2, <1>3, <1>4, <1>5 DEF ServerMove

ServerFine == ServerMove /\ Handlers'

\* Steps that tell nobody anything and leave the manager alone.
LEMMA SilentFine ==
  ASSUME PromptInv, UNCHANGED <<asked, pending, notify, stream, client, posts, tears>>,
         \A d \in Calls :
            \/ call'[d].pc = call[d].pc /\ call'[d].req = call[d].req
            \/ call[d].pc \notin Speaking /\ call'[d].pc \notin Speaking
  PROVE  ServerFine
<1>0. \A q \in 1 .. Len(asked) : asked[q].call \in Calls
  BY Facts DEF PromptInv
<1>1. ASSUME NEW q \in 1 .. Len(asked)
      PROVE  \/ /\ call'[asked[q].call].pc = call[asked[q].call].pc
                /\ call'[asked[q].call].req = call[asked[q].call].req
             \/ Mute(asked[q].call, q) /\ Mute(asked[q].call, q)'
  BY <1>0 DEF Mute
<1>2. \A p \in Pages : Grown(p) /\ Proper(p)
  BY StillStream
<1>3. 0 \notin 1 .. Len(asked) /\ 0 \notin pending'
  <2>1. 0 \notin 1 .. Len(asked)
    BY Facts DEF PromptInv
  <2> QED
    BY <2>1, Facts DEF PromptInv
<1>4. ServerMove
  BY <1>1, <1>2, <1>3, OneRequest, CalmGrows
<1>5. Handlers'
  BY DEF PromptInv, Handlers
<1> QED
  BY <1>4, <1>5 DEF ServerFine

LEMMA QuietCallsFine ==
  ASSUME PromptInv, NEW c \in Calls,
         \/ \E t \in Targets : RunGranted(c, t)
         \/ \E t \in Targets \cup {Question} : Evaluate(c, t)
         \/ TakeReply(c) \/ Finish(c)
  PROVE  ServerFine
<1>0. call \in [Calls -> CallRecord]
  BY Facts DEF PromptInv
<1>1. UNCHANGED <<asked, pending, notify, stream, client, posts, tears>>
  BY DEF RunGranted, Evaluate, TakeReply, Finish, server
<1>2. call[c].pc \in {"idle", "wait", "run"}
  BY DEF RunGranted, Evaluate, TakeReply, Finish
<1>3. ASSUME NEW r, call' = [call EXCEPT ![c] = r], r.pc \in {"idle", "ask", "run"}
      PROVE  \A d \in Calls : \/ d # c /\ call'[d] = call[d]
                              \/ d = c /\ call'[d].pc \in {"idle", "ask", "run"}
  BY <1>0, <1>3
<1>4. \A d \in Calls : \/ d # c /\ call'[d] = call[d]
                       \/ d = c /\ call'[d].pc \in {"idle", "ask", "run"}
  <2>1. Idle.pc = "idle" /\ \A q, t : [Idle EXCEPT !.pc = "run", !.req = q, !.target = t].pc = "run"
    BY DEF Idle
  <2>2. ASSUME NEW pc \in {"ask", "run"}, NEW t
        PROVE  [Idle EXCEPT !.pc = pc, !.target = t].pc = pc
    BY DEF Idle
  <2>3. ASSUME NEW t, RunGranted(c, t)
        PROVE  call' = [call EXCEPT ![c] = [Idle EXCEPT !.pc = "run", !.target = t]]
    BY <2>3 DEF RunGranted
  <2>4. ASSUME NEW t, Evaluate(c, t)
        PROVE  call' = [call EXCEPT ![c] = [Idle EXCEPT !.pc = "ask", !.target = t]]
    BY <2>4 DEF Evaluate
  <2>5. ASSUME TakeReply(c)
        PROVE  \/ call' = [call EXCEPT ![c] = Idle]
               \/ call' = [call EXCEPT ![c] = [Idle EXCEPT !.pc = "run", !.req = call[c].req,
                                                          !.target = call[c].target]]
    BY <2>5 DEF TakeReply
  <2>6. ASSUME Finish(c) PROVE call' = [call EXCEPT ![c] = Idle]
    BY <2>6 DEF Finish
  <2>7. CASE \E t \in Targets : RunGranted(c, t)
    BY <1>3, <2>2, <2>3, <2>7
  <2>8. CASE \E t \in Targets \cup {Question} : Evaluate(c, t)
    BY <1>3, <2>2, <2>4, <2>8
  <2>9. CASE TakeReply(c)
    BY <1>3, <2>1, <2>5, <2>9
  <2>10. CASE Finish(c)
    BY <1>3, <2>1, <2>6, <2>10
  <2> QED
    BY <2>7, <2>8, <2>9, <2>10
<1> QED
  BY <1>1, <1>2, <1>4, SilentFine DEF Speaking

\* The answer goes into the channel: no page hears of that.
LEMMA SendFine ==
  ASSUME PromptInv, NEW q \in Asks, Send(q)
  PROVE  ServerFine
<1>1. UNCHANGED <<asked, pending, notify, stream, client, posts, tears, call>>
  BY DEF Send
<1> QED
  BY <1>1, SilentFine

LEMMA CutFine ==
  ASSUME PromptInv, NEW s \in Sessions, Cut(s)
  PROVE  ServerFine
<1>0. call \in [Calls -> CallRecord]
  BY Facts DEF PromptInv
<1>1. UNCHANGED <<asked, pending, notify, stream, client, posts, tears>>
  BY DEF Cut, server
<1>2. ASSUME NEW d \in Calls PROVE call'[d].pc = call[d].pc /\ call'[d].req = call[d].req
  <2>1. call[d] \in CallRecord
    BY <1>0
  <2>2. call'[d] = call[d] \/ call'[d] = [call[d] EXCEPT !.cut = TRUE]
    BY DEF Cut
  <2> QED
    BY <2>1, <2>2 DEF CallRecord
<1> QED
  BY <1>1, <1>2, SilentFine

LEMMA AskFine ==
  ASSUME PromptInv, NEW c \in Calls, Ask(c)
  PROVE  ServerFine
<1> PICK q0 : q0 = Len(asked) + 1
  OBVIOUS
<1> PICK t : t = call[c].target
  OBVIOUS
<1>0. /\ call \in [Calls -> CallRecord] /\ Len(asked) \in Nat
      /\ pending \subseteq 1 .. Len(asked)
      /\ asked \in Seq([call : Calls, target : Targets \cup {Question}])
  BY Facts DEF PromptInv
<1>1. /\ asked' = Append(asked, [call |-> c, target |-> t])
      /\ pending' = pending \cup {q0} /\ call[c].pc = "ask"
      /\ UNCHANGED <<notify, stream, client, posts, tears>>
  BY DEF Ask
<1>2. /\ Len(asked') = q0 /\ asked'[q0] = [call |-> c, target |-> t]
      /\ \A q \in 1 .. Len(asked) : q \in 1 .. Len(asked') /\ asked'[q] = asked[q]
      /\ q0 \notin 1 .. Len(asked) /\ 1 .. Len(asked') = 1 .. Len(asked) \cup {q0}
  <2>1. [call |-> c, target |-> t] \in [call : Calls, target : Targets \cup {Question}]
    BY <1>0 DEF CallRecord
  <2> QED
    BY <1>0, <1>1, <2>1, AppendProperties
<1>3. call'[c].req = q0 /\ call'[c].pc = "announce" /\ \A d \in Calls : d # c => call'[d] = call[d]
  BY <1>0, AskMoves
<1>4. \A q \in 1 .. Len(asked) : asked[q].call \in Calls
  BY Facts DEF PromptInv
<1>5. ASSUME NEW q \in 1 .. Len(asked)
      PROVE  /\ notify'[q] = notify[q]
             /\ \/ /\ call'[asked[q].call].pc = call[asked[q].call].pc
                   /\ call'[asked[q].call].req = call[asked[q].call].req
                \/ Mute(asked[q].call, q) /\ Mute(asked[q].call, q)'
  <2>1. CASE asked[q].call = c
    <3>1. Mute(c, q)
      BY <1>1 DEF Mute, Speaking
    <3>2. Mute(c, q)'
      BY <1>2, <1>3 DEF Mute
    <3>3. Mute(asked[q].call, q)'
      BY <1>1, <1>2, <1>3, <2>1 DEF Mute
    <3> QED
      BY <1>1, <2>1, <3>1, <3>3
  <2>2. CASE asked[q].call # c
    BY <1>1, <1>3, <1>4, <2>2
  <2> QED
    BY <2>1, <2>2
<1>6. Announced(q0)' = {}
  <2>1. Owner(q0)' = SessionOf[c]
    BY <1>2 DEF Owner
  <2>2. Unannounced(q0)' = {SessionOf[c], Root}
    BY <1>2, <1>3, <2>1 DEF Unannounced
  <2> QED
    BY <2>1, <2>2 DEF Announced
<1>7. \A p \in Pages : Grown(p) /\ Proper(p)
  BY <1>1, StillStream
<1>8. ServerMove
  BY <1>1, <1>2, <1>5, <1>6, <1>7, OneRequest, CalmGrows
<1>9. Handlers'
  BY <1>1, <1>2 DEF PromptInv, Handlers
<1> QED
  BY <1>8, <1>9 DEF ServerFine

\* The steps of a call that publishes, gives up or is answered concern only
\* its own request.
LEMMA OwnCallOnly ==
  ASSUME ConsentInv, NEW c \in Calls, NEW q0, q0 = call[c].req,
         call' = [call EXCEPT ![c] = Idle]
           \/ \E pc \in {"wait", "mirror", "retract", "unmirror"} :
                 call' = [call EXCEPT ![c].pc = pc],
         UNCHANGED asked, NEW q \in (1 .. Len(asked)) \ {q0}
  PROVE  \/ /\ call'[asked[q].call].pc = call[asked[q].call].pc
            /\ call'[asked[q].call].req = call[asked[q].call].req
         \/ Mute(asked[q].call, q) /\ Mute(asked[q].call, q)'
<1>0. call \in [Calls -> CallRecord] /\ asked[q].call \in Calls
  BY Facts
<1>1. CASE asked[q].call # c
  BY <1>0, <1>1
<1>2. CASE asked[q].call = c
  <2>1. Mute(c, q)
    BY DEF Mute
  <2>2. call'[c].req # q \/ call'[c].pc \notin Speaking
    <3>1. CASE call' = [call EXCEPT ![c] = Idle]
      BY <1>0, <3>1 DEF Idle, Speaking
    <3>2. ASSUME NEW pc \in {"wait", "mirror", "retract", "unmirror"},
                 call' = [call EXCEPT ![c].pc = pc]
          PROVE  call'[c].req = call[c].req
      BY <1>0, <3>2, Moved
    <3> QED
      BY <3>1, <3>2
  <2>3. Mute(asked[q].call, q)'
    BY <1>2, <2>2 DEF Mute
  <2> QED
    BY <1>2, <2>1, <2>3
<1> QED
  BY <1>1, <1>2

LEMMA PublishProper ==
  ASSUME PromptInv, NEW type \in {"requested", "replied"}, NEW s \in Sessions,
         NEW q \in 1 .. Len(asked), Publish(type, s, q),
         UNCHANGED <<asked, pending, client>>,
         type = "requested" => (q \notin pending => s \in Unannounced(q)),
         type = "replied" => q \notin pending,
         NEW p \in Pages
  PROVE  Proper(p)
<1>1. /\ \A i \in DOMAIN stream'[p] \ DOMAIN stream[p] : stream'[p][i] = Ev(type, s, q)
      /\ TearsGrow(p)
  BY PublishAppends DEF PromptInv
<1>2. CASE type = "requested"
  <2>1. q \in pending \/ Missed(p, s, q)'
    <3>1. q \in pending \/ Missed(p, s, q)
      BY <1>2 DEF PromptInv, PageInv, Early
    <3> QED
      BY <1>1, <3>1 DEF Missed, Loading, TearsGrow, TornKept, client
  <2>2. ASSUME NEW s1, NEW q1, Ev(type, s, q) = Ev("requested", s1, q1)
        PROVE  s1 = s /\ q1 = q
    BY <2>2 DEF Ev
  <2>3. Ev(type, s, q).req = q /\ Ev(type, s, q).type = "requested"
    BY <1>2 DEF Ev
  <2> QED
    BY <1>1, <2>1, <2>2, <2>3 DEF Proper
<1>3. CASE type = "replied"
  <2>1. Ev(type, s, q).req = q
    BY DEF Ev
  <2>2. \A s1, q1 : Ev(type, s, q) # Ev("requested", s1, q1)
    BY <1>3 DEF Ev
  <2> QED
    BY <1>1, <1>3, <2>1, <2>2 DEF Proper
<1> QED
  BY <1>2, <1>3

LEMMA AnnounceFine ==
  ASSUME PromptInv, NEW c \in Calls, Announce(c) \/ Mirror(c)
  PROVE  ServerFine
<1> PICK q0 : q0 = call[c].req
  OBVIOUS
<1> PICK s0 : s0 = IF Announce(c) THEN SessionOf[c] ELSE Root
  OBVIOUS
<1>0. /\ call \in [Calls -> CallRecord] /\ ConsentInv
      /\ \A q \in 1 .. Len(asked) : asked[q].call \in Calls
      /\ SessionOf[c] \in Sessions /\ Root \in Sessions
  BY Facts DEF PromptInv, Sessions
<1>1. call[c].pc \in {"announce", "mirror"} /\ (Announce(c) <=> call[c].pc = "announce")
  BY DEF Announce, Mirror
<1>2. q0 \in 1 .. Len(asked) /\ asked[q0].call = c /\ Owner(q0) = SessionOf[c]
  BY <1>0, <1>1, Asker DEF Blocking
<1>3. Publish("requested", s0, q0) /\ s0 \in Sessions
  BY <1>0, <1>1 DEF Announce, Mirror
<1>4. UNCHANGED <<asked, pending, notify, client, posts>>
  BY DEF Announce, Mirror, server
<1>5. PICK pc \in {"wait", "mirror"} :
          /\ call' = [call EXCEPT ![c].pc = pc]
          /\ pc = "mirror" <=> call[c].pc = "announce" /\ SessionOf[c] # Root
  BY <1>1 DEF Announce, Mirror
<1>6. call'[c].pc = pc /\ call'[c].req = q0
  BY <1>0, <1>5, Moved
<1>7. Unannounced(q0) = IF call[c].pc = "announce" THEN {Owner(q0), Root} ELSE {Root}
  BY <1>1, <1>2 DEF Unannounced
<1>8. Unannounced(q0)' = IF pc = "mirror" THEN {Root} ELSE {}
  BY <1>2, <1>4, <1>6 DEF Unannounced
<1>9. Owner(q0)' = Owner(q0)
  BY <1>4 DEF Owner
<1>10. ASSUME NEW p \in Pages
       PROVE  Grown(p) /\ Proper(p) /\ Behind(p, Ev("requested", s0, q0)) /\ TearsGrow(p)
  <2>1. s0 \in Unannounced(q0)
    BY <1>1, <1>2, <1>7
  <2>2. Proper(p)
    BY <1>2, <1>3, <1>4, <2>1, PublishProper
  <2> QED
    BY <1>0, <1>2, <1>3, <2>2, PublishAppends
<1>12. \A s \in Announced(q0)' : s \in Announced(q0) \/ s = s0
  BY <1>1, <1>2, <1>5, <1>7, <1>8, <1>9 DEF Announced
<1>13. \A s : Owing(s, q0) => Owing(s, q0)'
  BY <1>1, <1>2, <1>4 DEF Owing
<1>14. \A q \in (1 .. Len(asked)) \ {q0} :
         /\ notify'[q] = notify[q]
         /\ \/ /\ call'[asked[q].call].pc = call[asked[q].call].pc
               /\ call'[asked[q].call].req = call[asked[q].call].req
            \/ Mute(asked[q].call, q) /\ Mute(asked[q].call, q)'
  BY <1>0, <1>4, <1>5, OwnCallOnly
<1>15. \A s \in Unannounced(q0)' : s \in Unannounced(q0)
  BY <1>7, <1>8
<1>16. ServerMove
  BY <1>2, <1>4, <1>10, <1>12, <1>13, <1>14, <1>15, OneRequest
<1>17. Handlers'
  BY <1>4 DEF PromptInv, Handlers
<1> QED
  BY <1>16, <1>17 DEF ServerFine

LEMMA AbandonFine ==
  ASSUME PromptInv, NEW c \in Calls, Abandon(c)
  PROVE  ServerFine
<1> PICK q0 : q0 = call[c].req
  OBVIOUS
<1>0. call \in [Calls -> CallRecord] /\ ConsentInv
  BY Facts DEF PromptInv
<1>1. /\ call[c].pc = "wait" /\ pending' = pending \ {q0}
      /\ call' = [call EXCEPT ![c].pc = "retract"]
      /\ UNCHANGED <<asked, notify, stream, client, posts, tears>>
  BY DEF Abandon
<1>2. q0 \in 1 .. Len(asked) /\ asked[q0].call = c
  BY <1>0, <1>1, Asker DEF Blocking
<1>3. call'[c].pc = "retract" /\ call'[c].req = q0
  BY <1>0, <1>1, Moved
<1>4. \A s : Owing(s, q0)'
  BY <1>1, <1>2, <1>3 DEF Owing
<1>5. Unannounced(q0)' = {}
  BY <1>1, <1>2, <1>3 DEF Unannounced
<1>6. \A q \in (1 .. Len(asked)) \ {q0} :
         /\ notify'[q] = notify[q]
         /\ \/ /\ call'[asked[q].call].pc = call[asked[q].call].pc
               /\ call'[asked[q].call].req = call[asked[q].call].req
            \/ Mute(asked[q].call, q) /\ Mute(asked[q].call, q)'
  BY <1>0, <1>1, OwnCallOnly
<1>7. ServerMove
  BY <1>1, <1>4, <1>5, <1>6, StillStream, OneRequest, CalmGrows
<1>8. Handlers'
  BY <1>1 DEF PromptInv, Handlers
<1> QED
  BY <1>7, <1>8 DEF ServerFine

LEMMA RetractFine ==
  ASSUME PromptInv, NEW c \in Calls, Retract(c) \/ Unmirror(c)
  PROVE  ServerFine
<1> PICK q0 : q0 = call[c].req
  OBVIOUS
<1> PICK s0 : s0 = IF Retract(c) THEN SessionOf[c] ELSE Root
  OBVIOUS
<1>0. /\ call \in [Calls -> CallRecord] /\ ConsentInv
      /\ SessionOf[c] \in Sessions /\ Root \in Sessions
  BY Facts DEF PromptInv, Sessions
<1>1. call[c].pc \in {"retract", "unmirror"} /\ (Retract(c) <=> call[c].pc = "retract")
  BY DEF Retract, Unmirror
<1>2. q0 \in 1 .. Len(asked) /\ asked[q0].call = c /\ Owner(q0) = SessionOf[c]
  BY <1>0, <1>1, Asker DEF Closing
<1>3. Publish("replied", s0, q0) /\ s0 \in Sessions
  BY <1>0, <1>1 DEF Retract, Unmirror
<1>4. UNCHANGED <<asked, pending, notify, client, posts>>
  BY DEF Retract, Unmirror, server
<1>5. q0 \notin pending
  BY <1>1, <1>2 DEF PromptInv, ConsentInv, PendingHasWaiter
<1>6. /\ call[c].pc = "retract" /\ SessionOf[c] # Root =>
           call' = [call EXCEPT ![c].pc = "unmirror"]
      /\ ~(call[c].pc = "retract" /\ SessionOf[c] # Root) => call' = [call EXCEPT ![c] = Idle]
  BY <1>0, <1>1 DEF Retract, Unmirror
<1>7. ASSUME NEW p \in Pages
      PROVE  Grown(p) /\ Proper(p) /\ Behind(p, Ev("replied", s0, q0)) /\ TearsGrow(p)
  <2>1. Proper(p)
    BY <1>2, <1>3, <1>4, <1>5, PublishProper
  <2> QED
    BY <1>0, <1>2, <1>3, <2>1, PublishAppends
<1>9. ASSUME NEW s \in Queues(q0), Owing(s, q0), s # s0 PROVE Owing(s, q0)'
  <2>1. CASE \E i \in DOMAIN notify[q0] : notify[q0][i] = s
    BY <1>4, <2>1 DEF Owing
  <2>2. CASE call[c].pc = "retract" \/ (call[c].pc = "unmirror" /\ s = Root)
    <3>1. call[c].pc = "retract" /\ s = Root /\ SessionOf[c] # Root
      BY <1>1, <1>2, <1>9, <2>2 DEF Queues
    <3>2. call'[c].pc = "unmirror" /\ call'[c].req = q0
      BY <1>0, <1>6, <3>1, Moved
    <3> QED
      BY <1>2, <1>4, <3>1, <3>2 DEF Owing
  <2> QED
    BY <1>2, <1>9, <2>1, <2>2 DEF Owing
<1>10. Unannounced(q0)' = {}
  <2>1. CASE call[c].pc = "retract" /\ SessionOf[c] # Root
    <3>1. call'[c].pc = "unmirror"
      BY <1>0, <1>6, <2>1, Moved
    <3> QED
      BY <1>2, <1>4, <3>1 DEF Unannounced
  <2>2. CASE ~(call[c].pc = "retract" /\ SessionOf[c] # Root)
    <3>1. call'[c].pc = "idle"
      BY <1>0, <1>6, <2>2 DEF Idle
    <3> QED
      BY <1>2, <1>4, <3>1 DEF Unannounced
  <2> QED
    BY <2>1, <2>2
<1>11. \A q \in (1 .. Len(asked)) \ {q0} :
         /\ notify'[q] = notify[q]
         /\ \/ /\ call'[asked[q].call].pc = call[asked[q].call].pc
               /\ call'[asked[q].call].req = call[asked[q].call].req
            \/ Mute(asked[q].call, q) /\ Mute(asked[q].call, q)'
  BY <1>0, <1>4, <1>6, OwnCallOnly
<1>12. ServerMove
  BY <1>4, <1>5, <1>7, <1>9, <1>10, <1>11, OneRequest
<1>13. Handlers'
  BY <1>4 DEF PromptInv, Handlers
<1> QED
  BY <1>12, <1>13 DEF ServerFine

LEMMA NotifyFine ==
  ASSUME PromptInv, NEW q0 \in Asks, Notify(q0)
  PROVE  ServerFine
<1> PICK s0 : s0 = Head(notify[q0])
  OBVIOUS
<1>0. /\ notify \in [Asks -> Seq(Sessions)] /\ ConsentInv
      /\ \A q \in 1 .. Len(asked) : q \in Asks
  BY Facts DEF PromptInv
<1>1. /\ notify[q0] # <<>> /\ Publish("replied", s0, q0)
      /\ notify' = [notify EXCEPT ![q0] = Tail(@)]
      /\ UNCHANGED <<asked, pending, call, client, posts>>
  BY DEF Notify
<1>2. q0 \in 1 .. Len(asked) /\ q0 \notin pending
  BY <1>1 DEF PromptInv, Handlers
<1>3. notify[q0] \in Seq(Sessions) /\ s0 = notify[q0][1] /\ s0 \in Sessions
  BY <1>0, <1>1, HeadTailProperties
<1>4. /\ Tail(notify[q0]) \in Seq(Sessions)
      /\ Len(Tail(notify[q0])) = Len(notify[q0]) - 1 /\ Len(notify[q0]) \in Nat
      /\ \A i \in 1 .. Len(Tail(notify[q0])) : Tail(notify[q0])[i] = notify[q0][i+1]
  BY <1>1, <1>3, HeadTailProperties, LenProperties
<1>5. notify'[q0] = Tail(notify[q0])
  BY <1>0, <1>1
<1>6. ASSUME NEW p \in Pages
      PROVE  Grown(p) /\ Proper(p) /\ Behind(p, Ev("replied", s0, q0)) /\ TearsGrow(p)
  <2>1. Proper(p)
    BY <1>1, <1>2, <1>3, PublishProper
  <2> QED
    BY <1>0, <1>1, <1>2, <1>3, <2>1, PublishAppends
<1>8. ASSUME NEW s, Owing(s, q0), s # s0 PROVE Owing(s, q0)'
  <2>1. ASSUME NEW i \in DOMAIN notify[q0], notify[q0][i] = s
        PROVE  \E j \in DOMAIN notify'[q0] : notify'[q0][j] = s
    <3>1. i \in 2 .. Len(notify[q0])
      BY <1>3, <1>4, <1>8, <2>1
    <3>2. i - 1 \in DOMAIN notify'[q0] /\ notify'[q0][i - 1] = s
      BY <1>4, <1>5, <2>1, <3>1
    <3> QED
      BY <3>2
  <2> QED
    BY <1>1, <1>8, <2>1 DEF Owing
<1>9. \A q \in (1 .. Len(asked)) \ {q0} :
         /\ notify'[q] = notify[q]
         /\ call'[asked[q].call].pc = call[asked[q].call].pc
         /\ call'[asked[q].call].req = call[asked[q].call].req
  BY <1>0, <1>1
<1>10. Unannounced(q0)' = Unannounced(q0)
  BY <1>1 DEF Unannounced, Owner
<1>11. ServerMove
  BY <1>1, <1>2, <1>6, <1>8, <1>9, <1>10, OneRequest
<1>12. Handlers'
  BY <1>0, <1>1, <1>2 DEF PromptInv, Handlers
<1> QED
  BY <1>11, <1>12 DEF ServerFine

LEMMA ReplyFine ==
  ASSUME PromptInv, NEW post \in posts, Reply(post)
  PROVE  ServerFine
<1> PICK q0 : q0 = post.req
  OBVIOUS
<1>0. /\ notify \in [Asks -> Seq(Sessions)] /\ ConsentInv
      /\ \A q \in 1 .. Len(asked) : q \in Asks
      /\ pending \subseteq 1 .. Len(asked)
  BY Facts DEF PromptInv
<1>1. posts' = posts \ {post} /\ UNCHANGED <<asked, call, stream, client>>
  BY DEF Reply
<1>2. CASE q0 \in pending
  <2>1. /\ pending' = pending \ {q0} /\ q0 \in 1 .. Len(asked)
        /\ notify' = [notify EXCEPT ![q0] = Audience(Owner(q0))]
        /\ Tear(Pages \X Unannounced(q0) \X {q0})
    BY <1>0, <1>2 DEF Reply
  <2>2. notify'[q0] = Audience(Owner(q0))
    BY <1>0, <2>1
  <2>3. ASSUME NEW s \in Queues(q0) PROVE Owing(s, q0)'
    <3>1. \E i \in DOMAIN Audience(Owner(q0)) : Audience(Owner(q0))[i] = s
      <4>1. CASE Owner(q0) = Root
        BY <2>3, <4>1 DEF Audience, Queues
      <4>2. CASE Owner(q0) # Root
        <5>1. /\ Audience(Owner(q0)) = <<Owner(q0), Root>>
              /\ 1 \in DOMAIN <<Owner(q0), Root>> /\ 2 \in DOMAIN <<Owner(q0), Root>>
          BY <4>2 DEF Audience
        <5> QED
          BY <2>3, <5>1 DEF Queues
      <4> QED
        BY <4>1, <4>2
    <3> QED
      BY <2>2, <3>1 DEF Owing
  <2>4. \A q \in (1 .. Len(asked)) \ {q0} :
           /\ notify'[q] = notify[q]
           /\ call'[asked[q].call].pc = call[asked[q].call].pc
           /\ call'[asked[q].call].req = call[asked[q].call].req
    BY <1>0, <1>1, <2>1
  <2>5. \A p \in Pages : Grown(p) /\ Proper(p)
    BY <1>1, StillStream
  <2>6. ASSUME NEW p \in Pages
        PROVE  TearsGrow(p) /\ \A s \in Unannounced(q0) : Gap(p, s, q0)
    <3> DEFINE gap == Pages \X Unannounced(q0) \X {q0}
    <3>1. \A s \in Unannounced(q0) : <<p, s, q0>> \in gap
      OBVIOUS
    <3>2. Tear(gap) /\ q0 \in Asks
      BY <1>0, <2>1
    <3> HIDE DEF gap
    <3> QED
      BY <1>0, <3>1, <3>2, TearGrows
  <2>7. Unannounced(q0)' = Unannounced(q0)
    BY <1>1 DEF Unannounced, Owner
  <2>8. ServerMove
    <3>1. \A x \in posts : x \in posts' \/ x.req \notin pending'
      BY <1>1, <2>1
    <3> QED
      BY <1>1, <2>1, <2>3, <2>4, <2>5, <2>6, <2>7, <3>1, OneRequest
  <2>9. Handlers'
    BY <1>0, <1>1, <2>1 DEF PromptInv, Handlers
  <2> QED
    BY <2>8, <2>9 DEF ServerFine
<1>3. CASE q0 \notin pending
  <2>1. UNCHANGED <<pending, notify, tears>>
    BY <1>3 DEF Reply
  <2>2. \A q \in (1 .. Len(asked)) \ {0} :
           /\ notify'[q] = notify[q]
           /\ call'[asked[q].call].pc = call[asked[q].call].pc
           /\ call'[asked[q].call].req = call[asked[q].call].req
    BY <1>1, <2>1
  <2>3. 0 \notin 1 .. Len(asked) /\ 0 \notin pending'
    <3>1. Len(asked) \in Nat
      BY <1>0, Facts
    <3> QED
      BY <1>0, <2>1, <3>1
  <2>4. ServerMove
    <3>1. \A x \in posts : x \in posts' \/ x.req \notin pending'
      BY <1>1, <1>3, <2>1
    <3>2. \A p \in Pages : Grown(p) /\ Proper(p)
      BY <1>1, StillStream
    <3> QED
      BY <1>1, <2>1, <2>2, <2>3, <3>1, <3>2, OneRequest, CalmGrows
  <2>5. Handlers'
    BY <1>1, <2>1 DEF PromptInv, Handlers
  <2> QED
    BY <2>4, <2>5 DEF ServerFine
<1> QED
  BY <1>2, <1>3

-------------------------------------------------------------------------------
(***************************************************************************)
(* The steps of the pages.                                                 *)
(***************************************************************************)
\* A page step leaves the server alone; but for a list it unties nothing torn.
ServerStill == UNCHANGED <<asked, pending, call, notify>>
PageMove == ServerStill /\ \A p \in Pages : TornKept(p)

LEMMA StillServer ==
  ASSUME ServerStill
  PROVE  /\ \A q : /\ Owner(q)' = Owner(q) /\ Kind(q)' = Kind(q) /\ Queues(q)' = Queues(q)
                   /\ Unannounced(q)' = Unannounced(q) /\ Announced(q)' = Announced(q)
         /\ \A s, q : Owing(s, q)' = Owing(s, q)
<1>1. \A q : /\ Owner(q)' = Owner(q) /\ Kind(q)' = Kind(q) /\ Queues(q)' = Queues(q)
             /\ Unannounced(q)' = Unannounced(q)
  BY DEF ServerStill, Owner, Kind, Queues, Unannounced
<1>2. \A q : Announced(q)' = Announced(q)
  BY <1>1 DEF Announced, ServerStill
<1>3. \A s, q : Owing(s, q)' = Owing(s, q)
  BY DEF ServerStill, Owing
<1> QED
  BY <1>1, <1>2, <1>3

LEMMA PageMoveKeeps ==
  ASSUME PromptInv, PageMove
  PROVE  /\ \A q : /\ Owner(q)' = Owner(q) /\ Kind(q)' = Kind(q) /\ Queues(q)' = Queues(q)
                   /\ Unannounced(q)' = Unannounced(q) /\ Announced(q)' = Announced(q)
         /\ \A s, q : Owing(s, q)' = Owing(s, q)
         /\ \A p \in Pages : \A s, q : TornAt(p, s, q) => TornAt(p, s, q)'
<1>1. ServerStill /\ \A p \in Pages : TornKept(p)
  BY DEF PageMove
<1> QED
  BY <1>1, StillServer DEF TornKept

\* The page's lists are where they were, and what they missed adds up.
LEMMA MissedStays ==
  ASSUME NEW p \in Pages, TearsGrow(p),
         \A f \in Fetches : /\ fetch'[p][f].at = fetch[p][f].at
                            /\ fetch'[p][f].of = fetch[p][f].of
                            /\ fetch'[p][f].list = fetch[p][f].list
  PROVE  \A s, q : Missed(p, s, q) => Missed(p, s, q)'
BY DEF TearsGrow, TornKept, Missed, Loading, TornAt

\* A page of which nothing changes but the posts on their way, which are
\* kept or torn.
LEMMA BystanderKeeps ==
  ASSUME PromptInv, ServerStill, NEW p \in Pages, TearsGrow(p),
         view'[p] = view[p], shown'[p] = shown[p], fetch'[p] = fetch[p],
         stream'[p] = stream[p],
         \A post \in posts : post.page = p =>
             post \in posts' \/ Gap(p, post.at, post.req)
  PROVE  PageInv(p)'
<1>0. PageInv(p)
  BY DEF PromptInv
<1>1. \A e : InStream(p, e)' = InStream(p, e)
  BY DEF InStream
<1>2. /\ \A s, q : TornAt(p, s, q) => TornAt(p, s, q)'
      /\ \A s, q : Missed(p, s, q) => Missed(p, s, q)'
      /\ \A f \in Fetches : since[p][f] \subseteq since'[p][f]
      /\ \A s, q : Due(p, s, q) => Due(p, s, q)'
      /\ \A s, q : Owed(p, s, q) => Owed(p, s, q)'
  BY <1>0, <1>1, StillServer, MissedStays DEF Owed, Due, TearsGrow, TornKept, PageInv
<1>3. \A i, s, q : Cleared(p, i, s, q) => Cleared(p, i, s, q)'
  BY <1>2, StillServer DEF Cleared
<1>4. asked' = asked /\ pending' = pending
  BY DEF ServerStill
<1>5. Known(p)' /\ Silent(p)' /\ Early(p)'
  BY <1>0, <1>2, <1>4, StillServer DEF PageInv, Known, Silent, Early
<1>6. InOrder(p)'
  BY <1>0, <1>3, <1>4, StillServer DEF PageInv, InOrder, Ev
<1>7. ASSUME NEW f \in Fetches PROVE StaleDead(p, f)'
  <2> SUFFICES ASSUME fetch[p][f].at = "served", NEW s, s = fetch[p][f].of,
                      NEW q \in fetch[p][f].list, q \notin pending, s \in Queues(q)
               PROVE  \/ q \in since'[p][f] \/ Due(p, s, q)'
                      \/ q \in fetch[p][f].seen /\ q \notin shown[p][s]
    BY <1>4, StillServer DEF StaleDead
  <2> QED
    BY <1>0, <1>2 DEF PageInv, Stale, StaleDead
<1>8. ASSUME NEW s, NEW q, Answering(p, s, q)
      PROVE  Gap(p, s, q) \/ Answering(p, s, q)'
  BY <1>8 DEF Answering
<1>9. ASSUME NEW f \in Fetches PROVE StaleNew(p, f)'
  <2> SUFFICES ASSUME fetch[p][f].at = "served", NEW s, s = fetch[p][f].of, NEW q \in pending,
                      q \notin fetch[p][f].list, Kind(q) = fetch[p][f].kind, s \in Announced(q)
               PROVE  \/ q \in since'[p][f] \/ InStream(p, Ev("requested", s, q))'
                      \/ q \in fetch[p][f].seen /\ (q \in shown[p][s] \/ Answering(p, s, q)')
    BY <1>4, StillServer DEF StaleNew
  <2>1. \/ q \in since[p][f] \/ InStream(p, Ev("requested", s, q))
        \/ q \in fetch[p][f].seen /\ (q \in shown[p][s] \/ Answering(p, s, q))
    BY <1>0 DEF PageInv, Stale, StaleNew
  <2>2. Gap(p, s, q) => q \in since'[p][f]
    BY DEF Gap, Loading
  <2> QED
    BY <1>1, <1>2, <1>8, <2>1, <2>2
<1>10. InQueue(p)'
  <2> SUFFICES ASSUME NEW q \in pending, NEW s \in Announced(q)
               PROVE  \/ TornAt(p, s, q)' \/ q \in shown[p][s]
                      \/ InStream(p, Ev("requested", s, q))' \/ Answering(p, s, q)'
    BY <1>4, StillServer DEF InQueue
  <2>1. \/ TornAt(p, s, q) \/ q \in shown[p][s] \/ InStream(p, Ev("requested", s, q))
        \/ Answering(p, s, q)
    BY <1>0 DEF PageInv, InQueue
  <2>2. Gap(p, s, q) => TornAt(p, s, q)'
    BY DEF Gap
  <2> QED
    BY <1>1, <1>2, <1>8, <2>1, <2>2
<1>11. NoGhosts(p)'
  BY <1>0, <1>2, <1>4, StillServer DEF PageInv, NoGhosts
<1> QED
  BY <1>5, <1>6, <1>7, <1>9, <1>10, <1>11 DEF PageInv, Stale

PageFine == Handlers' /\ \A p \in Pages : PageInv(p)'

\* A step of one page.
LEMMA OnePage ==
  ASSUME PromptInv, ServerStill, NEW p \in Pages, posts \subseteq posts', PageInv(p)',
         \A r \in Pages \ {p} : /\ view'[r] = view[r] /\ shown'[r] = shown[r]
                                /\ fetch'[r] = fetch[r] /\ stream'[r] = stream[r]
                                /\ TearsGrow(r)
  PROVE  PageFine
<1>1. ASSUME NEW r \in Pages, r # p PROVE PageInv(r)'
  BY <1>1, BystanderKeeps
<1>2. Handlers'
  BY DEF ServerStill, PromptInv, Handlers
<1> QED
  BY <1>1, <1>2 DEF PageFine

LEMMA DeliverFine ==
  ASSUME PromptInv, NEW p \in Pages, Deliver(p)
  PROVE  PageFine
<1> DEFINE e == stream[p][1]
           n == Len(stream[p])
<1>0. PageInv(p) /\ ConsentInv
  BY DEF PromptInv
<1>1. /\ ServerStill /\ UNCHANGED <<asked, pending, view, posts, lost, since>>
      /\ \A r \in Pages : TearsGrow(r) /\ TornKept(r)
  <2>1. ServerStill /\ UNCHANGED <<asked, pending, view, posts, tears>>
    BY DEF Deliver, ServerStill, server
  <2> QED
    BY <2>1, CalmGrows DEF TearsGrow, tears
<1>2. PageMove
  BY <1>1 DEF PageMove
<1>3. /\ stream[p] \in Seq(Event) /\ n \in Nat /\ n >= 1 /\ DOMAIN stream[p] = 1 .. n
      /\ e \in Event /\ e = Head(stream[p])
  <2>1. stream[p] \in Seq(Event) /\ n \in Nat /\ DOMAIN stream[p] = 1 .. n
    BY <1>0, Places
  <2>2. stream[p] # <<>>
    BY DEF Deliver
  <2>3. n >= 1
    BY <2>1, <2>2, EmptySeq
  <2> QED
    BY <2>1, <2>2, <2>3, ElementOfSeq, HeadTailProperties
<1>4. /\ stream'[p] = Tail(stream[p])
      /\ DOMAIN stream'[p] = 1 .. n - 1
      /\ \A i \in 1 .. n - 1 : stream'[p][i] = stream[p][i + 1]
  <2>1. stream'[p] = Tail(stream[p])
    BY <1>0, Facts DEF Deliver
  <2>2. Len(Tail(stream[p])) = n - 1 /\ Tail(stream[p]) \in Seq(Event)
        /\ \A i \in 1 .. n - 1 : Tail(stream[p])[i] = stream[p][i + 1]
    BY <1>3
  <2> QED
    BY <2>1, <2>2, LenProperties
<1>5. /\ e = Ev(e.type, e.at, e.req) /\ e.at \in Sessions
      /\ e.type \in {"requested", "replied"} /\ e.req \in 1 .. Len(asked)
  BY <1>0, <1>3 DEF Event, Ev, PageInv, Known
<1>6. /\ \A s \in Sessions \ {e.at} : shown'[p][s] = shown[p][s]
      /\ shown'[p][e.at] = IF e.type = "requested" THEN shown[p][e.at] \cup {e.req}
                           ELSE shown[p][e.at] \ {e.req}
  <2>1. shown[p] \in [Sessions -> SUBSET Asks]
    BY <1>0, Facts
  <2>2. shown' = [shown EXCEPT ![p][e.at] =
                        IF e.type = "requested" THEN @ \cup {e.req} ELSE @ \ {e.req}]
    BY <1>3 DEF Deliver
  <2> QED
    BY <1>0, <1>5, <2>1, <2>2, Facts
<1>7. ASSUME NEW f \in Fetches
      PROVE  /\ fetch'[p][f].at = fetch[p][f].at /\ fetch'[p][f].of = fetch[p][f].of
             /\ fetch'[p][f].list = fetch[p][f].list /\ fetch'[p][f].kind = fetch[p][f].kind
             /\ fetch[p][f].seen \subseteq fetch'[p][f].seen
             /\ Loading(p, f, e.at) /\ fetch[p][f].kind = Kind(e.req)
                   => e.req \in fetch'[p][f].seen
  <2>1. fetch' = [fetch EXCEPT ![p] = [g \in Fetches |-> Noted(p, g, e)]]
    BY <1>3 DEF Deliver
  <2>2. fetch'[p][f] = Noted(p, f, e) /\ fetch[p][f] \in FetchRecord
    BY <1>0, <2>1, Facts
  <2> QED
    BY <2>2 DEF Noted, FetchRecord, Loading
<1>8. \A r \in Pages \ {p} : /\ view'[r] = view[r] /\ shown'[r] = shown[r]
                             /\ fetch'[r] = fetch[r] /\ stream'[r] = stream[r]
  BY <1>0, Facts DEF Deliver
<1> HIDE DEF e, n
<1>9. \A s, q : Missed(p, s, q) => Missed(p, s, q)'
  BY <1>1, <1>7, MissedStays
<1>10. \A s, q : Answering(p, s, q)' = Answering(p, s, q)
  BY <1>1 DEF Answering
<1>11. ASSUME NEW x, InStream(p, x) PROVE x = e \/ InStream(p, x)'
  <2>1. PICK i \in 1 .. n : stream[p][i] = x
    BY <1>3, <1>11 DEF InStream
  <2>2. CASE i = 1
    BY <2>1, <2>2 DEF e
  <2>3. CASE i # 1
    <3>1. i - 1 \in 1 .. n - 1 /\ (i - 1) + 1 = i
      BY <1>3, <2>3
    <3> QED
      BY <1>4, <2>1, <3>1 DEF InStream
  <2> QED
    BY <2>2, <2>3
<1>12. ASSUME NEW i \in 1 .. n - 1, NEW s, NEW q, Cleared(p, i + 1, s, q)
      PROVE  Cleared(p, i, s, q)'
  <2>1. CASE Missed(p, s, q) \/ Owing(s, q)
    BY <1>2, <1>9, <2>1, PageMoveKeeps DEF Cleared
  <2>2. ASSUME NEW j \in DOMAIN stream[p], j > i + 1, stream[p][j] = Ev("replied", s, q)
        PROVE  Cleared(p, i, s, q)'
    <3>1. j - 1 \in 1 .. n - 1 /\ (j - 1) + 1 = j /\ j - 1 > i
      BY <1>3, <2>2
    <3>2. stream'[p][j - 1] = Ev("replied", s, q)
      BY <1>4, <2>2, <3>1
    <3> QED
      BY <1>4, <3>1, <3>2 DEF Cleared, Ev
  <2> QED
    BY <1>12, <2>1, <2>2 DEF Cleared
\* The announcement of a dead request is at the head: what clears it is due.
<1>13. ASSUME NEW q \in 1 .. Len(asked), q \notin pending, NEW s \in Queues(q),
              e = Ev("requested", s, q)
       PROVE  Missed(p, s, q) \/ Due(p, s, q)'
  <2>1. Cleared(p, 1, s, q)
    BY <1>0, <1>3, <1>13 DEF PageInv, InOrder, e
  <2>2. CASE Missed(p, s, q) \/ Owing(s, q)
    BY <1>2, <2>2, PageMoveKeeps DEF Due
  <2>3. ASSUME NEW j \in DOMAIN stream[p], j > 1, stream[p][j] = Ev("replied", s, q)
        PROVE  Due(p, s, q)'
    <3>1. j - 1 \in 1 .. n - 1 /\ (j - 1) + 1 = j
      BY <1>3, <2>3
    <3> QED
      BY <1>4, <2>3, <3>1 DEF Due, InStream, Ev
  <2> QED
    BY <2>1, <2>2, <2>3 DEF Cleared
<1>14. ASSUME NEW q, NEW s, Due(p, s, q)
       PROVE  e = Ev("replied", s, q) \/ Due(p, s, q)'
  <2>1. CASE Owing(s, q)
    BY <1>2, <2>1, PageMoveKeeps DEF Due
  <2>2. CASE InStream(p, Ev("replied", s, q))
    <3>1. e = Ev("replied", s, q) \/ InStream(p, Ev("replied", s, q))'
      BY <1>11, <2>2 DEF Ev
    <3> QED
      BY <3>1 DEF Due
  <2> QED
    BY <1>14, <2>1, <2>2 DEF Due
<1>15. \A i \in 1 .. n - 1 : i + 1 \in 1 .. n
  BY <1>3
<1>16. Known(p)' /\ Silent(p)'
  <2>1. \A s \in Sessions : shown'[p][s] \subseteq 1 .. Len(asked)
    BY <1>0, <1>5, <1>6 DEF PageInv, Known
  <2>2. \A i \in DOMAIN stream'[p] : i + 1 \in DOMAIN stream[p] /\ stream'[p][i] = stream[p][i + 1]
    BY <1>3, <1>4, <1>15
  <2> QED
    BY <1>0, <1>1, <1>2, <1>7, <2>1, <2>2, PageMoveKeeps DEF PageInv, Known, Silent
<1>17. InOrder(p)'
  <2> SUFFICES ASSUME NEW i \in 1 .. n - 1, NEW q \in 1 .. Len(asked), q \notin pending,
                      NEW s \in Queues(q), stream'[p][i] = Ev("requested", s, q)
               PROVE  Cleared(p, i, s, q)'
    BY <1>1, <1>2, <1>4, PageMoveKeeps DEF InOrder, Ev
  <2>1. i + 1 \in DOMAIN stream[p] /\ stream[p][i + 1] = Ev("requested", s, q)
    BY <1>3, <1>4, <1>15
  <2>2. Cleared(p, i + 1, s, q)
    BY <1>0, <2>1 DEF PageInv, InOrder
  <2> QED
    BY <1>12, <2>2
<1>18. ASSUME NEW f \in Fetches PROVE StaleDead(p, f)'
  <2> SUFFICES ASSUME fetch[p][f].at = "served", NEW s, s = fetch[p][f].of,
                      NEW q \in fetch[p][f].list, q \notin pending, s \in Queues(q)
               PROVE  \/ q \in since[p][f] \/ Due(p, s, q)'
                      \/ q \in fetch'[p][f].seen /\ q \notin shown'[p][s]
    BY <1>1, <1>2, <1>7, PageMoveKeeps DEF StaleDead
  <2>0. q \in 1 .. Len(asked) /\ s \in Sessions /\ Kind(q) = fetch[p][f].kind
    BY <1>0, Facts DEF PageInv, Known
  <2>1. CASE Due(p, s, q)
    <3>1. CASE e = Ev("replied", s, q)
      <4>1. e.at = s /\ e.req = q /\ e.type # "requested"
        BY <3>1 DEF Ev
      <4> QED
        BY <1>6, <1>7, <2>0, <4>1 DEF Loading
    <3> QED
      BY <1>14, <2>1, <3>1
  <2>2. CASE q \in fetch[p][f].seen /\ q \notin shown[p][s]
    <3>1. CASE e = Ev("requested", s, q)
      BY <1>13, <2>0, <3>1 DEF Missed, Loading
    <3>2. CASE e # Ev("requested", s, q)
      <4>1. ~(e.at = s /\ e.req = q /\ e.type = "requested")
        BY <1>5, <3>2
      <4>2. q \notin shown'[p][s]
        BY <1>6, <2>0, <2>2, <4>1
      <4> QED
        BY <1>7, <2>2, <4>2
    <3> QED
      BY <3>1, <3>2
  <2> QED
    BY <1>0, <2>1, <2>2 DEF PageInv, Stale, StaleDead
<1>19. ASSUME NEW f \in Fetches PROVE StaleNew(p, f)'
  <2> SUFFICES ASSUME fetch[p][f].at = "served", NEW s, s = fetch[p][f].of, NEW q \in pending,
                      q \notin fetch[p][f].list, Kind(q) = fetch[p][f].kind, s \in Announced(q)
               PROVE  \/ q \in since[p][f] \/ InStream(p, Ev("requested", s, q))'
                      \/ q \in fetch'[p][f].seen /\ (q \in shown'[p][s] \/ Answering(p, s, q))
    BY <1>1, <1>2, <1>7, <1>10, PageMoveKeeps DEF StaleNew
  <2>0. s \in Sessions
    BY <1>0, Facts DEF Announced, Queues
  <2>1. \/ q \in since[p][f] \/ InStream(p, Ev("requested", s, q))
        \/ q \in fetch[p][f].seen /\ (q \in shown[p][s] \/ Answering(p, s, q))
    BY <1>0 DEF PageInv, Stale, StaleNew
  <2>2. CASE e = Ev("requested", s, q)
    <3>1. e.at = s /\ e.req = q /\ e.type = "requested"
      BY <2>2 DEF Ev
    <3> QED
      BY <1>6, <1>7, <3>1 DEF Loading
  <2>3. CASE e # Ev("requested", s, q)
    <3>1. InStream(p, Ev("requested", s, q)) => InStream(p, Ev("requested", s, q))'
      BY <1>11, <2>3 DEF Ev
    <3>2. e.req = q => e.type = "requested"
      BY <1>0, <1>3 DEF PageInv, Silent, e
    <3>3. q \in shown[p][s] => q \in shown'[p][s]
      BY <1>6, <2>0, <3>2
    <3> QED
      BY <1>7, <2>1, <3>1, <3>3
  <2> QED
    BY <2>2, <2>3
<1>20. InQueue(p)'
  <2> SUFFICES ASSUME NEW q \in pending, NEW s \in Announced(q)
               PROVE  \/ TornAt(p, s, q)' \/ q \in shown'[p][s]
                      \/ InStream(p, Ev("requested", s, q))' \/ Answering(p, s, q)
    BY <1>1, <1>2, <1>10, PageMoveKeeps DEF InQueue
  <2>0. s \in Sessions
    BY <1>0, Facts DEF Announced, Queues
  <2>1. \/ TornAt(p, s, q) \/ q \in shown[p][s] \/ InStream(p, Ev("requested", s, q))
        \/ Answering(p, s, q)
    BY <1>0 DEF PageInv, InQueue
  <2>2. CASE e = Ev("requested", s, q)
    <3>1. e.at = s /\ e.req = q /\ e.type = "requested"
      BY <2>2 DEF Ev
    <3> QED
      BY <1>6, <3>1
  <2>3. CASE e # Ev("requested", s, q)
    <3>1. InStream(p, Ev("requested", s, q)) => InStream(p, Ev("requested", s, q))'
      BY <1>11, <2>3 DEF Ev
    <3>2. e.req = q => e.type = "requested"
      BY <1>0, <1>3 DEF PageInv, Silent, e
    <3>3. q \in shown[p][s] => q \in shown'[p][s]
      BY <1>6, <2>0, <3>2
    <3> QED
      BY <1>2, <2>1, <3>1, <3>3, PageMoveKeeps
  <2> QED
    BY <2>2, <2>3
<1>21. NoGhosts(p)'
  <2> SUFFICES ASSUME NEW s \in Sessions, NEW q \in shown'[p][s], q \notin pending,
                      s \in Queues(q)
               PROVE  Owed(p, s, q)'
    BY <1>1, <1>2, PageMoveKeeps DEF NoGhosts
  <2>1. q \in 1 .. Len(asked)
    BY <1>0, <1>5, <1>6 DEF PageInv, Known
  <2>2. CASE e = Ev("requested", s, q)
    BY <1>2, <1>13, <2>1, <2>2, PageMoveKeeps DEF Owed, Missed
  <2>3. CASE e # Ev("requested", s, q)
    <3>1. q \in shown[p][s] /\ ~(e.at = s /\ e.req = q /\ e.type = "replied")
      <4>1. ~(e.at = s /\ e.req = q /\ e.type = "requested")
        BY <1>5, <2>3
      <4> QED
        BY <1>5, <1>6, <4>1
    <3>2. e # Ev("replied", s, q)
      BY <3>1 DEF Ev
    <3>3. Owed(p, s, q)
      BY <1>0, <3>1 DEF PageInv, NoGhosts
    <3> QED
      BY <1>2, <1>14, <3>2, <3>3, PageMoveKeeps DEF Owed
  <2> QED
    BY <2>2, <2>3
<1>22. Early(p)'
  BY <1>0, <1>1, <1>2, <1>9, PageMoveKeeps DEF PageInv, Early
<1>23. PageInv(p)'
  BY <1>16, <1>17, <1>18, <1>19, <1>20, <1>21, <1>22 DEF PageInv, Stale
<1> QED
  BY <1>1, <1>8, <1>23, OnePage

\* A step of one list that leaves the queues and the stream of the page alone.
LEMMA FetchOnly ==
  ASSUME PromptInv, PageMove, NEW p \in Pages, NEW f \in Fetches, posts \subseteq posts',
         stream' = stream, shown' = shown,
         \A q \in fetch'[p][f].list : q \in 1 .. Len(asked) /\ Kind(q) = fetch'[p][f].kind,
         StaleDead(p, f)', StaleNew(p, f)',
         fetch'[p][f].at = "served" => fetch'[p][f].list \subseteq pending,
         \A g \in Fetches \ {f} : fetch'[p][g] = fetch[p][g] /\ since[p][g] \subseteq since'[p][g],
         \A r \in Pages \ {p} : view'[r] = view[r] /\ fetch'[r] = fetch[r] /\ TearsGrow(r)
  PROVE  PageFine
<1>0. PageInv(p) /\ ConsentInv /\ asked' = asked /\ pending' = pending
  BY DEF PromptInv, PageMove, ServerStill
<1>1. /\ \A e : InStream(p, e)' = InStream(p, e)
      /\ \A s, q : Answering(p, s, q) => Answering(p, s, q)'
  BY DEF InStream, Answering
<1>2. /\ \A s, q : Due(p, s, q) => Due(p, s, q)'
      /\ \A s, q : Owed(p, s, q) => Owed(p, s, q)'
  BY <1>0, <1>1, PageMoveKeeps DEF Owed, Due
<1>3. ASSUME NEW s, NEW q, q \notin pending, Missed(p, s, q)
      PROVE  Missed(p, s, q)'
  <2>1. TornAt(p, s, q)'
    BY <1>3, PageMoveKeeps DEF Missed
  <2>2. ASSUME NEW g \in Fetches, Loading(p, g, s)', q \in fetch'[p][g].list
        PROVE  q \in since'[p][g]
    <3>1. g # f
      BY <1>3, <2>2 DEF Loading
    <3>2. Loading(p, g, s) /\ q \in fetch[p][g].list
      BY <2>2, <3>1 DEF Loading
    <3> QED
      BY <1>3, <3>1, <3>2 DEF Missed
  <2> QED
    BY <2>1, <2>2 DEF Missed
<1>4. \A i, s, q : Cleared(p, i, s, q) /\ q \notin pending => Cleared(p, i, s, q)'
  BY <1>3, PageMoveKeeps DEF Cleared
<1>5. Known(p)'
  <2>1. ASSUME NEW g \in Fetches, NEW q \in fetch'[p][g].list
        PROVE  q \in 1 .. Len(asked) /\ Kind(q) = fetch'[p][g].kind
    BY <1>0, <2>1 DEF PageInv, Known
  <2> QED
    BY <1>0, <2>1, PageMoveKeeps DEF PageInv, Known
<1>6. Silent(p)' /\ Early(p)'
  <2>1. Silent(p)'
    BY <1>0 DEF PageInv, Silent
  <2> QED
    BY <1>0, <1>3, <2>1, PageMoveKeeps DEF PageInv, Early
<1>7. InOrder(p)'
  BY <1>0, <1>4, PageMoveKeeps DEF PageInv, InOrder, Ev
<1>8. InQueue(p)'
  <2> SUFFICES ASSUME NEW q \in pending, NEW s \in Announced(q)
               PROVE  \/ TornAt(p, s, q)' \/ q \in shown[p][s]
                      \/ InStream(p, Ev("requested", s, q))' \/ Answering(p, s, q)'
    BY <1>0, PageMoveKeeps DEF InQueue
  <2>1. \/ TornAt(p, s, q) \/ q \in shown[p][s] \/ InStream(p, Ev("requested", s, q))
        \/ Answering(p, s, q)
    BY <1>0 DEF PageInv, InQueue
  <2> QED
    BY <1>1, <2>1, PageMoveKeeps
<1>9. NoGhosts(p)'
  BY <1>0, <1>2, PageMoveKeeps DEF PageInv, NoGhosts
<1>10. ASSUME NEW g \in Fetches \ {f} PROVE StaleDead(p, g)' /\ StaleNew(p, g)'
  <2>1. StaleDead(p, g) /\ StaleNew(p, g)
    BY <1>0 DEF PageInv, Stale
  <2>2. fetch'[p][g] = fetch[p][g] /\ since[p][g] \subseteq since'[p][g]
    OBVIOUS
  <2>3. StaleDead(p, g)'
    BY <1>0, <1>2, <2>1, <2>2, PageMoveKeeps DEF StaleDead
  <2>4. StaleNew(p, g)'
    <3> SUFFICES ASSUME fetch[p][g].at = "served", NEW s, s = fetch[p][g].of,
                        NEW q \in pending, q \notin fetch[p][g].list,
                        Kind(q) = fetch[p][g].kind, s \in Announced(q)
                 PROVE  \/ q \in since'[p][g] \/ InStream(p, Ev("requested", s, q))'
                        \/ /\ q \in fetch[p][g].seen
                           /\ q \in shown[p][s] \/ Answering(p, s, q)'
      BY <1>0, <2>2, PageMoveKeeps DEF StaleNew
    <3>1. \/ q \in since[p][g] \/ InStream(p, Ev("requested", s, q))
          \/ q \in fetch[p][g].seen /\ (q \in shown[p][s] \/ Answering(p, s, q))
      BY <2>1 DEF StaleNew
    <3> QED
      BY <1>1, <2>2, <3>1
  <2> QED
    BY <2>3, <2>4
<1>11. Stale(p)'
  BY <1>10 DEF Stale
<1>12. PageInv(p)'
  BY <1>5, <1>6, <1>7, <1>8, <1>9, <1>11 DEF PageInv
<1> QED
  BY <1>12, OnePage DEF PageMove

LEMMA ServeListFine ==
  ASSUME PromptInv, NEW p \in Pages, NEW f \in Fetches, ServeList(p, f)
  PROVE  PageFine
<1> DEFINE w == fetch[p][f]
           l == Listed(w.of, w.kind)
<1>0. ConsentInv /\ PageInv(p) /\ pending \subseteq 1 .. Len(asked)
  BY Facts DEF PromptInv
<1>1. /\ PageMove /\ posts' = posts /\ stream' = stream /\ shown' = shown /\ view' = view
      /\ asked' = asked /\ pending' = pending /\ lost' = lost /\ since' = since
      /\ \A r \in Pages : TearsGrow(r)
  <2>1. ServerStill /\ UNCHANGED <<posts, stream, shown, view, asked, pending, tears>>
    BY DEF ServeList, ServerStill, server
  <2> QED
    BY <2>1, CalmGrows DEF PageMove, TearsGrow, tears
<1>2. /\ fetch'[p][f].list = l /\ fetch'[p][f].kind = w.kind /\ fetch'[p][f].of = w.of
      /\ \A g \in Fetches \ {f} : fetch'[p][g] = fetch[p][g]
      /\ \A r \in Pages \ {p} : fetch'[r] = fetch[r]
  <2>1. /\ fetch \in [Pages -> [Fetches -> FetchRecord]] /\ fetch[p] \in [Fetches -> FetchRecord]
        /\ w \in FetchRecord
    BY <1>0, Facts
  <2>2. fetch' = [fetch EXCEPT ![p][f] = [w EXCEPT !.at = "served", !.list = l]]
    BY DEF ServeList
  <2> HIDE DEF l
  <2>3. /\ fetch'[p][f] = [w EXCEPT !.at = "served", !.list = l]
        /\ \A g \in Fetches \ {f} : fetch'[p][g] = fetch[p][g]
        /\ \A r \in Pages \ {p} : fetch'[r] = fetch[r]
    BY <2>1, <2>2
  <2>4. fetch'[p][f].list = l /\ fetch'[p][f].kind = w.kind /\ fetch'[p][f].of = w.of
    BY <2>1, <2>3 DEF FetchRecord
  <2> QED
    BY <2>3, <2>4
<1>3. \A q \in fetch'[p][f].list : /\ q \in pending /\ q \in 1 .. Len(asked)
                                   /\ Kind(q) = fetch'[p][f].kind
  BY <1>0, <1>2 DEF Listed
<1>4. StaleDead(p, f)'
  BY <1>1, <1>3 DEF StaleDead
<1>5. StaleNew(p, f)'
  <2> SUFFICES ASSUME NEW s, s = w.of, NEW q \in pending, q \notin fetch'[p][f].list,
                      Kind(q) = w.kind, s \in Announced(q)
               PROVE  FALSE
    BY <1>1, <1>2, PageMoveKeeps DEF StaleNew
  <2>1. Owner(q) \in Sessions /\ s \in {Root, Owner(q)}
    BY <1>0, Facts DEF Announced
  <2>2. Owner(q) \in {s} \cup Below[s]
    BY <2>1, ApprovalsAssumption DEF Sessions
  <2> QED
    BY <1>2, <2>2 DEF Listed
<1>6. /\ \A g \in Fetches \ {f} : since[p][g] \subseteq since'[p][g]
      /\ fetch'[p][f].at = "served" => fetch'[p][f].list \subseteq pending
  BY <1>1, <1>3
<1> HIDE DEF w, l
<1> QED
  BY <1>1, <1>2, <1>3, <1>4, <1>5, <1>6, FetchOnly

\* What a fetch is after it was asked for anew, or dropped.
LEMMA FreshFetch ==
  ASSUME NEW p \in Pages, NEW f \in Fetches
  PROVE  /\ \A s, k : FetchOf(s, k).list = {} /\ FetchOf(s, k).at # "served"
         /\ NoFetch.list = {} /\ NoFetch.at # "served"
         /\ NextFetch(p, f).list = {} /\ NextFetch(p, f).at # "served"
<1>1. NoFetch.list = {} /\ NoFetch.at # "served"
  BY DEF NoFetch, None
<1>2. \A s, k : FetchOf(s, k).list = {} /\ FetchOf(s, k).at # "served"
  BY DEF NoFetch, FetchOf, None
<1>3. NextFetch(p, f) \in {NoFetch, FetchOf(fetch[p][f].of, "question")}
  BY DEF NextFetch
<1> QED
  BY <1>1, <1>2, <1>3

\* A fetch is started anew, or over, or dropped.
LEMMA RefetchFine ==
  ASSUME PromptInv, NEW p \in Pages, NEW f \in Fetches,
         (\E s \in Sessions : Select(p, f, s)) \/ Outdated(p, f) \/ FetchFails(p, f)
  PROVE  PageFine
<1>0. ConsentInv
  BY DEF PromptInv
<1>1. /\ PageMove /\ posts' = posts /\ stream' = stream /\ shown' = shown /\ lost' = lost
      /\ asked' = asked /\ pending' = pending
      /\ since' = since \/ since' = [since EXCEPT ![p][f] = {}]
  BY DEF Select, Outdated, FetchFails, PageMove, ServerStill, TornKept, TornAt, server, tears
<1>2. PICK new : /\ new.list = {} /\ new.at # "served"
                 /\ fetch' = [fetch EXCEPT ![p][f] = new]
  <2>1. CASE \E s \in Sessions : Select(p, f, s)
    BY <2>1, FreshFetch DEF Select
  <2>2. CASE Outdated(p, f)
    BY <2>2, FreshFetch DEF Outdated
  <2>3. CASE FetchFails(p, f)
    BY <2>3, FreshFetch DEF FetchFails
  <2> QED
    BY <2>1, <2>2, <2>3
<1>3. /\ fetch'[p][f] = new
      /\ \A g \in Fetches \ {f} : fetch'[p][g] = fetch[p][g]
      /\ \A r \in Pages \ {p} : fetch'[r] = fetch[r]
  BY <1>0, <1>2, Facts
<1>4. /\ \A g \in Fetches \ {f} : since'[p][g] = since[p][g]
      /\ \A r \in Pages \ {p} : since'[r] = since[r]
  BY <1>0, <1>1, Facts
<1>5. \A r \in Pages \ {p} : view'[r] = view[r] /\ TearsGrow(r)
  <2>1. \A r \in Pages \ {p} : view'[r] = view[r]
    BY <1>0, Facts DEF Select, Outdated, FetchFails
  <2> QED
    BY <1>1, <1>4, <2>1 DEF TearsGrow, TornKept, TornAt
<1>6. fetch'[p][f].list = {} /\ fetch'[p][f].at # "served"
  BY <1>2, <1>3
<1>7. StaleDead(p, f)' /\ StaleNew(p, f)'
  BY <1>6 DEF StaleDead, StaleNew
<1> QED
  BY <1>1, <1>3, <1>4, <1>5, <1>6, <1>7, FetchOnly

LEMMA ReconnectFine ==
  ASSUME PromptInv, NEW p \in Pages, Reconnect(p)
  PROVE  PageFine
<1>1. ServerStill /\ UNCHANGED <<posts, stream, shown, fetch, view, tears>>
  BY DEF Reconnect, ServerStill, server, client
<1>2. ASSUME NEW r \in Pages PROVE PageInv(r)'
  BY <1>1, CalmGrows, BystanderKeeps
<1> QED
  BY <1>1, <1>2 DEF PageFine, ServerStill, PromptInv, Handlers

LEMMA PostFailsFine ==
  ASSUME PromptInv, NEW post \in posts, PostFails(post)
  PROVE  PageFine
<1>1. /\ ServerStill /\ UNCHANGED <<stream, shown, fetch, view>> /\ posts' = posts \ {post}
      /\ Tear({<<post.page, post.at, post.req>>})
  BY DEF PostFails, ServerStill, server, client
<1>2. post.req \in Asks /\ ConsentInv
  BY DEF PromptInv, ConsentInv, TypeInv, TypeOK, PageTypes
<1>3. ASSUME NEW p \in Pages PROVE PageInv(p)'
  <2>1. TearsGrow(p) /\ (post.page = p => Gap(p, post.at, post.req))
    <3> DEFINE gap == {<<post.page, post.at, post.req>>}
    <3>1. Tear(gap) /\ (post.page = p => <<p, post.at, post.req>> \in gap)
      BY <1>1
    <3> HIDE DEF gap
    <3> QED
      BY <1>2, <3>1, TearGrows
  <2> QED
    BY <1>1, <2>1, BystanderKeeps
<1> QED
  BY <1>1, <1>3 DEF PageFine, ServerStill, PromptInv, Handlers

LEMMA RespondFine ==
  ASSUME PromptInv, NEW p \in Pages, NEW q0 \in 1 .. Len(asked), NEW a \in Answers(q0),
         Respond(p, q0, a)
  PROVE  PageFine
<1>0. PageInv(p) /\ ConsentInv
  BY DEF PromptInv
<1>1. /\ PageMove /\ stream' = stream /\ view' = view /\ fetch' = fetch /\ lost' = lost
      /\ asked' = asked /\ pending' = pending /\ since' = since
      /\ ServerStill /\ \A r \in Pages : TearsGrow(r)
  <2>1. /\ ServerStill /\ stream' = stream /\ view' = view /\ fetch' = fetch
        /\ asked' = asked /\ pending' = pending /\ UNCHANGED tears
    BY DEF Respond, ServerStill, server
  <2> QED
    BY <2>1, CalmGrows DEF PageMove, TearsGrow, tears
<1>2. /\ \A r \in Pages \ {p} : shown'[r] = shown[r]
      /\ \A s \in Sessions : shown'[p][s] \subseteq shown[p][s]
      /\ \A s \in Sessions : \A q \in shown[p][s] :
            q \in shown'[p][s] \/ (q = q0 /\ s = view[p])
  <2>1. shown[p] \in [Sessions -> SUBSET Asks] /\ shown \in [Pages -> [Sessions -> SUBSET Asks]]
        /\ view[p] \in Sessions
    BY <1>0, Facts
  <2>2. shown' = [shown EXCEPT ![p][view[p]] = @ \ {q0}]
    BY DEF Respond
  <2> QED
    BY <2>1, <2>2
<1>3. /\ posts \subseteq posts'
      /\ \A s : s = view[p] => Answering(p, s, q0)'
      /\ \A s, q : Answering(p, s, q) => Answering(p, s, q)'
  <2> DEFINE post == [page |-> p, at |-> view[p], req |-> q0, answer |-> a]
  <2>1. posts' = posts \cup {post}
    BY DEF Respond
  <2>2. post.page = p /\ post.req = q0 /\ post.at = view[p]
    OBVIOUS
  <2> QED
    BY <2>1, <2>2 DEF Answering
<1>4. \A e : InStream(p, e)' = InStream(p, e)
  BY <1>1 DEF InStream
<1>5. /\ \A s, q : Due(p, s, q) => Due(p, s, q)'
      /\ \A s, q : Owed(p, s, q) => Owed(p, s, q)'
      /\ \A s, q : Missed(p, s, q) => Missed(p, s, q)'
  BY <1>0, <1>1, <1>4, PageMoveKeeps, MissedStays DEF Owed, Due, PageInv
<1>6. \A i, s, q : Cleared(p, i, s, q) => Cleared(p, i, s, q)'
  BY <1>1, <1>5, PageMoveKeeps DEF Cleared
<1>7. Known(p)' /\ Silent(p)' /\ Early(p)'
  BY <1>0, <1>1, <1>2, <1>5, PageMoveKeeps DEF PageInv, Known, Silent, Early
<1>8. InOrder(p)'
  BY <1>0, <1>1, <1>6, PageMoveKeeps DEF PageInv, InOrder, Ev
<1>9. ASSUME NEW f \in Fetches PROVE StaleDead(p, f)'
  <2> SUFFICES ASSUME fetch[p][f].at = "served", NEW s, s = fetch[p][f].of,
                      NEW q \in fetch[p][f].list, q \notin pending, s \in Queues(q)
               PROVE  \/ q \in since[p][f] \/ Due(p, s, q)'
                      \/ q \in fetch[p][f].seen /\ q \notin shown'[p][s]
    BY <1>1, PageMoveKeeps DEF StaleDead
  <2>1. s \in Sessions
    BY <1>0, Facts DEF PageInv, Known
  <2>2. \/ q \in since[p][f] \/ Due(p, s, q)
        \/ q \in fetch[p][f].seen /\ q \notin shown[p][s]
    BY <1>0 DEF PageInv, Stale, StaleDead
  <2> QED
    BY <1>2, <1>5, <2>1, <2>2
<1>10. ASSUME NEW f \in Fetches PROVE StaleNew(p, f)'
  <2> SUFFICES ASSUME fetch[p][f].at = "served", NEW s, s = fetch[p][f].of, NEW q \in pending,
                      q \notin fetch[p][f].list, Kind(q) = fetch[p][f].kind, s \in Announced(q)
               PROVE  \/ q \in since[p][f] \/ InStream(p, Ev("requested", s, q))'
                      \/ /\ q \in fetch[p][f].seen
                         /\ q \in shown'[p][s] \/ Answering(p, s, q)'
    BY <1>1, PageMoveKeeps DEF StaleNew
  <2>0. s \in Sessions
    BY <1>0, Facts DEF Announced, Queues
  <2>1. \/ q \in since[p][f] \/ InStream(p, Ev("requested", s, q))
        \/ q \in fetch[p][f].seen /\ (q \in shown[p][s] \/ Answering(p, s, q))
    BY <1>0 DEF PageInv, Stale, StaleNew
  <2> QED
    BY <1>2, <1>3, <1>4, <2>0, <2>1
<1>11. InQueue(p)'
  <2> SUFFICES ASSUME NEW q \in pending, NEW s \in Announced(q)
               PROVE  \/ TornAt(p, s, q)' \/ q \in shown'[p][s]
                      \/ InStream(p, Ev("requested", s, q))' \/ Answering(p, s, q)'
    BY <1>1, PageMoveKeeps DEF InQueue
  <2>1. s \in Sessions
    BY <1>0, Facts DEF Announced, Queues
  <2>2. \/ TornAt(p, s, q) \/ q \in shown[p][s] \/ InStream(p, Ev("requested", s, q))
        \/ Answering(p, s, q)
    BY <1>0 DEF PageInv, InQueue
  <2> QED
    BY <1>1, <1>2, <1>3, <1>4, <2>1, <2>2, PageMoveKeeps
<1>12. NoGhosts(p)'
  BY <1>0, <1>1, <1>2, <1>5, PageMoveKeeps DEF PageInv, NoGhosts
<1>13. PageInv(p)'
  BY <1>7, <1>8, <1>9, <1>10, <1>11, <1>12 DEF PageInv, Stale
<1> QED
  BY <1>1, <1>2, <1>3, <1>13, OnePage

LEMMA DisconnectFine ==
  ASSUME PromptInv, NEW p \in Pages, Disconnect(p)
  PROVE  PageFine
<1>0. PageInv(p) /\ ConsentInv
  BY DEF PromptInv
<1>1. /\ PageMove /\ ServerStill /\ UNCHANGED <<asked, pending, view, shown, fetch, posts>>
      /\ \A r \in Pages : TearsGrow(r)
      /\ \A i \in DOMAIN stream[p] : Gap(p, stream[p][i].at, stream[p][i].req)
  <2> DEFINE gap == {<<p, stream[p][i].at, stream[p][i].req>> : i \in DOMAIN stream[p]}
  <2>1. /\ ServerStill /\ UNCHANGED <<asked, pending, view, shown, fetch, posts>>
        /\ Tear(gap)
    BY DEF Disconnect, ServerStill, server, client
  <2>2. \A i \in DOMAIN stream[p] : /\ <<p, stream[p][i].at, stream[p][i].req>> \in gap
                                    /\ stream[p][i].req \in Asks
    BY <1>0, Facts DEF PageInv, Known
  <2> HIDE DEF gap
  <2>3. ASSUME NEW x \in Pages
        PROVE  TearsGrow(x) /\ \A s : \A q \in Asks : <<x, s, q>> \in gap => Gap(x, s, q)
    BY <1>0, <2>1, TearGrows
  <2>4. PageMove
    BY <2>1, <2>3 DEF PageMove, TearsGrow
  <2> QED
    BY <2>1, <2>2, <2>3, <2>4
<1>2. \A r \in Pages \ {p} : stream'[r] = stream[r]
  BY <1>0, Facts DEF Disconnect
<1>3. DOMAIN stream'[p] = {}
  <2>1. stream'[p] = <<>>
    BY <1>0, Facts DEF Disconnect
  <2> QED
    BY <2>1
<1>4. ASSUME NEW e, InStream(p, e)
      PROVE  /\ TornAt(p, e.at, e.req)'
             /\ \A f \in Fetches : Loading(p, f, e.at) => e.req \in since'[p][f]
  <2>1. PICK i \in DOMAIN stream[p] : stream[p][i] = e
    BY <1>4 DEF InStream
  <2>2. Gap(p, e.at, e.req)
    BY <1>1, <2>1
  <2> QED
    BY <2>2 DEF Gap
<1>5. ASSUME NEW s, NEW q
      PROVE  /\ Due(p, s, q) => \/ Due(p, s, q)'
                                \/ /\ TornAt(p, s, q)'
                                   /\ \A f \in Fetches : Loading(p, f, s) => q \in since'[p][f]
             /\ Owed(p, s, q) => Owed(p, s, q)'
  <2>1. InStream(p, Ev("replied", s, q)) =>
           /\ TornAt(p, s, q)'
           /\ \A f \in Fetches : Loading(p, f, s) => q \in since'[p][f]
    BY <1>4 DEF Ev
  <2> QED
    BY <2>1, PageMoveKeeps, <1>1 DEF Owed, Due
<1>6. ASSUME NEW s, NEW q
      PROVE  /\ TornAt(p, s, q) \/ InStream(p, Ev("requested", s, q)) => TornAt(p, s, q)'
             /\ InStream(p, Ev("requested", s, q)) =>
                   \A f \in Fetches : Loading(p, f, s) => q \in since'[p][f]
             /\ Answering(p, s, q)' = Answering(p, s, q)
  BY <1>1, <1>4, PageMoveKeeps DEF Ev, Answering
<1>7. \A f \in Fetches : since[p][f] \subseteq since'[p][f]
  BY <1>1 DEF TearsGrow
<1>8. Known(p)' /\ Silent(p)' /\ InOrder(p)'
  <2>1. Known(p)'
    BY <1>0, <1>1, <1>3, PageMoveKeeps DEF PageInv, Known
  <2> QED
    BY <1>3, <2>1 DEF Silent, InOrder
<1>9. ASSUME NEW f \in Fetches PROVE StaleDead(p, f)'
  <2> SUFFICES ASSUME fetch[p][f].at = "served", NEW s, s = fetch[p][f].of,
                      NEW q \in fetch[p][f].list, q \notin pending, s \in Queues(q)
               PROVE  \/ q \in since'[p][f] \/ Due(p, s, q)'
                      \/ q \in fetch[p][f].seen /\ q \notin shown[p][s]
    BY <1>1, PageMoveKeeps DEF StaleDead
  <2>1. \/ q \in since[p][f] \/ Due(p, s, q)
        \/ q \in fetch[p][f].seen /\ q \notin shown[p][s]
    BY <1>0 DEF PageInv, Stale, StaleDead
  <2>2. Loading(p, f, s)
    BY DEF Loading
  <2> QED
    BY <1>5, <1>7, <2>1, <2>2
<1>10. ASSUME NEW f \in Fetches PROVE StaleNew(p, f)'
  <2> SUFFICES ASSUME fetch[p][f].at = "served", NEW s, s = fetch[p][f].of, NEW q \in pending,
                      q \notin fetch[p][f].list, Kind(q) = fetch[p][f].kind, s \in Announced(q)
               PROVE  \/ q \in since'[p][f]
                      \/ q \in fetch[p][f].seen /\ (q \in shown[p][s] \/ Answering(p, s, q)')
    BY <1>1, PageMoveKeeps DEF StaleNew
  <2>1. \/ q \in since[p][f] \/ InStream(p, Ev("requested", s, q))
        \/ q \in fetch[p][f].seen /\ (q \in shown[p][s] \/ Answering(p, s, q))
    BY <1>0 DEF PageInv, Stale, StaleNew
  <2>2. Loading(p, f, s)
    BY DEF Loading
  <2> QED
    BY <1>6, <1>7, <2>1, <2>2
<1>11. InQueue(p)'
  <2> SUFFICES ASSUME NEW q \in pending, NEW s \in Announced(q)
               PROVE  TornAt(p, s, q)' \/ q \in shown[p][s] \/ Answering(p, s, q)'
    BY <1>1, PageMoveKeeps DEF InQueue
  <2> QED
    BY <1>0, <1>6 DEF PageInv, InQueue
<1>12. NoGhosts(p)'
  BY <1>0, <1>1, <1>5, PageMoveKeeps DEF PageInv, NoGhosts
<1>13. Early(p)'
  <2>1. \A s, q : Missed(p, s, q) => Missed(p, s, q)'
    BY <1>0, <1>1, MissedStays DEF PageInv
  <2> QED
    BY <1>0, <1>1, <2>1, PageMoveKeeps DEF PageInv, Early
<1>14. PageInv(p)'
  BY <1>8, <1>9, <1>10, <1>11, <1>12, <1>13 DEF PageInv, Stale
<1> QED
  BY <1>1, <1>2, <1>14, OnePage

LEMMA MergeFine ==
  ASSUME PromptInv, NEW p \in Pages, NEW f \in Fetches, Merge(p, f)
  PROVE  PageFine
<1>0. PageInv(p) /\ ConsentInv
  BY DEF PromptInv
<1> PICK w : w = fetch[p][f]
  OBVIOUS
<1> PICK v : v = w.of
  OBVIOUS
<1> PICK before : before = {q \in shown[p][v] : Kind(q) = w.kind}
  OBVIOUS
<1>1. /\ ServerStill /\ UNCHANGED <<asked, pending, view, stream, posts>>
      /\ w.at = "served" /\ v = view[p]
  BY DEF Merge, ServerStill, server
<1>2. v \in Sessions
  BY <1>0, <1>1, Facts
<1>3. /\ \A r \in Pages \ {p} : shown'[r] = shown[r] /\ fetch'[r] = fetch[r]
      /\ \A s \in Sessions \ {v} : shown'[p][s] = shown[p][s]
      /\ shown'[p][v] = (shown[p][v] \ before) \cup w.list
  <2>1. shown[p] \in [Sessions -> SUBSET Asks] /\ shown \in [Pages -> [Sessions -> SUBSET Asks]]
    BY <1>0, Facts
  <2>2. shown' = [shown EXCEPT ![p][v] = (@ \ before) \cup w.list]
    BY DEF Merge
  <2>3. \A r \in Pages \ {p} : fetch'[r] = fetch[r]
    BY <1>0, Facts DEF Merge
  <2> QED
    BY <1>2, <2>1, <2>2, <2>3
\* What the list changes of what the page heard of, or missed, since it was
\* taken is torn, for the other lists of the session too.
<1>4. ASSUME NEW q \in w.seen \cup since[p][f], Kind(q) = w.kind,
             (q \in shown[p][v]) # (q \in w.list)
      PROVE  q \in Torn(p, f) /\ TornAt(p, v, q)'
  <2>1. q \in Torn(p, f)
    BY <1>4 DEF Torn
  <2> QED
    BY <2>1 DEF Merge, TornAt
<1>5. /\ fetch'[p][f].list = {} /\ fetch'[p][f].at # "served"
      /\ \A g \in Fetches \ {f} : fetch'[p][g] = fetch[p][g]
  <2>1. fetch' = [fetch EXCEPT ![p][f] = NextFetch(p, f)]
    BY DEF Merge
  <2>2. fetch'[p][f] = NextFetch(p, f) /\ \A g \in Fetches \ {f} : fetch'[p][g] = fetch[p][g]
    BY <1>0, <2>1, Facts
  <2> QED
    BY <2>2, FreshFetch
<1>6. ASSUME NEW g \in Fetches \ {f}
      PROVE  /\ since[p][g] \subseteq since'[p][g]
             /\ Loading(p, g, v) => Torn(p, f) \subseteq since'[p][g]
  <2> DEFINE slot(h) == CASE h = f -> {}
                          [] h # f /\ fetch[p][h].at = "served" /\ fetch[p][h].of = v
                                -> since[p][h] \cup Torn(p, f)
                          [] OTHER -> since[p][h]
  <2>1. since' = [since EXCEPT ![p] = [h \in Fetches |-> slot(h)]]
    BY DEF Merge
  <2> HIDE DEF slot
  <2>2. since'[p][g] = slot(g)
    BY <1>0, <2>1, Facts
  <2> QED
    BY <2>2 DEF slot, Loading
<1>7. /\ \A e : InStream(p, e)' = InStream(p, e)
      /\ \A s, q : Answering(p, s, q)' = Answering(p, s, q)
      /\ \A s, q : Due(p, s, q) => Due(p, s, q)'
      /\ \A s, q : Due(p, s, q) => Owed(p, s, q)'
  BY <1>1, StillServer DEF InStream, Answering, Due, Owed
<1>8. \A s, q : TornAt(p, s, q) => TornAt(p, s, q)' \/ (s = v /\ q \in Mended(p, f))
  <2>1. lost \ {<<p, v, q>> : q \in Mended(p, f)} \subseteq lost'
    BY DEF Merge
  <2> QED
    BY <2>1 DEF TornAt
\* What the list mends was neither torn since nor is the subject of an event
\* on its way.
<1>9. ASSUME NEW q \in Mended(p, f)
      PROVE  /\ q \notin since[p][f] /\ Kind(q) = w.kind /\ v \notin Unannounced(q)
             /\ ~InStream(p, Ev("requested", v, q)) /\ ~InStream(p, Ev("replied", v, q))
  BY <1>9 DEF Mended, InStream, Ev
<1>10. ASSUME NEW s, NEW q, Missed(p, s, q), ~(s = v /\ q \in Mended(p, f))
       PROVE  Missed(p, s, q)'
  <2>1. TornAt(p, s, q)'
    BY <1>8, <1>10 DEF Missed
  <2>2. ASSUME NEW g \in Fetches, Loading(p, g, s)', q \in fetch'[p][g].list
        PROVE  q \in since'[p][g]
    <3>1. g # f
      BY <1>5, <2>2
    <3>2. Loading(p, g, s) /\ q \in fetch[p][g].list
      BY <1>5, <2>2, <3>1 DEF Loading
    <3> QED
      BY <1>6, <1>10, <3>1, <3>2 DEF Missed
  <2> QED
    BY <2>1, <2>2 DEF Missed
<1>11. ASSUME NEW i \in DOMAIN stream[p], NEW s, NEW q, stream[p][i] = Ev("requested", s, q),
              Cleared(p, i, s, q)
       PROVE  Cleared(p, i, s, q)'
  <2>1. CASE Missed(p, s, q)
    <3>1. InStream(p, Ev("requested", s, q))
      BY <1>11 DEF InStream
    <3>2. ~(s = v /\ q \in Mended(p, f))
      BY <1>9, <3>1
    <3> QED
      BY <1>10, <2>1, <3>2 DEF Cleared
  <2>2. CASE Owing(s, q) \/ \E j \in DOMAIN stream[p] : j > i /\ stream[p][j] = Ev("replied", s, q)
    BY <1>1, <2>2, StillServer DEF Cleared, Ev
  <2> QED
    BY <1>11, <2>1, <2>2 DEF Cleared
<1>12. Known(p)' /\ Silent(p)' /\ Early(p)'
  <2>1. \A s \in Sessions : shown'[p][s] \subseteq 1 .. Len(asked)
    BY <1>0, <1>3 DEF PageInv, Known
  <2>2. ASSUME NEW g \in Fetches, NEW q \in fetch'[p][g].list
        PROVE  q \in 1 .. Len(asked) /\ Kind(q) = fetch'[p][g].kind
    BY <1>0, <1>5, <2>2 DEF PageInv, Known
  <2>3. Known(p)'
    BY <1>0, <1>1, <2>1, <2>2, StillServer DEF PageInv, Known
  <2>4. Silent(p)'
    BY <1>0, <1>1 DEF PageInv, Silent
  <2>5. Early(p)'
    BY <1>0, <1>1, <1>9, <1>10, StillServer DEF PageInv, Early
  <2> QED
    BY <2>3, <2>4, <2>5
<1>13. InOrder(p)'
  <2> SUFFICES ASSUME NEW i \in DOMAIN stream[p], NEW q \in (1 .. Len(asked)) \ pending,
                      NEW s \in Queues(q), stream[p][i] = Ev("requested", s, q)
               PROVE  Cleared(p, i, s, q)'
    BY <1>1, StillServer DEF InOrder, Ev
  <2> QED
    BY <1>0, <1>11 DEF PageInv, InOrder
\* What this list says of a dead request, and of one it does not hold.
<1>14. ASSUME NEW q \in w.list, q \notin pending, v \in Queues(q)
       PROVE  /\ Kind(q) = w.kind
              /\ q \in since[p][f] \/ Due(p, v, q) \/ (q \in w.seen /\ q \notin shown[p][v])
  BY <1>0, <1>1, <1>14 DEF PageInv, Known, Stale, StaleDead
<1>15. ASSUME NEW q \in pending, q \notin w.list, Kind(q) = w.kind, v \in Announced(q)
       PROVE  \/ q \in since[p][f] \/ InStream(p, Ev("requested", v, q))
              \/ q \in w.seen /\ (q \in shown[p][v] \/ Answering(p, v, q))
  BY <1>0, <1>1, <1>15 DEF PageInv, Stale, StaleNew
<1>16. ASSUME NEW g \in Fetches PROVE StaleDead(p, g)'
  <2>1. CASE g = f
    BY <1>5, <2>1 DEF StaleDead
  <2>2. CASE g # f
    <3> SUFFICES ASSUME fetch[p][g].at = "served", NEW s, s = fetch[p][g].of,
                        NEW q \in fetch[p][g].list, q \notin pending, s \in Queues(q)
                 PROVE  \/ q \in since'[p][g] \/ Due(p, s, q)'
                        \/ q \in fetch[p][g].seen /\ q \notin shown'[p][s]
      BY <1>1, <1>5, <2>2, StillServer DEF StaleDead
    <3>0. s \in Sessions
      BY <1>0, Facts DEF PageInv, Known
    <3>1. \/ q \in since[p][g] \/ Due(p, s, q)
          \/ q \in fetch[p][g].seen /\ q \notin shown[p][s]
      BY <1>0 DEF PageInv, Stale, StaleDead
    <3>2. CASE q \notin shown[p][s] /\ q \in shown'[p][s]
      <4>1. s = v /\ q \in w.list
        BY <1>3, <3>0, <3>2
      <4>2. q \in since[p][f] \cup w.seen => q \in Torn(p, f)
        BY <1>4, <1>14, <3>2, <4>1
      <4>3. q \in since[p][f] \cup w.seen \/ Due(p, v, q)
        BY <1>14, <4>1
      <4> QED
        BY <1>6, <1>7, <2>2, <4>1, <4>2, <4>3 DEF Loading
    <3> QED
      BY <1>6, <1>7, <2>2, <3>1, <3>2
  <2> QED
    BY <2>1, <2>2
<1>17. ASSUME NEW g \in Fetches PROVE StaleNew(p, g)'
  <2>1. CASE g = f
    BY <1>5, <2>1 DEF StaleNew
  <2>2. CASE g # f
    <3> SUFFICES ASSUME fetch[p][g].at = "served", NEW s, s = fetch[p][g].of,
                        NEW q \in pending, q \notin fetch[p][g].list,
                        Kind(q) = fetch[p][g].kind, s \in Announced(q)
                 PROVE  \/ q \in since'[p][g] \/ InStream(p, Ev("requested", s, q))
                        \/ /\ q \in fetch[p][g].seen
                           /\ q \in shown'[p][s] \/ Answering(p, s, q)
      BY <1>1, <1>5, <1>7, <2>2, StillServer DEF StaleNew
    <3>0. s \in Sessions
      BY <1>0, Facts DEF Announced, Queues
    <3>1. \/ q \in since[p][g] \/ InStream(p, Ev("requested", s, q))
          \/ q \in fetch[p][g].seen /\ (q \in shown[p][s] \/ Answering(p, s, q))
      BY <1>0 DEF PageInv, Stale, StaleNew
    <3>2. CASE q \in shown[p][s] /\ q \notin shown'[p][s]
      <4>1. s = v /\ q \notin w.list /\ Kind(q) = w.kind
        BY <1>3, <3>0, <3>2
      <4>2. q \in since[p][f] \cup w.seen \/ InStream(p, Ev("requested", v, q))
        BY <1>15, <4>1
      <4>3. q \in since[p][f] \cup w.seen => q \in Torn(p, f)
        BY <1>4, <3>2, <4>1
      <4> QED
        BY <1>6, <2>2, <4>1, <4>2, <4>3 DEF Loading
    <3> QED
      BY <1>6, <2>2, <3>1, <3>2
  <2> QED
    BY <2>1, <2>2
<1>18. InQueue(p)'
  <2> SUFFICES ASSUME NEW q \in pending, NEW s \in Announced(q)
               PROVE  \/ TornAt(p, s, q)' \/ q \in shown'[p][s]
                      \/ InStream(p, Ev("requested", s, q)) \/ Answering(p, s, q)
    BY <1>1, <1>7, StillServer DEF InQueue
  <2>0. s \in Sessions /\ q \in 1 .. Len(asked)
    BY <1>0, Facts DEF Announced, Queues
  <2>1. \/ TornAt(p, s, q) \/ q \in shown[p][s] \/ InStream(p, Ev("requested", s, q))
        \/ Answering(p, s, q)
    BY <1>0 DEF PageInv, InQueue
\* The list, or what happened since, speaks for a request of its kind.
  <2>2. CASE s = v /\ Kind(q) = w.kind /\ q \notin w.list
    <3>1. \/ q \in since[p][f] \/ InStream(p, Ev("requested", s, q))
          \/ q \in w.seen /\ (q \in shown[p][s] \/ Answering(p, s, q))
      BY <1>15, <2>2
    <3>2. q \in since[p][f] /\ TornAt(p, s, q) => TornAt(p, s, q)'
      BY <1>8, <1>9, <2>2
    <3>3. q \in since[p][f] \cup w.seen /\ q \in shown[p][s] => TornAt(p, s, q)'
      BY <1>4, <2>2
    <3> QED
      BY <2>1, <3>1, <3>2, <3>3
  <2>3. CASE s = v /\ q \in w.list
    BY <1>3, <2>3
  <2>4. CASE ~(s = v /\ Kind(q) = w.kind)
    <3>1. q \in shown[p][s] => q \in shown'[p][s]
      BY <1>3, <2>0, <2>4
    <3>2. TornAt(p, s, q) => TornAt(p, s, q)'
      BY <1>8, <1>9, <2>4
    <3> QED
      BY <2>1, <3>1, <3>2
  <2> QED
    BY <2>2, <2>3, <2>4
<1>19. NoGhosts(p)'
  <2> SUFFICES ASSUME NEW s \in Sessions, NEW q \in shown'[p][s], q \notin pending,
                      s \in Queues(q)
               PROVE  Owed(p, s, q)'
    BY <1>1, StillServer DEF NoGhosts
  <2>0. ASSUME q \in shown[p][s], TornAt(p, s, q) => TornAt(p, s, q)'
        PROVE  Owed(p, s, q)'
    BY <1>0, <1>7, <2>0 DEF PageInv, NoGhosts, Owed
  <2>1. CASE s = v /\ q \in w.list
    <3>1. /\ Kind(q) = w.kind
          /\ q \in since[p][f] \/ Due(p, s, q) \/ (q \in w.seen /\ q \notin shown[p][s])
      BY <1>14, <2>1
    <3>2. q \in since[p][f] \cup w.seen /\ q \notin shown[p][s] => TornAt(p, s, q)'
      BY <1>4, <2>1, <3>1
    <3>3. q \in since[p][f] /\ TornAt(p, s, q) => TornAt(p, s, q)'
      BY <1>8, <1>9
    <3> QED
      BY <1>7, <2>0, <3>1, <3>2, <3>3 DEF Owed
  <2>2. CASE ~(s = v /\ q \in w.list)
    <3>1. q \in shown[p][s] /\ ~(s = v /\ Kind(q) = w.kind)
      BY <1>3, <2>2
    <3>2. TornAt(p, s, q) => TornAt(p, s, q)'
      BY <1>8, <1>9, <3>1
    <3> QED
      BY <2>0, <3>1, <3>2
  <2> QED
    BY <2>1, <2>2
<1>20. PageInv(p)'
  BY <1>12, <1>13, <1>16, <1>17, <1>18, <1>19 DEF PageInv, Stale
<1>21. \A r \in Pages \ {p} : TearsGrow(r)
  <2>1. \A r \in Pages \ {p} : since'[r] = since[r]
    BY <1>0, Facts DEF Merge
  <2>2. \A r \in Pages \ {p} : TornKept(r)
    BY DEF TornKept, TornAt, Merge
  <2> QED
    BY <2>1, <2>2 DEF TearsGrow
<1>22. \A r \in Pages \ {p} : /\ view'[r] = view[r] /\ shown'[r] = shown[r]
                              /\ fetch'[r] = fetch[r] /\ stream'[r] = stream[r]
                              /\ TearsGrow(r)
  BY <1>1, <1>3, <1>21
<1> QED
  BY <1>1, <1>20, <1>22, OnePage

LEMMA PageStepFine ==
  ASSUME PromptInv, NEW p \in Pages, PageStep(p)
  PROVE  PageFine
<1>1. CASE Deliver(p)
  BY <1>1, DeliverFine
<1>2. ASSUME NEW f \in Fetches, ServeList(p, f) PROVE PageFine
  BY <1>2, ServeListFine
<1>3. ASSUME NEW f \in Fetches, Merge(p, f) PROVE PageFine
  BY <1>3, MergeFine
<1>4. ASSUME NEW f \in Fetches,
             (\E s \in Sessions : Select(p, f, s)) \/ Outdated(p, f) \/ FetchFails(p, f)
      PROVE  PageFine
  BY <1>4, RefetchFine
<1>5. CASE \E q \in 1 .. Len(asked) : \E a \in Answers(q) : Respond(p, q, a)
  BY <1>5, RespondFine
<1>6. CASE Disconnect(p)
  BY <1>6, DisconnectFine
<1>7. CASE Reconnect(p)
  BY <1>7, ReconnectFine
<1> QED
  BY <1>1, <1>2, <1>3, <1>4, <1>5, <1>6, <1>7 DEF PageStep

-------------------------------------------------------------------------------
LEMMA PromptInit == Init => PromptInv
<1> SUFFICES ASSUME Init PROVE PromptInv
  OBVIOUS
<1>1. /\ ConsentInv /\ pending = {} /\ Len(asked) = 0 /\ 1 .. Len(asked) = {}
  BY ConsentInit DEF Init
<1>2. Handlers
  BY <1>1 DEF Init, Handlers
<1>3. ASSUME NEW p \in Pages PROVE PageInv(p)
  <2>1. /\ DOMAIN stream[p] = {} /\ \A s \in Sessions : shown[p][s] = {}
        /\ \A f \in Fetches : fetch[p][f].list = {} /\ fetch[p][f].at # "served"
    BY DEF Init, NoFetch, None
  <2>2. Early(p) /\ Stale(p)
    BY <1>1, <2>1 DEF Early, Stale, StaleDead, StaleNew
  <2> QED
    BY <1>1, <2>1, <2>2 DEF PageInv, Known, Silent, InOrder, InQueue, NoGhosts
<1> QED
  BY <1>1, <1>2, <1>3 DEF PromptInv

LEMMA ServerStepFine ==
  ASSUME PromptInv, \/ \E c \in Calls : CallStep(c)
                    \/ \E s \in Sessions : Cut(s)
                    \/ \E q \in Asks : Send(q) \/ Notify(q)
                    \/ \E post \in posts : Reply(post)
  PROVE  ServerFine
<1>1. ASSUME NEW c \in Calls, CallStep(c) PROVE ServerFine
  BY <1>1, QuietCallsFine, AskFine, AnnounceFine, AbandonFine, RetractFine DEF CallStep
<1> QED
  BY <1>1, CutFine, SendFine, NotifyFine, ReplyFine

LEMMA PromptStep == PromptInv /\ [Next]_vars => PromptInv'
<1> SUFFICES ASSUME PromptInv, [Next]_vars PROVE PromptInv'
  OBVIOUS
<1>0. ConsentInv'
  BY ConsentStep DEF PromptInv
<1>1. CASE ServerFine
  <2>1. \A p \in Pages : PageInv(p)'
    BY <1>1, ServerKeeps DEF ServerFine
  <2> QED
    BY <1>0, <1>1, <2>1 DEF ServerFine, PromptInv
<1>2. CASE PageFine
  BY <1>0, <1>2 DEF PageFine, PromptInv
<1>3. CASE UNCHANGED vars
  <2>1. ServerStill /\ UNCHANGED <<view, shown, fetch, stream, posts, tears>>
    BY <1>3 DEF ServerStill, vars, server, client
  <2>2. \A p \in Pages : PageInv(p)'
    BY <2>1, CalmGrows, BystanderKeeps
  <2> QED
    BY <1>0, <2>1, <2>2 DEF PromptInv, Handlers, ServerStill
<1>4. CASE Next
  <2>1. CASE \/ \E c \in Calls : CallStep(c)
             \/ \E s \in Sessions : Cut(s)
             \/ \E q \in Asks : Send(q) \/ Notify(q)
             \/ \E post \in posts : Reply(post)
    BY <1>1, <2>1, ServerStepFine
  <2>2. CASE \E post \in posts : PostFails(post)
    BY <1>2, <2>2, PostFailsFine
  <2>3. CASE \E p \in Pages : PageStep(p)
    BY <1>2, <2>3, PageStepFine
  <2> QED
    BY <1>4, <2>1, <2>2, <2>3 DEF Next
<1> QED
  BY <1>3, <1>4

LEMMA PromptsHold == Spec => []PromptInv
BY PromptInit, PromptStep, PTL DEF Spec

(* On every page a live request that has been announced is in the queues    *)
(* the user looks at, on its way there, or being answered from that page,   *)
(* whatever lists, events, replies and cancellations interleave - but where *)
(* the page's view of it was torn.                                          *)
THEOREM LivePromptsAreFound == Spec => []PromptFindsItsPage
<1>1. PromptInv => PromptFindsItsPage
  <2> SUFFICES ASSUME PromptInv, NEW p \in Pages, NEW q \in pending, NEW s \in Announced(q)
               PROVE  \/ <<p, s, q>> \in lost
                      \/ q \in shown[p][s]
                      \/ \E i \in DOMAIN stream[p] :
                            stream[p][i] = [type |-> "requested", at |-> s, req |-> q]
                      \/ \E post \in posts : post.page = p /\ post.req = q
    BY DEF PromptFindsItsPage
  <2>1. \/ TornAt(p, s, q) \/ q \in shown[p][s] \/ InStream(p, Ev("requested", s, q))
        \/ Answering(p, s, q)
    BY DEF PromptInv, PageInv, InQueue
  <2> QED
    BY <2>1 DEF TornAt, InStream, Ev, Answering
<1> QED
  BY PromptsHold, <1>1, PTL

(* A request nobody waits for any more stays on a page only while the event *)
(* that clears it is on its way or owed, in the order the page will see     *)
(* them - but where the page's view of it was torn.                         *)
THEOREM DeadPromptsGo == Spec => []NoGhostPrompts
<1>1. PromptInv => NoGhostPrompts
  <2> SUFFICES ASSUME PromptInv PROVE NoGhostPrompts
    OBVIOUS
  <2> USE DEF NoGhostPrompts
  <2> TAKE p \in Pages, s \in Sessions
  <2> TAKE q \in shown[p][s] \ pending
  <2>1. s \in {Root, Owner(q)} => Owed(p, s, q)
    BY DEF PromptInv, PageInv, NoGhosts, Queues
  <2>2. TornAt(p, s, q) = (<<p, s, q>> \in lost)
    BY DEF TornAt
  <2>3. InStream(p, Ev("replied", s, q)) =
           \E i \in DOMAIN stream[p] :
              stream[p][i] = [type |-> "replied", at |-> s, req |-> q]
    BY DEF InStream, Ev
  <2>4. Owing(s, q) = LET l == call[asked[q].call] IN
           \/ \E i \in DOMAIN notify[q] : notify[q][i] = s
           \/ l.req = q /\ (l.pc = "retract" \/ (l.pc = "unmirror" /\ s = Root))
    BY DEF Owing
  <2> QED
    BY <2>1, <2>2, <2>3, <2>4 DEF Owed, Due
<1> QED
  BY PromptsHold, <1>1, PTL
================================================================================
