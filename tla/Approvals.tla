----------------------------- MODULE Approvals -----------------------------
(***************************************************************************)
(* How a tool call gets a human's consent, and how ask_user gets an        *)
(* answer.  A loop registers a pending request, announces it on the event  *)
(* bus (a teammate's is mirrored to the session the human watches) and     *)
(* blocks on a one-slot channel; any page may answer it over HTTP, the     *)
(* first answer wins, and the other pages learn of it from the bus.        *)
(* Permission requests and ask_user batches are two managers of the same   *)
(* shape (internal/permission, internal/question): here they are two kinds *)
(* of request, an ask_user batch being a request whose target is Question. *)
(*                                                                         *)
(* Abstracted: request ids are their order of creation; the calls that     *)
(* configuration or the session's mode (Yolo, an Auto verdict) settles     *)
(* reach no shared state and are left out; a list is taken in one step (it *)
(* reads each request once, and no property compares two); a teammate      *)
(* stays on the board while it asks.                                       *)
(***************************************************************************)
EXTENDS Naturals, Sequences, FiniteSets

CONSTANTS
    Root,        \* the session a human watches
    Teammates,   \* the sessions of its teammates
    Below,       \* for each session, its teammates at any depth
    Calls,       \* the goroutines that run tool calls, several per session
    SessionOf,   \* the session whose call a goroutine runs
    Pages,       \* the browser tabs
    Fetches,     \* bound: the selections of a page with a list to come
    Targets,     \* the gated calls, records of a tool and a pattern
    MaxAsks,     \* bound: requests created in a run
    MaxPosts,    \* bound: replies on their way at once
    BufSize      \* the capacity of a subscriber's channel (1024 in bus.New)

Sessions == {Root} \cup Teammates
Asks == 1 .. MaxAsks
Question == [tool |-> "ask_user", pattern |-> "*"]  \* an ask_user batch

ASSUME ApprovalsAssumption ==
    /\ Root \notin Teammates
    /\ \A t \in Targets : t.tool # Question.tool
    /\ Below \in [Sessions -> SUBSET Teammates]
    /\ Below[Root] = Teammates
    /\ SessionOf \in [Calls -> Sessions]
    /\ MaxAsks \in Nat /\ MaxPosts \in Nat
    /\ BufSize \in Nat \ {0}

VARIABLES
    global,     \* Manager.global: the persisted "always" grants
    own,        \* own[s]: grants kept in the session's ruleset (failed write)
    asked,      \* the requests created so far: the call blocked, its target
    pending,    \* Manager.pending, of both managers
    sending,    \* the requests taken out by a reply not yet sent
    ch,         \* ch[q]: what ReplyCh of request q holds
    call,       \* call[c]: where goroutine c stands in its tool call
    notify,     \* notify[q]: sessions the reply handler has still to tell
    subs,       \* Bus.subs: the pages connected to the event stream
    stream,     \* stream[p]: the page's buffered events
    view,       \* view[p]: the active session of the page
    shown,      \* shown[p][s]: permQueues and questionQueues, per session
    fetch,      \* fetch[p][f]: a list request in flight, of a session
    posts,      \* the replies on their way to the server
    said,       \* history: said[q] is the answer the server accepted
    lost,       \* history: <<p, s, q>> whose view of q was torn at page p by a
                \* dropped event, a failed post, an answer given before the
                \* announcement, or a list older than an event or than another
                \* list merged since, and not mended by a list after that
    since       \* history: since[p][f], what was torn of the session of
                \* the list in flight since it was taken

gate == <<global, own>>
server == <<asked, pending, sending, ch, notify, said>>
client == <<view, shown, fetch>>
tears == <<lost, since>>
vars == <<gate, call, server, subs, stream, client, posts, tears>>

None == "none"
Idle == [pc |-> "idle", req |-> 0, target |-> Question, cut |-> FALSE]
NoFetch == [at |-> None, of |-> None, kind |-> None, list |-> {}, seen |-> {}]
Owner(q) == SessionOf[asked[q].call]
Kind(q) == IF asked[q].target = Question THEN "question" ELSE "permission"
Answers(q) == IF Kind(q) = "question" THEN {"answer"} ELSE {"once", "always", "reject"}

(* The sessions whose queues a request of s is filed under.                 *)
Audience(s) == IF s = Root THEN <<Root>> ELSE <<s, Root>>

(* Ruleset.Evaluate over the grants; every target is one the session's base *)
(* rules answer Ask for.                                                    *)
Granted(s, t) == \E g \in global \cup own[s] :
    g.tool = t.tool /\ g.pattern \in {"*", t.pattern}

(* A known gap: the view of these pages, sessions and requests is torn.     *)
Tear(gap) ==
    /\ lost' = lost \cup gap
    /\ since' = [p \in Pages |-> [f \in Fetches |->
            IF fetch[p][f].at = "served"
            THEN since[p][f] \cup {q \in Asks : <<p, fetch[p][f].of, q>> \in gap}
            ELSE since[p][f]]]

(* Mutant: the buffer has no limit.                                         *)
HearsAll(p) == p \in subs

Hears(p) == p \in subs /\ Len(stream[p]) < BufSize

(* Bus.Publish: to every subscriber whose buffer has room.                  *)
Publish(type, s, q) ==
    /\ stream' = [p \in Pages |->
            IF Hears(p) THEN Append(stream[p], [type |-> type, at |-> s, req |-> q])
            ELSE stream[p]]
    /\ Tear({<<p, s, q>> : p \in {x \in Pages : ~Hears(x)}})

Init ==
    /\ global = {} /\ own = [s \in Sessions |-> {}]
    /\ asked = <<>> /\ pending = {} /\ sending = {}
    /\ ch = [q \in Asks |-> None] /\ said = [q \in Asks |-> None]
    /\ notify = [q \in Asks |-> <<>>]
    /\ call = [c \in Calls |-> Idle]
    /\ subs = Pages /\ stream = [p \in Pages |-> <<>>]
    /\ view = [p \in Pages |-> Root]
    /\ shown = [p \in Pages |-> [s \in Sessions |-> {}]]
    /\ fetch = [p \in Pages |-> [f \in Fetches |-> NoFetch]]
    /\ posts = {} /\ lost = {} /\ since = [p \in Pages |-> [f \in Fetches |-> {}]]

-----------------------------------------------------------------------------
(* The tool calls.                                                          *)

(* A call that runs without asking, because a grant covers it.             *)
RunGranted(c, t) ==
    /\ call[c].pc = "idle"
    /\ Granted(SessionOf[c], t)
    /\ call' = [call EXCEPT ![c] = [Idle EXCEPT !.pc = "run", !.target = t]]
    /\ UNCHANGED <<gate, server, subs, stream, client, posts, tears>>

(* No grant covers the call, or it is a batch of ask_user: it is going to   *)
(* ask, whatever is granted while it reads the session's mode and parent.   *)
Evaluate(c, t) ==
    /\ call[c].pc = "idle"
    /\ Len(asked) + Cardinality({d \in Calls : call[d].pc = "ask"}) < MaxAsks
    /\ t = Question \/ ~Granted(SessionOf[c], t)
    /\ call' = [call EXCEPT ![c] = [Idle EXCEPT !.pc = "ask", !.target = t]]
    /\ UNCHANGED <<gate, server, subs, stream, client, posts, tears>>

(* Manager.Create: the request is pending before anyone is told.            *)
Ask(c) ==
    LET q == Len(asked) + 1 IN
    /\ call[c].pc = "ask"
    /\ q <= MaxAsks
    /\ asked' = Append(asked, [call |-> c, target |-> call[c].target])
    /\ pending' = pending \cup {q}
    /\ call' = [call EXCEPT ![c].pc = "announce", ![c].req = q]
    /\ UNCHANGED <<gate, sending, ch, notify, said, subs, stream, client, posts, tears>>

Announce(c) ==
    /\ call[c].pc = "announce"
    /\ Publish("requested", SessionOf[c], call[c].req)
    /\ call' = [call EXCEPT ![c].pc = IF SessionOf[c] = Root THEN "wait" ELSE "mirror"]
    /\ UNCHANGED <<gate, server, subs, client, posts>>

(* mirrorPermission / mirrorQuestion: again, under the watched session.     *)
Mirror(c) ==
    /\ call[c].pc = "mirror"
    /\ Publish("requested", Root, call[c].req)
    /\ call' = [call EXCEPT ![c].pc = "wait"]
    /\ UNCHANGED <<gate, server, subs, client, posts>>

Asking == {"ask", "announce", "mirror", "wait"}

(* The context of the session's tool calls is cancelled: a stop, or         *)
(* guidance that cuts the tools.  (A tool that runs ends with Finish.)      *)
Cut(s) ==
    /\ \E c \in Calls : SessionOf[c] = s /\ call[c].pc \in Asking /\ ~call[c].cut
    /\ call' = [c \in Calls |-> IF SessionOf[c] = s /\ call[c].pc \in Asking
                                THEN [call[c] EXCEPT !.cut = TRUE] ELSE call[c]]
    /\ UNCHANGED <<gate, server, subs, stream, client, posts, tears>>

(* Mutant: the grant is for the tool.                                       *)
AddToolRule(s, t) ==
    /\ global' = global \cup {[t EXCEPT !.pattern = "*"]}
    /\ UNCHANGED own

(* Manager.AddRule: persisted for every session, or when the write fails    *)
(* kept in this session's ruleset.                                          *)
AddRule(s, t) ==
    \/ global' = global \cup {t} /\ UNCHANGED own
    \/ own' = [own EXCEPT ![s] = @ \cup {t}] /\ UNCHANGED global

(* select takes the reply; with the context cancelled too it may take either *)
TakeReply(c) ==
    LET q == call[c].req  t == call[c].target IN
    /\ call[c].pc = "wait" /\ ch[q] # None
    /\ ch' = [ch EXCEPT ![q] = None]
    /\ IF ch[q] = "always" THEN AddRule(SessionOf[c], t) ELSE UNCHANGED <<global, own>>
    /\ call' = [call EXCEPT ![c] =
            IF ch[q] \in {"once", "always", "answer"}
            THEN [Idle EXCEPT !.pc = "run", !.req = q, !.target = t]
            ELSE Idle]
    /\ UNCHANGED <<asked, pending, sending, notify, said, subs, stream, client, posts, tears>>

(* Mutant: no Manager.Remove.                                               *)
AbandonOnly(c) ==
    /\ call[c].pc = "wait" /\ call[c].cut
    /\ call' = [call EXCEPT ![c].pc = "retract"]
    /\ UNCHANGED <<gate, server, subs, stream, client, posts, tears>>

(* select takes ctx.Done: Manager.Remove, then tell the owner's queue ...   *)
Abandon(c) ==
    /\ call[c].pc = "wait" /\ call[c].cut
    /\ pending' = pending \ {call[c].req}
    /\ call' = [call EXCEPT ![c].pc = "retract"]
    /\ UNCHANGED <<gate, asked, sending, ch, notify, said, subs, stream, client, posts, tears>>

(* Mutant: the mirror is not told.                                          *)
RetractOwn(c) ==
    /\ call[c].pc = "retract"
    /\ Publish("replied", SessionOf[c], call[c].req)
    /\ call' = [call EXCEPT ![c] = Idle]
    /\ UNCHANGED <<gate, server, subs, client, posts>>

Retract(c) ==
    /\ call[c].pc = "retract"
    /\ Publish("replied", SessionOf[c], call[c].req)
    /\ call' = [call EXCEPT ![c] = IF SessionOf[c] = Root THEN Idle ELSE [@ EXCEPT !.pc = "unmirror"]]
    /\ UNCHANGED <<gate, server, subs, client, posts>>

(* ... and the mirror's.                                                    *)
Unmirror(c) ==
    /\ call[c].pc = "unmirror"
    /\ Publish("replied", Root, call[c].req)
    /\ call' = [call EXCEPT ![c] = Idle]
    /\ UNCHANGED <<gate, server, subs, client, posts>>

Finish(c) ==
    /\ call[c].pc = "run"
    /\ call' = [call EXCEPT ![c] = Idle]
    /\ UNCHANGED <<gate, server, subs, stream, client, posts, tears>>

-----------------------------------------------------------------------------
(* The reply routes.                                                        *)

(* A reply still unannounced to s when it is accepted reaches a page before *)
(* the request does.                                                        *)
Unannounced(q) == LET l == call[asked[q].call] IN
    CASE l.req = q /\ l.pc = "announce" -> {Owner(q), Root}
      [] l.req = q /\ l.pc = "mirror"   -> {Root}
      [] OTHER                          -> {}

(* Mutant: the entry stays, and a second answer is taken.                   *)
ReplyTwice(post) ==
    LET q == post.req IN
    /\ posts' = posts \ {post}
    /\ q <= Len(asked)
    /\ sending' = sending \cup {q}
    /\ said' = [said EXCEPT ![q] = post.answer]
    /\ notify' = [notify EXCEPT ![q] = Audience(Owner(q))]
    /\ UNCHANGED <<gate, asked, pending, ch, call, subs, stream, client, tears>>

(* handlePermissionReply / handleReplyQuestion up to the unlock of          *)
(* Manager.Reply: the entry is removed; an unknown request is a 404.        *)
Reply(post) ==
    LET q == post.req IN
    /\ posts' = posts \ {post}
    /\ \/ /\ q \in pending
          /\ pending' = pending \ {q}
          /\ sending' = sending \cup {q}
          /\ said' = [said EXCEPT ![q] = post.answer]
          /\ notify' = [notify EXCEPT ![q] = Audience(Owner(q))]
          /\ Tear(Pages \X Unannounced(q) \X {q})
       \/ q \notin pending /\ UNCHANGED <<pending, sending, said, notify, tears>>
    /\ UNCHANGED <<gate, asked, ch, call, subs, stream, client>>

(* Mutant: an unbuffered ReplyCh, written only if the loop is receiving.    *)
SendUnbuffered(q) ==
    /\ q \in sending
    /\ sending' = sending \ {q}
    /\ ch' = [ch EXCEPT ![q] = IF call[asked[q].call].pc = "wait" THEN said[q] ELSE @]
    /\ UNCHANGED <<gate, asked, pending, notify, said, call, subs, stream, client, posts, tears>>

(* The rest of Manager.Reply: the answer goes into the channel, whether or  *)
(* not anyone waits for it still.                                           *)
Send(q) ==
    /\ q \in sending
    /\ sending' = sending \ {q}
    /\ ch' = [ch EXCEPT ![q] = said[q]]
    /\ UNCHANGED <<gate, asked, pending, notify, said, call, subs, stream, client, posts, tears>>

(* The rest of the handler: permission.replied to each queue in turn.       *)
Notify(q) ==
    /\ notify[q] # <<>> /\ q \notin sending
    /\ Publish("replied", Head(notify[q]), q)
    /\ notify' = [notify EXCEPT ![q] = Tail(@)]
    /\ UNCHANGED <<gate, asked, pending, sending, ch, said, call, subs, client, posts>>

(* Mutant: its own only.                                                    *)
ListedOwn(s, kind) == {q \in pending : Kind(q) = kind /\ Owner(q) = s}

(* GET permission / question list: its own requests and its teammates'.     *)
Listed(s, kind) == {q \in pending : Kind(q) = kind /\ Owner(q) \in {s} \cup Below[s]}

ServeList(p, f) ==
    /\ fetch[p][f].at = "asked"
    /\ fetch' = [fetch EXCEPT ![p][f] =
            [@ EXCEPT !.at = "served", !.list = Listed(fetch[p][f].of, fetch[p][f].kind)]]
    /\ UNCHANGED <<gate, call, server, subs, stream, view, shown, posts, tears>>

-----------------------------------------------------------------------------
(* The page.                                                                *)

(* What a list that is on its way will know nothing of.                     *)
Noted(p, f, e) ==
    IF fetch[p][f].at = "served" /\ fetch[p][f].of = e.at /\ fetch[p][f].kind = Kind(e.req)
    THEN [fetch[p][f] EXCEPT !.seen = @ \cup {e.req}] ELSE fetch[p][f]

Deliver(p) ==
    /\ stream[p] # <<>>
    /\ LET e == Head(stream[p]) IN
       /\ stream' = [stream EXCEPT ![p] = Tail(@)]
       /\ shown' = [shown EXCEPT ![p][e.at] =
                        IF e.type = "requested" THEN @ \cup {e.req} ELSE @ \ {e.req}]
       /\ fetch' = [fetch EXCEPT ![p] = [f \in Fetches |-> Noted(p, f, e)]]
    /\ UNCHANGED <<gate, call, server, subs, view, posts, tears>>

FetchOf(s, kind) == [NoFetch EXCEPT !.at = "asked", !.of = s, !.kind = kind]

(* The user opens a session, or the one in view again: its permission list  *)
(* is fetched first, its questions next.                                    *)
Select(p, f, s) ==
    /\ fetch[p][f] = NoFetch
    /\ view' = [view EXCEPT ![p] = s]
    /\ fetch' = [fetch EXCEPT ![p][f] = FetchOf(s, "permission")]
    /\ UNCHANGED <<gate, call, server, subs, stream, shown, posts, tears>>

NextFetch(p, f) == IF fetch[p][f].kind = "permission"
                   THEN FetchOf(fetch[p][f].of, "question")
                   ELSE NoFetch

(* What a list mends: the requests of its kind that were not torn again     *)
(* since it was taken and of which nothing is on its way.                   *)
Mended(p, f) ==
    {q \in 1 .. Len(asked) \ since[p][f] :
        /\ Kind(q) = fetch[p][f].kind
        /\ fetch[p][f].of \notin Unannounced(q)
        /\ \A i \in DOMAIN stream[p] :
              stream[p][i].at # fetch[p][f].of \/ stream[p][i].req # q}

(* What a list tears: what it changes of a request the page has heard of,   *)
(* or failed to hear of, since the list was taken.                          *)
Torn(p, f) ==
    {q \in fetch[p][f].seen \cup since[p][f] :
        /\ Kind(q) = fetch[p][f].kind
        /\ (q \in shown[p][fetch[p][f].of]) # (q \in fetch[p][f].list)}

(* The list replaces the queue of its kind, keeping what both hold, if its  *)
(* session is in view: that it was left in between nobody notices.          *)
Merge(p, f) ==
    LET s == fetch[p][f].of
        before == {q \in shown[p][s] : Kind(q) = fetch[p][f].kind} IN
    /\ fetch[p][f].at = "served" /\ view[p] = s
    /\ shown' = [shown EXCEPT ![p][s] = (@ \ before) \cup fetch[p][f].list]
    /\ lost' = (lost \ {<<p, s, q>> : q \in Mended(p, f)}) \cup {<<p, s, q>> : q \in Torn(p, f)}
    /\ since' = [since EXCEPT ![p] = [g \in Fetches |->
            CASE g = f -> {}
              [] g # f /\ fetch[p][g].at = "served" /\ fetch[p][g].of = s -> @[g] \cup Torn(p, f)
              [] OTHER -> @[g]]]
    /\ fetch' = [fetch EXCEPT ![p][f] = NextFetch(p, f)]
    /\ UNCHANGED <<gate, call, server, subs, stream, view, posts>>

(* The user has left the session: what still comes for it is ignored.       *)
Outdated(p, f) ==
    /\ fetch[p][f].at # None /\ view[p] # fetch[p][f].of
    /\ fetch' = [fetch EXCEPT ![p][f] = NoFetch]
    /\ since' = [since EXCEPT ![p][f] = {}]
    /\ UNCHANGED <<gate, call, server, subs, stream, view, shown, posts, lost>>

FetchFails(p, f) ==
    /\ fetch[p][f].at # None
    /\ fetch' = [fetch EXCEPT ![p][f] = NextFetch(p, f)]
    /\ since' = [since EXCEPT ![p][f] = {}]
    /\ UNCHANGED <<gate, call, server, subs, stream, view, shown, posts, lost>>

(* respondPermission / respondQuestion: dismissed at once, then posted.     *)
Respond(p, q, a) ==
    /\ q \in shown[p][view[p]] /\ a \in Answers(q)
    /\ Cardinality(posts) < MaxPosts
    /\ shown' = [shown EXCEPT ![p][view[p]] = @ \ {q}]
    /\ posts' = posts \cup {[page |-> p, at |-> view[p], req |-> q, answer |-> a]}
    /\ UNCHANGED <<gate, call, server, subs, stream, view, fetch, tears>>

(* The post never reaches the server: logged, the prompt stays dismissed.   *)
PostFails(post) ==
    /\ posts' = posts \ {post}
    /\ Tear({<<post.page, post.at, post.req>>})
    /\ UNCHANGED <<gate, call, server, subs, stream, client>>

(* The event stream breaks (Bus.Unsubscribe) and is opened again; the page  *)
(* resyncs messages only.                                                   *)
Disconnect(p) ==
    /\ p \in subs
    /\ subs' = subs \ {p}
    /\ stream' = [stream EXCEPT ![p] = <<>>]
    /\ Tear({<<p, stream[p][i].at, stream[p][i].req>> : i \in DOMAIN stream[p]})
    /\ UNCHANGED <<gate, call, server, client, posts>>

Reconnect(p) ==
    /\ p \notin subs
    /\ subs' = subs \cup {p}
    /\ UNCHANGED <<gate, call, server, stream, client, posts, tears>>

-----------------------------------------------------------------------------
CallStep(c) ==
    \/ \E t \in Targets : RunGranted(c, t)
    \/ \E t \in Targets \cup {Question} : Evaluate(c, t)
    \/ Ask(c) \/ Announce(c) \/ Mirror(c)
    \/ TakeReply(c) \/ Abandon(c) \/ Retract(c) \/ Unmirror(c) \/ Finish(c)

PageStep(p) ==
    \/ Deliver(p)
    \/ \E f \in Fetches :
            \/ ServeList(p, f) \/ Merge(p, f) \/ Outdated(p, f) \/ FetchFails(p, f)
            \/ \E s \in Sessions : Select(p, f, s)
    \/ \E q \in 1 .. Len(asked) : \E a \in Answers(q) : Respond(p, q, a)
    \/ Disconnect(p) \/ Reconnect(p)

Next ==
    \/ \E c \in Calls : CallStep(c)
    \/ \E s \in Sessions : Cut(s)
    \/ \E q \in Asks : Send(q) \/ Notify(q)
    \/ \E post \in posts : Reply(post) \/ PostFails(post)
    \/ \E p \in Pages : PageStep(p)

Spec == Init /\ [][Next]_vars

-----------------------------------------------------------------------------
Replies == {None, "once", "always", "reject", "answer"}

CallRecord ==
    [pc : {"idle", "ask", "announce", "mirror", "wait", "retract", "unmirror", "run"},
     req : {0} \cup Asks, target : Targets \cup {Question}, cut : BOOLEAN]

ServerTypes ==
    /\ global \subseteq Targets /\ own \in [Sessions -> SUBSET Targets]
    /\ asked \in Seq([call : Calls, target : Targets \cup {Question}])
    /\ Len(asked) <= MaxAsks
    /\ pending \subseteq Asks /\ sending \subseteq Asks
    /\ ch \in [Asks -> Replies] /\ said \in [Asks -> Replies]
    /\ call \in [Calls -> CallRecord]
    /\ notify \in [Asks -> Seq(Sessions)]

StreamTypes ==
    /\ subs \subseteq Pages
    /\ stream \in [Pages -> Seq([type : {"requested", "replied"}, at : Sessions, req : Asks])]
    /\ \A p \in Pages : Len(stream[p]) <= BufSize

PageTypes ==
    /\ view \in [Pages -> Sessions]
    /\ shown \in [Pages -> [Sessions -> SUBSET Asks]]
    /\ fetch \in [Pages -> [Fetches -> [at : {None, "asked", "served"},
                                        of : Sessions \cup {None},
                                        kind : {None, "permission", "question"},
                                        list : SUBSET Asks, seen : SUBSET Asks]]]
    /\ posts \subseteq [page : Pages, at : Sessions, req : Asks, answer : Replies]
    /\ lost \subseteq Pages \X Sessions \X Asks
    /\ since \in [Pages -> [Fetches -> SUBSET Asks]]

(* Every variable keeps its type, the grants naming only gated calls (never *)
(* an ask_user batch); no page's buffer exceeds its capacity.               *)
TypeOK == ServerTypes /\ StreamTypes /\ PageTypes

(* A loop blocked on the user can always be unblocked: its request is still *)
(* in the manager, where a reply or a list finds it, or a reply handler     *)
(* that took it out has the send still to do, or the answer is already in   *)
(* its channel.  (The entry is gone before the send, with the lock free:    *)
(* other pages, the loop's own Remove and the lists come in between.)       *)
WaiterIsAnswerable == \A c \in Calls :
    call[c].pc \in {"announce", "mirror", "wait"} =>
        \/ call[c].req \in pending \cup sending
        \/ ch[call[c].req] # None

(* The manager leaks nothing: every pending request has its loop still      *)
(* waiting for it, however the wait ended.                                  *)
PendingHasWaiter == \A q \in pending :
    /\ call[asked[q].call].req = q
    /\ call[asked[q].call].pc \in {"announce", "mirror", "wait"}

(* A gated call runs only on consent: on the accepted answer to its own     *)
(* request, or on an accepted "always" for the same tool and the same       *)
(* target - approving one command never approves another - unless what was  *)
(* approved is a tool whose calls have no target.                           *)
Approved(c) ==
    LET l == call[c] IN
    IF l.req # 0
    THEN /\ asked[l.req] = [call |-> c, target |-> l.target]
         /\ said[l.req] \in {"once", "always", "answer"}
    ELSE \E q \in 1 .. Len(asked) :
            /\ said[q] = "always"
            /\ asked[q].target.tool = l.target.tool
            /\ asked[q].target.pattern \in {"*", l.target.pattern}

RunsAreApproved == \A c \in Calls : call[c].pc = "run" => Approved(c)

(* The sessions under which a pending request has been announced so far.    *)
Announced(q) ==
    {Root, Owner(q)} \ Unannounced(q)

(* A live prompt is where the user looks: on every page, in the queue of    *)
(* the asking session and of the session the user watches, the announced    *)
(* request is shown, on its way, or being answered from that page - unless  *)
(* that page's view of it was torn (see lost) and no list has mended it:    *)
(* opening the session again shows whatever was lost on the way before.     *)
PromptFindsItsPage == \A p \in Pages, q \in pending : \A s \in Announced(q) :
    \/ <<p, s, q>> \in lost
    \/ q \in shown[p][s]
    \/ \E i \in DOMAIN stream[p] : stream[p][i] = [type |-> "requested", at |-> s, req |-> q]
    \/ \E post \in posts : post.page = p /\ post.req = q

(* No dead prompt stays up: when a page shows a request nobody waits for,   *)
(* in either of those queues, the event that clears it is on its way or     *)
(* still to be published - unless that page's view of it was torn and not   *)
(* mended by a list since.                                                  *)
NoGhostPrompts == \A p \in Pages, s \in Sessions : \A q \in shown[p][s] \ pending :
    LET l == call[asked[q].call] IN
    s \in {Root, Owner(q)} =>
    \/ <<p, s, q>> \in lost
    \/ \E i \in DOMAIN stream[p] : stream[p][i] = [type |-> "replied", at |-> s, req |-> q]
    \/ \E i \in DOMAIN notify[q] : notify[q][i] = s
    \/ l.req = q /\ (l.pc = "retract" \/ (l.pc = "unmirror" /\ s = Root))

(* How a request stands: decided from the answer's acceptance until its     *)
(* call has taken it or given up.                                           *)
StageOf(q) == LET l == call[asked[q].call] IN
    CASE q > Len(asked) -> "unasked"
      [] q <= Len(asked) /\ q \in pending -> "open"
      [] q <= Len(asked) /\ q \notin pending ->
            IF l.req = q /\ l.pc \in {"announce", "mirror", "wait"} THEN "decided" ELSE "closed"

Stage == [q \in Asks |-> StageOf(q)]

Grants == {g \in Sessions \X Targets : g[2] \in global \cup own[g[1]]}

Checked == [c \in Calls |-> IF call[c].pc = "ask" THEN {call[c].target} ELSE {}]
Doing == [c \in Calls |-> IF call[c].pc = "run" THEN {call[c].target} ELSE {}]

Promise == INSTANCE Consent WITH
    stage <- Stage, answer <- said, granted <- Grants, checked <- Checked,
    doing <- Doing

(* The manager, the channel, the routes and the pages keep the promise of   *)
(* Consent: one decision per request, used at most once, by the call that   *)
(* asked and for what it asked, and no grant but an "always" for it.        *)
ConsentKept == Promise!ConsentSpec
=============================================================================
