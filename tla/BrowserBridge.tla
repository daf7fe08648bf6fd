---------------------------- MODULE BrowserBridge ----------------------------
(***************************************************************************)
(* The link between the browser tools and the companion extension          *)
(* (internal/browser/bridge.go and browser-extension/background.js): the   *)
(* goroutine that serves each socket, the tool calls that send operations  *)
(* over the current one, and the extension that runs them and answers on   *)
(* whatever socket it has by then.                                         *)
(*                                                                         *)
(* An operation's id is unique, so a call stands for it.  Frames that      *)
(* carry no result, the hello and its inventory of tabs, and the pairing   *)
(* token are left out; a ping is kept, since its answer takes the lock     *)
(* every writer shares.                                                    *)
(***************************************************************************)
EXTENDS FiniteSets

CONSTANTS
    Links,      \* sockets, each accepted once
    Calls,      \* calls of Dispatch
    NoLink,     \* no socket
    NoCall      \* nothing

ASSUME BridgeAssumption ==
    /\ NoLink \notin Links
    /\ NoCall \notin Calls
    /\ Links \cap Calls = {}

VARIABLES
    conn,       \* Bridge.conn: the current link
    pending,    \* Bridge.pending: the calls that have a channel in it
    writer,     \* who holds writeMu
    open,       \* the sockets that are up
    serve,      \* where each socket's goroutine is
    old,        \*   the link it replaced
    owed,       \*   the calls it took over and must fail
    hand,       \*   the call whose result it is about to send
    place,      \* where each call is, or how it returned
    via,        \*   the link it was sent on, until it returns
    box,        \*   its channel: empty, answer or lost
    running,    \* extension: the operations it was handed
    wire,       \* its results in flight, each with the socket that carries it
    ran         \* history: the operations it has sent a result for

server    == <<conn, pending, writer>>
handler   == <<serve, old, owed, hand>>
dispatch  == <<place, via, box>>
extension == <<running, wire, ran>>
vars      == <<server, open, handler, dispatch, extension>>

Sent     == {"registered", "writing", "waiting", "leaving"}
Returned == {"answered", "failed"}
Serving  == {"replacing", "failing", "reading", "resolving", "ponging"}

TypeOK ==
    /\ conn \in Links \cup {NoLink}
    /\ pending \subseteq Calls
    /\ writer \in Calls \cup {NoCall}
    /\ open \subseteq Links
    /\ serve \in [Links -> {"none", "accepted", "ended", "dropping", "done"} \cup Serving]
    /\ old \in [Links -> Links \cup {NoLink}]
    /\ owed \in [Links -> SUBSET Calls]
    /\ hand \in [Links -> Calls \cup {NoCall}]
    /\ place \in [Calls -> {"idle"} \cup Sent \cup Returned]
    /\ via \in [Calls -> Links \cup {NoLink}]
    /\ \A c \in Calls : place[c] \in Sent => via[c] \in Links
    /\ box \in [Calls -> {"empty", "answer", "lost"}]
    /\ running \subseteq Calls /\ ran \subseteq Calls
    /\ wire \subseteq Links \X Calls

Init ==
    /\ conn = NoLink /\ pending = {} /\ writer = NoCall
    /\ open = {}
    /\ serve = [k \in Links |-> "none"]
    /\ old = [k \in Links |-> NoLink]
    /\ owed = [k \in Links |-> {}]
    /\ hand = [k \in Links |-> NoCall]
    /\ place = [c \in Calls |-> "idle"]
    /\ via = [c \in Calls |-> NoLink]
    /\ box = [c \in Calls |-> "empty"]
    /\ running = {} /\ wire = {} /\ ran = {}

-----------------------------------------------------------------------------
(***************************************************************************)
(* Serve: one goroutine per socket.                                        *)
(***************************************************************************)
ServeAt(k, from, to) == serve[k] = from /\ serve' = [serve EXCEPT ![k] = to]

\* The handshake is accepted and the handler calls Serve.
Accept(k) ==
    /\ ServeAt(k, "none", "accepted")
    /\ open' = open \cup {k}
    /\ UNCHANGED <<server, old, owed, hand, dispatch, extension>>

(* Mutant: the new link inherits the old one's operations.                 *)
SwapConnKeeps(k) ==
    /\ ServeAt(k, "accepted", "replacing")
    /\ old' = [old EXCEPT ![k] = conn]
    /\ owed' = [owed EXCEPT ![k] = pending]
    /\ conn' = k
    /\ UNCHANGED <<pending, writer, open, hand, dispatch, extension>>

\* swapConn: the new link takes over from the old one, and its operations.
SwapConn(k) ==
    /\ ServeAt(k, "accepted", "replacing")
    /\ old' = [old EXCEPT ![k] = conn]
    /\ owed' = [owed EXCEPT ![k] = pending]
    /\ conn' = k
    /\ pending' = {}
    /\ UNCHANGED <<writer, open, hand, dispatch, extension>>

\* Close the link it replaced.
CloseOld(k) ==
    /\ ServeAt(k, "replacing", "failing")
    /\ open' = open \ {old[k]}
    /\ UNCHANGED <<server, old, owed, hand, dispatch, extension>>

(* Mutant: the channel is closed and no error sent: a zero frame.          *)
FailPendingClosed(k) ==
    \E c \in owed[k] :
        /\ serve[k] \in {"failing", "dropping"}
        /\ box' = [box EXCEPT ![c] = "answer"]
        /\ owed' = [owed EXCEPT ![k] = @ \ {c}]
        /\ UNCHANGED <<server, open, serve, old, hand, place, via, extension>>

\* failPending: one channel after another, with no lock held.
FailPending(k) ==
    \E c \in owed[k] :
        /\ serve[k] \in {"failing", "dropping"}
        /\ box' = [box EXCEPT ![c] = "lost"]
        /\ owed' = [owed EXCEPT ![k] = @ \ {c}]
        /\ UNCHANGED <<server, open, serve, old, hand, place, via, extension>>

\* All failed: a new link starts to read, a dropped one is through and closed.
AllFailed(k) ==
    /\ owed[k] = {}
    /\ \/ ServeAt(k, "failing", "reading") /\ UNCHANGED open
       \/ ServeAt(k, "dropping", "done") /\ open' = open \ {k}
    /\ UNCHANGED <<server, old, owed, hand, dispatch, extension>>

\* A result frame: resolve takes its channel out of pending, if it is there.
ReadResult(k) ==
    \E c \in Calls :
        /\ serve[k] = "reading"
        /\ <<k, c>> \in wire
        /\ wire' = wire \ {<<k, c>>}
        /\ IF c \in pending
           THEN /\ pending' = pending \ {c}
                /\ hand' = [hand EXCEPT ![k] = c]
                /\ ServeAt(k, "reading", "resolving")
           ELSE UNCHANGED <<pending, hand, serve>>
        /\ UNCHANGED <<conn, writer, open, old, owed, dispatch, running, ran>>

\* ... and sends outside the lock.
Resolve(k) ==
    /\ ServeAt(k, "resolving", "reading")
    /\ box' = [box EXCEPT ![hand[k]] = "answer"]
    /\ hand' = [hand EXCEPT ![k] = NoCall]
    /\ UNCHANGED <<server, open, old, owed, place, via, extension>>

\* A ping is answered when no call holds the lock of the writers.
ReadPing(k) ==
    /\ k \in open
    /\ ServeAt(k, "reading", "ponging")
    /\ UNCHANGED <<server, open, old, owed, hand, dispatch, extension>>

Pong(k) ==
    /\ writer = NoCall
    /\ ServeAt(k, "ponging", "reading")
    /\ UNCHANGED <<server, open, old, owed, hand, dispatch, extension>>

\* Read fails on a socket that is down; frames not read yet are lost.
ReadFails(k) ==
    /\ k \notin open
    /\ ServeAt(k, "reading", "ended")
    /\ wire' = {w \in wire : w[1] # k}
    /\ UNCHANGED <<server, open, old, owed, hand, dispatch, running, ran>>

(* Mutant: a replaced link clears its successor.                           *)
DropConnAny(k) ==
    /\ ServeAt(k, "ended", "dropping")
    /\ conn' = NoLink
    /\ owed' = [owed EXCEPT ![k] = pending]
    /\ pending' = {}
    /\ UNCHANGED <<writer, open, old, hand, dispatch, extension>>

(* Mutant: the last link's operations are left to their timers.            *)
DropConnForgets(k) ==
    /\ ServeAt(k, "ended", "dropping")
    /\ IF conn = k THEN conn' = NoLink ELSE UNCHANGED conn
    /\ UNCHANGED <<pending, writer, open, old, owed, hand, dispatch, extension>>

\* dropConn: the current link is cleared; a replaced one has handed off.
DropConn(k) ==
    /\ ServeAt(k, "ended", "dropping")
    /\ IF conn = k
       THEN /\ conn' = NoLink
            /\ owed' = [owed EXCEPT ![k] = pending]
            /\ pending' = {}
       ELSE UNCHANGED <<conn, owed, pending>>
    /\ UNCHANGED <<writer, open, old, hand, dispatch, extension>>

-----------------------------------------------------------------------------
(***************************************************************************)
(* Dispatch: one goroutine per call.                                       *)
(***************************************************************************)
Goto(c, from, to) == place[c] = from /\ place' = [place EXCEPT ![c] = to]

(* Mutant: the operation is registered without a connection.               *)
RegisterUnpaired(c) ==
    /\ Goto(c, "idle", "registered")
    /\ pending' = pending \cup {c}
    /\ via' = [via EXCEPT ![c] = conn]
    /\ UNCHANGED <<conn, writer, open, handler, box, extension>>

Register(c) ==
    /\ IF conn = NoLink
       THEN Goto(c, "idle", "failed") /\ UNCHANGED <<pending, via>>
       ELSE /\ Goto(c, "idle", "registered")
            /\ pending' = pending \cup {c}
            /\ via' = [via EXCEPT ![c] = conn]
    /\ UNCHANGED <<conn, writer, open, handler, box, extension>>

LockWriter(c) ==
    /\ writer = NoCall
    /\ writer' = c
    /\ Goto(c, "registered", "writing")
    /\ UNCHANGED <<conn, pending, open, handler, via, box, extension>>

\* The frame goes out; a socket that is down may still swallow it.
Write(c) ==
    /\ Goto(c, "writing", "waiting")
    /\ writer' = NoCall
    /\ running' = IF via[c] \in open THEN running \cup {c} ELSE running
    /\ UNCHANGED <<conn, pending, open, handler, via, box, wire, ran>>

\* The arguments cannot be framed: nothing is written.
MarshalFails(c) ==
    /\ Goto(c, "registered", "leaving")
    /\ UNCHANGED <<server, open, handler, via, box, extension>>

\* The socket is down, or the caller's context ends: within the frame it takes
\* the socket down, before it the socket stays up.
WriteFails(c) ==
    /\ Goto(c, "writing", "leaving")
    /\ writer' = NoCall
    /\ open' \in {open, open \ {via[c]}}
    /\ UNCHANGED <<conn, pending, handler, via, box, extension>>

\* The extension's answer is a result or an error of the operation.
Receive(c) ==
    /\ \/ box[c] = "answer" /\ Goto(c, "waiting", "answered")
       \/ box[c] # "empty" /\ Goto(c, "waiting", "failed")
    /\ via' = [via EXCEPT ![c] = NoLink]
    /\ UNCHANGED <<server, open, handler, box, extension>>

\* The timer of the operation or the caller's context wins the select.
GiveUp(c) ==
    /\ Goto(c, "waiting", "leaving")
    /\ UNCHANGED <<server, open, handler, via, box, extension>>

(* Mutant: a call that gave up keeps its place in pending.                 *)
LeaveKeeps(c) ==
    /\ Goto(c, "leaving", "failed")
    /\ via' = [via EXCEPT ![c] = NoLink]
    /\ UNCHANGED <<server, open, handler, box, extension>>

\* Whoever leaves without a result takes its channel out of pending.
Leave(c) ==
    /\ Goto(c, "leaving", "failed")
    /\ pending' = pending \ {c}
    /\ via' = [via EXCEPT ![c] = NoLink]
    /\ UNCHANGED <<conn, writer, open, handler, box, extension>>

-----------------------------------------------------------------------------
(***************************************************************************)
(* The extension.                                                          *)
(***************************************************************************)
\* A socket goes down: a disconnect, a lost network, a worker put to sleep.
Hangup(k) ==
    /\ k \in open
    /\ open' = open \ {k}
    /\ UNCHANGED <<server, handler, dispatch, extension>>

\* runOp answers once, on the socket the extension has by then.
SendResult(c) ==
    /\ c \in running
    /\ running' = running \ {c}
    /\ ran' = ran \cup {c}
    /\ \E k \in open : wire' = wire \cup {<<k, c>>}
    /\ UNCHANGED <<server, open, handler, dispatch>>

\* The socket is not open, or the worker died on the operation.
SendNothing(c) ==
    /\ c \in running
    /\ running' = running \ {c}
    /\ UNCHANGED <<server, open, handler, dispatch, wire, ran>>

-----------------------------------------------------------------------------
Serve(k) ==
    \/ SwapConn(k) \/ CloseOld(k) \/ FailPending(k) \/ AllFailed(k)
    \/ ReadResult(k) \/ Resolve(k) \/ ReadFails(k) \/ DropConn(k)

Dispatch(c) == Write(c) \/ WriteFails(c) \/ Receive(c) \/ Leave(c)

Next ==
    \/ \E k \in Links : Accept(k) \/ Serve(k) \/ ReadPing(k) \/ Pong(k) \/ Hangup(k)
    \/ \E c \in Calls :
          \/ Register(c) \/ MarshalFails(c) \/ LockWriter(c) \/ Dispatch(c) \/ GiveUp(c)
          \/ SendResult(c) \/ SendNothing(c)

(***************************************************************************)
(* Goroutines run, a write ends one way or the other, and writeMu lets     *)
(* everybody in (a Go mutex does not starve its waiters).  No timer fires, *)
(* no context ends, and the extension need not do anything.                *)
(***************************************************************************)
Fairness ==
    /\ \A k \in Links : WF_vars(Serve(k)) /\ SF_vars(Pong(k))
    /\ \A c \in Calls : WF_vars(Dispatch(c)) /\ SF_vars(LockWriter(c))

Spec == Init /\ [][Next]_vars /\ Fairness

-----------------------------------------------------------------------------
Debtors(c) == {k \in Links : c \in owed[k] \/ hand[k] = c}

(***************************************************************************)
(* A channel has one sender, ever: pending, one goroutine that took it     *)
(* over, or one that resolves it.  A second send would find it closed and  *)
(* bring the process down.                                                 *)
(***************************************************************************)
OneSender ==
    \A c \in Calls :
        /\ \A j, k \in Debtors(c) : j = k
        /\ (c \in pending \/ box[c] # "empty") => Debtors(c) = {}
        /\ ~(c \in pending /\ box[c] # "empty")

(***************************************************************************)
(* A call that waits is owed a result: by the current link, which is the   *)
(* one it was sent on, or by a goroutine about to send (the in-flight ops  *)
(* of an old link "can never be answered by the new one", bridge.go:250).  *)
(***************************************************************************)
SomebodyOwes ==
    \A c \in Calls :
        /\ place[c] \in {"registered", "writing", "waiting"}
        /\ box[c] = "empty"
        => Debtors(c) # {} \/ (c \in pending /\ conn = via[c])

(***************************************************************************)
(* pending holds no call that has returned, whichever of the timer, the    *)
(* context, the reply, a failed write and a new pairing came first.        *)
(***************************************************************************)
NothingLeaks == \A c \in pending : place[c] \in Sent

(***************************************************************************)
(* A link stays the connection until it drops or is replaced: the end of   *)
(* an old link's goroutine does not take its successor down (dropConn).    *)
(***************************************************************************)
LinkKept ==
    \A k \in Links :
        serve[k] \in Serving /\ (\A j \in Links : old[j] # k) => conn = k

(***************************************************************************)
(* "The waiters learn ErrNotConnected now instead of at their timers'      *)
(* ends" (bridge.go:312): a call that waits on a socket that is down       *)
(* returns though its timer never fires.                                   *)
(***************************************************************************)
OrphansReturn ==
    \A c \in Calls :
        (place[c] = "waiting" /\ via[c] \notin open) ~> place[c] \in Returned

(***************************************************************************)
(* Dispatch keeps the promise of RemoteCall: it ends once, and well only   *)
(* if the extension ran this call's operation.                             *)
(***************************************************************************)
Outcome ==
    [c \in Calls |->
        CASE place[c] = "idle" -> "none"
          [] place[c] \in Sent -> "open"
          [] OTHER -> place[c]]

Promise == INSTANCE RemoteCall WITH outcome <- Outcome, performed <- ran

CallsKeepPromise == Promise!CallSpec
=============================================================================
