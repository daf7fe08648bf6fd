# ogcode in TLA+

ogcode is a self-hosted coding agent: a Go server that runs agent loops
against model providers, executes their tool calls, and serves a web page over
HTTP and server-sent events. This directory models the parts of it where
goroutines, HTTP handlers, pages and restarts meet: how a running turn receives
input and reports, how agents are put on the board, stopped and counted, how a
tool call obtains the user's consent, how agents are kept from writing over each
other's changes, and how browser tools reach an extension whose socket comes and
goes. TLC checks the models on small instances; TLAPS proves the safety
properties of every component for every value of the constants.

Paths are relative to the repository. `PROJECT.json` maps every definition that
models code to the lines it models, and lists the components, the hazards, the
runs, the deliberately broken variants (mutants) that each property rejects,
and the theorems.

## 1. Inventory

| component (code) | state | operations | modelled by |
|---|---|---|---|
| turn side channel (`internal/agent/loop_control.go`) | guidance and notice queues, what a turn has drained and shown, the cancel of the stream and of the tools | push, drain, take, restore, set/clear/fire a cancel | `LoopControl` |
| agent loop (`internal/agent/loop.go`) | the step being built, the tracker of reports owed a stamp | drain, take notices, dispatch, stamp, stream, execute tools, end | `TurnDelivery`, `Approvals` |
| reminders (`internal/server/reminder.go`, `internal/timer/store.go`) | rows pending, due, delivered, cancelled | schedule, claim, deliver, catch up, prune, cancel | `TurnDelivery` (delivery) |
| agent board, rows (`internal/board`) | one row per agent: status, session, who spawned it | register (upsert), register fresh, set status, set status unless terminal, reconcile | `TeammateLife`, `AgentBoard` |
| agent board, server (`internal/server/board.go`) | none of its own: it works on the rows and the registry | join, leave, spawn, stop, cascade, report, catch up, reconcile | `AgentBoard`, `TurnDelivery` |
| loop registry (`resume_routes.go`, `host_session.go`) | `running`, `runningToken`, `loopControls` under `Server.mu` | start a loop, exit, cancel | `AgentBoard`, `TurnDelivery` |
| session routes (`session_routes.go`) | none | prompt, abort, guidance | `AgentBoard`, `TurnDelivery` |
| permission gate, user questions (`internal/permission`, `internal/question`, their routes) | pending requests with a reply channel each, the "always" grants | create, remove, reply, list, add a rule | `Approvals` |
| event bus (`internal/bus`) | a bounded channel per subscriber | publish (dropping on a full channel), subscribe, unsubscribe | `Approvals` |
| page (`web/src/context/session.tsx`) | a queue of prompts per session | live events, lists fetched on opening a session, optimistic dismissal and post | `Approvals` |
| browser bridge (`internal/browser`) | the extension's connection, the channel of each pending operation, a lock all writers share | serve a socket, swap and drop the connection, dispatch, resolve, fail what is pending | `BrowserBridge`, `RemoteCall` |
| browser extension (`browser-extension`) | one socket, operations it was handed | connect, run, answer, hang up | `BrowserBridge` (its end of the link) |
| file change gate (`internal/filechange`, and `read`, `write`, `edit`, `bash`, `pathlock` of `internal/tool`) | per file: a lock, a revision, its latest changes, a fingerprint, the revision each session last read; two tables | read, check, replace, record, observe a shell command, restore | `FileGuards` |
| file undo, atomic writes (`internal/filechange`, `internal/tool/atomic_write.go`) | snapshots; a temporary file | undo, rename | not modelled |
| control plane and worker (`controlplane/`, `internal/worker`) | workers, tokens, placements, command streams | register, heartbeat, place, command, tunnel | not modelled |
| MCP manager, web cache | server processes; entries in memory and in a table | start, reload, stop; get | not modelled |
| the rest (providers, sessions, indexing, document formats, accounts, UI, packaging) | tables, files, clients | CRUD, parsing, I/O | not modelled: no protocol of its own |

How they meet. A user prompts a session over HTTP; `startSessionLoop` joins the
board, replaces whatever loop is registered and runs `RunLoop`. The loop's tool
calls spawn teammates, each a session with a loop and a row of its own; when a
teammate ends, its goroutine writes the row and hands a report to the control
of its spawner's running turn, or leaves it to the spawner's next turn. Tool
calls that need consent block on a channel until a page answers; the page
learns of prompts from the bus, and by listing them. Calls that read or change
files meet in the change gate of the project, whatever session they belong to;
calls of the browser tools meet on one socket. Stop, abort, guidance and process
death may come at any point of all this.

What is hard, and so what the properties are about:

- *delivery across turns*: a durable row must be stamped when, and only when,
  a request carrying its text went out, while turns supersede each other,
  are cut, restarted or crash;
- *rows against loops*: four writers (exit, stop, cascade, restart) race to end
  a row, and a stop must find the loop of the row it claimed;
- *consent*: several pages, two queues per prompt, a cancelled context and a
  lossy stream around a one-slot channel;
- *files*: a revision and the bytes it stands for are read in two steps, by
  several sessions, while a shell writes without asking and a restart reads
  back two tables that were written at different times;
- *a link that is replaced*: the goroutines of the old and the new socket, the
  timers and the callers all want to end the same calls, each of which must be
  ended once.

`PROJECT.json` lists these hazards one by one with the line where each bites.

## 2. Modules and how they correspond to the code

**`LoopControl`** holds the operations of one `LoopControl` as functions on a
record (`Control`): the guidance and notice queues, the sets a turn remembers
(`delivered`, `deliveredNotices`, what was shown in full) and whether a stream
cancel is registered. Guidance is a set, since all of it is drained at once; the
notice queue is a sequence, and a drain takes a prefix of it up to the cap
(`BatchSizes`: fewer when the byte budget ends first, at least one). A notice is
its text, which is all that the control compares: `PushNotice` drops a text that
is queued or was delivered, whichever row it came from.

**`TurnDelivery`** is one session: its turns (goroutines of `startSessionLoop`,
a superseded one may still be unwinding), the reporters of its teammates and
reminders, the guidance and abort handlers, and the process. `pc[t]` is where a
turn's loop is: the prologue (`start`, `trim`, `catchup`), then the points of a
step between which another goroutine can act (`top`, `drained`, `built`,
`taken`, `armed`, `dispatch`, `marking`, `streaming`, `closing`). `ready` and
`reported` are the durable rows and survive `Crash`; everything else does not.
Rows and notices are different things: whoever hands a row over words it
(`Texts[r]`: the reporter and a catch-up quote a stopped teammate's last message
at different times, and two reminders may read alike), and the tracker remembers
which row a text stood for. The stamp is of rows, the queues and what has been
told are of texts.
History variables: `caught` (this turn has read the board), `told` and `read`
(notices a completed request carried in full, in this turn or in any), `cutOff`
(notices that rode in full in a request of the turn that was cut), `heard` (the
guidance the turn's latest request carried) and `dropped` (that request was cut).

**`TeammateLife`** is the abstract board: a row appears running, ends once, and
is not moved again. **`AgentBoard`** is the detailed one: rows, the loop
registry, loops with their contexts, spawns as the sequence of steps of
`spawnTeammate`, stops and cascades as the sets of steps they still have to run
(`tasks`). A rolled name is claimed with a row, then its session is created and
attached (`ClaimName`, `CreateSession`, `Attach`, an upsert); a name the caller
chose is only looked up first, so several spawns may find it free (`bids`, up to
`MaxBids` per loop and name), and whoever comes first inserts the row
(`LookUpName`, `AttachFresh`, `BidFails`). Database
calls are atomic and succeed, except that a spawn may fail between any two
steps. It is shown to implement `TeammateLife` for the rows whose name the
caller chose (`RowsLiveOnce`); for a rolled name the promise does not hold, see
`board_revived_row`. History variables: `late` (a loop was registered on a row
that had ended), `orphaned` (an abort unregistered the loop of the row, or its
spawn failed half-way: in both cases nothing will write how it ended), `torn`.

**`Consent`** is the abstract consent protocol: a request is `unasked`, `open`,
`decided` or `closed`; a call that no grant covers opens one and does nothing
else until it is closed; the look at the grants (`Check`) and the question
(`Open`) are two steps, so a grant may come in between and the call asks all the
same; a decision is made once, and used at most once, by the
call that asked and for the target it named; only an "always" becomes a grant.
**`Approvals`** is the consent path, and implements it (`ConsentKept`): a request
is open while it is in `pending`, decided while its call has still to look at
its channel, closed after (`Stage`); `Grants` joins the persisted grants and
those a session kept; `Checked` is what a call is about to ask, `Doing` what the
calls run. Pages, streams, queues and
posts are invisible to it. A call (`call[c]`) goes `idle` →
`ask` → `announce` → `mirror` → `wait` (`requestPermission`, `AskUser`: evaluate
the grants, create, publish, mirror, select), and leaves by taking the reply or, when its context was cut,
by `Abandon`, `Retract` and `Unmirror` (remove, publish, mirror). The two
managers have the same shape and are one set `pending`, an `ask_user` batch
being a request with the target `Question`. A reply takes the entry out under
the manager's lock (`Reply`) and sends after unlocking it (`Send`); in between the
request is in `sending`. `notify[q]` is the rest of the reply handler: the queues
it still has to tell. A page has its event buffer, one queue per session, the
session it views and the lists of its selections in flight (`Fetches`): leaving a
session and coming back fetches it again, and the older list may be merged last
(`session.tsx:905` compares sessions only).
History: `said` (the answer the server accepted) and `lost`: the triples (page,
queue, request) whose view was torn by a known gap — an event dropped at a full
buffer or with the stream, a post that failed, an answer accepted before the
announcement was published, and a list older than an event, or than another
list merged since, when it is merged itself — and not mended since. The next
list of that queue mends them (`Mended`), save for requests not yet announced there, those with an event still in the page's
stream, and what was torn after the list was taken (`since`).
Left out: the rules a session starts with, Yolo and the Auto mode (they settle
a call without shared state), calls whose pattern is `"*"` because nothing better
could be read from them (`permissionPattern`, `loop.go:4105`; `Granted` knows that
a `"*"` covers the whole tool, but no call of the runs asks for one), conditional
screens of a question batch, and a teammate that leaves the board while it asks.

**`FileGuards`** is one file under the change gate (files share nothing but
the process). A call is a `read`, `write` or `edit` of a session: `StartRead`,
`ReadFile` take the revision and then the bytes (`read.go`); `Acquire`, `Check`,
`Replace`, `Record`, `Sink` are the path of a mutation under the file's lock,
from `Stale` to the row in `file_change`; `Stat`, `Mark`, `Persist`, `Save` are
`Log.Read`, which ends both. A shell command runs, writes when it likes, and is
observed afterwards (`bash_observe.go`) by comparing fingerprints. The ring, the
query of the store with its limit, and the arithmetic of `Stale` are kept; the
bytes are a version number that every write moves on, and a fingerprint is that
version (two states of a file with equal size and time, which the code documents
as missed, are left out). An edit is a write. `Restart` drops the log and the
locks and reads the tables back, either of which may come back empty; a write to
a table may fail. History variables: `made` (every change ever recorded),
`known` (the newest version a session has read or written), `broken` (a restart
came back with a lower revision than a bookmark may carry: its change was never
stored).

**`RemoteCall`** is what a tool is promised by `Dispatch`: a call ends once, and
with an answer only if the extension has run that operation.
**`BrowserBridge`** is the code on both ends of the link: `serve[k]` is where the
goroutine of socket `k` is (`SwapConn`, `CloseOld`, `FailPending` when it takes
over; `ReadResult`, `Resolve`, `ReadPing`, `Pong` while it reads; `ReadFails`,
`DropConn` when it ends), `place[c]` where a call of `Dispatch` is (`Register`,
`LockWriter`, `Write`, the `select` of `Receive` and `GiveUp`, `Leave`; a frame
that cannot be marshalled or written is `MarshalFails` and `WriteFails`, which
takes the socket down only if the frame had begun), and the extension runs what it is handed and answers on the socket it has by then
(`SendResult`), or not at all; its answer may be an error, which `Dispatch`
returns as one. Steps that take `Bridge.mu` are one action; the
sends on channels outside it are actions of their own. `pending`, `owed[k]` and
`hand[k]` are the three places a call's channel can be: in the map, with a
goroutine that will fail it, with one that will answer it.

The `MC*` modules give these modules small sets; the `*_proofs` modules hold the
theorems.

## 3. Runs

All runs but `browser_link` check for deadlock; there every socket and every call
can be used up, and nothing is left to do.

| run | instance | shows |
|---|---|---|
| `turn_takeover` | two coexisting turns, one report, one guidance request that cancels, batches of 1; turns symmetric | `NoReportSlips`, `CutHitsItsStep` and the types, while turns supersede one another, abort and crash; and what a cancel can cost: a row is stamped only after its text was put in a request (`StampMeansSent`), only reports that rode in a cut request can go untold (`OnlyCutsLoseReports`), only the guidance of a turn's very last request can go unheard (`OnlyLastCutLosesGuidance`) |
| `turn_batches` | one turn at a time, two reports that share a wording, one of them with a second one, one guidance text, batches of 1; fair | stamps mean read; a headline only after the text; every drained notice told; a text once per turn; drained guidance heard; `EventuallyReported` |
| `turn_cut_stamps_unread` | one turn, one report, guidance that cancels | **violated** `StampMeansRead` (finding 1) |
| `turn_end_loses_guidance` | one turn, one guidance text | **violated** `NoGuidanceLeft` (finding 2) |
| `board_tree` | a teammate with a chosen name that two spawns want at a time, a background task, one loop each; fair | a row lives once and its name is not taken over, a stop cancels the loop it names and that loop ends, a running row has something running |
| `board_loops` | the root and one teammate with a rolled name, both prompted again, two loops each | no two live loops of an agent; a running row has something running; a row that ended with its session attached is not moved again (`AttachedIsFinal`) |
| `board_revived_row` | one rolled name | **violated** `TerminalIsFinal` (finding 3) |
| `board_cascade_stops_short` | a chain of two teammates | **violated** `CascadeReachesAll` (finding 4) |
| `approvals_ask` | the root and one teammate, one call each, two commands of one tool (symmetric), one page with two selections (symmetric), two requests, one post in flight, buffers of two events, in the corners of `Corners` | a blocked call can be answered, the managers leak nothing, nothing runs without consent, live prompts are in their queues and dead ones leave them, or the next list puts it right; `Consent` is implemented |
| `file_gate` | two sessions with a call each, one shell command; two writes, two revisions, one failure or restart, a ring of one, a history of two | no bookmark runs ahead of its session, nobody writes over a recorded change it has not had, others' changes refuse and one's own do not |
| `file_shell_unseen` | the same without failures | **violated** `SteppedOnIsRefused` (finding 5) |
| `browser_link` | two sockets, two calls; fair | one sender per channel, every waiter is owed a result, nothing leaks, the old link does not end the new one, orphaned calls return; `RemoteCall` is implemented |

Why the bounds are enough to be interesting:

- Two turns are what a takeover needs: one registered, one unwinding. A third
  adds a second unwinding turn, which interacts with the first only through the
  row table. One report per run of two turns, and two reports in a run of one
  turn with a cap of one per drain, cover the batch that leaves a report behind
  and the report that lands in the gap before the stream.
- On the board, a kid with a row of each kind, an abort from the top and
  restarts make all four writers meet on one row; a chain of two kids is the
  shortest with a grandchild. Two bids for a name are one that wins and one that
  loses; a third loses like the second.
- In `Approvals` one page already has two queues for a teammate's prompt, so two
  answers to one prompt, a stale list and a mirror that outlives its original
  all occur; a buffer of two overflows after two undelivered events; two
  selections are what it takes for an older list to be merged after a newer one.
  All of this with two requests is beyond what TLC does in minutes, so the
  constraint `Corners` (`MCApprovals`) takes the concerns apart: a permission
  request at the watched session with one selection, everything else free; an
  `ask_user` batch watched from both sessions, with two lists that cross but no
  posts under way; and two requests, or a grant and its use, while the page
  misses nothing. In the last of these an "always" lands between another call's
  look at the grants and its question. The theorems below have no such limits,
  and hold for any number of pages, calls and selections. The mutants confirm the
  cases occur: an unbuffered reply channel, a missing `Remove`, a grant for the
  whole tool, lists without the teammates, a retraction without its mirror and an
  unbounded buffer are each rejected by the property that covers them.

- In `FileGuards` two writes make a change that one session has had and the
  other has not, and a ring of one forgets the first of two changes, so both the
  ring and the store's answer decide some refusal. The constraint `Explored`
  stops at two revisions (`MaxRev`) and at a restart that lost the newest one,
  where the properties say nothing; `MaxVersion` bounds the writes, `MaxFaults`
  the failed writes to the store and the restarts together.
- In `BrowserBridge` the second socket replaces the first while calls are in any
  place, and two calls share the writers' lock, the map and the socket. A third
  socket only repeats the second; the theorems cover any number.

Fairness (`FairSpec`). Goroutines that can run do run: a turn's prologue, steps
and exit, reporters, spawns (bids for a name included), stops, cascades, and loops
whose context is cancelled return. Nothing obliges a user to prompt, answer or abort, a teammate
to finish, or a process to crash. `EventuallyReported` assumes in its own
statement that from some point on nothing fails or supersedes a turn, and that
build turns keep being started: the code promises no more, since a report never
starts a turn. `StoppedLoopEnds` rests on cancelled loops returning
(`WF` of `cancelled /\ Exit`). `Approvals` states no liveness: whether a prompt
is ever answered is up to a human. `FileGuards` states none: it is about what may
not happen. In `BrowserBridge` the goroutines of the sockets and of the calls run
(weak fairness of `Serve(k)` and of the steps of a call other than giving up), a
write on a socket ends one way or the other, and the writers' lock lets everybody
in eventually (strong fairness of `LockWriter` and `Pong`: a Go mutex does not
starve its waiters). No timer is assumed to fire, no context to end and no
extension to answer: `OrphansReturn` says that calls on a lost socket return all
the same.

## 4. Findings

1. `turn_cut_stamps_unread`. When guidance cancels a request in flight, the
   step ends without `RestoreNotices`. The report that request carried counts
   as shown, the next request carries its headline only, and dispatching the
   headline stamps the row although no completed request held the text.
   `loop.go:120` says a notice is stamped "exactly when the model is reading its
   text". (`StampMeansRead` holds in `turn_batches`, where guidance does not
   cancel.)
2. `turn_end_loses_guidance`. After its last look at the queues the loop writes
   turn memory and only then is unregistered; guidance accepted meanwhile is
   read by nobody, the loss `loop.go:2468` wants to exclude.
3. `board_revived_row`. A rolled name has a running row before its session
   exists; a stop in between is overwritten by the upsert that attaches the
   session, although terminal rows are final (`internal/board/board.go:47`).
4. `board_cascade_stops_short`. The cascade skips a child that has ended and,
   with it, everything the child spawned; `host_session.go:100` says it runs
   down every level.

5. `file_shell_unseen`. `Log.Read` stamps the file's current fingerprint for
   whoever calls it, outside the file's lock and after the bytes it goes with
   were read. A read that ends between a shell command's write and its
   observation stamps the new fingerprint; the observer then finds nothing
   changed, and sessions that read the file before are not refused, although
   `docs-site/src/content/docs/agents-and-teammates.md:60` says they are "until
   it re-reads".

Seen while modelling, in the models, and not run on their own:

- The cancel of a guidance request may land on the request that carries that
  very text. `OnlyLastCutLosesGuidance` bounds the harm: every later request of
  the turn carries all its guidance again, so the text is lost only if the
  request cut was the turn's last; a report, which is shown in full once, is
  lost if the request it rode in was cut (`OnlyCutsLoseReports`, finding 1).
- The same row can be told in full twice in one turn, in two wordings: the reporter
  of a stopped teammate that is still unwinding (`board.go:954`, `263`) and a
  catch-up (`board.go:382`) each quote its last message, and the control compares
  texts, where `loop_control.go:176` speaks of the same report. `TextOncePerTurn`
  is about texts for that reason. Two reminders worded alike, on the other hand,
  share one notice, and the row stamped with it is whichever the tracker holds.
- A superseded turn trims the report tracker for a control it looked up
  earlier, dropping entries of the live turn: those rows are told again later.
- `leaveBoard` of an old turn may write `idle` after the next turn's
  `boardTurnStart` saw `running` and wrote nothing.
- A stop or an abort that falls between the attachment of a session and the
  registration of its loop finds nothing to cancel: the stopped teammate runs on.
  The properties set such a loop apart (`late`); they do not catch it.
- An abort unregisters the loop, so its exit writes no row; a spawn that fails
  half-way leaves its row running. `RunningHasLoop` sets both apart (`orphaned`)
  and does not catch them.
- A spawn that loses the race for a chosen name leaves a child session that no row
  names.
- A call that looked at the grants before an "always" that covers it was given
  asks all the same: `loop.go:3639` evaluates, `3672` creates, and between them
  lie a read of the session, the Auto mode's check and a walk to the parent.
- An older list of a session that was left and reopened may be merged after a newer
  one: it hides a live prompt, or shows a dead one, until the next list.
- `session.tsx:906`: the list of pending prompts is merged so that a prompt
  whose event arrives during the fetch survives, but the filter keeps only what
  the list holds, so that prompt is removed until the session is opened again;
  that the next list does restore it is part of `PromptFindsItsPage`.
- After a reconnect or a gap in the event sequence, the page refetches messages
  but not prompts: a prompt lost with the stream is shown, and a dead one goes,
  only with the next list of its queue, as `PromptFindsItsPage` and
  `NoGhostPrompts` say.
- A reply accepted before the request is announced to a queue leaves a dead
  prompt there. (`permission_routes.go:34` documents a related hole for pages
  on intermediate sessions.)
- An accepted "always" is not recorded when `select` picks the cancelled
  context.
- A dismissed prompt whose post fails is not shown again.
- A change whose row could not be written, followed by a restart, leaves
  bookmarks above the file's revision; the changes that follow are then not seen
  as new until the revision has caught up (`broken`).
- A process that dies between the replacement of a file and the record of it
  leaves a change no other session is told of.
- A session that never read a file may edit it, and that edit certifies all that
  came before it.
- A result of an operation that outlived its socket is sent on the next one and
  dropped there: the tool reports a failure for an operation that ran. This is
  why `RemoteCall` promises nothing about a call that failed.

## 5. Proofs

All proofs hold for arbitrary finite or infinite constant sets that satisfy the
`ASSUME` of their module (the shape of the tree and of the bounds).

**Delivery** (`TurnDelivery_proofs`, `TurnDeliveryText_proofs`). The first half
holds whatever clients send; all four theorems come from `IInv`:

- `Typed`: the types, with `Holders` (who is about to use a control holds a turn's,
  never the nil of a session that runs none, and a wording of its own row).
- `NothingSlips`: `NoReportSlips` needs `Registered` (the registered turn is
  running, so what is pushed into its control is kept) and `Catching` (a turn's
  catch-up pushes a row before it forgets it). A push grows the pipeline of a
  control and nothing of the turn's own step shrinks it (`OwnPipe`, from lemmas
  on each operation of `LoopControl`).
- `CancelHitsItsStep`: from `Uncut`; others can only cut a stream that is
  registered (`CutOnlyWhileOpen`).
- `TextSentOnce`: from `Telling`, which says where a text is at each point of a
  step: with the control before a request is built, with the step until it is
  sent, and nowhere after; a push adds only texts the turn has never drained. It
  holds of texts, for any assignment of wordings to rows.

The second half is about what is read of what was drained. `SentInv` holds
whatever clients send: `Shown` follows each drained report to the request that
carries it in full, `Heard` each guidance text to the turn's latest request, and
both let go of exactly what was cut. From it: `StampedWasSent` (an action
property), `OnlyCutsLose`, `OnlyTheLastCutLoses`. Under `TextOnly`, that no
client asks for a cancel, no stream is cut (`NoCuts`: `cutOff` is empty and
`dropped` false), and the same invariant gives the stronger `StampedWasRead`,
`TextBeforeHeadline`, `ToldAtEnd` and `GuidanceHeardAtEnd`. That assumption is
needed: finding 1 is what happens to the first of them without it.

**Board** (`AgentBoard_proofs`, `AgentBoardRows_proofs`).

- `TypeCorrect`: `Spec => []TypeOK`; `TypeOK` is inductive. Its one conjunct
  that is not a type says the root's row never becomes terminal, which is what
  `stopTeammate`'s check of the row's kind is for.
- `OneLiveLoop`: `LiveLoopIsRegistered` is inductive together with `TypeOK`,
  because cancelling what is registered and registering the new loop are one
  critical section.
- `RowsImplementLife`: `AgentBoard` implements `TeammateLife` for the chosen
  names. The mapping is the identity on `status`; the invariant `LifeInv` says
  that before such a row exists nothing acts under its name but bids, that a row
  always names its session, and that no spawn of it is ever at the upsert; the one
  step that makes such a row is an insert that finds the name free (`NameFree`).
- `EndedStaysEnded` (action property): a row of any name, rolled ones included,
  that ended after its session was attached never moves again. `AttachedInv`
  says that no spawn is then still to attach a session under that name; the upsert
  of such a spawn is the only write that spares no terminal row (finding 3 is that
  upsert, in the window the theorem leaves).
- `StopReachesLoop`: between a stop's claim and its cancel, the loop to end stays
  the registered one. Uses `LifeInv`.
- `RunningRowsRun`: `RunningHasLoop` is not inductive (nothing in it says that
  the registry's entry runs); `BusyInv` adds that, and says for each running
  row who holds it: a registered loop, a loop on its way into or out of the
  registry, or a spawn.

**Approvals** (`Approvals_proofs`, `ApprovalsPrompts_proofs`).

- `TypesHold`: `TypeOK` is strengthened to `TypeInv` with `Requests` (a call's
  request is its own and holds its target) and `Fits` (an answer in a post or in
  a channel fits the kind of its request): without them an answer to a question
  could be taken for an "always" and make `Question` a grant.
- `BlockedCanBeAnswered`, `NothingLeaks`, `NothingRunsUnapproved`: proved together
  from `ConsentInv`, which adds `AnsweredOnce` (an accepted answer is never
  replaced, its request is no longer pending, and a channel holds only what was
  accepted) and `GrantsWereGiven` (every grant goes back to an accepted
  "always" for that very target). The heart of it: the entry is removed under the
  lock, so of the replies that race exactly one has the send to do, and the
  channel of capacity one is empty when it comes, however long that takes and
  whatever the call has done meanwhile. A loop that is blocked therefore finds its
  request pending, in `sending`, or answered.
- `ApprovalsImplementConsent`: the refinement of `Consent`, for any number of
  calls, pages and requests. A request may be decided or withdrawn, whichever
  comes first (`PendingHasWaiter`); what its call finds in the channel is what
  was said (`AnsweredOnce`); `Evaluate` is `Check` and `Ask` is `Open`; a
  call that begins to run has no request open, and every other step of the
  manager, the stream and the pages is a stutter.
- `LivePromptsAreFound`, `DeadPromptsGo`: where the prompts are on the pages. Both
  come from `PromptInv`, which holds of every page. `Silent` and `InOrder` are
  about its stream: no clearing event of a live request is on its way, and the
  announcement of a dead one is followed by the event that clears it, or that
  event is still owed. `StaleDead` and `StaleNew` are about each list in flight: it
  differs from the manager only where an event was seen since or is on its way,
  so what `Merge` puts back or drops wrongly is exactly what it marks as torn,
  and the rest of what was torn it may take as mended (`MergeFine`).
  What a list on its way cannot have seen is remembered for it until it arrives
  (`since`, `Missed`). `Early` says why a clearing event never overtakes the announcement but
  for a request answered before it was announced, which `Reply` marks as torn;
  such a tear outlives any list taken before it (`Missed`). Each step is shown to
  do one of two things: a server step only appends to the streams and tears
  (`ServerMove`), a page step leaves the server alone (`ServerStill`) and, but for
  `Merge`, mends nothing (`PageMove`).

**File gate** (`FileGuards_proofs`). `TypesStay`; and from the inductive invariant
`Inv`, the four properties of the run (`BookmarksCertify`, `NoBlindWrites`,
`ForeignRefuses`, `OwnNeverBlocks`). `Inv` adds to the types:

- `Guarded`: whoever is between `Check` and `Record` holds the file's lock, so the
  revision cannot move between the check and the replacement;
- `Recorded`, `KnownOnDisk`: changes, and what sessions know, are versions the
  disk has had, and the ring and the table hold recorded changes only;
- `Ordered`: the recorded changes carry the revisions 1 to `rev`, each once, and
  the ring is a suffix of them. From it, `Stale` can count: a window of the
  history has as many changes as revisions (proved by a bijection with an
  interval), so a change that is not shown is noticed as a missing one;
- `Certified`: what each call is about to certify is covered by the bytes it
  holds, by place: a read took the revision first, a mutation holds the lock.

`Ordered` and `Certified` are claimed while no restart has lost the newest
revision (`~broken`).

**Browser bridge** (`BrowserBridge_proofs`). All safety properties of the run, from
the inductive invariant `IInv`: `Stages` (what a socket's goroutine holds at each
of its points), `Linked` (the current link's goroutine is serving, and a socket
not yet in use replaced nothing and is replaced by nothing), `Accounted` (a
call's channel is in exactly one of its places, and those in the map were sent
on the current link), `Honest` (an answer goes back to an operation that ran).
`DispatchKeepsPromise` is the refinement of `RemoteCall` with the mapping
`Outcome`: a step ends a call at most once, and only `Receive` of an answer ends
it well.

Only model-checked: liveness (`EventuallyReported`, `StoppedLoopEnds`,
`OrphansReturn`), which the prover does not handle, like `ENABLED` and fairness.
Every other property of a passing run is stated by a theorem.

## 6. Not modelled, and why

- *Within the modelled parts*: prompt assembly, compaction, token accounting and
  turn memory of the agent loop; the order of one turn's calls on a file
  (`runInFileOrder`: channels within one function; `FileGuards` takes a session's
  calls in any order); the blocking waits on teammates; undo, diffs, path
  canonicalisation and the temporary file of an atomic write; hello frames, the
  tab inventory and pairing of the extension; the rules a session starts with and
  the Auto mode's risk verdicts. Each note in `PROJECT.json` says what is left out
  of its component.
- *Reminders' timer store*: schedule, claim, cancel and prune are one conditional
  SQL statement each, ordered by SQLite; what follows a claim is a report of
  `TurnDelivery`.
- *Control plane, worker*: a second program with its own transport and store.
  Worker registration, placement against capacity (`placement.go:293`) and command
  delivery have hazards of their own, listed in `PROJECT.json` without a property.
- *MCP manager, web cache, memory files, keep-awake, sampler, model catalog*: one
  mutex around a map, a file or a process; no protocol between actors.
- *Parsing, ranking, document formats, provider clients, accounts, the user
  interface beyond its prompt queues, packaging*: data and I/O.
- *The C sources* under `internal/codemap/grammars/swift`: the tables and the
  scanner of a tree-sitter grammar, generated or vendored from another project.
  They are the repository's only C files; the program itself is Go, with a
  TypeScript page and a JavaScript extension, and all of the models are of that.
  A coverage figure that counts C lines alone is therefore zero, and no faithful
  model of this program would change it.
