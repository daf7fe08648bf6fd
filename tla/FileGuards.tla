----------------------------- MODULE FileGuards -----------------------------
(***************************************************************************)
(* The gate that keeps the agents of one project from writing over each    *)
(* other's changes, for one file: the in-memory log of its revisions and   *)
(* bookmarks (internal/filechange), the file tools that consult it under   *)
(* the file's lock (internal/tool), the observer that runs after a shell   *)
(* command, and the two tables a restart reads back.  Files share nothing, *)
(* so one of them is the whole system.                                     *)
(*                                                                         *)
(* The bytes of the file are a version that every write moves on.  A       *)
(* fingerprint (size and modification time) is that version: two states of *)
(* the file that share both, which the code documents as missed, are left  *)
(* out.  An edit applies its hunks to what it reads under the lock, so to  *)
(* the gate it is a write.                                                 *)
(*                                                                         *)
(* Calls of one session may overlap: the reads of a batch run together,    *)
(* and a superseded turn may have a last call under way beside the new     *)
(* turn's.                                                                 *)
(***************************************************************************)
EXTENDS Integers, FiniteSets

CONSTANTS
    Sessions,       \* the sessions that use the file
    NoSession,      \* the author of a change seen after a shell command
    Calls,          \* calls of read, write and edit on the file
    SessionOf,      \* the session each call belongs to
    Shells,         \* shell commands
    NoOwner,        \* the file's lock when it is free
    RingPerFile,    \* changes of a file the log keeps in memory
    HistoryLimit,   \* most rows the store returns to explain a refusal
    MaxVersion,     \* bound: how often the file is written
    MaxFaults       \* bound: failed writes to the store, and restarts

ASSUME FileAssumption ==
    /\ NoSession \notin Sessions
    /\ SessionOf \in [Calls -> Sessions]
    /\ Calls \cap Shells = {}
    /\ NoOwner \notin Calls \cup Shells
    /\ RingPerFile \in Nat \ {0}
    /\ HistoryLimit \in Nat \ {0}
    /\ MaxVersion \in Nat
    /\ MaxFaults \in Nat

VARIABLES
    disk,       \* the version of the bytes on disk
    rev,        \* the log: the file's revision,
    ring,       \*   its latest changes,
    fp,         \*   the fingerprint last seen, or NoBytes,
    bookmark,   \*   the revision each session last read, or -1,
    saved,      \*   the revision the store is known to hold for it, or -1
    changes,    \* the table file_change
    bookmarks,  \* the table file_bookmark: a revision, or -1 for no row
    lock,       \* who holds the file's lock
    call,       \* what each call and shell command is doing
    faults,     \* the failures and restarts so far
    made,       \* history: every change the log ever recorded
    known,      \* history: the newest bytes read or written for a session
    broken      \* history: a restart came back with a lower revision

log    == <<rev, ring, fp, bookmark, saved>>
tables == <<changes, bookmarks>>
ghosts == <<made, known, broken>>
vars   == <<disk, log, tables, lock, call, faults, ghosts>>

Actors  == Calls \cup Shells
NoBytes == -1
Revision == Nat \cup {-1}
Change  == [rev: Nat, by: Sessions \cup {NoSession}, v: Nat]

(***************************************************************************)
(* An actor's locals: where it is, the revision it works with (the one a   *)
(* read captured, a mutation checked against, or Record assigned), the     *)
(* bytes it read or wrote, and the fingerprint Log.Read took.              *)
(***************************************************************************)
Idle == [at |-> "idle", rev |-> 0, bytes |-> 0, stat |-> 0]

Places == {"idle", "reading", "check", "passed", "written", "sink", "stat",
           "mark", "persist", "save", "running", "finished"}

Local ==
    {l \in [at: Places, rev: Revision, bytes: Nat, stat: Nat] :
        l.at = "sink" => l.rev \in Nat}

TypeOK ==
    /\ disk \in Nat /\ rev \in Nat /\ fp \in Nat \cup {NoBytes}
    /\ ring \subseteq Change /\ changes \subseteq Change /\ made \subseteq Change
    /\ bookmark \in [Sessions -> Revision] /\ saved \in [Sessions -> Revision]
    /\ bookmarks \in [Sessions -> Revision]
    /\ lock \in Actors \cup {NoOwner}
    /\ call \in [Actors -> Local]
    /\ faults \in Nat
    /\ known \in [Sessions -> Nat]
    /\ broken \in BOOLEAN

Init ==
    /\ disk = 0 /\ rev = 0 /\ ring = {} /\ fp = NoBytes
    /\ bookmark = [s \in Sessions |-> -1]
    /\ saved = bookmark /\ bookmarks = bookmark
    /\ changes = {} /\ made = {}
    /\ lock = NoOwner
    /\ call = [a \in Actors |-> Idle]
    /\ faults = 0
    /\ known = [s \in Sessions |-> 0]
    /\ broken = FALSE

(***************************************************************************)
(* Log.Stale: what others changed since seen, and how many changes of the  *)
(* window cannot be shown.  The ring explains the window only when it      *)
(* reaches back to the first revision the caller has not seen; otherwise   *)
(* the store is asked, oldest rows first, and may fail to answer.          *)
(***************************************************************************)
(* Mutant: an empty ring explains everything.                              *)
CoversEmpty(seen) ==
    ring = {} \/ \E ch \in ring : ch.rev <= seen + 1

Covers(seen) == \E ch \in ring : ch.rev <= seen + 1

Limit(window) == IF window > HistoryLimit THEN HistoryLimit ELSE window

After(seen) ==
    {ch \in changes :
        /\ ch.rev > seen
        /\ Cardinality({d \in changes : seen < d.rev /\ d.rev <= ch.rev})
              <= Limit(rev - seen)}

Shown(seen, answered) ==
    IF ~Covers(seen) /\ answered THEN After(seen) ELSE ring

(* Mutant: the missing are not counted.                                    *)
StaleShown(s, seen, answered) ==
    seen >= 0 /\ \E ch \in Shown(seen, answered) : ch.rev > seen /\ ch.by # s

Stale(s, seen, answered) ==
    /\ seen >= 0
    /\ rev > seen
    /\ \/ \E ch \in Shown(seen, answered) : ch.rev > seen /\ ch.by # s
       \/ rev - seen > Cardinality(Shown(seen, answered))

-----------------------------------------------------------------------------
Goto(a, place) == call' = [call EXCEPT ![a].at = place]

\* The end of a call: a deferred unlock frees the file.
Return(a) ==
    /\ call' = [call EXCEPT ![a] = Idle]
    /\ lock' = IF lock = a THEN NoOwner ELSE lock

Fail == faults < MaxFaults /\ faults' = faults + 1

Newest(a, b) == IF a > b THEN a ELSE b

\* read captures the revision before it reads the bytes.
StartRead(c) ==
    /\ call[c].at = "idle"
    /\ call' = [call EXCEPT ![c] = [Idle EXCEPT !.at = "reading", !.rev = rev]]
    /\ UNCHANGED <<disk, log, tables, lock, ghosts, faults>>

ReadFile(c) ==
    /\ call[c].at = "reading"
    /\ call' = [call EXCEPT ![c] = [@ EXCEPT !.at = "stat", !.bytes = disk]]
    /\ UNCHANGED <<disk, log, tables, lock, ghosts, faults>>

\* A binary file, a map in place of the bytes, an empty window or an error:
\* no bytes are returned and no bookmark moves.
ReadNothing(c) ==
    /\ call[c].at = "reading"
    /\ Return(c)
    /\ UNCHANGED <<disk, log, tables, ghosts, faults>>

\* write, edit and the observer take the file's lock.
Acquire(a) ==
    /\ call[a].at = IF a \in Calls THEN "idle" ELSE "finished"
    /\ lock = NoOwner
    /\ lock' = a
    /\ Goto(a, "check")
    /\ UNCHANGED <<disk, log, tables, ghosts, faults>>

(* Mutant: the lock covers the check alone.                                *)
CheckUnlocked(c) ==
    /\ call[c].at = "check"
    /\ ~Stale(SessionOf[c], bookmark[SessionOf[c]], TRUE)
    /\ call' = [call EXCEPT ![c] = [@ EXCEPT !.at = "passed", !.rev = bookmark[SessionOf[c]]]]
    /\ lock' = NoOwner
    /\ UNCHANGED <<disk, log, tables, ghosts, faults>>

\* Seen and Stale: refuse, or go on.
Check(c) ==
    LET s == SessionOf[c] IN
    /\ call[c].at = "check"
    /\ \E answered \in BOOLEAN :
          IF Stale(s, bookmark[s], answered)
          THEN Return(c)
          ELSE /\ call' = [call EXCEPT ![c] = [@ EXCEPT !.at = "passed", !.rev = bookmark[s]]]
               /\ UNCHANGED lock
    /\ UNCHANGED <<disk, log, tables, ghosts, faults>>

\* writeFileAtomic puts the new bytes in place.
Replace(c) ==
    /\ call[c].at = "passed"
    /\ disk < MaxVersion
    /\ disk' = disk + 1
    /\ call' = [call EXCEPT ![c] = [@ EXCEPT !.at = "written", !.bytes = disk + 1]]
    /\ known' = [known EXCEPT ![SessionOf[c]] = disk + 1]
    /\ UNCHANGED <<log, tables, lock, made, broken, faults>>

\* No such file, a hunk that does not apply, or a failed write: nothing moved.
ReplaceNothing(c) ==
    /\ call[c].at = "passed"
    /\ Return(c)
    /\ UNCHANGED <<disk, log, tables, ghosts, faults>>

-----------------------------------------------------------------------------
(***************************************************************************)
(* Log.Record, and the Log.Read it ends with.  read calls Log.Read alone.  *)
(***************************************************************************)
Author(a) == IF a \in Calls THEN SessionOf[a] ELSE NoSession

Entry(a, r) == [rev |-> r, by |-> Author(a), v |-> call[a].bytes]

Record(a) ==
    LET ch == Entry(a, rev + 1) IN
    /\ call[a].at = "written"
    /\ rev' = ch.rev
    /\ ring' = {d \in ring \cup {ch} : d.rev > ch.rev - RingPerFile}
    /\ made' = made \cup {ch}
    /\ call' = [call EXCEPT ![a] = [@ EXCEPT !.at = "sink", !.rev = ch.rev]]
    /\ UNCHANGED <<disk, fp, bookmark, saved, tables, lock, known, broken, faults>>

Sink(a) ==
    /\ call[a].at = "sink"
    /\ \/ changes' = changes \cup {Entry(a, call[a].rev)} /\ UNCHANGED faults
       \/ Fail /\ UNCHANGED changes
    /\ Goto(a, "stat")
    /\ UNCHANGED <<disk, log, bookmarks, lock, ghosts>>

(* Mutant: the revision is captured after the bytes.                       *)
StatThenRev(a) ==
    /\ call[a].at = "stat"
    /\ call' = [call EXCEPT ![a] = [@ EXCEPT !.at = "mark", !.stat = disk, !.rev = rev]]
    /\ UNCHANGED <<disk, log, tables, lock, ghosts, faults>>

\* FingerprintOf, outside the mutex.
Stat(a) ==
    /\ call[a].at = "stat"
    /\ call' = [call EXCEPT ![a] = [@ EXCEPT !.at = "mark", !.stat = disk]]
    /\ UNCHANGED <<disk, log, tables, lock, ghosts, faults>>

\* Without a session only the fingerprint moves.
MarkShell(x) ==
    /\ call[x].at = "mark"
    /\ fp' = call[x].stat
    /\ Return(x)
    /\ UNCHANGED <<disk, rev, ring, bookmark, saved, tables, ghosts, faults>>

Mark(c) ==
    LET s == SessionOf[c] IN
    /\ call[c].at = "mark"
    /\ fp' = call[c].stat
    /\ bookmark' = [bookmark EXCEPT ![s] = call[c].rev]
    /\ known' = [known EXCEPT ![s] = Newest(@, call[c].bytes)]
    /\ IF saved[s] = call[c].rev
       THEN Return(c)
       ELSE /\ call' = [call EXCEPT ![c] = [Idle EXCEPT !.at = "persist", !.rev = call[c].rev]]
            /\ UNCHANGED lock
    /\ UNCHANGED <<disk, rev, ring, saved, tables, made, broken, faults>>

\* SaveBookmark; a failure leaves saved alone, so the next read tries again.
Persist(c) ==
    /\ call[c].at = "persist"
    /\ \/ /\ bookmarks' = [bookmarks EXCEPT ![SessionOf[c]] = call[c].rev]
          /\ Goto(c, "save")
          /\ UNCHANGED <<lock, faults>>
       \/ /\ Fail
          /\ Return(c)
          /\ UNCHANGED bookmarks
    /\ UNCHANGED <<disk, log, changes, ghosts>>

Save(c) ==
    /\ call[c].at = "save"
    /\ saved' = [saved EXCEPT ![SessionOf[c]] = call[c].rev]
    /\ Return(c)
    /\ UNCHANGED <<disk, rev, ring, fp, bookmark, tables, ghosts, faults>>

-----------------------------------------------------------------------------
(***************************************************************************)
(* A shell command writes as it likes and is observed when it ends.  bytes *)
(* keeps the last version it wrote while the log had the file's bytes.     *)
(***************************************************************************)
Run(x) ==
    /\ call[x].at = "idle"
    /\ Goto(x, "running")
    /\ UNCHANGED <<disk, log, tables, lock, ghosts, faults>>

ShellWrite(x) ==
    /\ call[x].at = "running"
    /\ disk < MaxVersion
    /\ disk' = disk + 1
    /\ call' = [call EXCEPT ![x].bytes = IF fp = NoBytes THEN 0 ELSE disk + 1]
    /\ UNCHANGED <<log, tables, lock, ghosts, faults>>

\* Log.Files lists the file only if the log has seen its bytes.
Finish(x) ==
    /\ call[x].at = "running"
    /\ IF fp = NoBytes
       THEN Return(x)
       ELSE Goto(x, "finished") /\ UNCHANGED lock
    /\ UNCHANGED <<disk, log, tables, ghosts, faults>>

\* The stored fingerprint against the file's, under the lock.
Observe(x) ==
    /\ call[x].at = "check"
    /\ IF fp = disk
       THEN Return(x)
       ELSE /\ call' = [call EXCEPT ![x] = [@ EXCEPT !.at = "written", !.bytes = disk]]
            /\ UNCHANGED lock
    /\ UNCHANGED <<disk, log, tables, ghosts, faults>>

-----------------------------------------------------------------------------
(* Mutant: MAX of no rows taken as a revision.                              *)
TopsOrNone ==
    {r \in {-1} \cup {ch.rev : ch \in changes} : \A ch \in changes : ch.rev <= r}

\* Revisions: the highest revision of the table, 0 without a row.
Tops == {r \in {0} \cup {ch.rev : ch \in changes} : \A ch \in changes : ch.rev <= r}

\* The process dies and a new one reads the tables; either read may fail.
Restart ==
    /\ Fail
    /\ rev' \in Tops \cup {0}
    /\ bookmark' \in {bookmarks, [s \in Sessions |-> -1]}
    /\ saved' = bookmark'
    /\ ring' = {}
    /\ fp' = NoBytes
    /\ lock' = NoOwner
    /\ call' = [a \in Actors |-> Idle]
    /\ broken' = (broken \/ rev' < rev)
    /\ UNCHANGED <<disk, tables, made, known>>

Next ==
    \/ \E c \in Calls :
          \/ StartRead(c) \/ ReadFile(c) \/ ReadNothing(c)
          \/ Check(c) \/ Replace(c) \/ ReplaceNothing(c)
          \/ Mark(c) \/ Persist(c) \/ Save(c)
    \/ \E x \in Shells :
          \/ Run(x) \/ ShellWrite(x) \/ Finish(x) \/ Observe(x) \/ MarkShell(x)
    \/ \E a \in Actors : Acquire(a) \/ Record(a) \/ Sink(a) \/ Stat(a)
    \/ Restart

Spec == Init /\ [][Next]_vars

-----------------------------------------------------------------------------
(***************************************************************************)
(* A bookmark, in memory or in the table, never certifies a change whose   *)
(* bytes its session has not had: "a missed conflict, which is the one     *)
(* failure this gate must not have" (tool/read.go:404).                    *)
(***************************************************************************)
BookmarkNotAhead ==
    ~broken =>
        \A s \in Sessions, ch \in made :
            ch.rev <= bookmark[s] \/ ch.rev <= bookmarks[s] => ch.v <= known[s]

(***************************************************************************)
(* A write or edit that got past the gate with a bookmark replaces no      *)
(* recorded change of another session that its author has not had          *)
(* (write.go:90-98), whatever other calls, shell commands and restarts did *)
(* between its author's read and its own lock.                             *)
(***************************************************************************)
NobodyWritesBlindly ==
    ~broken =>
        \A c \in Calls, ch \in made :
            /\ call[c].at = "passed"
            /\ call[c].rev >= 0
            /\ ch.by # SessionOf[c]
            => ch.v <= known[SessionOf[c]]

(***************************************************************************)
(* A change of another session above the bookmark refuses, whether the     *)
(* ring still holds it or not, the store answers or not, its row was       *)
(* written or not (log.go:257-313).                                        *)
(***************************************************************************)
ForeignChangeRefuses ==
    ~broken =>
        \A s \in Sessions, ch \in made, answered \in BOOLEAN :
            /\ bookmark[s] >= 0
            /\ ch.rev > bookmark[s]
            /\ ch.by # s
            => Stale(s, bookmark[s], answered)

(***************************************************************************)
(* A session is not blocked by itself: a window that holds nothing but its *)
(* own changes does not refuse it, as long as the store holds their rows,  *)
(* answers, and the window is within what it returns (log.go:262-265).     *)
(***************************************************************************)
OwnChangesNeverBlock ==
    ~broken =>
        \A s \in Sessions :
            /\ rev - bookmark[s] <= HistoryLimit
            /\ \A ch \in made : ch.rev > bookmark[s] => ch.by = s /\ ch \in changes
            => ~Stale(s, bookmark[s], TRUE)

(***************************************************************************)
(* "If a shell command steps on a file a session has read, that session is *)
(* refused on the file too until it re-reads" (docs-site,                  *)
(* agents-and-teammates.md:60): once the command has been observed, a      *)
(* session that has not had the bytes it left is refused.                  *)
(***************************************************************************)
SteppedOnIsRefused ==
    [][\A x \in Shells, s \in Sessions :
          /\ call[x].at # "idle" /\ call'[x].at = "idle"
          /\ bookmark[s] >= 0
          /\ known[s] < call[x].bytes
          => Stale(s, bookmark[s], TRUE)']_vars
=============================================================================
