-------------------------- MODULE FileGuards_proofs --------------------------
(***************************************************************************)
(* Proofs about FileGuards, for any number of sessions, calls and shell    *)
(* commands, any bounds of the ring and of the history, and any failures.  *)
(***************************************************************************)
EXTENDS FileGuards, FiniteSetTheorems, TLAPS

USE FileAssumption

USE DEF log, tables, ghosts

(***************************************************************************)
(* Locals, field by field.                                                 *)
(***************************************************************************)
Is(l, p, r, b, t) ==
    l \in Local /\ l.at = p /\ l.rev = r /\ l.bytes = b /\ l.stat = t

LEMMA LocalForms ==
  ASSUME NEW l \in Local
  PROVE  /\ \A p \in Places \ {"sink"} :
               Is([l EXCEPT !.at = p], p, l.rev, l.bytes, l.stat)
         /\ \A p \in Places \ {"sink"}, n \in Nat :
               Is([l EXCEPT !.at = p, !.bytes = n], p, l.rev, n, l.stat)
         /\ \A p \in Places \ {"sink"}, n \in Nat :
               Is([l EXCEPT !.at = p, !.stat = n], p, l.rev, l.bytes, n)
         /\ \A p \in Places \ {"sink"}, r \in Revision :
               Is([l EXCEPT !.at = p, !.rev = r], p, r, l.bytes, l.stat)
         /\ \A p \in Places, r \in Nat :
               Is([l EXCEPT !.at = p, !.rev = r], p, r, l.bytes, l.stat)
         /\ \A n \in Nat : Is([l EXCEPT !.bytes = n], l.at, l.rev, n, l.stat)
BY DEF Local, Revision, Is

LEMMA IdleForms ==
  /\ Is(Idle, "idle", 0, 0, 0)
  /\ \A p \in Places \ {"sink"}, r \in Revision :
        Is([Idle EXCEPT !.at = p, !.rev = r], p, r, 0, 0)
BY DEF Idle, Local, Places, Revision, Is

LEMMA PlacesListed ==
  /\ {"idle", "reading", "check", "passed", "written", "stat", "mark", "persist",
      "save", "running", "finished"} \subseteq Places \ {"sink"}
  /\ "sink" \in Places
BY DEF Places

LEMMA LocalFields ==
  ASSUME TypeOK, NEW a \in Actors
  PROVE  /\ call[a] \in Local
         /\ call[a].at \in Places /\ call[a].rev \in Revision
         /\ call[a].bytes \in Nat /\ call[a].stat \in Nat
         /\ call[a].at = "sink" => call[a].rev \in Nat
BY DEF TypeOK, Local

LEMMA EntryType ==
  ASSUME TypeOK, NEW a \in Actors, NEW r \in Nat
  PROVE  Entry(a, r) \in Change
BY LocalFields DEF Entry, Change, Author, Actors

(***************************************************************************)
(* One actor moves, to a local of its type.                                *)
(***************************************************************************)
Moves(a, p, r, b, t) ==
    /\ call' \in [Actors -> Local]
    /\ call'[a].at = p /\ call'[a].rev = r /\ call'[a].bytes = b /\ call'[a].stat = t
    /\ \A d \in Actors : d # a => call'[d] = call[d]

LEMMA MovesTo ==
  ASSUME TypeOK, NEW a \in Actors, NEW l, NEW p, NEW r, NEW b, NEW t,
         Is(l, p, r, b, t),
         call' = [call EXCEPT ![a] = l]
  PROVE  Moves(a, p, r, b, t)
<1>1. /\ call' \in [Actors -> Local] /\ call'[a] = l
      /\ \A d \in Actors : d # a => call'[d] = call[d]
  BY DEF Is, TypeOK
<1> QED
  BY <1>1 DEF Is, Moves

LEMMA Returns ==
  ASSUME TypeOK, NEW a \in Actors, Return(a)
  PROVE  Moves(a, "idle", 0, 0, 0) /\ lock' = (IF lock = a THEN NoOwner ELSE lock)
BY IdleForms, MovesTo DEF Return

LEMMA Goes ==
  ASSUME TypeOK, NEW a \in Actors, NEW p \in Places \ {"sink"}, Goto(a, p)
  PROVE  Moves(a, p, call[a].rev, call[a].bytes, call[a].stat)
<1>1. call' = [call EXCEPT ![a] = [call[a] EXCEPT !.at = p]]
  BY DEF Goto
<1> QED
  BY <1>1, LocalFields, LocalForms, MovesTo

(***************************************************************************)
(* Where each step leaves its actor.                                       *)
(***************************************************************************)
LEMMA CallMoves ==
  ASSUME TypeOK, NEW c \in Calls
  PROVE  /\ StartRead(c) => Moves(c, "reading", rev, 0, 0)
         /\ ReadFile(c) => Moves(c, "stat", call[c].rev, disk, call[c].stat)
         /\ ReadNothing(c) \/ ReplaceNothing(c) => Moves(c, "idle", 0, 0, 0)
         /\ Check(c) => \/ Return(c)
                        \/ /\ Moves(c, "passed", bookmark[SessionOf[c]],
                                    call[c].bytes, call[c].stat)
                           /\ lock' = lock
         /\ Replace(c) => Moves(c, "written", call[c].rev, disk + 1, call[c].stat)
         /\ Mark(c) => \/ Return(c)
                       \/ Moves(c, "persist", call[c].rev, 0, 0) /\ lock' = lock
         /\ Persist(c) =>
               \/ Return(c) /\ UNCHANGED bookmarks
               \/ /\ Moves(c, "save", call[c].rev, call[c].bytes, call[c].stat)
                  /\ lock' = lock
                  /\ bookmarks' = [bookmarks EXCEPT ![SessionOf[c]] = call[c].rev]
         /\ Save(c) => Moves(c, "idle", 0, 0, 0)
<1>1. c \in Actors /\ SessionOf[c] \in Sessions
  BY DEF Actors
<1>2. /\ disk \in Nat /\ disk + 1 \in Nat /\ rev \in Nat /\ rev \in Revision
      /\ bookmark[SessionOf[c]] \in Revision
  BY <1>1 DEF TypeOK, Revision
<1> USE <1>1, <1>2, LocalFields, PlacesListed
<1>3. StartRead(c) => Moves(c, "reading", rev, 0, 0)
  BY IdleForms, MovesTo DEF StartRead
<1>4. ReadFile(c) => Moves(c, "stat", call[c].rev, disk, call[c].stat)
  BY LocalForms, MovesTo DEF ReadFile
<1>5. ReadNothing(c) \/ ReplaceNothing(c) => Moves(c, "idle", 0, 0, 0)
  BY Returns DEF ReadNothing, ReplaceNothing
<1>6. Check(c) => \/ Return(c)
                  \/ /\ Moves(c, "passed", bookmark[SessionOf[c]],
                              call[c].bytes, call[c].stat)
                     /\ lock' = lock
  <2> DEFINE l == [call[c] EXCEPT !.at = "passed", !.rev = bookmark[SessionOf[c]]]
  <2>1. call' = [call EXCEPT ![c] = l]
        => Moves(c, "passed", bookmark[SessionOf[c]], call[c].bytes, call[c].stat)
    BY LocalForms, MovesTo
  <2> QED
    BY <2>1 DEF Check
<1>7. Replace(c) => Moves(c, "written", call[c].rev, disk + 1, call[c].stat)
  BY LocalForms, MovesTo DEF Replace
<1>8. Mark(c) => \/ Return(c)
                 \/ Moves(c, "persist", call[c].rev, 0, 0) /\ lock' = lock
  <2>1. call' = [call EXCEPT ![c] = [Idle EXCEPT !.at = "persist", !.rev = call[c].rev]]
        => Moves(c, "persist", call[c].rev, 0, 0)
    BY IdleForms, MovesTo
  <2> QED
    BY <2>1 DEF Mark
<1>9. Persist(c) =>
         \/ Return(c) /\ UNCHANGED bookmarks
         \/ /\ Moves(c, "save", call[c].rev, call[c].bytes, call[c].stat)
            /\ lock' = lock
            /\ bookmarks' = [bookmarks EXCEPT ![SessionOf[c]] = call[c].rev]
  BY Goes DEF Persist
<1>10. Save(c) => Moves(c, "idle", 0, 0, 0)
  BY Returns DEF Save
<1> QED
  BY <1>3, <1>4, <1>5, <1>6, <1>7, <1>8, <1>9, <1>10

LEMMA ShellMoves ==
  ASSUME TypeOK, NEW x \in Shells
  PROVE  /\ Run(x) => Moves(x, "running", call[x].rev, call[x].bytes, call[x].stat)
         /\ ShellWrite(x) => \E n \in Nat : /\ n <= disk + 1
                                            /\ Moves(x, "running", call[x].rev, n, call[x].stat)
         /\ Finish(x) =>
               \/ Return(x)
               \/ /\ Moves(x, "finished", call[x].rev, call[x].bytes, call[x].stat)
                  /\ lock' = lock
         /\ Observe(x) => \/ Return(x)
                          \/ /\ Moves(x, "written", call[x].rev, disk, call[x].stat)
                             /\ lock' = lock
         /\ MarkShell(x) => Moves(x, "idle", 0, 0, 0)
<1>1. x \in Actors /\ disk \in Nat /\ disk + 1 \in Nat
  BY DEF Actors, TypeOK
<1> USE <1>1, LocalFields, PlacesListed
<1>2. Run(x) => Moves(x, "running", call[x].rev, call[x].bytes, call[x].stat)
  BY Goes DEF Run
<1>3. ASSUME ShellWrite(x)
      PROVE  \E n \in Nat : n <= disk + 1 /\ Moves(x, "running", call[x].rev, n, call[x].stat)
  <2> DEFINE n == IF fp = NoBytes THEN 0 ELSE disk + 1
  <2>1. n \in Nat /\ n <= disk + 1
    OBVIOUS
  <2>2. /\ call' = [call EXCEPT ![x] = [call[x] EXCEPT !.bytes = n]]
        /\ call[x].at = "running"
    BY <1>3 DEF ShellWrite
  <2>3. Is([call[x] EXCEPT !.bytes = n], "running", call[x].rev, n, call[x].stat)
    BY <2>1, <2>2, LocalForms
  <2>4. Moves(x, "running", call[x].rev, n, call[x].stat)
    BY <2>2, <2>3, MovesTo
  <2> QED
    BY <2>1, <2>4
<1>4. Finish(x) =>
         \/ Return(x)
         \/ /\ Moves(x, "finished", call[x].rev, call[x].bytes, call[x].stat)
            /\ lock' = lock
  BY Goes DEF Finish
<1>5. Observe(x) => \/ Return(x)
                    \/ /\ Moves(x, "written", call[x].rev, disk, call[x].stat)
                       /\ lock' = lock
  <2> DEFINE l == [call[x] EXCEPT !.at = "written", !.bytes = disk]
  <2>1. call' = [call EXCEPT ![x] = l]
        => Moves(x, "written", call[x].rev, disk, call[x].stat)
    BY LocalForms, MovesTo
  <2> QED
    BY <2>1 DEF Observe
<1>6. MarkShell(x) => Moves(x, "idle", 0, 0, 0)
  BY Returns DEF MarkShell
<1> QED
  BY <1>2, <1>3, <1>4, <1>5, <1>6

LEMMA ActorMoves ==
  ASSUME TypeOK, NEW a \in Actors
  PROVE  /\ Acquire(a) => Moves(a, "check", call[a].rev, call[a].bytes, call[a].stat)
         /\ Record(a) => Moves(a, "sink", rev + 1, call[a].bytes, call[a].stat)
         /\ Sink(a) => Moves(a, "stat", call[a].rev, call[a].bytes, call[a].stat)
         /\ Stat(a) => Moves(a, "mark", call[a].rev, call[a].bytes, disk)
<1>1. disk \in Nat /\ rev + 1 \in Nat /\ rev + 1 \in Revision
  BY DEF TypeOK, Revision
<1> USE <1>1, LocalFields, PlacesListed
<1>2. Acquire(a) => Moves(a, "check", call[a].rev, call[a].bytes, call[a].stat)
  BY Goes DEF Acquire
<1>3. Record(a) => Moves(a, "sink", rev + 1, call[a].bytes, call[a].stat)
  BY LocalForms, MovesTo DEF Record, Entry
<1>4. Sink(a) => Moves(a, "stat", call[a].rev, call[a].bytes, call[a].stat)
  BY Goes DEF Sink
<1>5. Stat(a) => Moves(a, "mark", call[a].rev, call[a].bytes, disk)
  BY LocalForms, MovesTo DEF Stat
<1> QED
  BY <1>2, <1>3, <1>4, <1>5

(***************************************************************************)
(* Types.                                                                  *)
(***************************************************************************)

LEMMA InitType == Init => TypeOK
<1> SUFFICES ASSUME Init PROVE TypeOK
  OBVIOUS
<1>1. call \in [Actors -> Local]
  <2>1. Idle \in Local /\ call = [a \in Actors |-> Idle]
    BY IdleForms DEF Init, Is
  <2> QED
    BY ONLY <2>1
<1>2. [s \in Sessions |-> -1] \in [Sessions -> Revision]
  BY DEF Revision
<1> QED
  BY <1>1, <1>2 DEF Init, TypeOK

LEMMA StepType == TypeOK /\ [Next]_vars => TypeOK'
<1> SUFFICES ASSUME TypeOK, [Next]_vars PROVE TypeOK'
  OBVIOUS
<1>0. /\ Calls \subseteq Actors /\ Shells \subseteq Actors
      /\ \A a, p, r, b, t : Moves(a, p, r, b, t) => call' \in [Actors -> Local]
      /\ \A a \in Actors : Return(a) => /\ lock' \in Actors \cup {NoOwner}
                                       /\ call' \in [Actors -> Local]
  BY Returns DEF Actors, Moves, TypeOK
<1>1. ASSUME NEW c \in Calls,
             StartRead(c) \/ ReadFile(c) \/ ReadNothing(c) \/ ReplaceNothing(c)
      PROVE  TypeOK'
  <2>1. call' \in [Actors -> Local]
    BY <1>0, <1>1, CallMoves
  <2>2. lock' \in Actors \cup {NoOwner}
    BY <1>0, <1>1 DEF StartRead, ReadFile, ReadNothing, ReplaceNothing, TypeOK
  <2> QED
    BY <1>1, <2>1, <2>2
    DEF StartRead, ReadFile, ReadNothing, ReplaceNothing, TypeOK
<1>2. ASSUME NEW c \in Calls, Check(c) PROVE TypeOK'
  <2>1. call' \in [Actors -> Local] /\ lock' \in Actors \cup {NoOwner}
    BY <1>0, <1>2, CallMoves DEF TypeOK
  <2> QED
    BY <1>2, <2>1 DEF Check, TypeOK
<1>3. ASSUME NEW c \in Calls, Replace(c) PROVE TypeOK'
  <2>1. call' \in [Actors -> Local]
    BY <1>0, <1>3, CallMoves
  <2>2. disk' \in Nat /\ known' \in [Sessions -> Nat]
    BY <1>3 DEF Replace, TypeOK
  <2> QED
    BY <1>3, <2>1, <2>2 DEF Replace, TypeOK
<1>4. ASSUME NEW c \in Calls, Mark(c) PROVE TypeOK'
  <2>1. call' \in [Actors -> Local] /\ lock' \in Actors \cup {NoOwner}
    BY <1>0, <1>4, CallMoves DEF TypeOK
  <2>2. call[c].rev \in Revision /\ call[c].stat \in Nat /\ call[c].bytes \in Nat
    BY <1>0, LocalFields
  <2>3. bookmark' \in [Sessions -> Revision] /\ fp' \in Nat \cup {NoBytes}
    BY <1>4, <2>2 DEF Mark, TypeOK
  <2>4. known' \in [Sessions -> Nat]
    BY <1>4, <2>2 DEF Mark, TypeOK, Newest
  <2> QED
    BY <1>4, <2>1, <2>3, <2>4 DEF Mark, TypeOK
<1>5. ASSUME NEW c \in Calls, Persist(c) PROVE TypeOK'
  <2>1. call' \in [Actors -> Local] /\ lock' \in Actors \cup {NoOwner}
    BY <1>0, <1>5, CallMoves DEF TypeOK
  <2>2. bookmarks' \in [Sessions -> Revision] /\ faults' \in Nat
    BY <1>0, <1>5, LocalFields DEF Persist, TypeOK, Fail
  <2> QED
    BY <1>5, <2>1, <2>2 DEF Persist, TypeOK
<1>6. ASSUME NEW c \in Calls, Save(c) PROVE TypeOK'
  <2>1. call' \in [Actors -> Local] /\ lock' \in Actors \cup {NoOwner}
    BY <1>0, <1>6, CallMoves DEF Save
  <2>2. saved' \in [Sessions -> Revision]
    BY <1>0, <1>6, LocalFields DEF Save, TypeOK
  <2> QED
    BY <1>6, <2>1, <2>2 DEF Save, TypeOK
<1>7. ASSUME NEW x \in Shells, Run(x) \/ Finish(x) \/ Observe(x) PROVE TypeOK'
  <2>1. call' \in [Actors -> Local]
    BY <1>0, <1>7, ShellMoves
  <2>2. lock' \in Actors \cup {NoOwner}
    BY <1>0, <1>7, ShellMoves DEF Run, TypeOK
  <2> QED
    BY <1>7, <2>1, <2>2 DEF Run, Finish, Observe, TypeOK
<1>8. ASSUME NEW x \in Shells, ShellWrite(x) PROVE TypeOK'
  <2>1. call' \in [Actors -> Local]
    BY <1>0, <1>8, ShellMoves
  <2> QED
    BY <1>8, <2>1 DEF ShellWrite, TypeOK
<1>9. ASSUME NEW x \in Shells, MarkShell(x) PROVE TypeOK'
  <2>1. call' \in [Actors -> Local] /\ lock' \in Actors \cup {NoOwner}
    BY <1>0, <1>9, ShellMoves DEF MarkShell
  <2>2. fp' \in Nat \cup {NoBytes}
    BY <1>0, <1>9, LocalFields DEF MarkShell
  <2> QED
    BY <1>9, <2>1, <2>2 DEF MarkShell, TypeOK
<1>10. ASSUME NEW a \in Actors, Acquire(a) \/ Stat(a) PROVE TypeOK'
  <2>1. call' \in [Actors -> Local]
    BY <1>0, <1>10, ActorMoves
  <2> QED
    BY <1>10, <2>1 DEF Acquire, Stat, TypeOK
<1>11. ASSUME NEW a \in Actors, Record(a) PROVE TypeOK'
  <2>1. call' \in [Actors -> Local]
    BY <1>0, <1>11, ActorMoves
  <2>2. rev + 1 \in Nat /\ Entry(a, rev + 1) \in Change /\ Entry(a, rev + 1).rev = rev + 1
    BY EntryType DEF TypeOK, Entry
  <2>3. rev' \in Nat /\ ring' \subseteq Change /\ made' \subseteq Change
    BY <1>11, <2>2 DEF Record, TypeOK
  <2> QED
    BY <1>11, <2>1, <2>3 DEF Record, TypeOK
<1>12. ASSUME NEW a \in Actors, Sink(a) PROVE TypeOK'
  <2>1. call' \in [Actors -> Local]
    BY <1>0, <1>12, ActorMoves
  <2>2. Entry(a, call[a].rev) \in Change
    BY <1>12, LocalFields, EntryType DEF Sink
  <2>3. changes' \subseteq Change /\ faults' \in Nat
    BY <1>12, <2>2 DEF Sink, Fail, TypeOK
  <2> QED
    BY <1>12, <2>1, <2>3 DEF Sink, TypeOK
<1>13. CASE Restart
  <2>1. rev' \in Nat
    BY <1>13 DEF Restart, Tops, TypeOK, Change
  <2>2. bookmark' \in [Sessions -> Revision] /\ saved' \in [Sessions -> Revision]
    BY <1>13 DEF Restart, TypeOK, Revision
  <2>3. call' \in [Actors -> Local]
    <3>1. Idle \in Local /\ call' = [a \in Actors |-> Idle]
      BY <1>13, IdleForms DEF Restart, Is
    <3> QED
      BY ONLY <3>1
  <2>5. faults' \in Nat
    BY <1>13 DEF Restart, Fail, TypeOK
  <2>4. fp' \in Nat \cup {NoBytes} /\ broken' \in BOOLEAN
    BY <1>13 DEF Restart
  <2> QED
    BY <1>13, <2>1, <2>2, <2>3, <2>4, <2>5 DEF Restart, TypeOK
<1>14. CASE UNCHANGED vars
  BY <1>14 DEF vars, TypeOK
<1> QED
  BY <1>1, <1>2, <1>3, <1>4, <1>5, <1>6, <1>7, <1>8, <1>9, <1>10, <1>11, <1>12,
     <1>13, <1>14 DEF Next

(* Every variable keeps its type; in particular a restart always finds a   *)
(* revision to go on from, with or without rows.                           *)
THEOREM TypesStay == Spec => []TypeOK
BY InitType, StepType, PTL DEF Spec

(***************************************************************************)
(* The lock.  Between the check and the record of its change an actor      *)
(* holds the file's lock.                                                  *)
(***************************************************************************)
Guarding(a) == call[a].at \in {"check", "passed", "written"}

Guarded == \A a \in Actors : Guarding(a) => lock = a

\* One actor moves, and what it holds is still its own.
LEMMA GuardedMove ==
  ASSUME TypeOK, Guarded, NEW a \in Actors,
         NEW p, NEW r, NEW n, NEW t, Moves(a, p, r, n, t),
         \/ lock' = lock
         \/ lock' = (IF lock = a THEN NoOwner ELSE lock)
         \/ lock = NoOwner /\ lock' = a,
         p \in {"check", "passed", "written"} => lock' = a
  PROVE  Guarded'
<1> SUFFICES ASSUME NEW b \in Actors, Guarding(b)' PROVE lock' = b
  BY DEF Guarded
<1>1. CASE b = a
  BY <1>1 DEF Guarding, Moves
<1>2. CASE b # a
  <2>1. call'[b] = call[b]
    BY <1>2 DEF Moves
  <2>2. lock = b
    BY <2>1 DEF Guarding, Guarded
  <2> QED
    BY <1>2, <2>2 DEF Actors
<1> QED
  BY <1>1, <1>2

LEMMA GuardedStep ==
  ASSUME TypeOK, Guarded, [Next]_vars
  PROVE  Guarded'
<1>0. /\ Calls \subseteq Actors /\ Shells \subseteq Actors
      /\ \A a \in Actors : Return(a) => Guarded'
  BY Returns, GuardedMove DEF Actors
<1>1. ASSUME NEW c \in Calls, StartRead(c) \/ ReadFile(c) PROVE Guarded'
  <2>1. lock' = lock
    BY <1>1 DEF StartRead, ReadFile
  <2> QED
    BY <1>0, <1>1, <2>1, CallMoves, GuardedMove
<1>2. ASSUME NEW c \in Calls, ReadNothing(c) \/ ReplaceNothing(c) \/ Save(c) PROVE Guarded'
  BY <1>0, <1>2 DEF ReadNothing, ReplaceNothing, Save
<1>3. ASSUME NEW c \in Calls, Check(c) PROVE Guarded'
  <2>1. lock = c
    BY <1>0, <1>3 DEF Check, Guarded, Guarding
  <2> QED
    BY <1>0, <1>3, <2>1, CallMoves, GuardedMove
<1>4. ASSUME NEW c \in Calls, Replace(c) PROVE Guarded'
  <2>1. lock = c /\ lock' = lock
    BY <1>0, <1>4 DEF Replace, Guarded, Guarding
  <2> QED
    BY <1>0, <1>4, <2>1, CallMoves, GuardedMove
<1>5. ASSUME NEW c \in Calls, Mark(c) \/ Persist(c) PROVE Guarded'
  BY <1>0, <1>5, CallMoves, GuardedMove
<1>6. ASSUME NEW x \in Shells, Run(x) \/ ShellWrite(x) PROVE Guarded'
  <2>1. lock' = lock
    BY <1>6 DEF Run, ShellWrite
  <2> QED
    BY <1>0, <1>6, <2>1, ShellMoves, GuardedMove
<1>7. ASSUME NEW x \in Shells, Finish(x) PROVE Guarded'
  BY <1>0, <1>7, ShellMoves, GuardedMove
<1>8. ASSUME NEW x \in Shells, Observe(x) PROVE Guarded'
  <2>1. lock = x
    BY <1>0, <1>8 DEF Observe, Guarded, Guarding
  <2> QED
    BY <1>0, <1>8, <2>1, ShellMoves, GuardedMove
<1>9. ASSUME NEW x \in Shells, MarkShell(x) PROVE Guarded'
  BY <1>0, <1>9 DEF MarkShell
<1>10. ASSUME NEW a \in Actors, Acquire(a) PROVE Guarded'
  <2>1. lock = NoOwner /\ lock' = a
    BY <1>10 DEF Acquire
  <2> QED
    BY <1>10, <2>1, ActorMoves, GuardedMove
<1>11. ASSUME NEW a \in Actors, Record(a) \/ Sink(a) \/ Stat(a) PROVE Guarded'
  <2>1. lock' = lock
    BY <1>11 DEF Record, Sink, Stat
  <2> QED
    BY <1>11, <2>1, ActorMoves, GuardedMove
<1>12. CASE Restart
  <2>1. \A a \in Actors : call'[a].at = "idle"
    BY <1>12 DEF Restart, Idle
  <2> QED
    BY <2>1 DEF Guarded, Guarding
<1>13. CASE UNCHANGED vars
  BY <1>13 DEF vars, Guarded, Guarding
<1> QED
  BY <1>1, <1>2, <1>3, <1>4, <1>5, <1>6, <1>7, <1>8, <1>9, <1>10, <1>11, <1>12,
     <1>13 DEF Next

(***************************************************************************)
(* The record.  Every change the log, the ring or the table holds was      *)
(* made, and carries bytes the file has had.                               *)
(***************************************************************************)
Recorded ==
    /\ IsFiniteSet(made) /\ ring \subseteq made /\ changes \subseteq made
    /\ \A ch \in made : ch.v <= disk
    /\ \A a \in Actors :
          /\ call[a].bytes <= disk
          /\ call[a].at = "sink" => Entry(a, call[a].rev) \in made

LEMMA RecordedMove ==
  ASSUME TypeOK, Recorded, NEW a \in Actors,
         NEW p, NEW r, NEW n, NEW t, Moves(a, p, r, n, t),
         p # "sink", disk' \in Nat, disk <= disk', n \in Nat, n <= disk',
         made' = made, ring' = ring, changes' = changes
  PROVE  Recorded'
<1>1. ASSUME NEW d \in Actors
      PROVE  call'[d].bytes <= disk' /\ (call'[d].at = "sink" => Entry(d, call[d].rev)' \in made)
  <2>1. CASE d = a
    BY <2>1 DEF Moves
  <2>2. CASE d # a
    <3>1. call'[d] = call[d] /\ call[d].bytes \in Nat /\ call[d].bytes <= disk
      BY <2>2, LocalFields DEF Moves, Recorded
    <3>2. call'[d].bytes <= disk'
      BY <3>1 DEF TypeOK
    <3>3. call'[d].at = "sink" => Entry(d, call[d].rev) \in made
      BY <3>1 DEF Recorded
    <3>4. Entry(d, call[d].rev)' = Entry(d, call[d].rev)
      BY <3>1 DEF Entry, Author
    <3> QED
      BY <3>2, <3>3, <3>4
  <2> QED
    BY <2>1, <2>2
<1>2. ASSUME NEW ch \in made PROVE ch.v <= disk'
  BY DEF TypeOK, Change, Recorded
<1> QED
  BY <1>1, <1>2 DEF Recorded

LEMMA RecordedStep ==
  ASSUME TypeOK, Recorded, [Next]_vars
  PROVE  Recorded'
<1>0. /\ Calls \subseteq Actors /\ Shells \subseteq Actors /\ disk \in Nat
      /\ \A a \in Actors : /\ call[a].bytes \in Nat /\ call[a].bytes <= disk
                           /\ call[a].at = "sink" => Entry(a, call[a].rev) \in made
  BY LocalFields DEF Actors, TypeOK, Recorded
<1>1. ASSUME NEW a \in Actors, Return(a), UNCHANGED <<disk, made, ring, changes>>
      PROVE  Recorded'
  BY <1>0, <1>1, Returns, RecordedMove
<1>2. ASSUME NEW c \in Calls, StartRead(c) PROVE Recorded'
  <2>1. UNCHANGED <<disk, made, ring, changes>> /\ Moves(c, "reading", rev, 0, 0)
    BY <1>2, CallMoves DEF StartRead
  <2> QED
    BY <1>0, <2>1, RecordedMove
<1>3. ASSUME NEW c \in Calls, ReadFile(c) PROVE Recorded'
  <2>1. /\ UNCHANGED <<disk, made, ring, changes>>
        /\ Moves(c, "stat", call[c].rev, disk, call[c].stat)
    BY <1>3, CallMoves DEF ReadFile
  <2> QED
    BY <1>0, <2>1, RecordedMove
<1>4. ASSUME NEW c \in Calls, ReadNothing(c) \/ ReplaceNothing(c) \/ Save(c)
      PROVE  Recorded'
  BY <1>0, <1>1, <1>4 DEF ReadNothing, ReplaceNothing, Save
<1>5. ASSUME NEW c \in Calls, Check(c) PROVE Recorded'
  <2>1. UNCHANGED <<disk, made, ring, changes>>
    BY <1>5 DEF Check
  <2> QED
    BY <1>0, <1>1, <1>5, <2>1, CallMoves, RecordedMove
<1>6. ASSUME NEW c \in Calls, Replace(c) PROVE Recorded'
  <2>1. UNCHANGED <<made, ring, changes>> /\ disk' = disk + 1
    BY <1>6 DEF Replace
  <2> QED
    BY <1>0, <1>6, <2>1, CallMoves, RecordedMove
<1>7. ASSUME NEW c \in Calls, Mark(c) PROVE Recorded'
  <2>1. UNCHANGED <<disk, made, ring, changes>>
    BY <1>7 DEF Mark
  <2> QED
    BY <1>0, <1>1, <1>7, <2>1, CallMoves, RecordedMove
<1>8. ASSUME NEW c \in Calls, Persist(c) PROVE Recorded'
  <2>1. UNCHANGED <<disk, made, ring, changes>>
    BY <1>8 DEF Persist
  <2> QED
    BY <1>0, <1>1, <1>8, <2>1, CallMoves, RecordedMove
<1>9. ASSUME NEW x \in Shells, Run(x) PROVE Recorded'
  BY <1>0, <1>9, ShellMoves, RecordedMove DEF Run
<1>10. ASSUME NEW x \in Shells, ShellWrite(x) PROVE Recorded'
  <2>1. PICK n \in Nat : /\ n <= disk + 1
                         /\ Moves(x, "running", call[x].rev, n, call[x].stat)
    BY <1>10, ShellMoves
  <2>2. UNCHANGED <<made, ring, changes>> /\ disk' = disk + 1
    BY <1>10 DEF ShellWrite
  <2> QED
    BY <1>0, <2>1, <2>2, RecordedMove
<1>11. ASSUME NEW x \in Shells, Finish(x) PROVE Recorded'
  <2>1. UNCHANGED <<disk, made, ring, changes>>
    BY <1>11 DEF Finish
  <2> QED
    BY <1>0, <1>1, <1>11, <2>1, ShellMoves, RecordedMove
<1>12. ASSUME NEW x \in Shells, Observe(x) PROVE Recorded'
  <2>1. UNCHANGED <<disk, made, ring, changes>>
    BY <1>12 DEF Observe
  <2> QED
    BY <1>0, <1>1, <1>12, <2>1, ShellMoves, RecordedMove
<1>13. ASSUME NEW x \in Shells, MarkShell(x) PROVE Recorded'
  BY <1>0, <1>1, <1>13 DEF MarkShell
<1>14. ASSUME NEW a \in Actors, Acquire(a) PROVE Recorded'
  BY <1>0, <1>14, ActorMoves, RecordedMove DEF Acquire
<1>15. ASSUME NEW a \in Actors, Record(a) PROVE Recorded'
  <2> DEFINE ch == Entry(a, rev + 1)
  <2>1. Moves(a, "sink", rev + 1, call[a].bytes, call[a].stat)
    BY <1>15, ActorMoves
  <2>2. disk' = disk /\ made' = made \cup {ch} /\ ring' \subseteq ring \cup {ch} /\ changes' = changes
    BY <1>15 DEF Record
  <2>3. ch.v <= disk
    BY <1>0 DEF Entry
  <2>4. ASSUME NEW d \in Actors
        PROVE  call'[d].bytes <= disk' /\ (call'[d].at = "sink" => Entry(d, call[d].rev)' \in made')
    <3>1. call'[d].bytes = call[d].bytes
      BY <2>1 DEF Moves
    <3>2. CASE d = a
      <4>1. Entry(d, call[d].rev)' = ch
        BY <2>1, <3>1, <3>2 DEF Entry, Author, Moves
      <4> QED
        BY <1>0, <2>2, <3>1, <4>1
    <3>3. CASE d # a
      <4>1. call'[d] = call[d]
        BY <2>1, <3>3 DEF Moves
      <4>2. Entry(d, call[d].rev)' = Entry(d, call[d].rev)
        BY <4>1 DEF Entry, Author
      <4> QED
        BY <1>0, <2>2, <3>1, <4>1, <4>2
    <3> QED
      BY <3>2, <3>3
  <2>5. IsFiniteSet(made')
    BY <2>2, FS_AddElement DEF Recorded
  <2>6. ring' \subseteq made' /\ changes' \subseteq made' /\ \A d \in made' : d.v <= disk'
    BY <2>2, <2>3 DEF Recorded
  <2> QED
    BY <2>4, <2>5, <2>6 DEF Recorded
<1>16. ASSUME NEW a \in Actors, Sink(a) PROVE Recorded'
  <2>1. Moves(a, "stat", call[a].rev, call[a].bytes, call[a].stat)
    BY <1>16, ActorMoves
  <2>2. /\ UNCHANGED <<disk, made, ring>>
        /\ changes' \subseteq changes \cup {Entry(a, call[a].rev)}
        /\ Entry(a, call[a].rev) \in made
    BY <1>0, <1>16 DEF Sink
  <2>3. ASSUME NEW d \in Actors
        PROVE  call'[d].bytes <= disk' /\ (call'[d].at = "sink" => Entry(d, call[d].rev)' \in made')
    <3>1. call'[d].bytes = call[d].bytes
      BY <2>1 DEF Moves
    <3>2. CASE d = a
      BY <1>0, <2>1, <2>2, <3>1, <3>2 DEF Moves
    <3>3. CASE d # a
      <4>1. call'[d] = call[d]
        BY <2>1, <3>3 DEF Moves
      <4>2. Entry(d, call[d].rev)' = Entry(d, call[d].rev)
        BY <4>1 DEF Entry, Author
      <4> QED
        BY <1>0, <2>2, <3>1, <4>1, <4>2
    <3> QED
      BY <3>2, <3>3
  <2> QED
    BY <2>2, <2>3 DEF Recorded
<1>17. ASSUME NEW a \in Actors, Stat(a) PROVE Recorded'
  <2>1. /\ UNCHANGED <<disk, made, ring, changes>>
        /\ Moves(a, "mark", call[a].rev, call[a].bytes, disk)
    BY <1>17, ActorMoves DEF Stat
  <2> QED
    BY <1>0, <2>1, RecordedMove
<1>18. CASE Restart
  <2>1. \A d \in Actors : call'[d] = Idle
    BY <1>18 DEF Restart
  <2>2. UNCHANGED <<disk, made, changes>> /\ ring' = {}
    BY <1>18 DEF Restart
  <2> QED
    BY <1>0, <2>1, <2>2 DEF Recorded, Idle
<1>19. CASE UNCHANGED vars
  BY <1>0, <1>19 DEF vars, Recorded, Entry, Author
<1> QED
  BY <1>2, <1>3, <1>4, <1>5, <1>6, <1>7, <1>8, <1>9, <1>10, <1>11, <1>12,
     <1>13, <1>14, <1>15, <1>16, <1>17, <1>18, <1>19 DEF Next

(***************************************************************************)
(* Revisions.  As long as no restart has lost one, they are dense, each    *)
(* names one change, and the ring is the latest of them.                   *)
(***************************************************************************)
Ordered ==
    /\ \A ch \in made : 1 <= ch.rev /\ ch.rev <= rev
    /\ \A ch, d \in made : ch.rev = d.rev => ch = d
    /\ \A r \in 1 .. rev : \E ch \in made : ch.rev = r
    /\ \A d \in ring, ch \in made : ch.rev >= d.rev => ch \in ring

\* No restart that keeps the newest revision moves it.
LEMMA RestartKeeps ==
  ASSUME TypeOK, Recorded, ~broken => Ordered, Restart, ~broken'
  PROVE  ~broken /\ rev' = rev
<1>1. ~broken /\ ~(rev' < rev)
  BY DEF Restart
<1>2. rev' \in Nat /\ rev \in Nat
  BY DEF Restart, Tops, TypeOK, Change
<1>3. \A ch \in changes : ch.rev <= rev
  BY <1>1 DEF Recorded, Ordered
<1>4. rev' = 0 \/ \E ch \in changes : rev' = ch.rev
  BY DEF Restart, Tops
<1> QED
  BY <1>1, <1>2, <1>3, <1>4

LEMMA OrderedStep ==
  ASSUME TypeOK, Recorded, ~broken => Ordered, [Next]_vars, ~broken'
  PROVE  Ordered'
<1>1. ASSUME NEW a \in Actors, Record(a) PROVE Ordered'
  <2> DEFINE ch == Entry(a, rev + 1)
  <2>1. /\ rev' = rev + 1 /\ made' = made \cup {ch}
        /\ \A d : d \in ring' <=> d \in ring \cup {ch} /\ d.rev > rev + 1 - RingPerFile
        /\ ch.rev = rev + 1
    <3>1. ch.rev = rev + 1
      BY DEF Entry
    <3>2. rev' = ch.rev /\ made' = made \cup {ch}
      BY <1>1 DEF Record
    <3>3. ring' = {d \in ring \cup {ch} : d.rev > ch.rev - RingPerFile}
      BY <1>1 DEF Record
    <3>4. \A d : d \in ring' <=> d \in ring \cup {ch} /\ d.rev > rev + 1 - RingPerFile
      <4>1. \A d : d \in ring' <=> d \in ring \cup {ch} /\ d.rev > ch.rev - RingPerFile
        BY ONLY <3>3
      <4>2. ch.rev - RingPerFile = rev + 1 - RingPerFile
        <5>1. rev \in Nat
          BY DEF TypeOK
        <5>2. ch.rev \in Nat
          BY <3>1, <5>1
        <5> QED
          BY <3>1, <5>1, <5>2
      <4> QED
        BY ONLY <4>1, <4>2
    <3> QED
      BY <3>1, <3>2, <3>4
  <2>0. Ordered
    BY <1>1 DEF Record
  <2>2. /\ rev \in Nat /\ \A d \in made : d.rev \in Nat /\ 1 <= d.rev /\ d.rev <= rev
        /\ RingPerFile \in Nat
    BY <2>0 DEF Ordered, TypeOK, Change
  <2>3. \A d \in made' : 1 <= d.rev /\ d.rev <= rev'
    BY <2>1, <2>2
  <2>4. \A d, e \in made' : d.rev = e.rev => d = e
    BY <2>0, <2>1, <2>2 DEF Ordered
  <2>5. \A r \in 1 .. rev' : \E d \in made' : d.rev = r
    <3> SUFFICES ASSUME NEW r \in 1 .. rev' PROVE \E d \in made' : d.rev = r
      OBVIOUS
    <3>1. CASE r = rev + 1
      BY <2>1, <3>1
    <3>2. CASE r # rev + 1
      <4>1. r \in 1 .. rev
        BY <2>1, <2>2, <3>2
      <4> QED
        BY <2>0, <2>1, <4>1 DEF Ordered
    <3> QED
      BY <3>1, <3>2
  <2>6. ASSUME NEW d \in ring', NEW e \in made', e.rev >= d.rev PROVE e \in ring'
    <3>0. d.rev \in Nat /\ e.rev \in Nat /\ d.rev > rev + 1 - RingPerFile
      BY <2>1, <2>2 DEF Recorded
    <3>1. e.rev > rev + 1 - RingPerFile
      BY <2>2, <2>6, <3>0
    <3>2. e \in ring \cup {ch}
      <4>1. CASE d = ch
        <5>1. ~(e \in made)
          BY <2>1, <2>2, <2>6, <4>1
        <5> QED
          BY <2>1, <5>1
      <4>2. CASE d # ch
        BY <2>0, <2>1, <2>6, <4>2 DEF Ordered
      <4> QED
        BY <4>1, <4>2
    <3> QED
      BY <2>1, <3>1, <3>2
  <2> QED
    BY <2>3, <2>4, <2>5, <2>6 DEF Ordered
<1>2. CASE Restart
  <2>1. rev' = rev /\ made' = made /\ ring' = {} /\ Ordered
    BY <1>2, RestartKeeps DEF Restart
  <2> QED
    BY <2>1 DEF Ordered
<1>3. ASSUME UNCHANGED <<rev, made, ring, broken>> PROVE Ordered'
  BY <1>3 DEF Ordered
<1>4. ASSUME NEW c \in Calls,
             \/ StartRead(c) \/ ReadFile(c) \/ ReadNothing(c) \/ Check(c) \/ Replace(c)
             \/ ReplaceNothing(c) \/ Mark(c) \/ Persist(c) \/ Save(c)
      PROVE  UNCHANGED <<rev, made, ring, broken>>
  BY <1>4 DEF StartRead, ReadFile, ReadNothing, Check, Replace, ReplaceNothing, Mark,
              Persist, Save
<1>5. ASSUME NEW x \in Shells,
             Run(x) \/ ShellWrite(x) \/ Finish(x) \/ Observe(x) \/ MarkShell(x)
      PROVE  UNCHANGED <<rev, made, ring, broken>>
  BY <1>5 DEF Run, ShellWrite, Finish, Observe, MarkShell
<1>6. ASSUME NEW a \in Actors, Acquire(a) \/ Sink(a) \/ Stat(a)
      PROVE  UNCHANGED <<rev, made, ring, broken>>
  BY <1>6 DEF Acquire, Sink, Stat
<1>7. CASE UNCHANGED vars
  BY <1>3, <1>7 DEF vars
<1> QED
  BY <1>1, <1>2, <1>3, <1>4, <1>5, <1>6, <1>7 DEF Next

(***************************************************************************)
(* The changes after a revision, counted: as many as there are revisions.  *)
(***************************************************************************)
Window(seen) == {ch \in made : ch.rev > seen}

LEMMA WindowCount ==
  ASSUME TypeOK, Recorded, Ordered, NEW seen \in Nat, seen <= rev
  PROVE  /\ IsFiniteSet(Window(seen))
         /\ Cardinality(Window(seen)) = rev - seen
<1> DEFINE W == Window(seen)
           R == (seen + 1) .. rev
           f == [ch \in W |-> ch.rev]
<1>1. rev \in Nat /\ \A ch \in W : ch.rev \in R /\ ch \in made
  BY DEF Window, Ordered, TypeOK, Change
<1>2. IsFiniteSet(W)
  BY <1>1, FS_Subset DEF Recorded
<1>3. f \in Bijection(W, R)
  <2>1. f \in Injection(W, R)
    <3>1. f \in [W -> R]
      BY <1>1
    <3>2. \A a, b \in W : f[a] = f[b] => a = b
      BY <1>1 DEF Ordered
    <3> QED
      BY <3>1, <3>2 DEF Injection, IsInjective
  <2>2. f \in Surjection(W, R)
    <3> SUFFICES ASSUME NEW r \in R PROVE \E ch \in W : f[ch] = r
      BY <1>1 DEF Surjection
    <3>1. r \in 1 .. rev /\ r > seen
      BY <1>1
    <3>2. PICK ch \in made : ch.rev = r
      BY <3>1 DEF Ordered
    <3> QED
      BY <3>1, <3>2 DEF Window
  <2> QED
    BY <2>1, <2>2 DEF Bijection
<1>4. Cardinality(R) = rev - seen
  <2>1. seen + 1 \in Int /\ rev \in Int
    BY <1>1
  <2>2. Cardinality(R) = (IF seen + 1 > rev THEN 0 ELSE rev - (seen + 1) + 1)
    BY <2>1, FS_Interval
  <2> QED
    BY <1>1, <2>2
<1>5. Cardinality(W) = Cardinality(R)
  BY <1>2, <1>3, FS_Bijection DEF ExistsBijection
<1> QED
  BY <1>2, <1>4, <1>5

\* A set of later changes that lacks one of them leaves revisions unaccounted.
LEMMA WindowShort ==
  ASSUME TypeOK, Recorded, Ordered, NEW seen \in Nat, seen <= rev,
         NEW S, S \subseteq Window(seen), NEW ch \in Window(seen), ch \notin S
  PROVE  rev - seen > Cardinality(S)
<1>1. IsFiniteSet(Window(seen)) /\ Cardinality(Window(seen)) = rev - seen
  BY WindowCount
<1>2. S \subseteq Window(seen) \ {ch}
  OBVIOUS
<1>3. /\ IsFiniteSet(Window(seen) \ {ch})
      /\ Cardinality(Window(seen) \ {ch}) = rev - seen - 1
  BY <1>1, FS_RemoveElement
<1>4. Cardinality(S) \in Nat /\ Cardinality(S) <= rev - seen - 1
  BY <1>2, <1>3, FS_Subset, FS_CardinalityType
<1>5. rev \in Nat
  BY DEF TypeOK
<1> QED
  BY <1>4, <1>5

\* A set that has every later change accounts for all of them.
LEMMA WindowFull ==
  ASSUME TypeOK, Recorded, Ordered, NEW seen \in Nat, seen <= rev,
         NEW S, S \subseteq made, Window(seen) \subseteq S
  PROVE  ~(rev - seen > Cardinality(S))
<1>1. IsFiniteSet(Window(seen)) /\ Cardinality(Window(seen)) = rev - seen
  BY WindowCount
<1>2. IsFiniteSet(S)
  BY FS_Subset DEF Recorded
<1>3. Cardinality(S) \in Nat /\ rev - seen <= Cardinality(S)
  BY <1>1, <1>2, FS_Subset, FS_CardinalityType
<1>4. rev \in Nat
  BY DEF TypeOK
<1> QED
  BY <1>3, <1>4

(***************************************************************************)
(* The gate.                                                               *)
(***************************************************************************)
LEMMA ForeignRefused ==
  ASSUME TypeOK, Recorded, Ordered, NEW s \in Sessions, NEW ch \in made,
         NEW answered \in BOOLEAN, NEW seen \in Revision,
         seen >= 0, ch.rev > seen, ch.by # s
  PROVE  Stale(s, seen, answered)
<1>1. /\ rev \in Nat /\ seen \in Nat /\ seen <= rev /\ rev > seen
      /\ \A d \in made : d.rev \in Nat
      /\ ring \subseteq made /\ changes \subseteq made
  BY DEF TypeOK, Change, Revision, Ordered, Recorded
<1>2. SUFFICES ASSUME ~\E d \in Shown(seen, answered) : d.rev > seen /\ d.by # s
               PROVE  rev - seen > Cardinality(Shown(seen, answered))
  BY <1>1 DEF Stale
<1>3. ch \notin Shown(seen, answered)
  BY <1>2
<1>4. Shown(seen, answered) \subseteq Window(seen)
  <2>1. CASE Covers(seen)
    <3>1. PICK d \in ring : d.rev <= seen + 1
      BY <2>1 DEF Covers
    <3>2. ch \in ring
      BY <1>1, <3>1 DEF Ordered
    <3> QED
      BY <1>3, <2>1, <3>2 DEF Shown
  <2>2. CASE ~Covers(seen) /\ answered
    BY <1>1, <2>2 DEF Shown, After, Window
  <2>3. CASE ~Covers(seen) /\ ~answered
    <3>1. \A d \in ring : d \in made /\ d.rev > seen
      BY <1>1, <2>3 DEF Covers
    <3> QED
      BY <2>3, <3>1 DEF Shown, Window
  <2> QED
    BY <2>1, <2>2, <2>3
<1>5. ch \in Window(seen)
  BY DEF Window
<1> QED
  BY <1>1, <1>3, <1>4, <1>5, WindowShort

LEMMA OwnAllowed ==
  ASSUME TypeOK, Recorded, Ordered, NEW s \in Sessions, NEW seen \in Revision,
         rev - seen <= HistoryLimit,
         \A ch \in made : ch.rev > seen => ch.by = s /\ ch \in changes
  PROVE  ~Stale(s, seen, TRUE)
<1>1. /\ rev \in Nat /\ HistoryLimit \in Nat
      /\ \A d \in made : d.rev \in Nat
      /\ ring \subseteq made /\ changes \subseteq made
  BY DEF TypeOK, Change, Recorded
<1>2. SUFFICES ASSUME seen >= 0, rev > seen
               PROVE  ~Stale(s, seen, TRUE)
  BY DEF Stale
<1>3. seen \in Nat /\ seen <= rev
  BY <1>1, <1>2 DEF Revision
<1>4. Shown(seen, TRUE) \subseteq made
  BY <1>1 DEF Shown, After
<1>5. Window(seen) \subseteq Shown(seen, TRUE)
  <2>1. CASE Covers(seen)
    <3>1. PICK d \in ring : d.rev <= seen + 1
      BY <2>1 DEF Covers
    <3>2. \A ch \in Window(seen) : ch \in ring
      <4> SUFFICES ASSUME NEW ch \in Window(seen) PROVE ch \in ring
        OBVIOUS
      <4>1. ch \in made /\ ch.rev >= d.rev
        BY <1>1, <1>3, <3>1 DEF Window
      <4> QED
        BY <3>1, <4>1 DEF Ordered
    <3> QED
      BY <2>1, <3>2 DEF Shown
  <2>2. CASE ~Covers(seen)
    <3>1. Limit(rev - seen) = rev - seen
      BY <1>1, <1>3 DEF Limit
    <3>2. ASSUME NEW ch \in Window(seen)
          PROVE  Cardinality({d \in changes : seen < d.rev /\ d.rev <= ch.rev}) <= rev - seen
      <4> DEFINE D == {d \in changes : seen < d.rev /\ d.rev <= ch.rev}
      <4>1. D \subseteq Window(seen)
        BY <1>1, <1>3 DEF Window
      <4>2. IsFiniteSet(Window(seen)) /\ Cardinality(Window(seen)) = rev - seen
        BY <1>3, WindowCount
      <4>3. Cardinality(D) <= Cardinality(Window(seen))
        BY <4>1, <4>2, FS_Subset
      <4> QED
        BY <4>2, <4>3
    <3>3. ASSUME NEW ch \in Window(seen) PROVE ch \in After(seen)
      BY <3>1, <3>2 DEF After, Window
    <3> QED
      BY <2>2, <3>3 DEF Shown
  <2> QED
    BY <2>1, <2>2
<1>6. ~(rev - seen > Cardinality(Shown(seen, TRUE)))
  BY <1>3, <1>4, <1>5, WindowFull
<1>7. \A d \in Shown(seen, TRUE) : d.rev > seen => d.by = s
  BY <1>4
<1> QED
  BY <1>6, <1>7 DEF Stale

(***************************************************************************)
(* No session has had bytes the file never held.                           *)
(***************************************************************************)
KnownOnDisk == \A s \in Sessions : known[s] <= disk

LEMMA KnownStep ==
  ASSUME TypeOK, Recorded, KnownOnDisk, [Next]_vars
  PROVE  KnownOnDisk'
<1>0. /\ disk \in Nat /\ known \in [Sessions -> Nat] /\ \A s \in Sessions : known[s] <= disk
      /\ Calls \subseteq Actors
  BY DEF TypeOK, KnownOnDisk, Actors
<1>1. ASSUME NEW c \in Calls, Replace(c) PROVE KnownOnDisk'
  <2>1. disk' = disk + 1 /\ known' = [known EXCEPT ![SessionOf[c]] = disk + 1]
    BY <1>1 DEF Replace
  <2> QED
    BY <1>0, <2>1 DEF KnownOnDisk
<1>2. ASSUME NEW c \in Calls, Mark(c) PROVE KnownOnDisk'
  <2>1. disk' = disk /\ known' = [known EXCEPT ![SessionOf[c]] = Newest(@, call[c].bytes)]
    BY <1>2 DEF Mark
  <2>2. call[c].bytes \in Nat /\ call[c].bytes <= disk
    BY <1>0, LocalFields DEF Recorded
  <2> QED
    BY <1>0, <2>1, <2>2 DEF KnownOnDisk, Newest
<1>3. ASSUME NEW x \in Shells, ShellWrite(x) PROVE KnownOnDisk'
  BY <1>0, <1>3 DEF ShellWrite, KnownOnDisk
<1>4. ASSUME NEW c \in Calls,
             \/ StartRead(c) \/ ReadFile(c) \/ ReadNothing(c) \/ Check(c)
             \/ ReplaceNothing(c) \/ Persist(c) \/ Save(c)
      PROVE  UNCHANGED <<disk, known>>
  BY <1>4 DEF StartRead, ReadFile, ReadNothing, Check, ReplaceNothing, Persist, Save
<1>5. ASSUME NEW x \in Shells, Run(x) \/ Finish(x) \/ Observe(x) \/ MarkShell(x)
      PROVE  UNCHANGED <<disk, known>>
  BY <1>5 DEF Run, Finish, Observe, MarkShell
<1>6. ASSUME NEW a \in Actors, Acquire(a) \/ Record(a) \/ Sink(a) \/ Stat(a)
      PROVE  UNCHANGED <<disk, known>>
  BY <1>6 DEF Acquire, Record, Sink, Stat
<1>7. ASSUME Restart \/ UNCHANGED vars PROVE UNCHANGED <<disk, known>>
  BY <1>7 DEF Restart, vars
<1>8. UNCHANGED <<disk, known>> => KnownOnDisk'
  BY DEF KnownOnDisk
<1> QED
  BY <1>1, <1>2, <1>3, <1>4, <1>5, <1>6, <1>7, <1>8 DEF Next

(***************************************************************************)
(* What a revision in the hands of a call or a bookmark certifies: that    *)
(* the bytes that came with it hold every change up to it.                 *)
(***************************************************************************)
CallCertifies(c, ch) ==
    /\ call[c].at = "written" => ch.v <= call[c].bytes
    /\ call[c].at \in {"sink", "stat", "mark"} /\ ch.rev <= call[c].rev
       => ch.v <= call[c].bytes
    /\ call[c].at \in {"persist", "save"} /\ ch.rev <= call[c].rev
       => ch.v <= known[SessionOf[c]]
    /\ call[c].at = "passed" /\ call[c].rev >= 0 /\ ch.by # SessionOf[c]
       => ch.v <= known[SessionOf[c]]

MarkCertifies(s, ch) ==
    ch.rev <= bookmark[s] \/ ch.rev <= bookmarks[s] => ch.v <= known[s]

Certified ==
    /\ \A a \in Actors : call[a].rev <= rev
    /\ \A s \in Sessions : bookmark[s] <= rev /\ bookmarks[s] <= rev
    /\ \A c \in Calls, ch \in made : CallCertifies(c, ch)
    /\ \A s \in Sessions, ch \in made : MarkCertifies(s, ch)

\* One actor moves, and neither the changes nor the revision do.
LEMMA CertifiedMove ==
  ASSUME TypeOK, Certified, NEW a \in Actors,
         NEW p, NEW r, NEW n, NEW t, Moves(a, p, r, n, t),
         made' = made, rev' = rev, r \in Revision, r <= rev,
         known' \in [Sessions -> Nat], \A s \in Sessions : known[s] <= known'[s],
         \A s \in Sessions : bookmark'[s] <= rev /\ bookmarks'[s] <= rev,
         \A s \in Sessions, ch \in made : MarkCertifies(s, ch)',
         a \in Calls => \A ch \in made : CallCertifies(a, ch)'
  PROVE  Certified'
<1>1. ASSUME NEW d \in Actors PROVE call'[d].rev <= rev'
  BY DEF Moves, Certified
<1>2. ASSUME NEW c \in Calls, NEW ch \in made PROVE CallCertifies(c, ch)'
  <2>1. CASE c = a
    BY <2>1
  <2>2. CASE c # a
    <3>1. call'[c] = call[c]
      BY <2>2 DEF Moves, Actors
    <3>2. /\ known[SessionOf[c]] \in Nat /\ known'[SessionOf[c]] \in Nat
          /\ known[SessionOf[c]] <= known'[SessionOf[c]] /\ ch.v \in Nat
      BY DEF TypeOK, Change
    <3>3. CallCertifies(c, ch)
      BY DEF Certified
    <3> QED
      BY <3>1, <3>2, <3>3 DEF CallCertifies
  <2> QED
    BY <2>1, <2>2
<1> QED
  BY <1>1, <1>2 DEF Certified

\* ... nor any bookmark.
LEMMA CertifiedQuietMove ==
  ASSUME TypeOK, Certified, NEW a \in Actors,
         NEW p, NEW r, NEW n, NEW t, Moves(a, p, r, n, t),
         UNCHANGED <<made, rev, bookmark, bookmarks>>, r \in Revision, r <= rev,
         known' \in [Sessions -> Nat], \A s \in Sessions : known[s] <= known'[s],
         a \in Calls => \A ch \in made : CallCertifies(a, ch)'
  PROVE  Certified'
<1>1. ASSUME NEW s \in Sessions, NEW ch \in made PROVE MarkCertifies(s, ch)'
  <2>1. /\ known[s] \in Nat /\ known'[s] \in Nat /\ known[s] <= known'[s]
        /\ ch.v \in Nat
    BY DEF TypeOK, Change
  <2>2. MarkCertifies(s, ch)
    BY DEF Certified
  <2> QED
    BY <2>1, <2>2 DEF MarkCertifies
<1>2. \A s \in Sessions : bookmark'[s] <= rev /\ bookmarks'[s] <= rev
  BY DEF Certified
<1> QED
  BY <1>1, <1>2, CertifiedMove

LEMMA CertifiedStep ==
  ASSUME TypeOK, Guarded, Recorded, KnownOnDisk, ~broken => Ordered /\ Certified,
         [Next]_vars, ~broken'
  PROVE  Certified'
<1>0. /\ Calls \subseteq Actors /\ Shells \subseteq Actors /\ Calls \cap Shells = {}
      /\ disk \in Nat /\ rev \in Nat /\ rev \in Revision /\ 0 <= rev /\ 0 \in Revision
      /\ known \in [Sessions -> Nat] /\ \A s \in Sessions : known[s] <= known[s]
      /\ SessionOf \in [Calls -> Sessions]
      /\ \A ch \in made : ch.v \in Nat /\ ch.v <= disk /\ ch.rev \in Nat
  BY DEF Actors, TypeOK, Revision, Recorded, Change
<1>00. ~broken => \A a \in Actors : call[a].rev \in Revision /\ call[a].rev <= rev
  BY LocalFields DEF Certified
<1>1. ASSUME NEW a \in Actors, Return(a), ~broken,
             UNCHANGED <<made, rev, known, bookmark, bookmarks>>
      PROVE  Certified'
  <2>1. Moves(a, "idle", 0, 0, 0)
    BY <1>1, Returns
  <2>2. \A ch \in made : CallCertifies(a, ch)'
    BY <2>1 DEF CallCertifies, Moves
  <2> QED
    BY <1>0, <1>1, <2>1, <2>2, CertifiedQuietMove
<1>2. ASSUME NEW c \in Calls, StartRead(c) PROVE Certified'
  <2>1. UNCHANGED <<made, rev, known, bookmark, bookmarks, broken>>
    BY <1>2 DEF StartRead
  <2>2. Moves(c, "reading", rev, 0, 0)
    BY <1>2, CallMoves
  <2>3. \A ch \in made : CallCertifies(c, ch)'
    BY <2>2 DEF CallCertifies, Moves
  <2> QED
    BY <1>0, <2>1, <2>2, <2>3, CertifiedQuietMove
<1>3. ASSUME NEW c \in Calls, ReadFile(c) PROVE Certified'
  <2>1. UNCHANGED <<made, rev, known, bookmark, bookmarks, broken>>
    BY <1>3 DEF ReadFile
  <2>2. Moves(c, "stat", call[c].rev, disk, call[c].stat)
    BY <1>3, CallMoves
  <2>3. \A ch \in made : CallCertifies(c, ch)'
    BY <1>0, <2>2 DEF CallCertifies, Moves
  <2> QED
    BY <1>0, <1>00, <2>1, <2>2, <2>3, CertifiedQuietMove
<1>4. ASSUME NEW c \in Calls, ReadNothing(c) \/ ReplaceNothing(c) \/ Save(c)
      PROVE  Certified'
  <2>1. Return(c) /\ UNCHANGED <<made, rev, known, bookmark, bookmarks, broken>>
    BY <1>4 DEF ReadNothing, ReplaceNothing, Save
  <2> QED
    BY <1>0, <1>1, <2>1
<1>5. ASSUME NEW c \in Calls, Check(c) PROVE Certified'
  <2> DEFINE s == SessionOf[c]
  <2>1. UNCHANGED <<made, rev, known, bookmark, bookmarks, broken>>
    BY <1>5 DEF Check
  <2>2. CASE Return(c)
    BY <1>0, <1>1, <2>1, <2>2
  <2>3. CASE ~Return(c)
    <3>1. Moves(c, "passed", bookmark[s], call[c].bytes, call[c].stat)
      BY <1>5, <2>3, CallMoves
    <3>2. PICK answered \in BOOLEAN : ~Stale(s, bookmark[s], answered)
      BY <1>5, <2>3 DEF Check
    <3>3. s \in Sessions /\ bookmark[s] \in Revision /\ bookmark[s] <= rev
      BY <1>0, <2>1 DEF TypeOK, Certified
    <3>4. ASSUME NEW ch \in made, bookmark[s] >= 0, ch.by # s
          PROVE  ch.v <= known[s]
      <4>1. CASE ch.rev <= bookmark[s]
        BY <2>1, <3>3, <4>1 DEF Certified, MarkCertifies
      <4>2. CASE ~(ch.rev <= bookmark[s])
        <5>1. ch.rev > bookmark[s]
          BY <1>0, <3>3, <4>2 DEF Revision
        <5>2. Ordered
          BY <2>1
        <5> QED
          BY <3>2, <3>3, <3>4, <5>1, <5>2, ForeignRefused
      <4> QED
        BY <4>1, <4>2
    <3>5. ASSUME NEW ch \in made PROVE CallCertifies(c, ch)'
      BY <2>1, <3>1, <3>4 DEF CallCertifies, Moves
    <3> QED
      BY <1>0, <2>1, <3>1, <3>3, <3>5, CertifiedQuietMove
  <2> QED
    BY <2>2, <2>3
<1>6. ASSUME NEW c \in Calls, Replace(c) PROVE Certified'
  <2>1. /\ UNCHANGED <<made, rev, bookmark, bookmarks, broken>>
        /\ known' = [known EXCEPT ![SessionOf[c]] = disk + 1]
    BY <1>6 DEF Replace
  <2>2. Moves(c, "written", call[c].rev, disk + 1, call[c].stat)
    BY <1>6, CallMoves
  <2>3. \A ch \in made : CallCertifies(c, ch)'
    BY <1>0, <2>2 DEF CallCertifies, Moves
  <2>4. known' \in [Sessions -> Nat] /\ \A s \in Sessions : known[s] <= known'[s]
    <3>1. \A s \in Sessions : known[s] \in Nat /\ known[s] <= disk
      BY <1>0 DEF KnownOnDisk
    <3> QED
      BY <1>0, <2>1, <3>1
  <2> QED
    BY <1>0, <1>00, <2>1, <2>2, <2>3, <2>4, CertifiedQuietMove
<1>7. ASSUME NEW c \in Calls, Mark(c) PROVE Certified'
  <2> DEFINE s == SessionOf[c]
  <2>0. s \in Sessions /\ c \in Actors /\ call[c].bytes \in Nat /\ call[c].rev \in Revision
    BY <1>0, LocalFields
  <2>1. /\ UNCHANGED <<made, rev, bookmarks, broken>>
        /\ call[c].at = "mark"
        /\ bookmark' = [bookmark EXCEPT ![s] = call[c].rev]
        /\ known' = [known EXCEPT ![s] = Newest(@, call[c].bytes)]
    BY <1>7 DEF Mark
  <2>2. /\ known' \in [Sessions -> Nat] /\ \A q \in Sessions : known[q] <= known'[q]
        /\ call[c].bytes <= known'[s]
    BY <1>0, <2>0, <2>1 DEF Newest
  <2>3. \A q \in Sessions : bookmark'[q] <= rev /\ bookmarks'[q] <= rev
    BY <1>00, <2>0, <2>1 DEF Certified, TypeOK
  <2>4. ASSUME NEW ch \in made, ch.rev <= call[c].rev PROVE ch.v <= known'[s]
    <3>1. ch.v <= call[c].bytes
      BY <2>1, <2>4 DEF Certified, CallCertifies
    <3> QED
      BY <1>0, <2>0, <2>2, <3>1
  <2>5. ASSUME NEW q \in Sessions, NEW ch \in made PROVE MarkCertifies(q, ch)'
    <3>1. MarkCertifies(q, ch) /\ known[q] \in Nat /\ known'[q] \in Nat /\ known[q] <= known'[q]
      BY <1>0, <2>1, <2>2 DEF Certified
    <3>2. CASE q = s
      <4>1. bookmark'[q] = call[c].rev /\ bookmarks'[q] = bookmarks[q]
        BY <2>1, <3>2 DEF TypeOK
      <4> QED
        BY <1>0, <2>4, <3>1, <3>2, <4>1 DEF MarkCertifies
    <3>3. CASE q # s
      <4>1. bookmark'[q] = bookmark[q] /\ bookmarks'[q] = bookmarks[q]
        BY <2>1, <3>3 DEF TypeOK
      <4> QED
        BY <1>0, <3>1, <4>1 DEF MarkCertifies
    <3> QED
      BY <3>2, <3>3
  <2>6. \/ Moves(c, "idle", 0, 0, 0)
        \/ Moves(c, "persist", call[c].rev, 0, 0)
    BY <1>7, <2>0, CallMoves, Returns
  <2>7. CASE Moves(c, "idle", 0, 0, 0)
    <3>1. \A ch \in made : CallCertifies(c, ch)'
      BY <2>7 DEF CallCertifies, Moves
    <3> QED
      BY <1>0, <2>0, <2>1, <2>2, <2>3, <2>5, <2>7, <3>1, CertifiedMove
  <2>8. CASE Moves(c, "persist", call[c].rev, 0, 0)
    <3>1. \A ch \in made : CallCertifies(c, ch)'
      BY <2>4, <2>8 DEF CallCertifies, Moves
    <3> QED
      BY <1>00, <2>0, <2>1, <2>2, <2>3, <2>5, <2>8, <3>1, CertifiedMove
  <2> QED
    BY <2>6, <2>7, <2>8
<1>8. ASSUME NEW c \in Calls, Persist(c) PROVE Certified'
  <2> DEFINE s == SessionOf[c]
  <2>0. s \in Sessions /\ c \in Actors /\ call[c].bytes \in Nat /\ call[c].rev \in Revision
    BY <1>0, LocalFields
  <2>1. UNCHANGED <<made, rev, bookmark, known, broken>> /\ call[c].at = "persist"
    BY <1>8 DEF Persist
  <2>2. CASE Return(c) /\ UNCHANGED bookmarks
    BY <1>0, <1>1, <2>1, <2>2
  <2>3. CASE /\ Moves(c, "save", call[c].rev, call[c].bytes, call[c].stat)
             /\ bookmarks' = [bookmarks EXCEPT ![s] = call[c].rev]
    <3>1. \A ch \in made : ch.rev <= call[c].rev => ch.v <= known[s]
      BY <2>1 DEF Certified, CallCertifies
    <3>2. \A q \in Sessions : bookmark'[q] <= rev /\ bookmarks'[q] <= rev
      BY <1>00, <2>0, <2>1, <2>3 DEF Certified, TypeOK
    <3>3. ASSUME NEW q \in Sessions, NEW ch \in made PROVE MarkCertifies(q, ch)'
      <4>1. MarkCertifies(q, ch) /\ bookmark'[q] = bookmark[q] /\ known'[q] = known[q]
        BY <2>1 DEF Certified
      <4>2. CASE q = s
        <5>1. bookmarks'[q] = call[c].rev
          BY <2>3, <4>2 DEF TypeOK
        <5> QED
          BY <3>1, <4>1, <4>2, <5>1 DEF MarkCertifies
      <4>3. CASE q # s
        <5>1. bookmarks'[q] = bookmarks[q]
          BY <2>3, <4>3 DEF TypeOK
        <5> QED
          BY <4>1, <5>1 DEF MarkCertifies
      <4> QED
        BY <4>2, <4>3
    <3>4. \A ch \in made : CallCertifies(c, ch)'
      BY <2>1, <2>3, <3>1 DEF CallCertifies, Moves
    <3> QED
      BY <1>0, <1>00, <2>0, <2>1, <2>3, <3>2, <3>3, <3>4, CertifiedMove
  <2> QED
    BY <1>8, <2>2, <2>3, CallMoves
<1>9. ASSUME NEW x \in Shells, NEW p, NEW r, NEW n, NEW t, Moves(x, p, r, n, t),
             r \in Revision, r <= rev, ~broken,
             UNCHANGED <<made, rev, known, bookmark, bookmarks>>
      PROVE  Certified'
  <2>1. x \in Actors /\ x \notin Calls
    BY <1>0
  <2> QED
    BY <1>0, <1>9, <2>1, CertifiedQuietMove
<1>10. ASSUME NEW x \in Shells, Run(x) \/ ShellWrite(x) PROVE Certified'
  <2>1. UNCHANGED <<made, rev, known, bookmark, bookmarks, broken>>
    BY <1>10 DEF Run, ShellWrite
  <2>2. \E n, t : Moves(x, "running", call[x].rev, n, t)
    BY <1>10, ShellMoves
  <2> QED
    BY <1>0, <1>00, <1>9, <2>1, <2>2
<1>11. ASSUME NEW x \in Shells, Finish(x) \/ Observe(x) \/ MarkShell(x) PROVE Certified'
  <2>1. UNCHANGED <<made, rev, known, bookmark, bookmarks, broken>>
    BY <1>11 DEF Finish, Observe, MarkShell
  <2>2. \/ Moves(x, "idle", 0, 0, 0)
        \/ \E p, n, t : Moves(x, p, call[x].rev, n, t)
    BY <1>0, <1>11, ShellMoves, Returns
  <2> QED
    BY <1>0, <1>00, <1>9, <2>1, <2>2
<1>12. ASSUME NEW a \in Actors, Acquire(a) PROVE Certified'
  <2>1. UNCHANGED <<made, rev, known, bookmark, bookmarks, broken>>
    BY <1>12 DEF Acquire
  <2>2. Moves(a, "check", call[a].rev, call[a].bytes, call[a].stat)
    BY <1>12, ActorMoves
  <2>3. \A ch \in made : CallCertifies(a, ch)'
    BY <2>2 DEF CallCertifies, Moves
  <2> QED
    BY <1>0, <1>00, <2>1, <2>2, <2>3, CertifiedQuietMove
<1>13. ASSUME NEW a \in Actors, Sink(a) \/ Stat(a) PROVE Certified'
  <2>1. UNCHANGED <<made, rev, known, bookmark, bookmarks, broken>>
    BY <1>13 DEF Sink, Stat
  <2>2. call[a].at \in {"sink", "stat"}
    BY <1>13 DEF Sink, Stat
  <2>a. PICK p \in {"stat", "mark"} : \E t : Moves(a, p, call[a].rev, call[a].bytes, t)
    BY <1>13, ActorMoves
  <2>3. PICK t : Moves(a, p, call[a].rev, call[a].bytes, t)
    BY <2>a
  <2>4. ASSUME a \in Calls, NEW ch \in made PROVE CallCertifies(a, ch)'
    <3>1. CallCertifies(a, ch)
      BY <2>1, <2>4 DEF Certified
    <3> QED
      BY <2>1, <2>2, <2>3, <3>1 DEF CallCertifies, Moves
  <2> QED
    BY <1>0, <1>00, <2>1, <2>3, <2>4, CertifiedQuietMove
<1>14. ASSUME NEW a \in Actors, Record(a) PROVE Certified'
  <2> DEFINE new == Entry(a, rev + 1)
  <2>1. /\ UNCHANGED <<known, bookmark, bookmarks, broken>>
        /\ call[a].at = "written"
        /\ made' = made \cup {new} /\ rev' = new.rev
    BY <1>14 DEF Record
  <2>2. Moves(a, "sink", rev + 1, call[a].bytes, call[a].stat)
    BY <1>14, ActorMoves
  <2>3. new.rev = rev + 1 /\ new.v = call[a].bytes /\ rev' = rev + 1
    BY <2>1 DEF Entry
  <2>4. Certified
    BY <2>1
  <2>5. lock = a
    BY <2>1 DEF Guarded, Guarding
  <2>6. ASSUME NEW d \in Actors PROVE call'[d].rev <= rev'
    <3>1. call[d].rev \in Revision /\ call[d].rev <= rev
      BY <1>00, <2>1
    <3> QED
      BY <1>0, <2>2, <2>3, <3>1 DEF Moves, Revision
  <2>7. \A s \in Sessions : bookmark'[s] <= rev' /\ bookmarks'[s] <= rev'
    <3>1. \A s \in Sessions : /\ bookmark[s] \in Revision /\ bookmark[s] <= rev
                              /\ bookmarks[s] \in Revision /\ bookmarks[s] <= rev
      BY <2>4 DEF Certified, TypeOK
    <3> QED
      BY <1>0, <2>1, <2>3, <3>1 DEF Revision
  <2>8. ASSUME NEW s \in Sessions, NEW ch \in made' PROVE MarkCertifies(s, ch)'
    <3>1. CASE ch = new
      <4>1. /\ bookmark[s] \in Revision /\ bookmark[s] <= rev
            /\ bookmarks[s] \in Revision /\ bookmarks[s] <= rev
        BY <2>4 DEF Certified, TypeOK
      <4> QED
        BY <1>0, <2>1, <2>3, <3>1, <4>1 DEF MarkCertifies, Revision
    <3>2. CASE ch # new
      BY <2>1, <2>4, <3>2 DEF Certified, MarkCertifies
    <3> QED
      BY <3>1, <3>2
  <2>9. ASSUME NEW c \in Calls, NEW ch \in made' PROVE CallCertifies(c, ch)'
    <3>1. CASE c = a
      <4>1. call[a].bytes \in Nat
        BY LocalFields
      <4>2. ch.v <= call[a].bytes
        <5>1. CASE ch = new
          BY <2>3, <4>1, <5>1
        <5>2. CASE ch # new
          BY <2>1, <2>4, <3>1, <5>2 DEF Certified, CallCertifies
        <5> QED
          BY <5>1, <5>2
      <4> QED
        BY <2>2, <3>1, <4>2 DEF CallCertifies, Moves
    <3>2. CASE c # a
      <4>0. c \in Actors
        BY <1>0
      <4>1. call'[c] = call[c]
        BY <2>2, <3>2, <4>0 DEF Moves
      <4>2. call[c].at \notin {"passed", "written"}
        BY <2>5, <3>2, <4>0 DEF Guarded, Guarding
      <4>3. call[c].rev \in Revision /\ call[c].rev <= rev
        BY <1>00, <2>1, <4>0
      <4>4. CASE ch = new
        <5>1. ~(ch.rev <= call[c].rev)
          BY <1>0, <2>3, <4>3, <4>4 DEF Revision
        <5> QED
          BY <4>1, <4>2, <5>1 DEF CallCertifies
      <4>5. CASE ch # new
        <5>1. CallCertifies(c, ch)
          BY <2>1, <2>4, <4>5 DEF Certified
        <5> QED
          BY <2>1, <4>1, <5>1 DEF CallCertifies
      <4> QED
        BY <4>4, <4>5
    <3> QED
      BY <3>1, <3>2
  <2> QED
    BY <2>6, <2>7, <2>8, <2>9 DEF Certified
<1>15. CASE Restart
  <2>1. ~broken /\ rev' = rev
    BY <1>15, RestartKeeps
  <2>2. /\ UNCHANGED <<made, known, bookmarks>>
        /\ \A d \in Actors : call'[d] = Idle
        /\ bookmark' \in {bookmarks, [s \in Sessions |-> -1]}
    BY <1>15 DEF Restart, tables
  <2>3. \A d \in Actors : call'[d].rev <= rev'
    BY <1>0, <2>1, <2>2 DEF Idle
  <2>4. \A s \in Sessions : bookmark'[s] <= rev' /\ bookmarks'[s] <= rev'
    BY <1>0, <2>1, <2>2 DEF Certified
  <2>5. ASSUME NEW s \in Sessions, NEW ch \in made PROVE MarkCertifies(s, ch)'
    <3>1. MarkCertifies(s, ch) /\ ch.rev \in Nat
      BY <1>0, <2>1 DEF Certified
    <3>2. CASE bookmark' = bookmarks
      BY <2>2, <3>1, <3>2 DEF MarkCertifies
    <3>3. CASE bookmark' = [q \in Sessions |-> -1]
      <4>1. ~(ch.rev <= bookmark'[s])
        BY <3>1, <3>3
      <4> QED
        BY <2>2, <3>1, <4>1 DEF MarkCertifies
    <3> QED
      BY <2>2, <3>2, <3>3
  <2>6. \A c \in Calls, ch \in made : CallCertifies(c, ch)'
    BY <1>0, <2>2 DEF CallCertifies, Idle
  <2> QED
    BY <2>2, <2>3, <2>4, <2>5, <2>6 DEF Certified
<1>16. CASE UNCHANGED vars
  BY <1>16 DEF vars, Certified, CallCertifies, MarkCertifies
<1> QED
  BY <1>2, <1>3, <1>4, <1>5, <1>6, <1>7, <1>8, <1>10, <1>11, <1>12, <1>13, <1>14,
     <1>15, <1>16 DEF Next

(***************************************************************************)
(* The inductive invariant: BookmarkNotAhead alone is not one, a bookmark  *)
(* is only as good as the call that moves it.                              *)
(***************************************************************************)
Inv ==
    /\ TypeOK
    /\ Guarded
    /\ Recorded
    /\ KnownOnDisk
    /\ ~broken => Ordered /\ Certified

LEMMA InitInv == Init => Inv
<1> SUFFICES ASSUME Init PROVE Inv
  OBVIOUS
<1>1. /\ \A a \in Actors : call[a] = Idle
      /\ made = {} /\ ring = {} /\ changes = {} /\ disk = 0 /\ rev = 0
      /\ \A s \in Sessions : bookmark[s] = -1 /\ bookmarks[s] = -1 /\ known[s] = 0
  BY DEF Init
<1>2. TypeOK
  BY InitType
<1>3. Guarded
  BY <1>1 DEF Guarded, Guarding, Idle
<1>4. Recorded
  BY <1>1, FS_EmptySet DEF Recorded, Idle
<1>5. KnownOnDisk
  BY <1>1 DEF KnownOnDisk
<1>6. Ordered
  BY <1>1 DEF Ordered
<1>7. Certified
  BY <1>1 DEF Certified, Idle
<1> QED
  BY <1>2, <1>3, <1>4, <1>5, <1>6, <1>7 DEF Inv

LEMMA StepInv == Inv /\ [Next]_vars => Inv'
<1> SUFFICES ASSUME Inv, [Next]_vars PROVE Inv'
  OBVIOUS
<1> USE DEF Inv
<1>1. TypeOK'
  BY StepType
<1>2. Guarded'
  BY GuardedStep
<1>3. Recorded'
  BY RecordedStep
<1>4. KnownOnDisk'
  BY KnownStep
<1>5. ~broken' => Ordered'
  BY OrderedStep
<1>6. ~broken' => Certified'
  BY CertifiedStep
<1> QED
  BY <1>1, <1>2, <1>3, <1>4, <1>5, <1>6

(* The invariant holds through every interleaving of reads, writes, edits, *)
(* shell commands, failed stores and restarts (internal/filechange and the *)
(* tools that use it).                                                     *)
THEOREM InvHolds == Spec => []Inv
BY InitInv, StepInv, PTL DEF Spec

(* No bookmark runs ahead of the bytes its session has had, through any    *)
(* interleaving of reads, writes, shell commands, failed stores and        *)
(* restarts that keep the newest revision.                                 *)
THEOREM BookmarksCertify == Spec => []BookmarkNotAhead
<1>1. Inv => BookmarkNotAhead
  BY DEF Inv, Certified, MarkCertifies, BookmarkNotAhead
<1> QED
  BY <1>1, InvHolds, PTL

(* A write that got past the gate replaces nothing unseen.                 *)
THEOREM NoBlindWrites == Spec => []NobodyWritesBlindly
<1>1. Inv => NobodyWritesBlindly
  BY DEF Inv, Certified, CallCertifies, NobodyWritesBlindly
<1> QED
  BY <1>1, InvHolds, PTL

(* A foreign change above the bookmark refuses, whatever is left of it in  *)
(* the ring and the table.                                                 *)
THEOREM ForeignRefuses == Spec => []ForeignChangeRefuses
<1>1. Inv => ForeignChangeRefuses
  <2> SUFFICES ASSUME Inv, ~broken, NEW s \in Sessions, NEW ch \in made,
                      NEW answered \in BOOLEAN,
                      bookmark[s] >= 0, ch.rev > bookmark[s], ch.by # s
               PROVE  Stale(s, bookmark[s], answered)
    BY DEF ForeignChangeRefuses
  <2>1. bookmark[s] \in Revision
    BY DEF Inv, TypeOK
  <2> QED
    BY <2>1, ForeignRefused DEF Inv
<1> QED
  BY <1>1, InvHolds, PTL

(* A session's own changes never refuse it.                                *)
THEOREM OwnNeverBlocks == Spec => []OwnChangesNeverBlock
<1>1. Inv => OwnChangesNeverBlock
  <2> SUFFICES ASSUME Inv, ~broken, NEW s \in Sessions,
                      rev - bookmark[s] <= HistoryLimit,
                      \A ch \in made : ch.rev > bookmark[s] => ch.by = s /\ ch \in changes
               PROVE  ~Stale(s, bookmark[s], TRUE)
    BY DEF OwnChangesNeverBlock
  <2>1. bookmark[s] \in Revision
    BY DEF Inv, TypeOK
  <2> QED
    BY <2>1, OwnAllowed DEF Inv
<1> QED
  BY <1>1, InvHolds, PTL
=============================================================================
