----------------------------- MODULE EventStream -----------------------------
(***************************************************************************)
(* The append-only JSONL event stream of stagewarden/event_stream.py:      *)
(* append() and migrate_legacy_to_chain() run by threads of several        *)
(* processes under a thread lock and a process lock, unlocked readers,     *)
(* writes cut short, and processes that die at any point.                  *)
(*                                                                         *)
(* A line of the file is a chained record, a legacy record without chain   *)
(* metadata, or junk that json.loads rejects.  A SHA-256 digest is         *)
(* collision free, so it is represented by what it commits to: the         *)
(* sequence of events up to and including its record.                      *)
(***************************************************************************)
EXTENDS Naturals, Sequences, SequencesExt

CONSTANTS
  Threads,      \* writer threads
  Processes,    \* the processes they run in
  ProcessOf,    \* the process of each thread
  Readers,      \* threads that call read()
  Events,       \* event payloads, told apart by value only
  NoEvent,      \* the payload of a junk line
  NoThread,     \* nobody holds a lock
  Backend,      \* "advisory" (flock, msvcrt) or "excl" (the O_EXCL sidecar)
  MaxCalls,     \* bound: append and migrate calls in a behaviour
  MaxFaults     \* bound: crashes and failed writes in a behaviour

ASSUME ConstantsAssumption ==
  /\ ProcessOf \in [Threads -> Processes]
  /\ NoThread \notin Threads
  /\ NoEvent \notin Events
  /\ Backend \in {"advisory", "excl"}
  /\ MaxCalls \in Nat
  /\ MaxFaults \in Nat

-----------------------------------------------------------------------------
(* Lines of the file. *)

Genesis == << >>                          \* "0" * 64
Digest(prev, e) == Append(prev, e)

Chained(n, prev, e) ==
  [kind |-> "chained", seq |-> n, prev |-> prev, hash |-> Digest(prev, e), event |-> e]
Legacy(e) == [kind |-> "legacy", seq |-> 0, prev |-> Genesis, hash |-> Genesis, event |-> e]
Junk == [kind |-> "junk", seq |-> 0, prev |-> Genesis, hash |-> Genesis, event |-> NoEvent]

Line ==
  [kind : {"chained", "legacy"}, seq : Nat, prev : Seq(Events), hash : Seq(Events),
   event : Events] \cup {Junk}

EventsOf(f) == [i \in 1..Len(f) |-> f[i].event]

(* verify_integrity() accepts line i as the next link of the chain. *)
Linked(f, i) ==
  /\ f[i].kind = "chained"
  /\ f[i].seq = i
  /\ f[i].prev = IF i = 1 THEN Genesis ELSE f[i - 1].hash
  /\ f[i].hash = Digest(f[i].prev, f[i].event)

IsChain(f) == \A i \in 1..Len(f) : Linked(f, i)
IsLegacy(f) == \A i \in 1..Len(f) : f[i].kind = "legacy"

(* verify_integrity()["valid"]: an error-free file is all chain or all     *)
(* legacy, because either kind after the other is an error.                *)
Valid(f) == IsChain(f) \/ IsLegacy(f)

(* The last verified line of a signed stream. *)
ChainLength(f) ==
  CHOOSE n \in 0..Len(f) :
    /\ \A i \in 1..n : Linked(f, i)
    /\ n < Len(f) => ~Linked(f, n + 1)

(* What a reader remembers between its two reads of the file: a line       *)
(* number, NoLimit for max_verified_line = None, or NotReading when it is  *)
(* not reading.  No file grows longer than MaxCalls + 1 lines.             *)
NotReading == MaxCalls + 2
NoLimit == NotReading - 1

(* How far read() goes: "verified_lines" when the chain is corrupted,      *)
(* nothing when unparseable lines precede a chained record, and no limit   *)
(* otherwise: for a valid file, for one without any record that parses and *)
(* for legacy records alone behind unparseable lines.                      *)
ReadLimit(f) ==
  LET first == SelectInSeq(f, LAMBDA l : l.kind # "junk")
      turn  == SelectInSubSeq(f, first + 1, Len(f), LAMBDA l : l.kind # "legacy")
  IN  IF Valid(f) \/ first = 0 THEN NoLimit
      ELSE CASE f[first].kind = "chained" -> IF first = 1 THEN ChainLength(f) ELSE 0
             [] f[first].kind = "legacy" /\ turn = 0 -> NoLimit
             [] f[first].kind = "legacy" /\ turn # 0 ->
                  IF f[turn].kind = "junk" \/ first > 1 THEN 0 ELSE turn - 1

\* The events of the lines up to the limit that parse.
ReadUpTo(f, upTo) ==
  LET kept == {i \in 1..(IF upTo < Len(f) THEN upTo ELSE Len(f)) : f[i].kind # "junk"}
      Nth(n) == CHOOSE i \in kept : Cardinality({k \in kept : k <= i}) = n
  IN  [n \in 1..Cardinality(kept) |-> f[Nth(n)].event]

(* The record append() writes after a valid file. *)
NextLine(f, e) ==
  IF f # << >> /\ IsLegacy(f) THEN Legacy(e)
  ELSE Chained(Len(f) + 1, IF f = << >> THEN Genesis ELSE Last(f).hash, e)

(* The records migrate_legacy_to_chain() writes for a legacy file. *)
Migrated(f) ==
  [i \in 1..Len(f) |->
     Chained(i, SubSeq(EventsOf(f), 1, i - 1), f[i].event)]

-----------------------------------------------------------------------------
VARIABLES
  file,       \* the lines of events.jsonl
  eol,        \* the file is empty or ends with a newline
  temp,       \* events.jsonl.migrate.tmp
  lock,       \* the thread whose process lock is on the file, or NoThread
  rlock,      \* the thread that holds each process's RLock, or NoThread
  pc,         \* where each writer thread is
  op,         \* its call: the event it appends, or NoEvent to migrate
  line,       \* the record it has computed under the lock
  limit,      \* a reader's line limit between its two reads of the file
  view,       \* what a reader last returned
  history,    \* events in the order their write began (history variable)
  torn,       \* a record was cut short or merged (history variable)
  calls,      \* calls begun
  faults      \* crashes and failed writes so far

shared  == <<file, eol, temp>>
locks   == <<lock, rlock>>
writers == <<pc, op, line>>
readers == <<limit, view>>
ghosts  == <<history, torn>>
vars    == <<shared, locks, writers, readers, ghosts, calls, faults>>

PCs == {"idle", "rlock", "lock", "check", "write", "finish", "replace", "release"}
Holding == {"check", "write", "finish", "replace", "release"}

(* The two variables of a reader are bounded by ReadersInv below. *)
TypeOK ==
  /\ file \in Seq(Line) /\ temp \in Seq(Line)
  /\ eol \in BOOLEAN /\ torn \in BOOLEAN
  /\ lock \in Threads \cup {NoThread}
  /\ rlock \in [Processes -> Threads \cup {NoThread}]
  /\ pc \in [Threads -> PCs]
  /\ op \in [Threads -> Events \cup {NoEvent}]
  /\ line \in [Threads -> Line]
  /\ history \in Seq(Events)
  /\ calls \in Nat /\ faults \in Nat

(* A new stream, or a log an older version wrote without chain metadata. *)
Init ==
  /\ file \in {<< >>} \cup {<<Legacy(e)>> : e \in Events}
  /\ eol = TRUE /\ temp = << >>
  /\ lock = NoThread /\ rlock = [p \in Processes |-> NoThread]
  /\ pc = [t \in Threads |-> "idle"] /\ op = [t \in Threads |-> NoEvent]
  /\ line = [t \in Threads |-> Junk]
  /\ limit = [r \in Readers |-> NotReading] /\ view = [r \in Readers |-> << >>]
  /\ history = EventsOf(file) /\ torn = FALSE
  /\ calls = 0 /\ faults = 0

-----------------------------------------------------------------------------
(* Writer threads. *)

Goto(t, from, to) == pc[t] = from /\ pc' = [pc EXCEPT ![t] = to]

(* append(event) for an event, migrate_legacy_to_chain() for NoEvent. *)
Call(t, e) ==
  /\ calls < MaxCalls
  /\ calls' = calls + 1
  /\ Goto(t, "idle", "rlock")
  /\ op' = [op EXCEPT ![t] = e]
  /\ UNCHANGED <<shared, locks, line, readers, ghosts, faults>>

TakeThreadLock(t) ==
  /\ rlock[ProcessOf[t]] = NoThread
  /\ rlock' = [rlock EXCEPT ![ProcessOf[t]] = t]
  /\ Goto(t, "rlock", "lock")
  /\ UNCHANGED <<shared, lock, op, line, readers, ghosts, calls, faults>>

(* Fault: the caller goes ahead whoever has the lock file. *)
TakeProcessLockShared(t) ==
  /\ lock' = t
  /\ Goto(t, "lock", "check")
  /\ UNCHANGED <<shared, rlock, op, line, readers, ghosts, calls, faults>>

(* Fault: migration runs under the thread lock only. *)
TakeProcessLockAppendOnly(t) ==
  /\ op[t] = NoEvent \/ lock = NoThread
  /\ lock' = IF op[t] = NoEvent THEN lock ELSE t
  /\ Goto(t, "lock", "check")
  /\ UNCHANGED <<shared, rlock, op, line, readers, ghosts, calls, faults>>

TakeProcessLock(t) ==
  /\ lock = NoThread
  /\ lock' = t
  /\ Goto(t, "lock", "check")
  /\ UNCHANGED <<shared, rlock, op, line, readers, ghosts, calls, faults>>

(* The O_EXCL spin reaches its deadline; flock and msvcrt just block. *)
LockTimeout(t) ==
  /\ Backend = "excl" /\ lock # NoThread
  /\ Goto(t, "lock", "idle")
  /\ rlock' = [rlock EXCEPT ![ProcessOf[t]] = NoThread]
  /\ op' = [op EXCEPT ![t] = NoEvent]
  /\ UNCHANGED <<shared, lock, line, readers, ghosts, calls, faults>>

(* Fault: the stream is not verified before the append. *)
CanAppendUnverified == file # << >> /\ IsLegacy(file) => eol

(* append() verifies the stream and computes the record to write.  Only    *)
(* the legacy branch looks at the final newline.                           *)
CanAppend == Valid(file) /\ (file # << >> /\ IsLegacy(file) => eol)

(* Fault: a migrate call falls through to the append. *)
CheckAppendAnyCall(t) ==
  /\ CanAppend
  /\ Goto(t, "check", "write")
  /\ line' = [line EXCEPT ![t] = NextLine(file, op[t])]
  /\ UNCHANGED <<shared, locks, op, readers, ghosts, calls, faults>>

CheckAppend(t) ==
  /\ op[t] # NoEvent /\ CanAppend
  /\ Goto(t, "check", "write")
  /\ line' = [line EXCEPT ![t] = NextLine(file, op[t])]
  /\ UNCHANGED <<shared, locks, op, readers, ghosts, calls, faults>>

RefuseAppend(t) ==
  /\ op[t] # NoEvent /\ ~CanAppend
  /\ Goto(t, "check", "release")
  /\ UNCHANGED <<shared, locks, op, line, readers, ghosts, calls, faults>>

(* The write reaches the file in two parts: some bytes of the record, then *)
(* the rest with its newline.  What is already there, read back, is junk   *)
(* or ("whole") the record without its newline.  After a line that has no  *)
(* newline the bytes extend that line, which then never parses again.      *)
BeginWrite(t, cut) ==
  /\ Goto(t, "write", "finish")
  /\ history' = Append(history, op[t])
  /\ eol' = FALSE
  /\ \/ /\ eol
        /\ file' = Append(file, IF cut = "whole" THEN line[t] ELSE Junk)
        /\ UNCHANGED <<line, torn>>
     \/ /\ ~eol
        /\ file' = Append(Front(file), Junk)
        /\ line' = [line EXCEPT ![t] = Junk]
        /\ torn' = TRUE
  /\ UNCHANGED <<temp, locks, op, readers, calls, faults>>

EndWrite(t) ==
  /\ Goto(t, "finish", "release")
  /\ file' = Append(Front(file), line[t])
  /\ eol' = TRUE
  /\ UNCHANGED <<temp, locks, op, line, readers, history, torn, calls, faults>>

(* open() or write() raises OSError: the locks are released on the way out. *)
FailWrite(t) ==
  /\ faults < MaxFaults
  /\ faults' = faults + 1
  /\ torn' = (torn \/ pc[t] = "finish")
  /\ \/ Goto(t, "write", "release")
     \/ Goto(t, "finish", "release")
     \/ Goto(t, "replace", "release")
  /\ UNCHANGED <<shared, locks, op, line, readers, history, calls>>

(* migrate_legacy_to_chain(): a fully written and synced temp file. *)
CheckMigrate(t) ==
  /\ op[t] = NoEvent
  /\ file # << >> /\ IsLegacy(file) /\ eol
  /\ Goto(t, "check", "replace")
  /\ temp' = Migrated(file)
  /\ UNCHANGED <<file, eol, locks, op, line, readers, ghosts, calls, faults>>

(* "missing", "empty" or "already_chained". *)
SkipMigrate(t) ==
  /\ op[t] = NoEvent
  /\ IsChain(file)
  /\ Goto(t, "check", "release")
  /\ UNCHANGED <<shared, locks, op, line, readers, ghosts, calls, faults>>

RefuseMigrate(t) ==
  /\ op[t] = NoEvent
  /\ ~IsChain(file) /\ ~(IsLegacy(file) /\ eol)
  /\ Goto(t, "check", "release")
  /\ UNCHANGED <<shared, locks, op, line, readers, ghosts, calls, faults>>

ReplaceFile(t) ==
  /\ Goto(t, "replace", "release")
  /\ file' = temp /\ eol' = TRUE
  /\ UNCHANGED <<temp, locks, op, line, readers, ghosts, calls, faults>>

(* Fault: the thread lock is not given back. *)
ReleaseKeepsThreadLock(t) ==
  /\ Goto(t, "release", "idle")
  /\ lock' = NoThread
  /\ op' = [op EXCEPT ![t] = NoEvent]
  /\ line' = [line EXCEPT ![t] = Junk]
  /\ UNCHANGED <<shared, rlock, readers, ghosts, calls, faults>>

Release(t) ==
  /\ Goto(t, "release", "idle")
  /\ lock' = NoThread
  /\ rlock' = [rlock EXCEPT ![ProcessOf[t]] = NoThread]
  /\ op' = [op EXCEPT ![t] = NoEvent]
  /\ line' = [line EXCEPT ![t] = Junk]
  /\ UNCHANGED <<shared, readers, ghosts, calls, faults>>

(* A process dies.  The system drops its advisory lock; an O_EXCL sidecar  *)
(* file stays behind.                                                      *)
Crash(p) ==
  LET mine == {t \in Threads : ProcessOf[t] = p} IN
  /\ faults < MaxFaults
  /\ faults' = faults + 1
  /\ \E t \in mine : pc[t] # "idle"
  /\ pc' = [t \in Threads |-> IF t \in mine THEN "idle" ELSE pc[t]]
  /\ op' = [t \in Threads |-> IF t \in mine THEN NoEvent ELSE op[t]]
  /\ line' = [t \in Threads |-> IF t \in mine THEN Junk ELSE line[t]]
  /\ rlock' = [rlock EXCEPT ![p] = NoThread]
  /\ lock' = IF Backend = "advisory" /\ lock \in mine THEN NoThread ELSE lock
  /\ torn' = (torn \/ \E t \in mine : pc[t] = "finish")
  /\ UNCHANGED <<shared, readers, history, calls>>

-----------------------------------------------------------------------------
(* Readers take no lock: read() verifies the file, then opens it again. *)

BeginRead(r) ==
  /\ limit[r] = NotReading
  /\ limit' = [limit EXCEPT ![r] = ReadLimit(file)]
  /\ UNCHANGED <<shared, locks, writers, view, ghosts, calls, faults>>

EndRead(r) ==
  /\ limit[r] # NotReading
  /\ limit' = [limit EXCEPT ![r] = NotReading]
  /\ view' = [view EXCEPT ![r] = ReadUpTo(file, limit[r])]
  /\ UNCHANGED <<shared, locks, writers, ghosts, calls, faults>>

-----------------------------------------------------------------------------
(* What a thread does once called, and everything that may happen. *)
Step(t) ==
  \/ TakeThreadLock(t) \/ TakeProcessLock(t) \/ LockTimeout(t)
  \/ CheckAppend(t) \/ RefuseAppend(t)
  \/ \E cut \in {"part", "whole"} : BeginWrite(t, cut)
  \/ EndWrite(t)
  \/ CheckMigrate(t) \/ SkipMigrate(t) \/ RefuseMigrate(t) \/ ReplaceFile(t)
  \/ Release(t)

Next ==
  \/ \E t \in Threads :
       \/ \E e \in Events \cup {NoEvent} : Call(t, e)
       \/ Step(t)
       \/ FailWrite(t)
  \/ \E p \in Processes : Crash(p)
  \/ \E r \in Readers : BeginRead(r) \/ EndRead(r)

Spec == Init /\ [][Next]_vars

(* The system schedules every running thread; calls, faults and reads are  *)
(* the environment's choice.                                               *)
FairSpec == Spec /\ \A t \in Threads : WF_vars(Step(t))

-----------------------------------------------------------------------------
(* Properties. *)

(* The two locks exclude every other writer from the moment the stream is  *)
(* verified to the moment the call ends: verify, hash and write are one    *)
(* critical section, also beside a stale O_EXCL file or a dead process.    *)
OneWriter ==
  \A t \in Threads : pc[t] \in Holding => lock = t /\ rlock[ProcessOf[t]] = t

(* No interleaving of append() and migrate_legacy_to_chain() leaves chained *)
(* and legacy records in one file: an append never acts on a stream format *)
(* that changed after it looked.                                           *)
Mixed(f) ==
  \E i, j \in 1..Len(f) : f[i].kind = "chained" /\ f[j].kind = "legacy"

NoMixing == ~Mixed(file)

Damaged == ~Valid(file) /\ \A t \in Threads : pc[t] # "finish"

(* Concurrent writers alone never corrupt the stream: verify_integrity()   *)
(* fails between writes only after some write was cut short.               *)
DamageNeedsFault == Damaged => torn

(* Writers alone do no harm, however their calls, timeouts and deaths      *)
(* interleave: one at a time verifies, hashes and writes, no append acts   *)
(* on a stream format that changed after it looked, and the stream         *)
(* verifies unless some write was cut short.                               *)
WritersApart == OneWriter /\ NoMixing /\ DamageNeedsFault

(* An unlocked read() that overlaps appends, a migration or a crash still  *)
(* returns a prefix of what was written: nothing skipped, reordered or     *)
(* made up, though it verifies one state of the file and reads another.    *)
ViewIsHistory ==
  \A r \in Readers : limit[r] \in 0..NotReading /\ IsPrefix(view[r], history)

(* What the safety proofs carry from step to step: who holds which lock,   *)
(* and what a thread inside the critical section knows of the file.        *)
WriterInv(t) ==
  /\ pc[t] = "lock" => rlock[ProcessOf[t]] = t
  /\ pc[t] \in {"write", "finish"} => op[t] \in Events
  /\ pc[t] = "write" => Valid(file) /\ line[t] = NextLine(file, op[t])
  /\ pc[t] = "finish" =>
       /\ file # << >> /\ ~eol
       /\ ~Mixed(Append(Front(file), line[t]))
       /\ torn \/ Valid(Append(Front(file), line[t]))
  /\ pc[t] = "replace" => IsLegacy(file) /\ temp = Migrated(file)

IInv ==
  /\ TypeOK /\ OneWriter /\ NoMixing /\ DamageNeedsFault
  /\ eol \/ file # << >>
  /\ \A t \in Threads : WriterInv(t)

(* What the proofs about the content of the file carry beside IInv: a file *)
(* is at most one unreadable line away from valid, its lines are the       *)
(* history in its order, and the calls that may still begin a write are    *)
(* counted.                                                                *)
Waiting == {t \in Threads : pc[t] \in {"rlock", "lock", "check", "write"}}

Ending(t) ==
  /\ pc[t] = "finish" /\ line[t] # Junk =>
       /\ line[t] = NextLine(Front(file), op[t])
       /\ Len(history) = Len(file) /\ history[Len(file)] = op[t]
  /\ pc[t] = "replace" => eol

HistoryInv ==
  /\ file # << >> => Valid(Front(file)) /\ (Last(file) = Junk \/ Valid(file))
  /\ Len(file) <= Len(history) /\ (Valid(file) => Len(file) = Len(history))
  /\ \A i \in 1..Len(file) : file[i] # Junk => file[i].event = history[i]
  /\ \A t \in Threads : Ending(t)
  /\ IsFiniteSet(Waiting)
  /\ Len(history) + Cardinality(Waiting) <= calls + 1
  /\ calls <= MaxCalls

ReadersInv == view \in [Readers -> Seq(Events)] /\ DOMAIN limit = Readers /\ ViewIsHistory

(* Records that survive: the well-formed prefix up to the last newline. *)
Durable(f, terminated) ==
  LET legacy == SelectInSeq(f, LAMBDA l : l.kind # "legacy")
      n == IF f # << >> /\ f[1].kind = "legacy"
             THEN IF legacy = 0 THEN Len(f) ELSE legacy - 1
             ELSE ChainLength(f)
  IN  EventsOf(SubSeq(f, 1, IF n = Len(f) /\ ~terminated THEN n - 1 ELSE n))

Log == INSTANCE EventLog WITH log <- Durable(file, eol), closed <- Damaged

(* The stream implements the append-only log: terminated records are never *)
(* lost or changed, each write adds one, and a damaged stream is frozen.   *)
ImplementsLog == Log!Spec

(* Every call returns, refused or timed out if need be: the two locks      *)
(* never leave a live thread waiting for ever.                             *)
CallsReturn == \A t \in Threads : pc[t] # "idle" ~> pc[t] = "idle"
=============================================================================
