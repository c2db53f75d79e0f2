------------------------------ MODULE FileRead ------------------------------
(***************************************************************************)
(* The complete read of a file by stagewarden/executor.py: the file is     *)
(* read in chunks that are kept in the node knowledge store, in a session  *)
(* found again by the step and the hash of the content.  Executors of      *)
(* several processes may read for the same step, each may die at any point,*)
(* and the file may be changed, removed or changed back meanwhile.         *)
(*                                                                         *)
(* A content is a member of Versions; a chunk is its first and its last    *)
(* offset and the content it was cut from.  The checks and the write of    *)
(* the store are two steps: its lock is of one process only, and a         *)
(* transaction of the database begins with the first write.                *)
(***************************************************************************)
EXTENDS Naturals

CONSTANTS
  Readers,   \* executors that read the file for one step
  Versions,  \* contents of the file; two contents have two hashes
  Missing,   \* the file does not exist or cannot be decoded
  Length,    \* Length[v]: characters of v
  Sizes      \* chunk sizes the actions ask for

FileConstants ==
  /\ Missing \notin Versions
  /\ Length \in [Versions -> Nat]
  /\ Sizes \subseteq Nat \ {0}

ASSUME FileAssumption == FileConstants

VARIABLES
  file,      \* the content of the file
  session,   \* durable: the row of a content in file_reads
  chunks,    \* durable: its rows in file_read_chunks
  pc,        \* where each reader is
  version,   \* the content it has found at the first probe
  size,      \* the chunk size it was asked for
  row,       \* its copy of the session
  piece      \* the chunk it has read last

store  == <<session, chunks>>
reader == <<pc, version, size, row, piece>>
vars   == <<file, store, reader>>

NoSession == [size |-> 0, next |-> 0, status |-> "none"]
Session == [size : Sizes \cup {0}, next : Nat, status : {"none", "active", "complete"}]
Piece == [start : Nat, end : Nat, from : Versions]
NoPiece == [start |-> 0, end |-> 0, from |-> Missing]

TypeOK ==
  /\ file \in Versions \cup {Missing}
  /\ session \in [Versions -> Session]
  /\ \A v \in Versions : session[v].status # "none" => session[v].size \in Sizes
  /\ chunks \in [Versions -> SUBSET Piece]
  /\ pc \in [Readers -> {"idle", "look", "insert", "read", "check", "write", "status",
                         "finish", "close", "content"}]
  /\ version \in [Readers -> Versions \cup {Missing}]
  /\ size \in [Readers -> Sizes \cup {0}]
  /\ row \in [Readers -> Session]
  /\ piece \in [Readers -> Piece \cup {NoPiece}]
  /\ \A r \in Readers : pc[r] # "idle" => version[r] \in Versions /\ size[r] \in Sizes
  /\ \A r \in Readers : pc[r] \in {"check", "write"} =>
       piece[r] \in Piece /\ piece[r].end <= Length[version[r]]

Init ==
  /\ file \in Versions
  /\ session = [v \in Versions |-> NoSession]
  /\ chunks = [v \in Versions |-> {}]
  /\ pc = [r \in Readers |-> "idle"]
  /\ version = [r \in Readers |-> Missing] /\ size = [r \in Readers |-> 0]
  /\ row = [r \in Readers |-> NoSession]
  /\ piece = [r \in Readers |-> NoPiece]

-----------------------------------------------------------------------------
Goto(r, from, to) == pc[r] = from /\ pc' = [pc EXCEPT ![r] = to]

\* The call is over: its result or a failure is returned, an exception leaves it,
\* or its process dies.
Leave(r) ==
  /\ pc' = [pc EXCEPT ![r] = "idle"]
  /\ version' = [version EXCEPT ![r] = Missing]
  /\ size' = [size EXCEPT ![r] = 0]
  /\ row' = [row EXCEPT ![r] = NoSession]
  /\ piece' = [piece EXCEPT ![r] = NoPiece]
  /\ UNCHANGED <<file, store>>

\* The first probe of the file.
Begin(r, k) ==
  /\ file # Missing
  /\ Goto(r, "idle", "look")
  /\ version' = [version EXCEPT ![r] = file]
  /\ size' = [size EXCEPT ![r] = k]
  /\ UNCHANGED <<file, store, row, piece>>

Load(r) == row' = [row EXCEPT ![r] = session'[version[r]]]

\* begin_file_read(): a session of this content goes on if it has the same
\* chunk size, and is made if there is none; of two insertions one fails.
Look(r) ==
  LET found == session[version[r]]
  IN  /\ pc[r] = "look"
      /\ \/ /\ found.status = "none"
            /\ Goto(r, "look", "insert")
            /\ UNCHANGED <<file, store, version, size, row, piece>>
         \/ /\ found.status # "none" /\ found.size = size[r]
            /\ Goto(r, "look", "read")
            /\ UNCHANGED <<file, store, version, size, piece>>
            /\ Load(r)
         \/ found.status # "none" /\ found.size # size[r] /\ Leave(r)

Insert(r) ==
  /\ pc[r] = "insert"
  /\ \/ /\ session[version[r]].status = "none"
        /\ Goto(r, "insert", "read")
        /\ session' = [session EXCEPT ![version[r]] =
                         [size |-> size[r], next |-> 0, status |-> "active"]]
        /\ Load(r)
        /\ UNCHANGED <<file, chunks, version, size, piece>>
     \/ session[version[r]].status # "none" /\ Leave(r)

Unread(r) == row[r].status = "active" /\ row[r].next < Length[version[r]]

Lesser(a, b) == IF a < b THEN a ELSE b

\* Mutant: the chunk is taken whatever the file has become.
ReadChunkOfAny(r) ==
  /\ pc[r] = "read" /\ Unread(r)
  /\ \/ /\ file # Missing
        /\ Goto(r, "read", "check")
        /\ piece' = [piece EXCEPT ![r] =
             [start |-> row[r].next, from |-> file,
              end |-> Lesser(row[r].next + row[r].size, Length[version[r]])]]
        /\ UNCHANGED <<file, store, version, size, row>>
     \/ file = Missing /\ Leave(r)

\* Mutant: the last chunk is as long as the others.
ReadChunkUncut(r) ==
  /\ pc[r] = "read" /\ Unread(r)
  /\ \/ /\ file = version[r]
        /\ Goto(r, "read", "check")
        /\ piece' = [piece EXCEPT ![r] =
             [start |-> row[r].next, from |-> file, end |-> row[r].next + row[r].size]]
        /\ UNCHANGED <<file, store, version, size, row>>
     \/ file # version[r] /\ Leave(r)

\* read_chunk() at the offset of the session, refused if the hash has changed.
ReadChunk(r) ==
  /\ pc[r] = "read" /\ Unread(r)
  /\ \/ /\ file = version[r]
        /\ Goto(r, "read", "check")
        /\ piece' = [piece EXCEPT ![r] =
             [start |-> row[r].next, from |-> file,
              end |-> Lesser(row[r].next + row[r].size, Length[file])]]
        /\ UNCHANGED <<file, store, version, size, row>>
     \/ file # version[r] /\ Leave(r)

\* checkpoint_file_chunk(), its checks.
Check(r) ==
  LET s == session[version[r]]
      accepted == /\ s.status = "active" /\ piece[r].start = s.next
                  /\ piece[r].end <= Length[version[r]]
  IN  /\ pc[r] = "check"
      /\ \/ accepted /\ Goto(r, "check", "write")
                     /\ UNCHANGED <<file, store, version, size, row, piece>>
         \/ ~accepted /\ Leave(r)

\* Mutant: the chunk is written and the offset of the session is not.
WriteChunkOnly(r) ==
  /\ Goto(r, "write", "status")
  /\ chunks' = [chunks EXCEPT ![version[r]] =
                  {c \in @ : c.start # piece[r].start} \cup {piece[r]}]
  /\ piece' = [piece EXCEPT ![r] = NoPiece]
  /\ UNCHANGED <<file, session, version, size, row>>

\* Its write, one transaction.
WriteChunk(r) ==
  /\ Goto(r, "write", "status")
  /\ chunks' = [chunks EXCEPT ![version[r]] =
                  {c \in @ : c.start # piece[r].start} \cup {piece[r]}]
  /\ session' = [session EXCEPT ![version[r]].next = piece[r].end]
  /\ piece' = [piece EXCEPT ![r] = NoPiece]
  /\ UNCHANGED <<file, version, size, row>>

\* The session it returns.
Status(r) ==
  /\ Goto(r, "status", "read")
  /\ UNCHANGED <<file, store, version, size, piece>>
  /\ Load(r)

\* The last probe of the file.
Probe(r) ==
  /\ pc[r] = "read" /\ ~Unread(r)
  /\ \/ /\ file = version[r]
        /\ Goto(r, "read", "finish")
        /\ UNCHANGED <<file, store, version, size, row, piece>>
     \/ file # version[r] /\ Leave(r)

\* complete_file_read(): its checks, and its write.
Finish(r) ==
  LET s == session[version[r]]
      whole == s.status = "active" /\ s.next = Length[version[r]]
  IN  /\ pc[r] = "finish"
      /\ \/ whole /\ Goto(r, "finish", "close")
                  /\ UNCHANGED <<file, store, version, size, row, piece>>
         \/ ~whole /\ Leave(r)

Close(r) ==
  /\ Goto(r, "close", "content")
  /\ session' = [session EXCEPT ![version[r]].status = "complete"]
  /\ UNCHANGED <<file, chunks, version, size, row, piece>>

\* read_file_content(): the chunks in the order of their offsets are returned.
Content(r) == pc[r] = "content" /\ Leave(r)

-----------------------------------------------------------------------------
\* The process of the reader dies; another one reads for the step again.
Crash(r) == pc[r] # "idle" /\ Leave(r)

Edit ==
  /\ file' \in (Versions \cup {Missing}) \ {file}
  /\ UNCHANGED <<store, reader>>

Step(r) ==
  \/ Look(r) \/ Insert(r) \/ ReadChunk(r) \/ Check(r) \/ WriteChunk(r) \/ Status(r)
  \/ Probe(r) \/ Finish(r) \/ Close(r) \/ Content(r)

Next ==
  \/ \E r \in Readers : Step(r) \/ Crash(r) \/ \E k \in Sizes : Begin(r, k)
  \/ Edit

Spec == Init /\ [][Next]_vars

\* Nothing in a read waits for anything but the database and the file system.
FairSpec == Spec /\ \A r \in Readers : WF_vars(Step(r))

-----------------------------------------------------------------------------
(* Properties. *)

\* The chunks, put together in the order of their offsets, are the content v:
\* all of them are cut from it, and each character is in exactly one.
Covers(c, p) == c.start <= p /\ p < c.end
Whole(v) ==
  /\ \A c \in chunks[v] : c.from = v /\ c.end <= Length[v]
  /\ \A p \in 0..(Length[v] - 1) : \E c \in chunks[v] :
       Covers(c, p) /\ \A d \in chunks[v] : Covers(d, p) => d = c

\* What a complete read returns, and what its reference names ever after, is
\* one content of the file from end to end, though it was read in chunks by
\* several executors with crashes and changes of the file between them.
WholeFile ==
  /\ \A v \in Versions : session[v].status = "complete" => Whole(v)
  /\ \A r \in Readers : pc[r] = "content" => Whole(version[r])

\* What the safety proofs carry from step to step. The chunks of a content tile
\* it from its beginning, each as long as the session says; next offsets, and the
\* offsets of chunks about to be written, are ends of chunks.
Tiled(S, v, k) ==
  /\ \A c \in S : /\ c.from = v /\ c.start < c.end
                  /\ c.end = Lesser(c.start + k, Length[v])
  /\ \A c, d \in S : c.start < d.start => c.end <= d.start
  /\ \A c \in S : \A p \in 0..(c.end - 1) : \E d \in S : Covers(d, p)

Boundary(S, p) == p = 0 \/ \E c \in S : c.end = p

SessionInv(v) ==
  /\ Tiled(chunks[v], v, session[v].size)
  /\ Boundary(chunks[v], session[v].next)
  /\ session[v].status = "none" => chunks[v] = {}
  /\ session[v].status = "complete" => Boundary(chunks[v], Length[v])

ReaderInv(r) ==
  LET v == version[r]
  IN  /\ pc[r] \notin {"idle", "look", "insert"} => session[v].status # "none"
      /\ pc[r] = "read" => row[r].size = session[v].size
      /\ pc[r] \in {"check", "write"} =>
           /\ piece[r].from = v /\ piece[r].start < piece[r].end
           /\ piece[r].end = Lesser(piece[r].start + session[v].size, Length[v])
      /\ pc[r] = "write" => Boundary(chunks[v], piece[r].start)
      /\ pc[r] \in {"close", "content"} => Boundary(chunks[v], Length[v])

IInv ==
  /\ TypeOK
  /\ \A v \in Versions : SessionInv(v)
  /\ \A r \in Readers : ReaderInv(r)

\* Every read returns: no chunk of another reader, and no change of the file,
\* makes it go round for ever.
ReadsReturn == \A r \in Readers : pc[r] # "idle" ~> pc[r] = "idle"
=============================================================================
