------------------------------ MODULE ChunkLog ------------------------------
(***************************************************************************)
(* What recovery relies on when it sorts a ZWAL log one chunk at a time    *)
(* (TryRecoverWAL and RecoverWALChunk): entries are numbered as they are   *)
(* submitted, complete in any order, and the log goes on to the next chunk *)
(* only when every entry it has submitted is in the one before.            *)
(***************************************************************************)
EXTENDS Naturals

VARIABLES
  next,             \* sequence number of the next entry
  chunk,            \* the chunk that is being filled
  pending,          \* numbers of the entries submitted and not completed
  done              \* those completed, with their chunks

vars == <<next, chunk, pending, done>>

Init == next = 0 /\ chunk = 0 /\ pending = {} /\ done = {}

Submit ==
  /\ pending' = pending \cup {next}
  /\ next' = next + 1
  /\ UNCHANGED <<chunk, done>>

\* An entry the device refuses uses up its number
Refuse == next' = next + 1 /\ UNCHANGED <<chunk, pending, done>>

Complete(s) ==
  /\ s \in pending
  /\ pending' = pending \ {s}
  /\ done' = done \cup {[seq |-> s, chunk |-> chunk]}
  /\ UNCHANGED <<next, chunk>>

NextChunk ==
  /\ pending = {}
  /\ chunk' = chunk + 1
  /\ UNCHANGED <<next, pending, done>>

Next == Submit \/ Refuse \/ (\E s \in pending : Complete(s)) \/ NextChunk

Spec == Init /\ [][Next]_vars

\* Sorting the chunks one by one sorts the log: an entry in a later chunk has the
\* greater sequence number (RecoverWALChunk).
ChunksSorted == \A a, b \in done : a.chunk < b.chunk => a.seq < b.seq
=============================================================================
