--------------------------- MODULE ChunkLogProofs ---------------------------
(***************************************************************************)
(* A log that waits at the end of every chunk can be sorted chunk by chunk.*)
(***************************************************************************)
EXTENDS ChunkLog, TLAPS

ChunkType ==
  /\ next \in Nat /\ chunk \in Nat
  /\ pending \subseteq Nat
  /\ done \subseteq [seq : Nat, chunk : Nat]

\* Numbers in use are smaller than next, and chunks are not ahead of the one being
\* filled.
Numbered ==
  /\ \A s \in pending : s < next
  /\ \A d \in done : d.seq < next /\ d.chunk <= chunk

\* What is pending comes behind all earlier chunks.
PendingLast == \A d \in done, s \in pending : d.chunk < chunk => d.seq < s

ChunkInv == ChunkType /\ Numbered /\ PendingLast /\ ChunksSorted

\* The empty log has the invariant.
LEMMA ChunkInit == Init => ChunkInv
BY DEF Init, ChunkInv, ChunkType, Numbered, PendingLast, ChunksSorted

\* Submitting, completing and going on to the next chunk keep it.
LEMMA ChunkNext == ChunkInv /\ [Next]_vars => ChunkInv'
<1> SUFFICES ASSUME ChunkInv, [Next]_vars PROVE ChunkInv'
  OBVIOUS
<1> USE DEF ChunkInv, ChunkType, Numbered, PendingLast, ChunksSorted
<1>1. CASE Submit
  BY <1>1 DEF Submit
<1>2. CASE Refuse
  BY <1>2 DEF Refuse
<1>3. ASSUME NEW s \in pending, Complete(s) PROVE ChunkInv'
  <2>1. /\ pending' = pending \ {s} /\ next' = next /\ chunk' = chunk
        /\ done' = done \cup {[seq |-> s, chunk |-> chunk]}
    BY <1>3 DEF Complete
  <2>2. ChunkType' /\ Numbered'
    BY <1>3, <2>1
  <2>3. PendingLast'
    BY <1>3, <2>1
  <2>4. ChunksSorted'
    BY <1>3, <2>1
  <2> QED
    BY <2>2, <2>3, <2>4
<1>4. CASE NextChunk
  BY <1>4 DEF NextChunk
<1>5. CASE UNCHANGED vars
  BY <1>5 DEF vars
<1> QED
  BY <1>1, <1>2, <1>3, <1>4, <1>5 DEF Next

\* Whatever implements ChunkLog can be read back by sorting its chunks one by one
\* (RecoverWALChunk).
THEOREM ChunksSortedCorrect == Spec => []ChunksSorted
<1>1. ChunkInv => ChunksSorted
  BY DEF ChunkInv
<1> QED
  BY <1>1, ChunkInit, ChunkNext, PTL DEF Spec
=============================================================================
