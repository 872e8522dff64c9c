--------------------------- MODULE ZWalExtentProofs ---------------------------
(***************************************************************************)
(* What the log holds: its entries match the file's extents and, with the  *)
(* default buffer of one block, the application's bytes; a closed file is  *)
(* complete; and the extent a mount goes on from is on the device.         *)
(***************************************************************************)
EXTENDS ZWalProofs

USE SizeAssumption, BarrierAssumption, DeviceAssumption, WorkloadAssumption

-----------------------------------------------------------------------------
(***************************************************************************)
(* Extents.  There are as many of them as entries, and a new entry has the *)
(* largest sequence number, so that its rank is its extent's index.        *)
(***************************************************************************)

ExtentInv ==
  /\ BarrierInv
  /\ IsFiniteSet(Entries) /\ Cardinality(Entries) = Len(extents_)
  /\ ExtentsFollowSeq

\* An append that completes moves its entry from the queue to the device.
LEMMA LandEntries ==
  ASSUME NEW e \in inflight, Land(e)
  PROVE  Entries' = Entries
<1>1. inflight' = inflight \ {e} /\ landed' = landed \cup {[entry |-> e, dpos |-> dwp]}
  BY DEF Land
<1>2. {l.entry : l \in landed'} = {l.entry : l \in landed} \cup {e}
  <2> DEFINE new == [entry |-> e, dpos |-> dwp]
  <2>1. new.entry = e
    OBVIOUS
  <2> HIDE DEF new
  <2>2. landed' = landed \cup {new}
    BY <1>1 DEF new
  <2> QED
    BY <2>1, <2>2
<1> QED
  BY <1>1, <1>2 DEF Entries

\* Only SparseAppend adds an entry or an extent.
LEMMA EntriesKept ==
  ASSUME [Next]_vars, ~SparseAppend
  PROVE  Entries' = Entries /\ extents_' = extents_ /\ file_size_' = file_size_
<1> USE DEF vars, file, device
<1>1. ASSUME NEW e \in inflight, Land(e)
      PROVE  Entries' = Entries /\ extents_' = extents_ /\ file_size_' = file_size_
  BY <1>1, LandEntries DEF Land
<1>2. CASE UNCHANGED <<inflight, landed, extents_, file_size_>>
  BY <1>2 DEF Entries
<1> QED
  BY <1>1, <1>2
  DEF Next, Flush, SyncStep, LandSome, AppendCall, BufferedWrite, FlushBuffer,
      FlushBufferNoSpace, SparseBarrier, ZoneFull, ZoneFullNoSpace, FlushReturn,
      SparseAppendError, SyncCall, DataSyncWALSync, DataSyncLock, SyncReturn, FsyncReturn,
      CloseWR, CloseActiveZone, Failure, SparseBarrierError, FlushBufferUnlogged,
      ZoneFullUnlogged, FsyncUnlogged, CloseWRUnlogged

\* What SparseAppend adds: one entry and one extent of the same length
LEMMA AppendAdds ==
  ASSUME TypeInv, SparseAppend
  PROVE  /\ Entries' = Entries \cup {NewEntry}
         /\ WrSize - HeaderSize \in Nat /\ WrSize - HeaderSize <= left
         /\ NewEntry.data = SubSeq(buffer, 1, WrSize - HeaderSize)
         /\ Len(NewEntry.data) = WrSize - HeaderSize
         /\ Len(extents_') = Len(extents_) + 1
         /\ \A i \in 1..Len(extents_) : extents_'[i] = extents_[i]
         /\ extents_'[Len(extents_) + 1].length = WrSize - HeaderSize
<1> DEFINE n == WrSize - HeaderSize
           x == [zone |-> active_zone_, length |-> n]
<1>1. n \in Nat /\ n <= left
  BY WrSizeBounds DEF SparseAppend, HeaderSize
<1>2. n <= Len(buffer) /\ buffer \in Seq(Nat)
  BY <1>1 DEF TypeInv, TypeOK, Control
<1>3. Entries' = Entries \cup {NewEntry}
  BY DEF SparseAppend, Entries
<1>4. NewEntry.data = SubSeq(buffer, 1, n)
  BY DEF NewEntry
<1>5. extents_' = Append(extents_, x) /\ x \in [zone : Nat, length : Nat] /\ x.length = n
  BY <1>1 DEF SparseAppend, TypeInv, TypeOK
<1>6. extents_ \in Seq([zone : Nat, length : Nat])
  BY DEF TypeInv, TypeOK, ExtentList
<1> HIDE DEF n, x
<1>7. Len(SubSeq(buffer, 1, n)) = n
  BY <1>1, <1>2
<1>8. /\ Len(extents_') = Len(extents_) + 1
      /\ \A i \in 1..Len(extents_) : extents_'[i] = extents_[i]
      /\ extents_'[Len(extents_) + 1] = x
  BY <1>5, <1>6, AppendProperties
<1> QED
  BY <1>1, <1>3, <1>4, <1>5, <1>7, <1>8 DEF n

\* Every step keeps extents and entries paired.
LEMMA ExtentNext == ExtentInv /\ [Next]_vars => ExtentInv'
<1> SUFFICES ASSUME ExtentInv, [Next]_vars PROVE ExtentInv'
  OBVIOUS
<1>1. BarrierInv'
  BY BarrierNext DEF ExtentInv
<1>2. CASE ~SparseAppend
  <2>1. Entries' = Entries /\ extents_' = extents_
    BY <1>2, EntriesKept
  <2> QED
    BY <1>1, <2>1 DEF ExtentInv, ExtentsFollowSeq
<1>3. CASE SparseAppend
  <2>0. TypeInv /\ SeqFollowsHost /\ CanAppend
    BY <1>3 DEF ExtentInv, BarrierInv, SparseAppend
  <2>1. NewEntry \in Entry /\ NewEntry.seq = wal_seq_ /\ wal_seq_ \in Nat
    BY <2>0, NewEntryType DEF TypeInv, TypeOK
  <2>2. \A e \in Entries : e.seq \in Nat /\ e.seq < wal_seq_
    BY <2>0 DEF TypeInv, TypeOK, Entries, Entry, SeqFollowsHost
  <2>3. Entries' = Entries \cup {NewEntry} /\ NewEntry \notin Entries
    BY <1>3, <2>0, <2>1, <2>2, AppendAdds
  <2>4. IsFiniteSet(Entries') /\ Cardinality(Entries') = Cardinality(Entries) + 1
    BY <2>3, FS_AddElement DEF ExtentInv
  <2>5. Len(extents_') = Len(extents_) + 1 /\ Len(extents_) \in Nat
    BY <1>3, <2>0, AppendAdds DEF TypeInv, TypeOK, ExtentList
  <2>6. DOMAIN extents_ = 1..Len(extents_) /\ DOMAIN extents_' = 1..(Len(extents_) + 1)
    BY <1>1, <2>0, <2>5 DEF BarrierInv, TypeInv, TypeOK, ExtentList
  <2>7. ASSUME NEW e \in Entries
        PROVE  LET i == 1 + Cardinality({f \in Entries' : f.seq < e.seq})
               IN  i \in DOMAIN extents_' /\ extents_'[i].length = Len(e.data)
    <3>1. {f \in Entries' : f.seq < e.seq} = {f \in Entries : f.seq < e.seq}
      BY <2>1, <2>2, <2>3
    <3> DEFINE i == 1 + Cardinality({f \in Entries : f.seq < e.seq})
    <3>2. i \in DOMAIN extents_ /\ extents_[i].length = Len(e.data)
      BY DEF ExtentInv, ExtentsFollowSeq
    <3> HIDE DEF i
    <3>3. i \in DOMAIN extents_' /\ extents_'[i] = extents_[i]
      BY <1>3, <2>0, <2>5, <2>6, <3>2, AppendAdds
    <3> QED
      BY <3>1, <3>2, <3>3 DEF i
  <2>8. LET i == 1 + Cardinality({f \in Entries' : f.seq < NewEntry.seq})
        IN  i \in DOMAIN extents_' /\ extents_'[i].length = Len(NewEntry.data)
    <3>1. {f \in Entries' : f.seq < NewEntry.seq} = Entries
      BY <2>1, <2>2, <2>3
    <3> DEFINE i == 1 + Cardinality({f \in Entries' : f.seq < NewEntry.seq})
    <3>2. i = Len(extents_) + 1
      <4>1. i = 1 + Cardinality(Entries)
        BY <3>1
      <4>2. Cardinality(Entries) = Len(extents_)
        BY DEF ExtentInv
      <4> QED
        BY <2>5, <4>1, <4>2
    <3>3. extents_'[Len(extents_) + 1].length = Len(NewEntry.data)
      BY <1>3, <2>0, AppendAdds
    <3> HIDE DEF i
    <3>4. i \in DOMAIN extents_' /\ extents_'[i].length = Len(NewEntry.data)
      BY <2>5, <2>6, <3>2, <3>3
    <3> QED
      BY <3>4 DEF i
  <2>9. ExtentsFollowSeq'
    BY <2>3, <2>7, <2>8 DEF ExtentsFollowSeq
  <2> QED
    BY <1>1, <2>4, <2>5, <2>9 DEF ExtentInv
<1> QED
  BY <1>2, <1>3

\* For all constants: the i-th extent of the file has the length of the entry with the
\* i-th smallest sequence number, whatever appends were refused, zones crossed and
\* completions reordered.  WALPositionedRead pairs the two by index.
THEOREM ExtentsFollowSeqCorrect == Spec => []ExtentsFollowSeq
<1>1. Init => ExtentInv
  <2> SUFFICES ASSUME Init PROVE ExtentInv
    OBVIOUS
  <2>1. Entries = {} /\ extents_ = << >>
    BY DEF Init, Entries
  <2> QED
    BY <2>1, BarrierInit, FS_EmptySet DEF ExtentInv, ExtentsFollowSeq
<1>2. ExtentInv => ExtentsFollowSeq
  BY DEF ExtentInv
<1> QED
  BY <1>1, <1>2, ExtentNext, PTL DEF Spec

-----------------------------------------------------------------------------
(***************************************************************************)
(* The active extent.  A zone is allocated with nothing in flight, so that *)
(* the host's write pointer is then the device's.                          *)
(***************************************************************************)

StartInv ==
  /\ BarrierInv
  /\ syncer.kind # "fsync"
  /\ active_zone_ = 0 => inflight = {}
  /\ ActiveExtentOnDevice

\* With nothing in flight, host and device agree on the write pointer.
LEMMA PointersMeet ==
  ASSUME BarrierInv, inflight = {}
  PROVE  wp_ = dwp
<1>1. Outstanding = {}
  BY DEF Outstanding
<1>2. wp_ \in Nat /\ dwp \in Nat
  BY DEF BarrierInv, TypeInv, TypeOK
<1> QED
  BY <1>1, <1>2, FS_EmptySet DEF BarrierInv, Pointers

\* Without Fsync the persisted start of the active extent stays on the device.
LEMMA StartNext ==
  ASSUME "fsync" \notin SyncKinds
  PROVE  StartInv /\ [Next]_vars => StartInv'
<1> SUFFICES ASSUME StartInv, [Next]_vars PROVE StartInv'
  OBVIOUS
<1> USE DEF file, device, writer, vars
<1>1. BarrierInv' /\ TypeInv /\ dwp \in Nat /\ syncer \in Syncer
  BY BarrierNext DEF StartInv, BarrierInv, TypeInv, TypeOK
<1>2. Idle.kind = "none"
  BY <1>1, IdleType
<1>3. ASSUME AllocateNewZone, inflight = {}, UNCHANGED <<dwp, inflight, syncer>>, active_zone_' # 0
      PROVE  StartInv'
  <2>1. wp_ = dwp
    BY <1>3, PointersMeet DEF StartInv
  <2>2. meta'.start = wp_
    BY <1>3 DEF AllocateNewZone, PersistMetadata
  <2> QED
    BY <1>1, <1>3, <2>1, <2>2 DEF StartInv, ActiveExtentOnDevice
<1>4. ASSUME UNCHANGED <<meta, dwp>>, syncer'.kind # "fsync",
             active_zone_' = 0 => inflight' = {}
      PROVE  StartInv'
  BY <1>1, <1>4 DEF StartInv, ActiveExtentOnDevice
<1>5. ASSUME FlushError PROVE syncer'.kind # "fsync"
  BY <1>2, <1>5 DEF FlushError, StartInv
<1>6. CASE FlushBuffer
  <2>1. CASE active_zone_ = 0
    <3>1. NextZone # 0
      BY <1>1, NextZoneType
    <3> QED
      BY <1>3, <1>6, <2>1, <3>1 DEF FlushBuffer, AllocateNewZone, SetActiveZone, StartInv
  <2>2. CASE active_zone_ # 0
    BY <1>4, <1>6, <2>2 DEF FlushBuffer, StartInv
  <2> QED
    BY <2>1, <2>2
<1>7. CASE ZoneFull
  <2>1. NextZone # 0
    BY <1>1, NextZoneType
  <2> QED
    BY <1>3, <1>7, <2>1 DEF ZoneFull, WALSync, AllocateNewZone, SetActiveZone
<1>8. CASE SparseAppend
  BY <1>1, <1>4, <1>8 DEF SparseAppend, CanAppend, TypeInv, Control, StartInv
<1>9. CASE ZoneFullNoSpace
  BY <1>4, <1>5, <1>9 DEF ZoneFullNoSpace, WALSync
<1>10. CASE SparseAppendError
  BY <1>4, <1>5, <1>10 DEF SparseAppendError, StartInv
<1>11. CASE FlushBufferNoSpace
  BY <1>4, <1>5, <1>11 DEF FlushBufferNoSpace, StartInv
<1>12. CASE FlushReturn
  <2>1. syncer'.kind = syncer.kind
    BY <1>1, <1>12, MoveType DEF FlushReturn
  <2> QED
    BY <1>4, <1>12, <2>1 DEF FlushReturn, StartInv
<1>13. CASE CloseWR
  <2>1. syncer'.kind = syncer.kind
    BY <1>1, <1>13, MoveType DEF CloseWR
  <2>2. meta'.start = NO_EXTENT
    BY <1>13 DEF CloseWR, PersistMetadata
  <2> QED
    BY <1>1, <1>13, <2>1, <2>2 DEF CloseWR, StartInv, ActiveExtentOnDevice
<1>14. CASE CloseActiveZone
  BY <1>2, <1>4, <1>14 DEF CloseActiveZone, WALSync
<1>15. CASE DataSyncWALSync \/ DataSyncLock
  <2>1. syncer'.kind = syncer.kind
    BY <1>1, <1>15, MoveType DEF DataSyncWALSync, DataSyncLock
  <2> QED
    BY <1>4, <1>15, <2>1 DEF DataSyncWALSync, DataSyncLock, StartInv
<1>16. CASE SyncReturn
  BY <1>2, <1>4, <1>16 DEF SyncReturn, StartInv
<1>17. ASSUME FsyncReturn PROVE FALSE
  BY <1>17 DEF FsyncReturn, StartInv
<1>22. CASE SparseBarrierError
  BY <1>4, <1>5, <1>22 DEF SparseBarrierError, StartInv
<1>23. CASE FlushBufferUnlogged \/ ZoneFullUnlogged
  <2>1. NextZone # 0
    BY <1>1, NextZoneType
  <2>2. active_zone_' # 0 /\ UNCHANGED <<meta, dwp>> /\ FlushError
    BY <1>23, <2>1
    DEF FlushBufferUnlogged, ZoneFullUnlogged, AllocateNewZoneError, SetActiveZone,
        PersistMetadataError
  <2> QED
    BY <1>4, <1>5, <2>2
<1>24. CASE CloseWRUnlogged
  BY <1>2, <1>4, <1>24 DEF CloseWRUnlogged, PersistMetadataError, StartInv
<1>25. ASSUME FsyncUnlogged PROVE FALSE
  BY <1>25 DEF FsyncUnlogged, StartInv
<1>18. ASSUME NEW k \in SyncKinds, SyncCall(k) PROVE StartInv'
  <2>1. syncer'.kind = k
    BY <1>18 DEF SyncCall
  <2> QED
    BY <1>4, <1>18, <2>1 DEF SyncCall, StartInv
<1>19. ASSUME NEW n \in AppendSizes, AppendCall(n) PROVE StartInv'
  BY <1>4, <1>19 DEF AppendCall, StartInv
<1>20. CASE BufferedWrite \/ SparseBarrier \/ UNCHANGED vars
  BY <1>4, <1>20 DEF BufferedWrite, SparseBarrier, StartInv
<1>21. ASSUME NEW e \in inflight, Land(e) PROVE StartInv'
  <2>1. dwp' = dwp + e.blocks /\ e.blocks \in Nat /\ inflight # {} /\ inflight' = inflight \ {e}
        /\ UNCHANGED <<meta, syncer, active_zone_>>
    BY <1>1, <1>21 DEF Land, TypeInv, TypeOK, Entry
  <2>2. meta.start \in Nat \cup {NO_EXTENT}
    BY <1>1 DEF TypeInv, TypeOK, Metadata
  <2> QED
    BY <1>1, <2>1, <2>2 DEF StartInv, ActiveExtentOnDevice
<1> QED
  BY <1>6, <1>7, <1>8, <1>9, <1>10, <1>11, <1>12, <1>13, <1>14, <1>15, <1>16, <1>17, <1>18,
     <1>19, <1>20, <1>21, <1>22, <1>23, <1>24, <1>25
  DEF Next, Flush, Failure, SyncStep, LandSome

\* For an application that does not call Fsync: the active extent a mount would go on
\* from starts on the device, whatever was in flight when the metadata was written.
THEOREM ActiveExtentOnDeviceCorrect ==
  ASSUME "fsync" \notin SyncKinds
  PROVE  Spec => []ActiveExtentOnDevice
<1>1. Init => StartInv
  <2> SUFFICES ASSUME Init PROVE StartInv
    OBVIOUS
  <2> QED
    BY BarrierInit DEF Init, StartInv, ActiveExtentOnDevice
<1>2. StartInv /\ [Next]_vars => StartInv'
  BY StartNext
<1>3. StartInv => ActiveExtentOnDevice
  BY DEF StartInv
<1> QED
  BY <1>1, <1>2, <1>3, PTL DEF Spec

-----------------------------------------------------------------------------
(***************************************************************************)
(* Content, with the default buffer of one block.  A full buffer and its   *)
(* headers are one block, which is never cut at a barrier or at the end of *)
(* a zone: each flush is one entry.  What can still go wrong is a flush    *)
(* that fails halfway, or a close that does not wait.                      *)
(***************************************************************************)

\* The file has filled the last zone of the WAL groups and lost its active zone: its
\* last entry is on the device and still in the buffer, and cannot be written again.
Stuck == active_zone_ = 0 /\ ~ZoneAvailable

\* The buffer holds what the application wrote behind the file's last unit.
Buffered ==
  /\ \A i \in DOMAIN buffer : buffer[i] = file_size_ + i
  /\ appended = file_size_ + Len(buffer)

OneBlock ==
  /\ Len(buffer) <= buffer_sz
  /\ left > 0 => left = Len(buffer) /\ filled = 0
  /\ (fpc = "idle" \/ left > 0) /\ ~Stuck => Buffered
  /\ fpc = "loop" /\ left = 0 => appended = file_size_

\* Every unit of the file is in an entry.
Covered ==
  \A u \in 1..file_size_ : \E e \in Entries : \E i \in DOMAIN e.data : e.data[i] = u

Closing ==
  /\ Stuck /\ open => buffer # << >>
  /\ syncer.kind = "close" /\ syncer.pc \in {"return", "closezone"} => buffer = << >>
  /\ syncer.pc = "closezone" => meta.size = file_size_
  /\ syncer.pc # "idle" => open
  /\ buffer_mtx_ # "none" => open
  /\ ~open => inflight = {} /\ meta.size = file_size_ /\ appended = file_size_

\* The zone that is full has the entry that filled it.
Extended == filled > 0 => extents_ # << >>

\* The invariant while no flush that failed halfway has been tried again
ContentInv ==
  TypeInv /\ ~repeated /\ OneBlock /\ FaithfulEntries /\ Covered /\ Closing /\ Extended

\* Only an entry fills a zone.
LEMMA ExtendedNext ==
  ASSUME ContentInv, TypeInv', [Next]_vars
  PROVE  Extended'
<1> USE DEF file, device, writer, vars
<1>1. Extended /\ extents_ \in ExtentList
  BY DEF ContentInv, TypeInv, TypeOK
<1>2. CASE SparseAppend
  <2>1. PICK x : extents_' = Append(extents_, x)
    BY <1>2 DEF SparseAppend
  <2>2. extents_' # << >>
    BY <1>1, <2>1 DEF ExtentList
  <2> QED
    BY <2>2 DEF Extended
<1>3. CASE UNCHANGED <<filled, extents_>> \/ filled' = 0
  BY <1>1, <1>3 DEF Extended
<1>4. ~SparseAppend => UNCHANGED <<filled, extents_>> \/ filled' = 0
  BY DEF Next, Flush, SyncStep, LandSome, AppendCall, BufferedWrite, FlushBuffer,
      FlushBufferNoSpace, SparseBarrier, ZoneFull, ZoneFullNoSpace, FlushReturn, FlushError,
      SparseAppendError, SyncCall, DataSyncWALSync, DataSyncLock,
      SyncReturn, FsyncReturn, CloseWR, CloseActiveZone, Land, Failure, SparseBarrierError,
      FlushBufferUnlogged, ZoneFullUnlogged, FsyncUnlogged, CloseWRUnlogged
<1> QED
  BY <1>2, <1>3, <1>4

\* A file with an active zone, or one that may get another, is not stuck.
LEMMA StuckKept ==
  ASSUME UNCHANGED <<active_zone_, extents_>>
  PROVE  Stuck' <=> Stuck
BY DEF Stuck, ZoneAvailable, NextZone

\* What SparseAppend submits with a buffer of one block is the whole buffer.
LEMMA WholeBuffer ==
  ASSUME BufferBlocks = 1, ContentInv, CanAppend
  PROVE  /\ WrSize - HeaderSize = Len(buffer) /\ left = Len(buffer)
         /\ Len(buffer) \in Nat \ {0}
         /\ Buffered
<1>1. /\ left \in Nat \ {0} /\ left = Len(buffer) /\ left <= buffer_sz
      /\ capacity_ \in Nat \ {0}
      /\ BarrierBlocks - append_bytes_since_last_barrier_ \in Nat \ {0}
      /\ active_zone_ # 0
  BY DEF ContentInv, OneBlock, CanAppend, TypeInv, TypeOK, Control
<1>2. BlockSz \in Nat /\ HeaderSize \in Nat /\ buffer_sz = BlockSz - HeaderSize
  BY DEF buffer_sz, HeaderSize
<1> DEFINE c == capacity_
           r == BarrierBlocks - append_bytes_since_last_barrier_
<1>3. WrSize = Smaller(Smaller(left + HeaderSize, c * BlockSz), r * BlockSz)
  BY DEF WrSize
<1>4. c \in Nat \ {0} /\ r \in Nat \ {0}
  BY <1>1
<1> HIDE DEF c, r
<1>5. c * BlockSz \in Nat /\ c * BlockSz >= BlockSz /\ r * BlockSz \in Nat /\ r * BlockSz >= BlockSz
  BY <1>2, <1>4
<1>6. WrSize = left + HeaderSize
  BY <1>1, <1>2, <1>3, <1>5 DEF Smaller
<1>7. Buffered
  BY <1>1 DEF ContentInv, OneBlock, Stuck
<1> QED
  BY <1>1, <1>2, <1>6, <1>7

\* The zeroes SparseAppend puts behind its data stay outside of the buffered data, so
\* that a refused append leaves it as it was.
LEMMA PaddingOutside ==
  ASSUME BufferBlocks = 1, ContentInv, CanAppend
  PROVE  LET b == Padded(buffer, WrSize)
         IN  DOMAIN b = DOMAIN buffer /\ \A i \in DOMAIN buffer : b[i] = buffer[i]
<1>1. WrSize - HeaderSize = Len(buffer)
  BY WholeBuffer
<1>2. DOMAIN buffer = 1..Len(buffer) /\ Len(buffer) \in Nat
  BY DEF ContentInv, TypeInv, TypeOK
<1>3. \A i \in DOMAIN buffer : ~(i > WrSize - HeaderSize)
  BY <1>1, <1>2
<1> QED
  BY <1>3 DEF Padded

\* BufferedWrite puts the application's next units behind the ones that are there.
LEMMA BufferGrows ==
  ASSUME NEW a \in Seq(Nat), NEW n \in Nat, NEW t \in Nat, NEW c,
         c = a \o [i \in 1..t |-> n + i]
  PROVE  /\ Len(c) = Len(a) + t
         /\ \A i \in 1..Len(a) : c[i] = a[i]
         /\ \A i \in (Len(a) + 1)..(Len(a) + t) : c[i] = n + (i - Len(a))
<1> DEFINE d == [i \in 1..t |-> n + i]
<1>1. d \in Seq(Nat) /\ Len(d) = t /\ \A i \in 1..t : d[i] = n + i
  OBVIOUS
<1>2. c = a \o d
  OBVIOUS
<1> HIDE DEF d
<1>3. /\ Len(c) = Len(a) + Len(d)
      /\ \A i \in 1..Len(a) : c[i] = a[i]
      /\ \A i \in (Len(a) + 1)..(Len(a) + Len(d)) : c[i] = d[i - Len(a)]
  BY <1>1, <1>2
<1> QED
  BY <1>1, <1>3

\* What the buffer holds in each position of the writing thread, after each step.
LEMMA OneBlockNext ==
  ASSUME BufferBlocks = 1, ContentInv, TypeInv', ~repeated', [Next]_vars
  PROVE  OneBlock'
<1> USE DEF file, device, writer, vars
<1>1. /\ TypeInv /\ OneBlock /\ left \in Nat /\ filled \in Nat /\ fpc \in {"idle", "loop"}
      /\ file_size_ \in Nat /\ appended \in Nat /\ todo \in Nat /\ nospace \in Nat
  BY DEF ContentInv, TypeInv, TypeOK
<1>0. buffer_sz' = buffer_sz /\ buffer_sz \in Nat
  BY DEF buffer_sz, HeaderSize
<1>q. buffer \in Seq(Nat) /\ buffer' \in Seq(Nat)
  BY DEF ContentInv, TypeInv, TypeOK
<1>s. /\ Len(buffer) \in Nat /\ DOMAIN buffer = 1..Len(buffer)
      /\ Len(buffer') \in Nat /\ DOMAIN buffer' = 1..Len(buffer')
  BY <1>q
<1>f. ASSUME Len(buffer') <= buffer_sz, left' = 0, fpc' = "idle" /\ ~Stuck' => Buffered',
             fpc' = "loop" => appended' = file_size_'
      PROVE  OneBlock'
  BY <1>0, <1>f DEF OneBlock
<1>b. Len(buffer) <= buffer_sz
  BY <1>1, Zenon DEF OneBlock
<1>2. ASSUME UNCHANGED <<buffer, left, filled, fpc, appended, file_size_, active_zone_, extents_>>
      PROVE  OneBlock'
  BY <1>0, <1>1, <1>2, StuckKept, Zenon DEF OneBlock, Buffered
<1>3. CASE BufferedWrite
  <2> DEFINE t == Smaller(todo, buffer_sz - Len(buffer))
  <2>1. t \in Nat /\ t <= buffer_sz - Len(buffer)
    BY <1>0, <1>1, <1>s, <1>3 DEF BufferedWrite, Smaller, TypeInv, TypeOK
  <2>2. buffer' = buffer \o [i \in 1..t |-> appended + i]
        /\ appended' = appended + t /\ fpc = "idle" /\ left = 0
        /\ UNCHANGED <<left, filled, fpc, file_size_, active_zone_, extents_>>
    BY <1>0, <1>1, <1>s, <1>3 DEF BufferedWrite, TypeInv, Control
  <2> HIDE DEF t
  <2>4. /\ Len(buffer') = Len(buffer) + t
        /\ \A i \in 1..Len(buffer) : buffer'[i] = buffer[i]
        /\ \A i \in (Len(buffer) + 1)..(Len(buffer) + t) :
             buffer'[i] = appended + (i - Len(buffer))
    BY <1>1, <1>q, <2>1, <2>2, BufferGrows
  <2>5. ASSUME ~Stuck' PROVE Buffered'
    <3>1. Buffered
      BY <1>0, <1>1, <1>s, <2>2, <2>5, StuckKept DEF OneBlock
    <3>2. ASSUME NEW i \in DOMAIN buffer' PROVE buffer'[i] = file_size_ + i
      <4>1. CASE i \in 1..Len(buffer)
        BY <1>0, <1>1, <1>s, <2>4, <3>1, <4>1 DEF Buffered
      <4>2. CASE i \in (Len(buffer) + 1)..(Len(buffer) + t)
        <5>1. i - Len(buffer) \in 1..t /\ i \in Nat
          BY <1>0, <1>1, <1>s, <2>1, <4>2
        <5>2. buffer'[i] = appended + (i - Len(buffer))
          BY <2>4, <4>2
        <5> QED
          BY <1>0, <1>1, <1>s, <3>1, <5>1, <5>2 DEF Buffered
      <4> QED
        BY <1>0, <1>1, <1>s, <2>1, <2>4, <4>1, <4>2
    <3> QED
      <4>1. Len(buffer') = Len(buffer) + t /\ appended' = appended + t /\ file_size_' = file_size_
            /\ appended = file_size_ + Len(buffer)
        BY <2>2, <2>4, <3>1 DEF Buffered
      <4>2. appended' = file_size_' + Len(buffer')
        BY <1>1, <1>s, <2>1, <4>1
      <4> QED
        BY <3>2, <4>1, <4>2 DEF Buffered
  <2>6. Len(buffer') <= buffer_sz
    BY <1>0, <1>s, <2>1, <2>4
  <2> QED
    BY <1>f, <2>2, <2>5, <2>6
<1>4. CASE FlushBuffer
  <2>1. /\ fpc = "idle" /\ ~Stuck /\ filled = 0 /\ left' = Len(buffer)
        /\ Len(buffer) > 0 /\ UNCHANGED <<buffer, filled, appended, file_size_>>
    <3>1. buffer # << >> /\ fpc = "idle" /\ ~Stuck /\ left' = Len(buffer)
          /\ UNCHANGED <<buffer, filled, appended, file_size_>>
      BY <1>4 DEF FlushBuffer, WantsFlush, Stuck
    <3>2. Len(buffer) > 0
      BY <1>q, <3>1
    <3>3. filled = 0
      BY <1>1, <3>1 DEF TypeInv, Control
    <3> QED
      BY <3>1, <3>2, <3>3
  <2>2. Buffered
    BY <1>1, <2>1 DEF OneBlock
  <2>3. Buffered'
    BY <2>1, <2>2 DEF Buffered
  <2> QED
    BY <1>0, <1>b, <2>1, <2>3 DEF OneBlock
<1>5. CASE SparseAppend
  <2>1. /\ WrSize - HeaderSize = Len(buffer) /\ left = Len(buffer) /\ Len(buffer) # 0 /\ Buffered
    BY <1>5, WholeBuffer DEF SparseAppend
  <2>2. /\ left' = left - (WrSize - HeaderSize) /\ file_size_' = file_size_ + (WrSize - HeaderSize)
        /\ fpc = "loop" /\ buffer' = Padded(buffer, WrSize) /\ UNCHANGED <<fpc, appended>>
    BY <1>5 DEF SparseAppend, CanAppend
  <2>3. Len(buffer') = Len(buffer)
    BY <1>q, <2>2, PaddedType
  <2>4. left' = 0 /\ file_size_' = appended'
    BY <1>0, <1>1, <1>s, <2>1, <2>2 DEF Buffered
  <2> QED
    BY <1>f, <1>b, <2>2, <2>3, <2>4
<1>6. CASE SparseAppendError
  <2>1. /\ CanAppend /\ left' = 0 /\ filled' = 0 /\ fpc' = "idle"
        /\ buffer' = Padded(buffer, WrSize)
        /\ UNCHANGED <<appended, file_size_>>
    BY <1>6 DEF SparseAppendError, FlushError
  <2>2. Buffered
    BY <2>1, WholeBuffer
  <2>3. Len(buffer') = Len(buffer) /\ \A i \in DOMAIN buffer : buffer'[i] = buffer[i]
    BY <1>q, <2>1, PaddedType, PaddingOutside
  <2>4. Buffered'
    BY <1>s, <2>1, <2>2, <2>3 DEF Buffered
  <2> QED
    BY <1>f, <1>b, <2>1, <2>3, <2>4
<1>7. CASE ZoneFull
  <2>1. /\ fpc = "loop" /\ left = 0 /\ filled' = 0 /\ buffer' = Memmove(buffer)
        /\ UNCHANGED <<fpc, left, appended, file_size_>>
    <3>1. left > 0 => filled = 0
      BY <1>1, Zenon DEF OneBlock
    <3>2. /\ fpc = "loop" /\ filled > 0 /\ filled' = 0 /\ buffer' = Memmove(buffer)
          /\ UNCHANGED <<fpc, left, appended, file_size_>>
      BY <1>7 DEF ZoneFull
    <3>3. left = 0
      BY <1>1, <3>1, <3>2
    <3> QED
      BY <3>2, <3>3
  <2>2. Len(buffer') = Len(buffer)
    BY <1>1, <2>1, MemmoveType, Zenon
  <2> QED
    BY <1>0, <1>1, <1>s, <2>1, <2>2 DEF OneBlock
<1>8. CASE ZoneFullNoSpace
  <2>0. ~ZoneAvailable
    BY <1>8, Zenon DEF ZoneFullNoSpace
  <2>1. ~ZoneAvailable /\ fpc' = "idle" /\ left' = 0 /\ buffer' = Memmove(buffer)
        /\ active_zone_' = 0 /\ UNCHANGED extents_
    BY <1>8, <2>0 DEF ZoneFullNoSpace, FlushError
  <2>2. Stuck'
    BY <2>1, Zenon DEF Stuck, ZoneAvailable, NextZone
  <2>3. Len(buffer') = Len(buffer)
    BY <1>1, <2>1, MemmoveType, Zenon
  <2> QED
    BY <1>f, <1>b, <2>1, <2>2, <2>3
<1>9. CASE FlushBufferNoSpace
  <2>1. fpc = "idle" /\ fpc' = "idle" /\ left' = 0 /\ filled' = 0
        /\ UNCHANGED <<buffer, appended, file_size_, active_zone_, extents_>>
    BY <1>9 DEF FlushBufferNoSpace, WantsFlush, FlushError
  <2> QED
    <3>1. ~Stuck => Buffered
      BY <1>1, <2>1 DEF OneBlock
    <3>2. ~Stuck' => Buffered'
      BY <2>1, <3>1, StuckKept DEF Buffered
    <3> QED
      BY <1>f, <1>b, <2>1, <3>2
<1>16. CASE SparseBarrierError
  <2>1. /\ fpc = "loop" /\ left > 0 /\ fpc' = "idle" /\ left' = 0
        /\ UNCHANGED <<buffer, appended, file_size_, active_zone_, extents_>>
    BY <1>16 DEF SparseBarrierError, FlushError
  <2>2. active_zone_ # 0
    BY <1>1, <2>1 DEF TypeInv, Control
  <2>3. Buffered
    BY <1>1, <2>1, <2>2 DEF OneBlock, Stuck
  <2>4. Buffered'
    BY <2>1, <2>3 DEF Buffered
  <2> QED
    BY <1>f, <1>b, <2>1, <2>4
<1>17. CASE FlushBufferUnlogged
  <2>1. /\ fpc = "idle" /\ ZoneAvailable /\ fpc' = "idle" /\ left' = 0
        /\ UNCHANGED <<buffer, appended, file_size_>>
    BY <1>17 DEF FlushBufferUnlogged, WantsFlush, FlushError
  <2>2. Buffered
    BY <1>1, <2>1 DEF OneBlock, Stuck
  <2>3. Buffered'
    BY <2>1, <2>2 DEF Buffered
  <2> QED
    BY <1>f, <1>b, <2>1, <2>3
<1>18. ASSUME ZoneFullUnlogged PROVE FALSE
  BY <1>18, Zenon DEF ZoneFullUnlogged
<1>10. CASE FlushReturn
  <2>1. fpc = "loop" /\ left = 0 /\ fpc' = "idle" /\ left' = 0 /\ buffer' = << >>
        /\ UNCHANGED <<appended, file_size_>>
    BY <1>10 DEF FlushReturn
  <2> QED
    BY <1>0, <1>1, <1>s, <2>1 DEF OneBlock, Buffered
<1>11. CASE CloseActiveZone
  <2>1. fpc = "idle" /\ left = 0
    BY <1>0, <1>1, <1>s, <1>11 DEF CloseActiveZone, TypeInv, TypeOK, Control
  <2>2. Buffered
    <3>1. open /\ buffer = << >>
      BY <1>0, <1>1, <1>s, <1>11 DEF CloseActiveZone, ContentInv, Closing, TypeInv, Control
    <3> QED
      BY <1>0, <1>1, <1>s, <2>1, <3>1 DEF ContentInv, Closing, OneBlock
  <2>3. UNCHANGED <<buffer, left, filled, fpc, appended, file_size_>>
    BY <1>11 DEF CloseActiveZone
  <2> QED
    BY <1>0, <1>1, <1>s, <2>1, <2>2, <2>3 DEF OneBlock, Buffered
<1>12. ASSUME NEW n \in AppendSizes, AppendCall(n) PROVE OneBlock'
  BY <1>2, <1>12 DEF AppendCall
<1>13. ASSUME NEW k \in SyncKinds, SyncCall(k) PROVE OneBlock'
  BY <1>2, <1>13 DEF SyncCall
<1>14. ASSUME NEW e \in inflight, Land(e) PROVE OneBlock'
  BY <1>2, <1>14 DEF Land
<1>15. CASE SparseBarrier \/ DataSyncWALSync \/ DataSyncLock \/ SyncReturn \/ FsyncReturn
            \/ CloseWR \/ FsyncUnlogged \/ CloseWRUnlogged \/ UNCHANGED vars
  BY <1>2, <1>15
  DEF SparseBarrier, DataSyncWALSync, DataSyncLock, SyncReturn, FsyncReturn, CloseWR,
      FsyncUnlogged, CloseWRUnlogged
<1> QED
  BY <1>3, <1>4, <1>5, <1>6, <1>7, <1>8, <1>9, <1>10, <1>11, <1>12, <1>13, <1>14, <1>15,
     <1>16, <1>17, <1>18
  DEF Next, Flush, Failure, SyncStep, LandSome

\* A new entry carries the units at its offset, and they are the next ones.
LEMMA EntriesNext ==
  ASSUME BufferBlocks = 1, ContentInv, [Next]_vars
  PROVE  FaithfulEntries' /\ Covered'
<1>1. CASE ~SparseAppend
  BY <1>1, EntriesKept DEF ContentInv, FaithfulEntries, Covered
<1>2. CASE SparseAppend
  <2>1. /\ WrSize - HeaderSize = Len(buffer) /\ Len(buffer) \in Nat \ {0} /\ Buffered
    BY <1>2, WholeBuffer DEF SparseAppend
  <2>2. /\ Entries' = Entries \cup {NewEntry}
        /\ NewEntry.data = SubSeq(buffer, 1, Len(buffer))
    BY <1>2, <2>1, AppendAdds DEF ContentInv
  <2>3. buffer \in Seq(Nat) /\ file_size_ \in Nat
    BY DEF ContentInv, TypeInv, TypeOK
  <2>4. NewEntry.off = file_size_ /\ file_size_' = file_size_ + Len(buffer)
    BY <1>2, <2>1 DEF NewEntry, SparseAppend
  <2>5. /\ DOMAIN NewEntry.data = 1..Len(buffer)
        /\ \A i \in 1..Len(buffer) : NewEntry.data[i] = file_size_ + i
    BY <2>1, <2>2, <2>3 DEF Buffered
  <2>6. FaithfulEntries'
    BY <2>2, <2>4, <2>5 DEF ContentInv, FaithfulEntries
  <2>7. ASSUME NEW u \in 1..file_size_'
        PROVE  \E e \in Entries' : \E i \in DOMAIN e.data : e.data[i] = u
    <3>1. CASE u \in 1..file_size_
      BY <2>2, <3>1 DEF ContentInv, Covered
    <3>2. CASE u > file_size_
      <4>1. u - file_size_ \in 1..Len(buffer) /\ u = file_size_ + (u - file_size_)
        BY <2>1, <2>3, <2>4, <3>2
      <4>2. NewEntry.data[u - file_size_] = u
        BY <2>5, <4>1
      <4> QED
        BY <2>2, <2>5, <4>1, <4>2
    <3> QED
      BY <2>3, <3>1, <3>2
  <2> QED
    BY <2>6, <2>7 DEF Covered
<1> QED
  BY <1>1, <1>2

\* A close that gets past DataSync has an empty buffer, and nothing runs after it.
LEMMA ClosingNext ==
  ASSUME ContentInv, TypeInv', ~repeated', [Next]_vars
  PROVE  Closing'
<1> USE DEF file, device, writer, vars
<1>1. /\ TypeInv /\ OneBlock /\ Closing /\ syncer \in Syncer /\ nospace \in Nat
      /\ fpc \in {"idle", "loop"} /\ buffer_mtx_ \in {"none", "append", "sync"}
      /\ open \in BOOLEAN
  BY DEF ContentInv, TypeInv, TypeOK
<1>2. /\ fpc = "loop" => buffer_mtx_ # "none" /\ active_zone_ # 0
      /\ buffer_mtx_ = "sync" => syncer.pc = "flush"
      /\ syncer.kind = "close" => buffer_mtx_ # "append"
      /\ syncer.pc = "closezone" => syncer.kind = "close"
  BY <1>1 DEF TypeInv, Control
<1>3. Idle.pc = "idle" /\ Idle.kind = "none"
  BY <1>1, IdleType
\* A step that leaves what Closing is about alone, or puts more into the buffer
<1>4. ASSUME UNCHANGED <<active_zone_, extents_, open, syncer, meta, file_size_>>,
             buffer_mtx_' # "none" => open,
             ~open => inflight' = {} /\ UNCHANGED appended,
             buffer = << >> <=> buffer' = << >>
      PROVE  Closing'
  BY <1>1, <1>4, StuckKept DEF Closing
<1>5. CASE BufferedWrite
  <2>1. buffer_mtx_ = "append" /\ open /\ syncer.kind # "close"
    BY <1>1, <1>2, <1>5 DEF BufferedWrite, Closing
  <2>2. /\ buffer' = buffer \o [i \in 1..Smaller(todo, buffer_sz - Len(buffer)) |-> appended + i]
        /\ UNCHANGED <<active_zone_, extents_, open, syncer, meta, file_size_>>
    BY <1>5 DEF BufferedWrite
  <2>3. buffer # << >> => buffer' # << >>
    <3>1. buffer \in Seq(Nat) /\ appended \in Nat
          /\ Smaller(todo, buffer_sz - Len(buffer)) \in Nat
      BY <1>1, <1>5 DEF BufferedWrite, Smaller, TypeInv, TypeOK, buffer_sz, HeaderSize
    <3>2. Len(buffer') = Len(buffer) + Smaller(todo, buffer_sz - Len(buffer))
      BY <2>2, <3>1, BufferGrows
    <3> QED
      BY <3>1, <3>2
  <2>4. syncer.pc # "closezone"
    BY <1>2, <2>1
  <2> QED
    BY <1>1, <2>1, <2>2, <2>3, <2>4, StuckKept DEF Closing
<1>6. ASSUME buffer_mtx_ # "none", syncer'.pc # "idle" => syncer' = syncer,
             Stuck' => buffer' # << >>, UNCHANGED open
      PROVE  Closing'
  <2>1. open
    BY <1>1, <1>6 DEF Closing
  <2>2. ~(syncer.kind = "close" /\ syncer.pc \in {"return", "closezone"})
        /\ syncer.pc # "closezone"
    BY <1>1, <1>2, <1>6
  <2> QED
    BY <1>6, <2>1, <2>2 DEF Closing
<1>7. ASSUME FlushError
      PROVE  (syncer'.pc # "idle" => syncer' = syncer) /\ UNCHANGED open
  BY <1>3, <1>7 DEF FlushError
<1>8. CASE FlushBuffer
  <2>1. buffer_mtx_ # "none" /\ buffer # << >> /\ UNCHANGED <<buffer, syncer, open>>
    BY <1>8 DEF FlushBuffer, WantsFlush
  <2> QED
    BY <1>6, <2>1
<1>9. CASE FlushBufferNoSpace \/ FlushBufferUnlogged
  <2>1. buffer_mtx_ # "none" /\ buffer # << >> /\ UNCHANGED <<buffer>> /\ FlushError
    BY <1>9 DEF FlushBufferNoSpace, FlushBufferUnlogged, WantsFlush
  <2> QED
    BY <1>6, <1>7, <2>1
<1>10. CASE SparseAppend \/ ZoneFull
  <2>1. fpc = "loop" /\ active_zone_' # 0 /\ UNCHANGED <<syncer, open>>
    <3>1. CASE SparseAppend
      BY <1>2, <3>1 DEF SparseAppend, CanAppend
    <3>2. CASE ZoneFull
      BY <1>1, <3>2, NextZoneType DEF ZoneFull, AllocateNewZone, SetActiveZone
    <3> QED
      BY <1>10, <3>1, <3>2
  <2> QED
    BY <1>2, <1>6, <2>1 DEF Stuck
<1>11. CASE SparseAppendError \/ SparseBarrierError
  <2>1. fpc = "loop" /\ active_zone_' # 0 /\ FlushError
    BY <1>2, <1>11 DEF SparseAppendError, SparseBarrierError, CanAppend
  <2> QED
    BY <1>2, <1>6, <1>7, <2>1 DEF Stuck
<1>12. CASE ZoneFullNoSpace
  <2>1. fpc = "loop" /\ filled > 0 /\ buffer' = Memmove(buffer) /\ FlushError
    BY <1>12 DEF ZoneFullNoSpace
  <2>2. Len(buffer') = Len(buffer)
    BY <1>1, <2>1, MemmoveType
  <2>3. Len(buffer) > 0
    BY <2>1 DEF ContentInv, TypeInv, TypeOK, Control
  <2> QED
    BY <1>2, <1>6, <1>7, <2>1, <2>2, <2>3
<1>13. CASE FlushReturn
  <2>1. /\ fpc = "loop" /\ buffer' = << >>
        /\ UNCHANGED <<active_zone_, open, file_size_, meta, inflight, appended>>
    BY <1>13 DEF FlushReturn
  <2>2. open /\ buffer_mtx_ # "none" /\ ~Stuck'
    BY <1>1, <1>2, <2>1 DEF Closing, Stuck
  <2>3. syncer'.pc = "closezone" => FALSE
    <3>1. CASE buffer_mtx_ = "sync"
      BY <1>1, <1>13, <3>1, MoveType DEF FlushReturn
    <3>2. CASE buffer_mtx_ # "sync"
      BY <1>1, <1>2, <1>13, <2>2, <3>2 DEF FlushReturn
    <3> QED
      BY <3>1, <3>2
  <2> QED
    BY <2>1, <2>2, <2>3 DEF Closing
<1>14. CASE SparseBarrier \/ UNCHANGED vars
  BY <1>1, <1>4, <1>14 DEF SparseBarrier, Closing
<1>15. ASSUME NEW n \in AppendSizes, AppendCall(n) PROVE Closing'
  BY <1>1, <1>4, <1>15 DEF AppendCall, Closing
<1>16. ASSUME NEW e \in inflight, Land(e) PROVE Closing'
  BY <1>1, <1>4, <1>16 DEF Land, Closing
\* Steps of the syncing thread that leave the buffer and the file alone
<1>17. ASSUME open, UNCHANGED <<active_zone_, extents_, open, buffer>>,
              syncer'.pc # "closezone",
              syncer'.kind = "close" /\ syncer'.pc = "return" => buffer = << >>
       PROVE  Closing'
  BY <1>1, <1>17, StuckKept DEF Closing
<1>18. ASSUME NEW k \in SyncKinds, SyncCall(k) PROVE Closing'
  <2>1. syncer'.pc = "walsync" /\ open
    BY <1>18 DEF SyncCall
  <2> QED
    BY <1>17, <1>18, <2>1 DEF SyncCall
<1>19. CASE DataSyncWALSync
  <2>1. syncer'.pc = "lock" /\ open
    BY <1>1, <1>19, MoveType DEF DataSyncWALSync, Closing
  <2> QED
    BY <1>17, <1>19, <2>1 DEF DataSyncWALSync
<1>20. CASE DataSyncLock
  <2>1. syncer'.pc = (IF buffer = << >> THEN "return" ELSE "flush") /\ open
    BY <1>1, <1>20, MoveType DEF DataSyncLock, Closing
  <2> QED
    BY <1>17, <1>20, <2>1 DEF DataSyncLock
<1>24. ASSUME ZoneFullUnlogged PROVE FALSE
  BY <1>24, Zenon DEF ZoneFullUnlogged
<1>21. CASE SyncReturn \/ FsyncReturn \/ FsyncUnlogged \/ CloseWRUnlogged
  <2>1. syncer' = Idle /\ open /\ UNCHANGED <<active_zone_, extents_, open, buffer>>
    BY <1>1, <1>21 DEF SyncReturn, FsyncReturn, FsyncUnlogged, CloseWRUnlogged, Closing
  <2> QED
    BY <1>3, <1>17, <2>1
<1>22. CASE CloseWR
  <2>1. /\ open /\ syncer.kind = "close" /\ syncer.pc = "return"
        /\ meta'.size = file_size_
        /\ UNCHANGED <<active_zone_, extents_, open, buffer, file_size_>>
    BY <1>1, <1>22 DEF CloseWR, PersistMetadata, Closing
  <2> QED
    BY <1>1, <2>1, StuckKept DEF Closing
<1>23. CASE CloseActiveZone
  <2>1. /\ open /\ buffer = << >> /\ meta.size = file_size_ /\ inflight = {}
        /\ syncer' = Idle /\ ~open' /\ fpc = "idle" /\ buffer_mtx_ = "none"
        /\ UNCHANGED <<buffer, file_size_, meta, inflight, appended, buffer_mtx_>>
    BY <1>1, <1>2, <1>23 DEF CloseActiveZone, WALSync, Closing
  <2>2. Buffered
    BY <1>1, <2>1 DEF Closing, OneBlock
  <2>3. appended = file_size_
    BY <2>1, <2>2 DEF Buffered, ContentInv, TypeInv, TypeOK
  <2> QED
    BY <1>3, <2>1, <2>3 DEF Closing
<1> QED
  BY <1>5, <1>8, <1>9, <1>10, <1>11, <1>12, <1>13, <1>14, <1>15, <1>16, <1>18, <1>19, <1>20,
     <1>21, <1>22, <1>23, <1>24
  DEF Next, Flush, Failure, SyncStep, LandSome

\* A flush that was repeated stays repeated.
LEMMA RepeatedStays ==
  ASSUME repeated, [Next]_vars
  PROVE  repeated'
BY RepeatedNext, Zenon

\* The invariant holds throughout a run with a buffer of one block, until a flush that
\* failed halfway is tried again.
LEMMA ContentCorrect ==
  ASSUME BufferBlocks = 1
  PROVE  Spec => [](TypeInv /\ (~repeated => ContentInv))
<1>1. Init => ContentInv
  <2> SUFFICES ASSUME Init PROVE ContentInv
    OBVIOUS
  <2>1. Entries = {} /\ buffer = << >> /\ file_size_ = 0 /\ appended = 0 /\ left = 0
        /\ open /\ fpc = "idle" /\ buffer_mtx_ = "none" /\ extents_ = << >>
        /\ syncer.pc = "idle" /\ syncer.kind = "none" /\ filled = 0
    BY DEF Init, Entries
  <2>2. ~Stuck
    BY <2>1 DEF Stuck, ZoneAvailable, NextZone
  <2>3. buffer_sz \in Nat
    BY DEF buffer_sz, HeaderSize
  <2>4. OneBlock
    BY <2>1, <2>3 DEF OneBlock, Buffered
  <2> QED
    <3>1. ~repeated
      BY Zenon DEF Init
    <3> QED
      BY <2>1, <2>2, <2>4, <3>1, TypeInit
      DEF ContentInv, FaithfulEntries, Covered, Closing, Extended
<1> DEFINE Inv == TypeInv /\ (~repeated => ContentInv)
<1>2. Inv /\ [Next]_vars => Inv'
  <2> SUFFICES ASSUME Inv, [Next]_vars PROVE Inv'
    OBVIOUS
  <2>1. TypeInv'
    BY TypeNext
  <2>2. ASSUME ~repeated' PROVE ContentInv'
    <3>1. ContentInv
      BY <2>2, RepeatedStays
    <3> QED
      BY <2>1, <2>2, <3>1, OneBlockNext, EntriesNext, ClosingNext, ExtendedNext DEF ContentInv
  <2> QED
    BY <2>1, <2>2
<1>3. Init => Inv
  BY <1>1, TypeInit
<1> HIDE DEF Inv
<1>4. Spec => []Inv
  BY <1>2, <1>3, PTL DEF Spec
<1> QED
  BY <1>4, PTL DEF Inv

\* With the default buffer of one block, until a flush that failed behind an entry of its
\* own is tried again: the entry at file offset off carries the units the application
\* wrote at off, for every workload, barrier, zone size and queue depth, whatever appends,
\* barriers, zones and metadata records were refused.
THEOREM FaithfulEntriesCorrect ==
  ASSUME BufferBlocks = 1
  PROVE  Spec => []FaithfulEntries
<1>1. (~repeated => ContentInv) => FaithfulEntries
  BY Zenon DEF ContentInv, FaithfulEntries
<1> QED
  BY <1>1, ContentCorrect, PTL

\* Under the same hypothesis a closed file is on the device with every unit that was
\* appended, and its persisted size says so.
THEOREM CloseDurableCorrect ==
  ASSUME BufferBlocks = 1
  PROVE  Spec => []CloseDurable
<1>1. (~repeated => ContentInv) => CloseDurable
  <2> SUFFICES ASSUME ContentInv, ~open
               PROVE  inflight = {} /\ Durable(appended) /\ meta.size = appended
    BY Zenon DEF CloseDurable
  <2>1. inflight = {} /\ meta.size = file_size_ /\ appended = file_size_
    BY DEF ContentInv, Closing
  <2>2. Entries = {l.entry : l \in landed}
    BY <2>1 DEF Entries
  <2>3. Durable(appended)
    BY <2>1, <2>2 DEF ContentInv, Covered, Durable
  <2> QED
    BY <2>1, <2>3
<1> QED
  BY <1>1, ContentCorrect, PTL
=============================================================================
