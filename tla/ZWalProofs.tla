----------------------------- MODULE ZWalProofs -----------------------------
(***************************************************************************)
(* Theorems about the ZWAL write path, for every buffer, barrier and zone  *)
(* size, queue depth, workload and number of errors.                       *)
(***************************************************************************)
EXTENDS ZWal, FiniteSetTheorems, SequenceTheorems, TLAPS

USE SizeAssumption, BarrierAssumption, DeviceAssumption, WorkloadAssumption

-----------------------------------------------------------------------------
(***************************************************************************)
(* Arithmetic                                                              *)
(***************************************************************************)

\* A padded entry of at most n blocks of bytes occupies between 1 and n blocks
\* (the padding in SparseAppend).
LEMMA BlocksBound ==
  ASSUME NEW x \in Nat \ {0}, NEW n \in Nat, x <= n * BlockSz
  PROVE  Blocks(x) \in 1..n
<1>0. BlockSz \in Nat \ {0}
  BY DEF HeaderSize
<1> DEFINE y == x + BlockSz - 1
<1> DEFINE q == y \div BlockSz
<1>1. y \in Nat /\ q \in Int
  BY <1>0
<1>2. q * BlockSz <= y /\ y < (q + 1) * BlockSz
  BY <1>0, <1>1
<1>3. y < (n + 1) * BlockSz
  BY <1>0, <1>1
<1>4. q < n + 1
  BY <1>0, <1>1, <1>2, <1>3
<1>5. q >= 1
  BY <1>0, <1>1, <1>2
<1> QED
  BY <1>1, <1>4, <1>5 DEF Blocks

\* An address between the w-th barrier and the next one is in chunk w.
LEMMA ChunkIs ==
  ASSUME NEW w \in Nat, NEW p \in Nat,
         w * BarrierBlocks <= p, p < w * BarrierBlocks + BarrierBlocks
  PROVE  Chunk(p) = w
<1> DEFINE q == p \div BarrierBlocks
<1>1. q \in Int
  OBVIOUS
<1>2. q * BarrierBlocks <= p /\ p < (q + 1) * BarrierBlocks
  OBVIOUS
<1>3. (w + 1) * BarrierBlocks = w * BarrierBlocks + BarrierBlocks
  OBVIOUS
<1>4. q < w + 1 /\ w < q + 1
  BY <1>1, <1>2, <1>3
<1> QED
  BY <1>1, <1>4 DEF Chunk

\* Chunks come in the order of their addresses.
LEMMA ChunkMonotone ==
  ASSUME NEW p \in Nat, NEW r \in Nat, Chunk(p) < Chunk(r)
  PROVE  p < r
<1> DEFINE a == p \div BarrierBlocks
<1> DEFINE b == r \div BarrierBlocks
<1>1. a \in Int /\ b \in Int /\ a + 1 <= b
  BY DEF Chunk
<1>2. p < (a + 1) * BarrierBlocks /\ b * BarrierBlocks <= r
  OBVIOUS
<1>3. (a + 1) * BarrierBlocks <= b * BarrierBlocks
  BY <1>1
<1> QED
  BY <1>1, <1>2, <1>3

-----------------------------------------------------------------------------
(***************************************************************************)
(* Control: what the threads' positions say about each other               *)
(***************************************************************************)

ZonesAscend ==
  /\ \A i \in DOMAIN extents_ : extents_[i].zone \in 1..WalZones
  /\ \A i, j \in DOMAIN extents_ : i <= j => extents_[i].zone <= extents_[j].zone
  /\ active_zone_ # 0 => \A i \in DOMAIN extents_ : extents_[i].zone <= active_zone_

Control ==
  /\ left + filled <= Len(buffer)
  /\ (left > 0 \/ filled > 0) => fpc = "loop"
  /\ fpc = "loop" => buffer_mtx_ # "none" /\ active_zone_ # 0
  /\ (active_zone_ # 0 /\ filled = 0) => capacity_ > 0
  /\ buffer_mtx_ = "sync" => syncer.pc = "flush"
  /\ syncer.kind = "close" => buffer_mtx_ # "append"
  /\ syncer.pc = "closezone" => syncer.kind = "close"
  /\ ZonesAscend

TypeInv == TypeOK /\ Control

\* The piece SparseAppend cuts holds at least one unit of payload and fits in the
\* zone and before the next barrier.
LEMMA WrSizeBounds ==
  ASSUME TypeInv, CanAppend
  PROVE  /\ WrSize \in Nat
         /\ WrSize > HeaderSize
         /\ WrSize - HeaderSize <= left
         /\ Blocks(WrSize) \in 1..capacity_
         /\ Blocks(WrSize) \in 1..(BarrierBlocks - append_bytes_since_last_barrier_)
<1> DEFINE c == capacity_
           r == BarrierBlocks - append_bytes_since_last_barrier_
<1>1. c \in Nat \ {0} /\ r \in Nat \ {0} /\ left \in Nat \ {0}
  BY DEF TypeInv, TypeOK, Control, CanAppend
<1>2. BlockSz \in Nat /\ HeaderSize \in Nat /\ HeaderSize < BlockSz
  BY DEF HeaderSize
<1> HIDE DEF c, r
<1>3. c * BlockSz \in Nat /\ r * BlockSz \in Nat
      /\ c * BlockSz >= BlockSz /\ r * BlockSz >= BlockSz
  BY <1>1, <1>2
<1>4. WrSize = Smaller(Smaller(left + HeaderSize, c * BlockSz), r * BlockSz)
  BY DEF WrSize, c, r
<1>5. /\ WrSize \in Nat /\ WrSize > HeaderSize /\ WrSize <= left + HeaderSize
      /\ WrSize <= c * BlockSz /\ WrSize <= r * BlockSz
  BY <1>1, <1>2, <1>3, <1>4 DEF Smaller
<1>6. Blocks(WrSize) \in 1..c /\ Blocks(WrSize) \in 1..r
  BY <1>1, <1>2, <1>5, BlocksBound
<1> QED
  BY <1>1, <1>2, <1>5, <1>6 DEF c, r

\* AllocateWALZone never goes back to a zone before the file's last extent.
LEMMA NextZoneType ==
  ASSUME TypeInv
  PROVE  /\ NextZone \in Nat \ {0}
         /\ extents_ # << >> => NextZone > 1
         /\ \A i \in DOMAIN extents_ : extents_[i].zone <= NextZone
<1>1. CASE extents_ = << >>
  BY <1>1 DEF NextZone
<1>2. CASE extents_ # << >>
  <2> DEFINE P(z) == /\ \E i \in DOMAIN extents_ : extents_[i].zone = z
                     /\ \A i \in DOMAIN extents_ : extents_[i].zone <= z
  <2>1. Len(extents_) \in DOMAIN extents_ /\ DOMAIN extents_ = 1..Len(extents_)
    BY <1>2 DEF TypeInv, TypeOK, ExtentList
  <2>2. extents_[Len(extents_)].zone \in 1..WalZones /\ P(extents_[Len(extents_)].zone)
    BY <2>1 DEF TypeInv, Control, ZonesAscend
  <2> DEFINE m == CHOOSE z \in 1..WalZones : P(z)
  <2>3. m \in 1..WalZones /\ P(m)
    BY <2>2
  <2>4. NextZone = 1 + m
    BY <1>2 DEF NextZone
  <2>5. \A i \in DOMAIN extents_ : extents_[i].zone \in Nat
    BY DEF TypeInv, Control, ZonesAscend
  <2> HIDE DEF m
  <2> QED
    BY <2>3, <2>4, <2>5
<1> QED
  BY <1>1, <1>2

\* What AllocateNewZone (in FlushBuffer and ZoneFull) does to the file's types,
\* whether the metadata log takes the record or not
LEMMA AllocateType ==
  ASSUME TypeInv, ZoneAvailable, AllocateNewZone \/ AllocateNewZoneError,
         UNCHANGED extents_
  PROVE  /\ active_zone_' \in 1..WalZones /\ wal_' \in Nat
         /\ capacity_' = ZoneCap /\ extent_start_' \in Nat
         /\ append_bytes_since_last_barrier_' \in 0..BarrierBlocks
         /\ meta' \in Metadata
         /\ ZonesAscend'
<1>0. SetActiveZone
  BY DEF AllocateNewZone, AllocateNewZoneError
<1>1. NextZone \in Nat \ {0} /\ \A i \in DOMAIN extents_ : extents_[i].zone <= NextZone
  BY NextZoneType
<1>2. active_zone_' \in 1..WalZones
  BY <1>0, <1>1 DEF ZoneAvailable, SetActiveZone
<1>3. wal_' \in Nat
  <2>1. (NextZone - 1) \div GroupZones \in Nat
    BY <1>1
  <2> QED
    BY <1>0, <2>1 DEF SetActiveZone
<1>4. ZonesAscend'
  BY <1>0, <1>1, <1>2 DEF SetActiveZone, ZonesAscend, TypeInv, Control
<1>5. meta' \in Metadata
  <2>1. CASE AllocateNewZone
    BY <2>1 DEF AllocateNewZone, PersistMetadata, Metadata, TypeInv, TypeOK
  <2>2. CASE AllocateNewZoneError
    BY <2>2 DEF AllocateNewZoneError, PersistMetadataError, TypeInv, TypeOK
  <2> QED
    BY <2>1, <2>2
<1> QED
  BY <1>0, <1>2, <1>3, <1>4, <1>5 DEF SetActiveZone, TypeInv, TypeOK

\* Facts about the syncing thread's record
LEMMA IdleType ==
  ASSUME syncer \in Syncer
  PROVE  Idle \in Syncer /\ Idle.pc = "idle" /\ Idle.kind = "none"
BY DEF Idle, Syncer

\* A syncing thread that moves on keeps the kind of its call.
LEMMA MoveType ==
  ASSUME syncer \in Syncer,
         NEW p \in {"idle", "walsync", "lock", "flush", "return", "closezone"}
  PROVE  LET s == [syncer EXCEPT !.pc = p]
         IN  s \in Syncer /\ s.pc = p /\ s.kind = syncer.kind
BY DEF Syncer

\* PersistMetadata writes a well-formed record.
LEMMA PersistType ==
  ASSUME TypeInv, NEW start \in Nat \cup {NO_EXTENT}, PersistMetadata(start)
  PROVE  meta' \in Metadata
BY DEF PersistMetadata, Metadata, TypeInv, TypeOK

\* A failed flush leaves the lock and the loop.
LEMMA FlushErrorType ==
  ASSUME TypeInv, FlushError, fpc = "loop" \/ buffer_mtx_ # "none"
  PROVE  /\ syncer' \in Syncer
         /\ syncer'.kind = "close" => syncer.kind = "close"
         /\ syncer'.pc = "closezone" => syncer'.kind = "close"
<1>1. syncer \in Syncer
  BY DEF TypeInv, TypeOK
<1>2. syncer' = IF buffer_mtx_ = "sync" THEN Idle ELSE syncer
  BY DEF FlushError
<1>3. syncer.pc = "closezone" => syncer.kind = "close"
  BY DEF TypeInv, Control
<1> QED
  BY <1>1, <1>2, <1>3, IdleType

\* Padding overwrites the buffer in place.
LEMMA PaddedType ==
  ASSUME NEW buf \in Seq(Nat), NEW n
  PROVE  Padded(buf, n) \in Seq(Nat) /\ Len(Padded(buf, n)) = Len(buf)
<1>1. DOMAIN buf = 1..Len(buf) /\ Len(buf) \in Nat /\ \A i \in DOMAIN buf : buf[i] \in Nat
  OBVIOUS
<1> QED
  BY <1>1 DEF Padded

\* memmove after a full zone stays inside the buffer.
LEMMA MemmoveType ==
  ASSUME TypeInv
  PROVE  Memmove(buffer) \in Seq(Nat) /\ Len(Memmove(buffer)) = Len(buffer)
<1>1. /\ DOMAIN buffer = 1..Len(buffer) /\ Len(buffer) \in Nat
      /\ \A i \in DOMAIN buffer : buffer[i] \in Nat
  BY DEF TypeInv, TypeOK
<1>2. left \in Nat /\ filled \in Nat /\ left + filled <= Len(buffer)
  BY DEF TypeInv, TypeOK, Control
<1> QED
  BY <1>1, <1>2 DEF Memmove

\* The entry SparseAppend submits is an entry.
LEMMA NewEntryType ==
  ASSUME TypeInv, CanAppend
  PROVE  /\ NewEntry \in Entry
         /\ NewEntry.seq = wal_seq_ /\ NewEntry.ipos = wp_
         /\ NewEntry.blocks = Blocks(WrSize)
<1> DEFINE n == WrSize - HeaderSize
<1>1. WrSize \in Nat /\ WrSize > HeaderSize /\ n <= left /\ Blocks(WrSize) \in Nat \ {0}
  BY WrSizeBounds DEF TypeInv, TypeOK
<1>2. n \in Nat /\ n <= Len(buffer) /\ buffer \in Seq(Nat) /\ Len(buffer) \in Nat
  BY <1>1 DEF TypeInv, TypeOK, Control, HeaderSize
<1>3. SubSeq(buffer, 1, n) \in Seq(Nat)
  BY <1>2
<1> HIDE DEF n
<1> QED
  BY <1>1, <1>3 DEF NewEntry, Entry, TypeInv, TypeOK, n

\* The invariant holds when the file has been created.
LEMMA TypeInit == Init => TypeInv
<1> SUFFICES ASSUME Init PROVE TypeInv
  OBVIOUS
<1>1. syncer \in Syncer /\ syncer.kind = "none" /\ syncer.pc = "idle"
  BY DEF Init, Syncer
<1>2. meta \in Metadata
  BY DEF Init, Metadata, ExtentList
<1>3. repeated \in BOOLEAN
  BY Zenon DEF Init
<1> QED
  BY <1>1, <1>2, <1>3 DEF Init, TypeInv, TypeOK, Control, ZonesAscend, ExtentList

\* What the steps do to the flag for a repeated flush
LEMMA RepeatedNext ==
  ASSUME [Next]_vars
  PROVE  \/ UNCHANGED repeated \/ repeated' = TRUE
         \/ repeated' = (repeated \/ left < Len(buffer)) \/ repeated' = (repeated \/ ZoneAvailable)
BY Zenon DEF Next, Flush, Failure, SyncStep, LandSome, AppendCall, BufferedWrite, FlushBuffer,
      FlushBufferNoSpace, FlushBufferUnlogged, SparseBarrier, SparseBarrierError, SparseAppend,
      SparseAppendError, ZoneFull, ZoneFullNoSpace, ZoneFullUnlogged, FlushReturn, SyncCall,
      DataSyncWALSync, DataSyncLock, SyncReturn, FsyncReturn, FsyncUnlogged, CloseWR,
      CloseWRUnlogged, CloseActiveZone, Land, vars

\* The counter of refused records and the flag for a repeated flush keep their types.
LEMMA HistoryType ==
  ASSUME TypeInv, [Next]_vars
  PROVE  unlogged' \in Nat /\ repeated' \in BOOLEAN
<1>1. unlogged \in Nat /\ repeated \in BOOLEAN
  BY DEF TypeInv, TypeOK
<1>2. UNCHANGED unlogged \/ unlogged' = unlogged + 1
  BY Zenon DEF Next, Flush, Failure, SyncStep, LandSome, AppendCall, BufferedWrite, FlushBuffer,
      FlushBufferNoSpace, FlushBufferUnlogged, SparseBarrier, SparseBarrierError, SparseAppend,
      SparseAppendError, ZoneFull, ZoneFullNoSpace, ZoneFullUnlogged, FlushReturn, SyncCall,
      DataSyncWALSync, DataSyncLock, SyncReturn, FsyncReturn, FsyncUnlogged, CloseWR,
      CloseWRUnlogged, CloseActiveZone, Land, AllocateNewZone, AllocateNewZoneError,
      PersistMetadata, PersistMetadataError, vars
<1>3. \/ UNCHANGED repeated \/ repeated' = TRUE
      \/ repeated' = (repeated \/ left < Len(buffer)) \/ repeated' = (repeated \/ ZoneAvailable)
  BY RepeatedNext
<1>4. repeated' \in BOOLEAN
  BY <1>1, <1>3, Zenon
<1> QED
  BY <1>1, <1>2, <1>4

\* Every step of the write path keeps the invariant.
LEMMA TypeNext == TypeInv /\ [Next]_vars => TypeInv'
<1> SUFFICES ASSUME TypeInv, [Next]_vars
             PROVE  TypeInv'
  OBVIOUS
<1>0. syncer \in Syncer
  BY DEF TypeInv, TypeOK
<1>h. unlogged' \in Nat /\ repeated' \in BOOLEAN
  BY HistoryType
<1> USE <1>h
<1>1. ASSUME NEW n \in AppendSizes, AppendCall(n)
      PROVE  TypeInv'
  BY <1>1 DEF AppendCall, TypeInv, TypeOK, Control, ZonesAscend, file, device
<1>2. CASE BufferedWrite
  <2> DEFINE t == Smaller(todo, buffer_sz - Len(buffer))
             d == [i \in 1..t |-> appended + i]
  <2>1. t \in Nat /\ t <= todo
    BY <1>2 DEF BufferedWrite, TypeInv, TypeOK, Smaller, buffer_sz, HeaderSize
  <2>2. d \in Seq(Nat) /\ Len(d) = t
    <3>1. appended \in Nat
      BY DEF TypeInv, TypeOK
    <3> HIDE DEF t
    <3> QED
      BY <2>1, <3>1
  <2>3. buffer' = buffer \o d /\ buffer \in Seq(Nat)
    BY <1>2 DEF BufferedWrite, TypeInv, TypeOK
  <2> HIDE DEF d
  <2>4. todo' \in Nat /\ appended' \in Nat /\ buffer_mtx_' \in {"none", "append"}
    BY <1>2, <2>1 DEF BufferedWrite, TypeInv, TypeOK
  <2> HIDE DEF t
  <2>5. buffer' \in Seq(Nat) /\ Len(buffer') = Len(buffer) + t
    BY <2>2, <2>3, ConcatProperties
  <2>6. /\ buffer_mtx_ = "append" /\ fpc = "idle" /\ left = 0 /\ filled = 0
        /\ UNCHANGED <<file, device, fpc, left, filled, open, errors, nospace, syncer,
                       meta, synced>>
    BY <1>2 DEF BufferedWrite, TypeInv, TypeOK, Control
  <2>7. TypeOK'
    BY <2>4, <2>5, <2>6 DEF TypeInv, TypeOK, file, device
  <2>8. Control'
    BY <2>1, <2>4, <2>5, <2>6 DEF TypeInv, Control, ZonesAscend, file
  <2> QED
    BY <2>7, <2>8 DEF TypeInv
<1>3. CASE FlushBuffer
  <2>1. /\ buffer_mtx_ # "none" /\ fpc = "idle" /\ filled = 0 /\ left' = Len(buffer)
        /\ buffer \in Seq(Nat) /\ Len(buffer) \in Nat /\ fpc' = "loop"
        /\ UNCHANGED <<wal_seq_, wal_syncs_, extents_, file_size_, wp_, device, buffer,
                       buffer_mtx_, todo, filled, open, appended, errors, nospace,
                       syncer, synced>>
    BY <1>3 DEF FlushBuffer, WantsFlush, TypeInv, TypeOK, Control
  <2>2. /\ active_zone_' \in 1..WalZones /\ wal_' \in Nat
        /\ capacity_' \in 1..ZoneCap /\ extent_start_' \in Nat \cup {NO_EXTENT}
        /\ append_bytes_since_last_barrier_' \in 0..BarrierBlocks
        /\ meta' \in Metadata
        /\ ZonesAscend'
    <3>1. CASE active_zone_ = 0
      <4>1. AllocateNewZone /\ ZoneAvailable /\ UNCHANGED extents_
        BY <1>3, <3>1 DEF FlushBuffer
      <4> QED
        BY <4>1, AllocateType
    <3>2. CASE active_zone_ # 0
      BY <1>3, <2>1, <3>2 DEF FlushBuffer, TypeInv, TypeOK, Control, ZonesAscend
    <3> QED
      BY <3>1, <3>2
  <2>3. TypeOK'
    BY <2>1, <2>2 DEF TypeInv, TypeOK, device
  <2>4. Control'
    BY <2>1, <2>2 DEF TypeInv, Control
  <2> QED
    BY <2>3, <2>4 DEF TypeInv
<1>4. CASE FlushBufferNoSpace
  <2>1. /\ syncer' \in Syncer
        /\ syncer'.pc = "closezone" => syncer'.kind = "close"
    BY <1>4, FlushErrorType DEF FlushBufferNoSpace, WantsFlush
  <2>2. nospace' \in Nat
    BY <1>4 DEF FlushBufferNoSpace, NoSpace, TypeInv, TypeOK
  <2>3. /\ fpc' = "idle" /\ left' = 0 /\ filled' = 0 /\ buffer_mtx_' = "none" /\ todo' = 0
        /\ UNCHANGED <<file, device, buffer, errors, meta, open, appended, synced>>
    BY <1>4 DEF FlushBufferNoSpace, FlushError
  <2>4. TypeOK'
    BY <2>1, <2>2, <2>3 DEF TypeInv, TypeOK, file, device
  <2>5. Control'
    <3>1. buffer \in Seq(Nat) /\ Len(buffer) \in Nat
      BY DEF TypeInv, TypeOK
    <3>2. active_zone_ = 0
      BY <1>4 DEF FlushBufferNoSpace
    <3> QED
      BY <2>1, <2>3, <3>1, <3>2 DEF TypeInv, Control, ZonesAscend, file
  <2> QED
    BY <2>4, <2>5 DEF TypeInv
<1>5. CASE SparseBarrier
  BY <1>5 DEF SparseBarrier, TypeInv, TypeOK, Control, ZonesAscend, device, writer
<1>6. CASE SparseAppend
  <2> DEFINE len == WrSize - HeaderSize
             b == Blocks(WrSize)
  <2>1. /\ len \in Nat \ {0} /\ len <= left
        /\ b \in 1..capacity_
        /\ b \in 1..(BarrierBlocks - append_bytes_since_last_barrier_)
    BY <1>6, WrSizeBounds DEF SparseAppend, HeaderSize
  <2>2. NewEntry \in Entry /\ NewEntry.blocks = b
    BY <1>6, NewEntryType DEF SparseAppend
  <2>3. buffer' \in Seq(Nat) /\ Len(buffer') = Len(buffer)
    BY <1>6, PaddedType DEF SparseAppend, TypeInv, TypeOK
  <2>4. active_zone_ \in 1..WalZones
    BY <1>6 DEF SparseAppend, CanAppend, TypeInv, TypeOK, Control
  <2> DEFINE x == [zone |-> active_zone_, length |-> len]
  <2>5. extents_' = Append(extents_, x) /\ x \in [zone : Nat, length : Nat]
    BY <1>6, <2>1, <2>4 DEF SparseAppend
  <2>6. /\ extents_' \in ExtentList
        /\ Len(extents_') = Len(extents_) + 1
        /\ \A i \in 1..Len(extents_) : extents_'[i] = extents_[i]
        /\ extents_'[Len(extents_) + 1].zone = active_zone_
    BY <2>5, AppendProperties DEF ExtentList, TypeInv, TypeOK
  <2>7. /\ append_bytes_since_last_barrier_' = append_bytes_since_last_barrier_ + b
        /\ capacity_' = capacity_ - b
        /\ wp_' = wp_ + b /\ extent_start_' = wp_ + b
        /\ file_size_' = file_size_ + len
        /\ left' = left - len
        /\ filled' = IF capacity_ = b THEN len ELSE 0
        /\ inflight' = inflight \cup {NewEntry}
        /\ wal_seq_' = wal_seq_ + 1
        /\ fpc = "loop"
        /\ UNCHANGED <<active_zone_, wal_, wal_syncs_, landed, dwp, buffer_mtx_, todo,
                       fpc, open, appended, errors, nospace, syncer, meta, synced>>
    BY <1>6, <2>2 DEF SparseAppend, CanAppend
  <2> HIDE DEF len, b, x
  <2>8. ZonesAscend'
    <3>1. /\ DOMAIN extents_ = 1..Len(extents_) /\ DOMAIN extents_' = 1..(Len(extents_) + 1)
          /\ Len(extents_) \in Nat
      BY <2>6 DEF ExtentList, TypeInv, TypeOK
    <3>2. /\ \A i \in 1..Len(extents_) : /\ extents_[i].zone \in 1..WalZones
                                        /\ extents_[i].zone <= active_zone_
          /\ \A i, j \in 1..Len(extents_) : i <= j => extents_[i].zone <= extents_[j].zone
      BY <2>4, <3>1 DEF ZonesAscend, TypeInv, Control
    <3>3. active_zone_' = active_zone_
      BY <2>7
    <3>4. ASSUME NEW i \in DOMAIN extents_'
          PROVE  extents_'[i].zone \in 1..WalZones /\ extents_'[i].zone <= active_zone_
      <4>1. CASE i = Len(extents_) + 1
        BY <4>1, <2>4, <2>6
      <4>2. CASE i \in 1..Len(extents_)
        BY <4>2, <2>6, <3>2
      <4> QED
        BY <3>1, <4>1, <4>2
    <3>5. ASSUME NEW i \in DOMAIN extents_', NEW j \in DOMAIN extents_', i <= j
          PROVE  extents_'[i].zone <= extents_'[j].zone
      <4>1. CASE j = Len(extents_) + 1
        BY <4>1, <2>6, <3>4
      <4>2. CASE j \in 1..Len(extents_)
        BY <4>2, <2>6, <3>1, <3>2, <3>5
      <4> QED
        BY <3>1, <4>1, <4>2
    <3> QED
      BY <3>3, <3>4, <3>5 DEF ZonesAscend
  <2>9. TypeOK'
    <3>1. /\ append_bytes_since_last_barrier_' \in 0..BarrierBlocks
          /\ capacity_' \in 0..ZoneCap /\ wp_' \in Nat /\ extent_start_' \in Nat
          /\ file_size_' \in Nat /\ left' \in Nat /\ filled' \in Nat /\ wal_seq_' \in Nat
      BY <2>1, <2>7 DEF TypeInv, TypeOK
    <3>2. inflight' \in SUBSET Entry
      BY <2>2, <2>7 DEF TypeInv, TypeOK
    <3> QED
      BY <2>3, <2>6, <2>7, <3>1, <3>2 DEF TypeInv, TypeOK
  <2>10. left' + filled' <= Len(buffer')
    BY <2>1, <2>3, <2>7 DEF TypeInv, TypeOK, Control
  <2>11. filled' = 0 => capacity_' > 0
    BY <2>1, <2>7 DEF TypeInv, TypeOK
  <2> QED
    BY <2>7, <2>8, <2>9, <2>10, <2>11 DEF TypeInv, Control
<1>7. CASE ZoneFull
  <2>1. /\ active_zone_' \in 1..WalZones /\ wal_' \in Nat
        /\ capacity_' = ZoneCap /\ extent_start_' \in Nat
        /\ append_bytes_since_last_barrier_' \in 0..BarrierBlocks
        /\ meta' \in Metadata
        /\ ZonesAscend'
    BY <1>7, AllocateType DEF ZoneFull
  <2>2. buffer' \in Seq(Nat) /\ Len(buffer') = Len(buffer)
    BY <1>7, MemmoveType DEF ZoneFull
  <2>3. /\ fpc = "loop" /\ filled' = 0
        /\ UNCHANGED <<wal_seq_, wal_syncs_, extents_, file_size_, wp_, device,
                       buffer_mtx_, todo, fpc, left, open, appended, errors, nospace,
                       syncer, synced>>
    BY <1>7 DEF ZoneFull
  <2>4. TypeOK'
    BY <2>1, <2>2, <2>3 DEF TypeInv, TypeOK, device
  <2>5. left' + filled' <= Len(buffer')
    BY <2>2, <2>3 DEF TypeInv, TypeOK, Control
  <2> QED
    BY <2>1, <2>3, <2>4, <2>5 DEF TypeInv, Control
<1>8. CASE ZoneFullNoSpace
  <2>1. /\ syncer' \in Syncer
        /\ syncer'.pc = "closezone" => syncer'.kind = "close"
    BY <1>8, FlushErrorType DEF ZoneFullNoSpace
  <2>2. nospace' \in Nat
    BY <1>8 DEF ZoneFullNoSpace, NoSpace, TypeInv, TypeOK
  <2>3. buffer' \in Seq(Nat) /\ Len(buffer') = Len(buffer) /\ Len(buffer) \in Nat
    BY <1>8, MemmoveType DEF ZoneFullNoSpace, TypeInv, TypeOK
  <2>4. /\ fpc' = "idle" /\ left' = 0 /\ filled' = 0 /\ buffer_mtx_' = "none" /\ todo' = 0
        /\ active_zone_' = 0
        /\ UNCHANGED <<wal_seq_, append_bytes_since_last_barrier_, wal_syncs_, extents_,
                       extent_start_, file_size_, wal_, wp_, capacity_, device, errors,
                       meta, open, appended, synced>>
    BY <1>8 DEF ZoneFullNoSpace, FlushError
  <2>5. TypeOK'
    BY <2>1, <2>2, <2>3, <2>4 DEF TypeInv, TypeOK, device
  <2>6. Control'
    BY <2>1, <2>3, <2>4 DEF TypeInv, Control, ZonesAscend
  <2> QED
    BY <2>5, <2>6 DEF TypeInv
<1>9. CASE FlushReturn
  <2>1. /\ fpc' = "idle" /\ buffer' = << >> /\ left = 0 /\ filled = 0
        /\ UNCHANGED <<file, device, todo, left, filled, open, appended, errors, nospace,
                       meta, synced>>
    BY <1>9 DEF FlushReturn
  <2>2. /\ syncer' \in Syncer /\ buffer_mtx_' \in {"none", "append"}
        /\ syncer'.pc = "closezone" => syncer'.kind = "close"
        /\ syncer'.kind = "close" => buffer_mtx_' # "append"
    <3>1. CASE buffer_mtx_ = "sync"
      BY <1>0, <1>9, <3>1, MoveType DEF FlushReturn
    <3>2. CASE buffer_mtx_ # "sync"
      BY <1>0, <1>9, <3>2 DEF FlushReturn, TypeInv, TypeOK, Control
    <3> QED
      BY <3>1, <3>2
  <2>3. TypeOK'
    BY <2>1, <2>2 DEF TypeInv, TypeOK, file, device
  <2>4. Control'
    BY <2>1, <2>2 DEF TypeInv, Control, ZonesAscend, file
  <2> QED
    BY <2>3, <2>4 DEF TypeInv
<1>10. CASE SparseAppendError
  <2>1. /\ syncer' \in Syncer
        /\ syncer'.pc = "closezone" => syncer'.kind = "close"
    BY <1>10, FlushErrorType DEF SparseAppendError, CanAppend
  <2>2. buffer' \in Seq(Nat) /\ Len(buffer') = Len(buffer) /\ Len(buffer) \in Nat
    BY <1>10, PaddedType DEF SparseAppendError, TypeInv, TypeOK
  <2>3. /\ fpc' = "idle" /\ left' = 0 /\ filled' = 0 /\ buffer_mtx_' = "none" /\ todo' = 0
        /\ wal_seq_' = wal_seq_ + 1 /\ errors' = errors + 1 /\ filled = 0
        /\ UNCHANGED <<append_bytes_since_last_barrier_, wal_syncs_, extents_,
                       extent_start_, file_size_, active_zone_, wal_, wp_, capacity_,
                       device, nospace, meta, open, appended, synced>>
    BY <1>10 DEF SparseAppendError, CanAppend, FlushError
  <2>4. TypeOK'
    BY <2>1, <2>2, <2>3 DEF TypeInv, TypeOK, device
  <2>5. Control'
    BY <2>1, <2>2, <2>3 DEF TypeInv, Control, ZonesAscend
  <2> QED
    BY <2>4, <2>5 DEF TypeInv
<1>11. ASSUME NEW k \in SyncKinds, SyncCall(k)
       PROVE  TypeInv'
  <2>1. syncer' \in Syncer /\ syncer'.kind = k /\ syncer'.pc = "walsync"
    BY <1>11 DEF SyncCall, Syncer, TypeInv, TypeOK
  <2>2. syncer.pc = "idle" /\ (k = "close" => buffer_mtx_ = "none")
    BY <1>11 DEF SyncCall
  <2> QED
    BY <1>11, <2>1, <2>2
    DEF SyncCall, TypeInv, TypeOK, Control, ZonesAscend, file, device, writer
<1>12. CASE DataSyncWALSync
  <2>1. syncer' \in Syncer /\ syncer'.pc = "lock" /\ syncer'.kind = syncer.kind
    BY <1>0, <1>12, MoveType DEF DataSyncWALSync
  <2> QED
    BY <1>12, <2>1
    DEF DataSyncWALSync, TypeInv, TypeOK, Control, ZonesAscend, file, device, writer
<1>13. CASE DataSyncLock
  <2>1. /\ syncer' \in Syncer /\ syncer'.kind = syncer.kind
        /\ syncer'.pc = IF buffer = << >> THEN "return" ELSE "flush"
    BY <1>0, <1>13, MoveType DEF DataSyncLock
  <2> QED
    BY <1>13, <2>1 DEF DataSyncLock, TypeInv, TypeOK, Control, ZonesAscend, file, device
<1>14. CASE SyncReturn
  <2>1. syncer' \in Syncer /\ syncer'.pc = "idle" /\ syncer'.kind = "none"
    BY <1>0, <1>14, IdleType DEF SyncReturn
  <2>2. synced' \in Nat
    BY <1>0, <1>14 DEF SyncReturn, Syncer
  <2> QED
    BY <1>14, <2>1, <2>2
    DEF SyncReturn, TypeInv, TypeOK, Control, ZonesAscend, file, device, writer
<1>15. CASE FsyncReturn
  <2>1. syncer' \in Syncer /\ syncer'.pc = "idle" /\ syncer'.kind = "none"
    BY <1>0, <1>15, IdleType DEF FsyncReturn
  <2>2. synced' \in Nat
    BY <1>0, <1>15 DEF FsyncReturn, Syncer
  <2>3. meta' \in Metadata
    BY <1>15, PersistType DEF FsyncReturn, TypeInv, TypeOK
  <2> QED
    BY <1>15, <2>1, <2>2, <2>3
    DEF FsyncReturn, TypeInv, TypeOK, Control, ZonesAscend, file, device, writer
<1>16. CASE CloseWR
  <2>1. syncer' \in Syncer /\ syncer'.pc = "closezone" /\ syncer'.kind = "close"
    BY <1>0, <1>16, MoveType DEF CloseWR
  <2>2. meta' \in Metadata
    BY <1>16, PersistType DEF CloseWR
  <2> QED
    BY <1>16, <2>1, <2>2
    DEF CloseWR, TypeInv, TypeOK, Control, ZonesAscend, device, writer
<1>17. CASE CloseActiveZone
  <2>1. syncer' \in Syncer /\ syncer'.pc = "idle" /\ syncer'.kind = "none"
    BY <1>0, <1>17, IdleType DEF CloseActiveZone
  <2>2. synced' \in Nat /\ open' \in BOOLEAN
    BY <1>0, <1>17 DEF CloseActiveZone, Syncer
  <2>3. fpc = "idle" /\ buffer_mtx_ # "sync"
    BY <1>17 DEF CloseActiveZone, TypeInv, TypeOK, Control
  <2>4. /\ active_zone_' = 0
        /\ UNCHANGED <<wal_seq_, append_bytes_since_last_barrier_, wal_syncs_, extents_,
                       extent_start_, file_size_, wal_, wp_, capacity_, device, buffer,
                       buffer_mtx_, todo, fpc, left, filled, appended, errors, nospace,
                       meta>>
    BY <1>17 DEF CloseActiveZone
  <2>5. TypeOK'
    BY <2>1, <2>2, <2>4 DEF TypeInv, TypeOK, device
  <2>6. Control'
    BY <2>1, <2>3, <2>4 DEF TypeInv, Control, ZonesAscend
  <2> QED
    BY <2>5, <2>6 DEF TypeInv
<1>18. ASSUME NEW e \in inflight, Land(e)
       PROVE  TypeInv'
  BY <1>18 DEF Land, Entry, TypeInv, TypeOK, Control, ZonesAscend, file, writer
<1>20. CASE SparseBarrierError
  <2>1. /\ syncer' \in Syncer
        /\ syncer'.pc = "closezone" => syncer'.kind = "close"
    BY <1>20, FlushErrorType DEF SparseBarrierError
  <2>2. /\ fpc' = "idle" /\ left' = 0 /\ filled' = 0 /\ buffer_mtx_' = "none" /\ todo' = 0
        /\ errors' = errors + 1 /\ filled = 0
        /\ UNCHANGED <<file, device, buffer, nospace, meta, open, appended, synced>>
    BY <1>20 DEF SparseBarrierError, FlushError
  <2>3. TypeOK'
    BY <2>1, <2>2 DEF TypeInv, TypeOK, file, device
  <2>4. buffer \in Seq(Nat) /\ Len(buffer) \in Nat
    BY DEF TypeInv, TypeOK
  <2>5. Control'
    BY <2>1, <2>2, <2>4 DEF TypeInv, Control, ZonesAscend, file
  <2> QED
    BY <2>3, <2>5 DEF TypeInv
<1>21. CASE FlushBufferUnlogged \/ ZoneFullUnlogged
  <2>1. /\ syncer' \in Syncer
        /\ syncer'.pc = "closezone" => syncer'.kind = "close"
    BY <1>21, FlushErrorType DEF FlushBufferUnlogged, ZoneFullUnlogged, WantsFlush
  <2>2. /\ active_zone_' \in 1..WalZones /\ wal_' \in Nat
        /\ capacity_' = ZoneCap /\ extent_start_' \in Nat
        /\ append_bytes_since_last_barrier_' \in 0..BarrierBlocks
        /\ meta' \in Metadata
        /\ ZonesAscend'
    BY <1>21, AllocateType DEF FlushBufferUnlogged, ZoneFullUnlogged
  <2>3. buffer' \in Seq(Nat) /\ Len(buffer') = Len(buffer) /\ Len(buffer) \in Nat
    BY <1>21, MemmoveType DEF FlushBufferUnlogged, ZoneFullUnlogged, TypeInv, TypeOK
  <2>4. /\ fpc' = "idle" /\ left' = 0 /\ filled' = 0 /\ buffer_mtx_' = "none" /\ todo' = 0
        /\ UNCHANGED <<wal_seq_, wal_syncs_, extents_, file_size_, wp_, device, errors,
                       nospace, open, appended, synced>>
    BY <1>21 DEF FlushBufferUnlogged, ZoneFullUnlogged, FlushError
  <2>5. TypeOK'
    BY <2>1, <2>2, <2>3, <2>4 DEF TypeInv, TypeOK, device
  <2>6. Control'
    BY <2>1, <2>2, <2>3, <2>4 DEF Control
  <2> QED
    BY <2>5, <2>6 DEF TypeInv
<1>22. CASE FsyncUnlogged \/ CloseWRUnlogged
  <2>1. syncer' \in Syncer /\ syncer'.pc = "idle" /\ syncer'.kind = "none"
    BY <1>0, <1>22, IdleType DEF FsyncUnlogged, CloseWRUnlogged
  <2>2. /\ syncer.pc = "return" /\ extent_start_' \in Nat \cup {NO_EXTENT}
        /\ UNCHANGED <<wal_seq_, append_bytes_since_last_barrier_, wal_syncs_, extents_,
                       file_size_, active_zone_, wal_, wp_, capacity_, device, writer,
                       meta, synced>>
    BY <1>22 DEF FsyncUnlogged, CloseWRUnlogged, PersistMetadataError, file, TypeInv, TypeOK
  <2> QED
    BY <2>1, <2>2 DEF TypeInv, TypeOK, Control, ZonesAscend, device, writer
<1>19. CASE UNCHANGED vars
  BY <1>19 DEF vars, file, device, writer, TypeInv, TypeOK, Control, ZonesAscend
<1> QED
  BY <1>1, <1>2, <1>3, <1>4, <1>5, <1>6, <1>7, <1>8, <1>9, <1>10, <1>11, <1>12, <1>13,
     <1>14, <1>15, <1>16, <1>17, <1>18, <1>19, <1>20, <1>21, <1>22
  DEF Next, Flush, Failure, SyncStep, LandSome

\* Every reachable state of the write path is type correct, and the threads'
\* positions agree with the lock, the active zone and the buffer.
THEOREM TypeCorrect == Spec => []TypeInv
BY TypeInit, TypeNext, PTL DEF Spec

\* Every variable keeps to its type: the barrier counter never passes the barrier
\* size and the zone's free blocks never go below zero (SparseAppend's three cuts).
THEOREM TypeOKCorrect == Spec => []TypeOK
<1>1. TypeInv => TypeOK
  BY DEF TypeInv
<1> QED
  BY <1>1, TypeCorrect, PTL

-----------------------------------------------------------------------------
(***************************************************************************)
(* Why a ZWAL log can be sorted chunk by chunk, and why Sync is durable,   *)
(* for every buffer, barrier and zone size, queue depth, workload and      *)
(* number of errors.                                                       *)
(*                                                                         *)
(* The argument for BarrierOrder.  The host counts the blocks it has       *)
(* submitted (wp_), the device those it has written (dwp): the difference  *)
(* is what is in flight, and all of that was submitted after the last      *)
(* barrier.  So whatever lands next lands behind the last barrier and      *)
(* before the next one, in the chunk the host meant it for, and submission *)
(* order is sequence order.                                                *)
(***************************************************************************)

Span(e) == e.ipos .. (e.ipos + e.blocks - 1)
Outstanding == UNION {Span(e) : e \in inflight}
LastBarrier == wal_syncs_ * BarrierBlocks

\* Host write pointer, barrier counter and device write pointer agree.
Pointers ==
  /\ wp_ = LastBarrier + append_bytes_since_last_barrier_
  /\ Cardinality(Outstanding) = wp_ - dwp

\* What is in flight was submitted behind the last barrier.
SinceBarrier ==
  \A e \in inflight : LastBarrier <= e.ipos /\ e.ipos + e.blocks <= wp_

\* What has landed did so in the chunk it was meant for.
InItsChunk ==
  \A l \in landed : /\ l.entry.ipos + l.entry.blocks <= wp_
                    /\ Chunk(l.dpos) = Chunk(l.entry.ipos)

\* Sequence numbers name entries and follow the host's write pointer.
SeqFollowsHost ==
  /\ \A e \in Entries : e.seq < wal_seq_
  /\ \A e, f \in Entries :
       /\ e.seq < f.seq => e.ipos + e.blocks <= f.ipos
       /\ e.seq = f.seq => e = f
  /\ \A l \in landed : l.entry \notin inflight

BarrierInv ==
  TypeInv /\ Pointers /\ SinceBarrier /\ InItsChunk /\ ChunkAligned /\ SeqFollowsHost

\* An entry of n blocks spans n addresses.
LEMMA SpanSize ==
  ASSUME NEW e \in Entry
  PROVE  /\ IsFiniteSet(Span(e)) /\ Cardinality(Span(e)) = e.blocks
         /\ Span(e) \subseteq Nat
<1>1. e.ipos \in Nat /\ e.blocks \in Nat \ {0}
  BY DEF Entry
<1> DEFINE a == e.ipos
           b == e.ipos + e.blocks - 1
<1>2. a \in Int /\ b \in Int /\ ~ a > b /\ b - a + 1 = e.blocks
  BY <1>1
<1>3. IsFiniteSet(a..b) /\ Cardinality(a..b) = b - a + 1
  BY <1>2, FS_Interval
<1> QED
  BY <1>1, <1>2, <1>3 DEF Span

\* The outstanding blocks lie between the last barrier and the host's write
\* pointer, so the device's write pointer has passed the last barrier.
LEMMA OutstandingBounds ==
  ASSUME BarrierInv
  PROVE  /\ Outstanding \subseteq LastBarrier .. (wp_ - 1)
         /\ IsFiniteSet(Outstanding)
         /\ LastBarrier \in Nat
         /\ LastBarrier <= dwp
<1>1. /\ LastBarrier \in Nat /\ wp_ \in Nat /\ dwp \in Nat /\ inflight \subseteq Entry
      /\ wp_ >= LastBarrier
  BY DEF BarrierInv, TypeInv, TypeOK, LastBarrier, Pointers
<1>2. ASSUME NEW x \in Outstanding
      PROVE  x \in LastBarrier .. (wp_ - 1)
  <2>1. PICK e \in inflight : x \in Span(e)
    BY DEF Outstanding
  <2>2. e.ipos \in Nat /\ e.blocks \in Nat
    BY <1>1 DEF Entry
  <2>3. LastBarrier <= e.ipos /\ e.ipos + e.blocks <= wp_
    BY DEF BarrierInv, SinceBarrier
  <2> QED
    BY <1>1, <2>1, <2>2, <2>3 DEF Span
<1> DEFINE I == LastBarrier .. (wp_ - 1)
<1>3. IsFiniteSet(I) /\ Cardinality(I) = wp_ - LastBarrier
  <2>1. LastBarrier \in Int /\ wp_ - 1 \in Int
    BY <1>1
  <2>2. IsFiniteSet(I) /\ Cardinality(I) = IF LastBarrier > wp_ - 1 THEN 0
                                           ELSE wp_ - 1 - LastBarrier + 1
    BY <2>1, FS_Interval
  <2> HIDE DEF I
  <2> QED
    BY <1>1, <2>2
<1>4. Outstanding \in SUBSET I
  BY <1>2
<1> HIDE DEF I
<1>5. IsFiniteSet(Outstanding) /\ Cardinality(Outstanding) <= Cardinality(I)
  BY <1>3, <1>4, FS_Subset
<1>6. Cardinality(Outstanding) \in Nat
  BY <1>5, FS_CardinalityType
<1>7. Cardinality(Outstanding) = wp_ - dwp
  BY DEF BarrierInv, Pointers
<1> QED
  BY <1>1, <1>3, <1>4, <1>5, <1>6, <1>7 DEF I

\* Two entries in flight share no block.
LEMMA SpansDisjoint ==
  ASSUME BarrierInv, NEW e \in inflight, NEW f \in inflight, e # f
  PROVE  Span(e) \cap Span(f) = {}
<1>1. e \in Entry /\ f \in Entry /\ e \in Entries /\ f \in Entries
  BY DEF BarrierInv, TypeInv, TypeOK, Entries
<1>2. /\ e.seq \in Nat /\ e.ipos \in Nat /\ e.blocks \in Nat
      /\ f.seq \in Nat /\ f.ipos \in Nat /\ f.blocks \in Nat
  BY <1>1 DEF Entry
<1>3. e.seq < f.seq \/ f.seq < e.seq
  BY <1>1, <1>2 DEF BarrierInv, SeqFollowsHost
<1>4. e.ipos + e.blocks <= f.ipos \/ f.ipos + f.blocks <= e.ipos
  BY <1>1, <1>3 DEF BarrierInv, SeqFollowsHost
<1> QED
  BY <1>2, <1>4 DEF Span

\* The invariant holds before the first write.
LEMMA BarrierInit == Init => BarrierInv
<1> SUFFICES ASSUME Init PROVE BarrierInv
  OBVIOUS
<1>1. TypeInv
  BY TypeInit
<1>2. inflight = {} /\ landed = {} /\ wp_ = 0 /\ dwp = 0 /\ wal_syncs_ = 0
      /\ append_bytes_since_last_barrier_ = 0
  BY DEF Init
<1>3. Outstanding = {} /\ Entries = {}
  BY <1>2 DEF Outstanding, Entries
<1>4. Pointers
  BY <1>2, <1>3, FS_EmptySet DEF Pointers, LastBarrier
<1> QED
  BY <1>1, <1>2, <1>3, <1>4
  DEF BarrierInv, SinceBarrier, InItsChunk, ChunkAligned, SeqFollowsHost

\* A step that neither submits, completes nor passes a barrier keeps the
\* invariant, even if it uses up a sequence number (SparseAppendError).
LEMMA BarrierFrame ==
  ASSUME BarrierInv, TypeInv', wal_seq_' \in {wal_seq_, wal_seq_ + 1},
         UNCHANGED <<wp_, wal_syncs_, append_bytes_since_last_barrier_, inflight,
                     landed, dwp>>
  PROVE  BarrierInv'
<1>1. Pointers'
  BY DEF BarrierInv, Pointers, Outstanding, LastBarrier
<1>2. SinceBarrier' /\ InItsChunk' /\ ChunkAligned'
  BY DEF BarrierInv, SinceBarrier, InItsChunk, ChunkAligned, LastBarrier
<1>3. Entries' = Entries
  BY DEF Entries
<1>4. \A e \in Entries : e.seq \in Nat
  BY DEF Entries, BarrierInv, TypeInv, TypeOK, Entry
<1>5. SeqFollowsHost'
  <2>1. wal_seq_ \in Nat
    BY DEF BarrierInv, TypeInv, TypeOK
  <2> QED
    BY <1>3, <1>4, <2>1 DEF BarrierInv, SeqFollowsHost
<1> QED
  BY <1>1, <1>2, <1>5 DEF BarrierInv

\* A barrier: nothing is in flight, and the counter starts again.
LEMMA BarrierBarrier ==
  ASSUME BarrierInv, TypeInv', SparseBarrier
  PROVE  BarrierInv'
<1>1. /\ inflight = {} /\ append_bytes_since_last_barrier_' = 0
      /\ wal_syncs_' = wal_syncs_ + 1
      /\ UNCHANGED <<wp_, wal_seq_, inflight, landed, dwp>>
  BY DEF SparseBarrier, WALSync, device
<1>2. append_bytes_since_last_barrier_ = BarrierBlocks
  BY DEF SparseBarrier, BarrierInv, TypeInv, TypeOK
<1>3. Pointers'
  <2>1. wal_syncs_ \in Nat
    BY DEF BarrierInv, TypeInv, TypeOK
  <2>2. (wal_syncs_ + 1) * BarrierBlocks = wal_syncs_ * BarrierBlocks + BarrierBlocks
    BY <2>1
  <2>3. wal_syncs_ * BarrierBlocks \in Nat
    BY <2>1
  <2>4. Outstanding' = Outstanding
    BY <1>1 DEF Outstanding
  <2> QED
    BY <1>1, <1>2, <2>2, <2>3, <2>4 DEF BarrierInv, Pointers, LastBarrier
<1>4. SinceBarrier' /\ InItsChunk' /\ ChunkAligned'
  BY <1>1 DEF BarrierInv, SinceBarrier, InItsChunk, ChunkAligned
<1>5. SeqFollowsHost'
  BY <1>1 DEF BarrierInv, SeqFollowsHost, Entries
<1> QED
  BY <1>3, <1>4, <1>5 DEF BarrierInv

\* Submitting an append moves the host's write pointer over the new entry.
LEMMA BarrierAppend ==
  ASSUME BarrierInv, TypeInv', SparseAppend
  PROVE  BarrierInv'
<1> DEFINE n == NewEntry
           b == Blocks(WrSize)
<1>1. CanAppend /\ TypeInv
  BY DEF SparseAppend, BarrierInv
<1>2. n \in Entry /\ n.seq = wal_seq_ /\ n.ipos = wp_ /\ n.blocks = b
  BY <1>1, NewEntryType
<1>3. b \in Nat \ {0} /\ b <= BarrierBlocks - append_bytes_since_last_barrier_
  <2>1. b \in 1..(BarrierBlocks - append_bytes_since_last_barrier_)
    BY <1>1, WrSizeBounds
  <2> HIDE DEF b
  <2> QED
    BY <2>1 DEF BarrierInv, TypeInv, TypeOK
<1>4. /\ inflight' = inflight \cup {n}
      /\ wp_' = wp_ + b /\ wal_seq_' = wal_seq_ + 1
      /\ append_bytes_since_last_barrier_' = append_bytes_since_last_barrier_ + b
      /\ UNCHANGED <<landed, dwp, wal_syncs_>>
  BY <1>2 DEF SparseAppend
<1> HIDE DEF n, b
<1>5. /\ wp_ \in Nat /\ dwp \in Nat /\ wal_seq_ \in Nat /\ inflight \subseteq Entry
      /\ append_bytes_since_last_barrier_ \in Nat
  BY <1>1 DEF TypeInv, TypeOK
<1>6. LastBarrier \in Nat /\ LastBarrier' = LastBarrier
  BY <1>1, <1>4 DEF TypeInv, TypeOK, LastBarrier
<1>7. Pointers'
  <2>1. Outstanding' = Outstanding \cup Span(n)
    BY <1>4 DEF Outstanding
  <2>2. IsFiniteSet(Outstanding) /\ Outstanding \subseteq LastBarrier .. (wp_ - 1)
    BY OutstandingBounds
  <2>3. IsFiniteSet(Span(n)) /\ Cardinality(Span(n)) = b
    BY <1>2, SpanSize
  <2>4. Outstanding \cap Span(n) = {}
    BY <1>2, <1>3, <1>5, <1>6, <2>2 DEF Span
  <2>5. Cardinality(Outstanding \cup Span(n)) =
          Cardinality(Outstanding) + Cardinality(Span(n))
          - Cardinality(Outstanding \cap Span(n))
    BY <2>2, <2>3, FS_Union
  <2>6. Cardinality(Outstanding') = Cardinality(Outstanding) + b
    <3>1. Cardinality(Outstanding) \in Nat
      BY <2>2, FS_CardinalityType
    <3>2. Cardinality(Outstanding \cap Span(n)) = 0
      BY <2>4, FS_EmptySet
    <3> QED
      BY <1>3, <2>1, <2>3, <2>5, <3>1, <3>2
  <2>7. /\ Cardinality(Outstanding) = wp_ - dwp
        /\ wp_ = LastBarrier + append_bytes_since_last_barrier_
    BY DEF BarrierInv, Pointers
  <2>8. Cardinality(Outstanding') = wp_' - dwp'
    BY <1>3, <1>4, <1>5, <2>6, <2>7
  <2>9. wp_' = LastBarrier' + append_bytes_since_last_barrier_'
    BY <1>3, <1>4, <1>5, <1>6, <2>7
  <2> QED
    BY <2>8, <2>9 DEF Pointers
<1>8. SinceBarrier'
  <2> SUFFICES ASSUME NEW e \in inflight'
               PROVE  LastBarrier' <= e.ipos /\ e.ipos + e.blocks <= wp_'
    BY DEF SinceBarrier
  <2>1. CASE e = n
    <3>1. LastBarrier <= wp_
      BY <1>5, <1>6 DEF BarrierInv, Pointers
    <3> QED
      BY <1>2, <1>4, <1>6, <2>1, <3>1, <1>3, <1>5
  <2>2. CASE e \in inflight
    <3>1. e.ipos \in Nat /\ e.blocks \in Nat
      BY <1>5, <2>2 DEF Entry
    <3>2. LastBarrier <= e.ipos /\ e.ipos + e.blocks <= wp_
      BY <2>2 DEF BarrierInv, SinceBarrier
    <3> QED
      BY <1>3, <1>4, <1>5, <1>6, <3>1, <3>2
  <2> QED
    BY <1>4, <2>1, <2>2
<1>9. \A l \in landed : l.entry \in Entry
  BY <1>1 DEF TypeInv, TypeOK
<1>10. InItsChunk' /\ ChunkAligned'
  <2>1. ASSUME NEW l \in landed
        PROVE  l.entry.ipos + l.entry.blocks <= wp_'
    <3>1. l.entry.ipos \in Nat /\ l.entry.blocks \in Nat
      BY <1>9 DEF Entry
    <3>2. l.entry.ipos + l.entry.blocks <= wp_
      BY DEF BarrierInv, InItsChunk
    <3> QED
      BY <1>3, <1>4, <1>5, <3>1, <3>2
  <2> QED
    BY <1>4, <2>1 DEF BarrierInv, InItsChunk, ChunkAligned
<1>11. \A e \in Entries : /\ e \in Entry
                          /\ e.seq \in Nat /\ e.seq < wal_seq_
                          /\ e.ipos + e.blocks <= wp_
  <2> SUFFICES ASSUME NEW e \in Entries
               PROVE  e \in Entry /\ e.seq < wal_seq_ /\ e.ipos + e.blocks <= wp_
    BY DEF Entry
  <2>1. e.seq < wal_seq_
    BY DEF BarrierInv, SeqFollowsHost
  <2>2. e \in Entry /\ e.ipos + e.blocks <= wp_
    BY <1>5, <1>9 DEF Entries, BarrierInv, SinceBarrier, InItsChunk
  <2> QED
    BY <2>1, <2>2
<1>12. SeqFollowsHost'
  <2>1. Entries' = Entries \cup {n}
    BY <1>4 DEF Entries
  <2>2. ASSUME NEW e \in Entries' PROVE e.seq < wal_seq_'
    BY <1>2, <1>4, <1>5, <1>11, <2>1
  <2>3. ASSUME NEW e \in Entries', NEW f \in Entries'
        PROVE  /\ e.seq < f.seq => e.ipos + e.blocks <= f.ipos
               /\ e.seq = f.seq => e = f
    BY <1>2, <1>5, <1>11, <2>1 DEF BarrierInv, SeqFollowsHost
  <2>4. ASSUME NEW l \in landed' PROVE l.entry \notin inflight'
    <3>1. l \in landed /\ l.entry \notin inflight /\ l.entry \in Entries
      BY <1>4 DEF BarrierInv, SeqFollowsHost, Entries
    <3>2. l.entry.seq < wal_seq_ /\ l.entry.seq \in Nat
      BY <1>11, <3>1
    <3> QED
      BY <1>2, <1>4, <1>5, <3>1, <3>2
  <2> QED
    BY <2>2, <2>3, <2>4 DEF SeqFollowsHost
<1> QED
  BY <1>7, <1>8, <1>10, <1>12 DEF BarrierInv

\* Whatever the device completes next lands in the chunk that is being filled.
LEMMA LandingChunk ==
  ASSUME BarrierInv, NEW e \in inflight
  PROVE  /\ Chunk(dwp) = wal_syncs_ /\ Chunk(dwp + e.blocks - 1) = wal_syncs_
         /\ Span(e) \in SUBSET Outstanding
<1>1. /\ wp_ \in Nat /\ dwp \in Nat /\ wal_syncs_ \in Nat /\ inflight \subseteq Entry
      /\ append_bytes_since_last_barrier_ \in 0..BarrierBlocks
  BY DEF BarrierInv, TypeInv, TypeOK
<1>2. e \in Entry /\ e.blocks \in Nat \ {0}
  BY <1>1 DEF Entry
<1>3. LastBarrier \in Nat /\ LastBarrier <= dwp /\ IsFiniteSet(Outstanding)
  BY OutstandingBounds
<1>4. Cardinality(Span(e)) = e.blocks
  BY <1>2, SpanSize
<1>5. Span(e) \in SUBSET Outstanding
  BY DEF Outstanding
<1>6. /\ Cardinality(Outstanding) = wp_ - dwp
      /\ wp_ = LastBarrier + append_bytes_since_last_barrier_
  BY DEF BarrierInv, Pointers
<1>7. dwp + e.blocks <= wp_
  <2>1. Cardinality(Span(e)) <= Cardinality(Outstanding)
    BY <1>3, <1>5, FS_Subset
  <2> QED
    BY <1>1, <1>2, <1>4, <1>6, <2>1
<1>8. dwp + e.blocks - 1 \in Nat /\ dwp <= dwp + e.blocks - 1
  BY <1>1, <1>2
<1>9. dwp + e.blocks - 1 < LastBarrier + BarrierBlocks
  BY <1>1, <1>2, <1>3, <1>6, <1>7
<1>10. LastBarrier <= dwp + e.blocks - 1 /\ dwp < LastBarrier + BarrierBlocks
  BY <1>1, <1>3, <1>8, <1>9
<1> QED
  BY <1>1, <1>3, <1>5, <1>8, <1>9, <1>10, ChunkIs DEF LastBarrier

\* Whatever the device completes next lands between the last barrier and the
\* next one.
LEMMA BarrierLand ==
  ASSUME BarrierInv, TypeInv', NEW e \in inflight, Land(e)
  PROVE  BarrierInv'
<1> DEFINE d == [entry |-> e, dpos |-> dwp]
<1>1. /\ inflight' = inflight \ {e} /\ landed' = landed \cup {d}
      /\ dwp' = dwp + e.blocks
      /\ UNCHANGED <<wp_, wal_syncs_, append_bytes_since_last_barrier_, wal_seq_>>
  BY DEF Land, file
<1>2. /\ wp_ \in Nat /\ dwp \in Nat /\ wal_syncs_ \in Nat /\ inflight \subseteq Entry
      /\ append_bytes_since_last_barrier_ \in 0..BarrierBlocks
  BY DEF BarrierInv, TypeInv, TypeOK
<1>3. e \in Entry /\ e.ipos \in Nat /\ e.blocks \in Nat \ {0}
  BY <1>2 DEF Entry
<1>4. d.entry = e /\ d.dpos = dwp
  OBVIOUS
<1> HIDE DEF d
<1>5. LastBarrier \in Nat /\ LastBarrier <= dwp /\ IsFiniteSet(Outstanding)
  BY OutstandingBounds
<1>6. LastBarrier' = LastBarrier
  BY <1>1 DEF LastBarrier
<1>7. IsFiniteSet(Span(e)) /\ Cardinality(Span(e)) = e.blocks
  BY <1>3, SpanSize
<1>8. Span(e) \in SUBSET Outstanding
  BY LandingChunk
<1>9. /\ Cardinality(Outstanding) = wp_ - dwp
      /\ wp_ = LastBarrier + append_bytes_since_last_barrier_
  BY DEF BarrierInv, Pointers
<1>10. Pointers'
  <2>1. Outstanding' = Outstanding \ Span(e)
    <3>1. ASSUME NEW f \in inflight \ {e} PROVE Span(f) \cap Span(e) = {}
      BY <3>1, SpansDisjoint
    <3> QED
      BY <1>1, <3>1 DEF Outstanding
  <2>2. Outstanding \cap Span(e) = Span(e)
    BY <1>8
  <2>3. Cardinality(Outstanding \ Span(e)) =
          Cardinality(Outstanding) - Cardinality(Outstanding \cap Span(e))
    BY <1>5, FS_Difference
  <2>4. Cardinality(Outstanding') = wp_ - dwp - e.blocks
    BY <1>7, <1>9, <2>1, <2>2, <2>3
  <2>5. wp_ - dwp - e.blocks = wp_' - dwp'
    BY <1>1, <1>2, <1>3
  <2> QED
    BY <1>1, <1>6, <1>9, <2>4, <2>5 DEF Pointers
<1>11. Chunk(dwp) = wal_syncs_ /\ Chunk(dwp + e.blocks - 1) = wal_syncs_
  BY LandingChunk
<1>12. /\ LastBarrier <= e.ipos /\ e.ipos + e.blocks <= wp_
  BY DEF BarrierInv, SinceBarrier
<1>13. Chunk(e.ipos) = wal_syncs_
  <2>1. e.ipos < LastBarrier + BarrierBlocks
    BY <1>2, <1>3, <1>5, <1>9, <1>12
  <2> QED
    BY <1>2, <1>3, <1>12, <2>1, ChunkIs DEF LastBarrier
<1>14. SinceBarrier'
  BY <1>1, <1>6 DEF BarrierInv, SinceBarrier
<1>15. InItsChunk'
  BY <1>1, <1>4, <1>11, <1>12, <1>13 DEF BarrierInv, InItsChunk
<1>16. ChunkAligned'
  BY <1>1, <1>4, <1>11 DEF BarrierInv, ChunkAligned
<1>17. SeqFollowsHost'
  <2>1. Entries' = Entries
    BY <1>1, <1>4 DEF Entries
  <2>2. ASSUME NEW l \in landed' PROVE l.entry \notin inflight'
    BY <1>1, <1>4 DEF BarrierInv, SeqFollowsHost
  <2> QED
    BY <1>1, <2>1, <2>2 DEF BarrierInv, SeqFollowsHost
<1> QED
  BY <1>10, <1>14, <1>15, <1>16, <1>17 DEF BarrierInv

\* Every step of the write path keeps the invariant.
LEMMA BarrierNext == BarrierInv /\ [Next]_vars => BarrierInv'
<1> SUFFICES ASSUME BarrierInv, [Next]_vars
             PROVE  BarrierInv'
  OBVIOUS
<1>1. TypeInv'
  BY TypeNext DEF BarrierInv
<1>2. CASE SparseBarrier
  BY <1>1, <1>2, BarrierBarrier
<1>3. CASE SparseAppend
  BY <1>1, <1>3, BarrierAppend
<1>4. ASSUME NEW e \in inflight, Land(e) PROVE BarrierInv'
  BY <1>1, <1>4, BarrierLand
<1> DEFINE Quiet == /\ wal_seq_' \in {wal_seq_, wal_seq_ + 1}
                    /\ UNCHANGED <<wp_, wal_syncs_, append_bytes_since_last_barrier_,
                                   inflight, landed, dwp>>
<1>5. ASSUME NEW n \in AppendSizes, AppendCall(n) PROVE Quiet
  BY <1>5 DEF AppendCall, file, device
<1>6. ASSUME NEW k \in SyncKinds, SyncCall(k) PROVE Quiet
  BY <1>6 DEF SyncCall, file, device
<1>7. ASSUME BufferedWrite \/ UNCHANGED vars PROVE Quiet
  BY <1>7 DEF BufferedWrite, vars, file, device
<1>8. ASSUME FlushBuffer PROVE Quiet
  BY <1>8 DEF FlushBuffer, AllocateNewZone, SetActiveZone, device
<1>9. ASSUME ZoneFull PROVE Quiet
  BY <1>9 DEF ZoneFull, AllocateNewZone, SetActiveZone, device
<1>10. ASSUME FlushBufferNoSpace \/ FlushReturn PROVE Quiet
  BY <1>10 DEF FlushBufferNoSpace, FlushReturn, file, device
<1>11. ASSUME ZoneFullNoSpace PROVE Quiet
  BY <1>11 DEF ZoneFullNoSpace, device
<1>12. ASSUME SparseAppendError PROVE Quiet
  BY <1>12 DEF SparseAppendError, device
<1>13. ASSUME SyncStep PROVE Quiet
  BY <1>13 DEF SyncStep, DataSyncWALSync, DataSyncLock, SyncReturn, FsyncReturn, CloseWR,
               CloseActiveZone, file, device
<1>15. ASSUME SparseBarrierError \/ FsyncUnlogged \/ CloseWRUnlogged PROVE Quiet
  BY <1>15 DEF SparseBarrierError, FsyncUnlogged, CloseWRUnlogged, file, device
<1>16. ASSUME FlushBufferUnlogged \/ ZoneFullUnlogged PROVE Quiet
  BY <1>16 DEF FlushBufferUnlogged, ZoneFullUnlogged, AllocateNewZoneError, SetActiveZone, device
<1>14. Quiet => BarrierInv'
  BY <1>1, BarrierFrame
<1> QED
  BY <1>2, <1>3, <1>4, <1>5, <1>6, <1>7, <1>8, <1>9, <1>10, <1>11, <1>12, <1>13, <1>14,
     <1>15, <1>16
  DEF Next, Flush, Failure, LandSome

\* What landed in an earlier chunk has the smaller sequence number.
LEMMA BarrierInvOrders == BarrierInv => BarrierOrder
<1> SUFFICES ASSUME BarrierInv, NEW a \in landed, NEW b \in landed,
                    Chunk(a.dpos) < Chunk(b.dpos)
             PROVE  a.entry.seq < b.entry.seq
  BY DEF BarrierOrder
<1>1. a.entry \in Entry /\ b.entry \in Entry /\ a.entry \in Entries /\ b.entry \in Entries
  BY DEF BarrierInv, TypeInv, TypeOK, Entries
<1>2. /\ a.entry.ipos \in Nat /\ b.entry.ipos \in Nat /\ a.entry.seq \in Nat
      /\ b.entry.seq \in Nat /\ b.entry.blocks \in Nat
  BY <1>1 DEF Entry
<1>3. Chunk(a.entry.ipos) < Chunk(b.entry.ipos)
  BY DEF BarrierInv, InItsChunk
<1>4. a.entry.ipos < b.entry.ipos
  BY <1>2, <1>3, ChunkMonotone
<1>5. a.entry.seq # b.entry.seq
  BY <1>1, <1>2, <1>4 DEF BarrierInv, SeqFollowsHost
<1>6. ~ b.entry.seq < a.entry.seq
  <2> SUFFICES ASSUME b.entry.seq < a.entry.seq PROVE FALSE
    OBVIOUS
  <2>1. b.entry.ipos + b.entry.blocks <= a.entry.ipos
    BY <1>1 DEF BarrierInv, SeqFollowsHost
  <2> QED
    BY <1>2, <1>4, <2>1
<1> QED
  BY <1>2, <1>5, <1>6

\* Sorting each barrier-sized chunk of the device by sequence number sorts the
\* whole log: SparseAppend's barriers against the device's reordering.
THEOREM BarrierOrderCorrect == Spec => []BarrierOrder
BY BarrierInit, BarrierNext, BarrierInvOrders, PTL DEF Spec

\* No entry straddles a chunk boundary ("Prevent cross-barrier write" in
\* SparseAppend).
THEOREM ChunkAlignedCorrect == Spec => []ChunkAligned
<1>1. BarrierInv => ChunkAligned
  BY DEF BarrierInv
<1> QED
  BY <1>1, BarrierInit, BarrierNext, PTL DEF Spec

-----------------------------------------------------------------------------
(***************************************************************************)
(* Sync.  Once WALSync has returned in DataSync, nothing of what the file  *)
(* had when the call began is in flight, and it stays that way: later      *)
(* entries lie behind it.                                                  *)
(***************************************************************************)

PastWALSync == {"lock", "flush", "return", "closezone"}

SyncInv ==
  /\ TypeInv
  /\ synced <= file_size_
  /\ syncer.flushed <= file_size_
  /\ \A e \in inflight : e.off <= file_size_
  /\ syncer.pc \in PastWALSync => \A e \in inflight : e.off >= syncer.flushed
  /\ SyncDurable

\* A step that submits nothing, completes nothing and lets no sync begin, pass
\* WALSync or return keeps the invariant.
LEMMA SyncFrame ==
  ASSUME SyncInv, TypeInv',
         inflight' \subseteq inflight,
         UNCHANGED <<file_size_, synced>>,
         syncer'.flushed = syncer.flushed,
         syncer'.pc \in PastWALSync => syncer.pc \in PastWALSync
  PROVE  SyncInv'
BY DEF SyncInv, SyncDurable

\* Moving the syncing thread on keeps what it found when it was called.
LEMMA MoveFlushed ==
  ASSUME syncer \in Syncer,
         NEW p \in {"idle", "walsync", "lock", "flush", "return", "closezone"}
  PROVE  /\ [syncer EXCEPT !.pc = p].flushed = syncer.flushed
         /\ Idle.flushed = syncer.flushed
BY DEF Syncer, Idle

\* Every step of the write path keeps the invariant.
LEMMA SyncNext == SyncInv /\ [Next]_vars => SyncInv'
<1> SUFFICES ASSUME SyncInv, [Next]_vars
             PROVE  SyncInv'
  OBVIOUS
<1>1. TypeInv /\ TypeInv'
  BY TypeNext DEF SyncInv
<1>2. syncer \in Syncer /\ file_size_ \in Nat /\ synced \in Nat /\ inflight \subseteq Entry
  BY <1>1 DEF TypeInv, TypeOK
<1>3. /\ syncer.flushed \in Nat
      /\ Idle.pc = "idle" /\ Idle.flushed = syncer.flushed
  BY <1>2, IdleType, MoveFlushed DEF Syncer
<1>4. \A e \in inflight : e.off \in Nat
  BY <1>2 DEF Entry
<1>5. CASE SparseAppend
  <2> DEFINE len == WrSize - HeaderSize
  <2>1. len \in Nat
    BY <1>1, <1>5, WrSizeBounds DEF SparseAppend, HeaderSize
  <2>2. NewEntry.off = file_size_
    BY DEF NewEntry
  <2>3. /\ inflight' = inflight \cup {NewEntry} /\ file_size_' = file_size_ + len
        /\ UNCHANGED <<syncer, synced>>
    BY <1>5 DEF SparseAppend
  <2> HIDE DEF len
  <2>4. file_size_ <= file_size_'
    BY <1>2, <2>1, <2>3
  <2>5. file_size_' \in Nat
    BY <1>2, <2>1, <2>3
  <2>6. synced' <= file_size_' /\ syncer'.flushed <= file_size_'
    BY <1>2, <1>3, <2>3, <2>4, <2>5 DEF SyncInv
  <2>7. \A e \in inflight' : e.off <= file_size_'
    BY <1>2, <1>4, <2>2, <2>3, <2>4, <2>5 DEF SyncInv
  <2>8. syncer'.pc \in PastWALSync => \A e \in inflight' : e.off >= syncer'.flushed
    BY <1>2, <1>3, <2>2, <2>3 DEF SyncInv
  <2>9. SyncDurable'
    BY <1>2, <2>2, <2>3 DEF SyncInv, SyncDurable
  <2> QED
    BY <1>1, <2>6, <2>7, <2>8, <2>9 DEF SyncInv
<1>6. ASSUME NEW k \in SyncKinds, SyncCall(k) PROVE SyncInv'
  <2>1. syncer'.flushed = file_size_ /\ syncer'.pc = "walsync"
    BY <1>6 DEF SyncCall
  <2>2. UNCHANGED <<file_size_, synced, inflight>>
    BY <1>6 DEF SyncCall, file, device
  <2> QED
    BY <1>1, <1>2, <2>1, <2>2 DEF SyncInv, SyncDurable, PastWALSync
<1>7. CASE DataSyncWALSync
  <2>1. inflight = {} /\ UNCHANGED <<file_size_, synced, inflight>>
    BY <1>7 DEF DataSyncWALSync, WALSync, file, device
  <2>2. syncer'.flushed = syncer.flushed
    BY <1>2, <1>7, MoveFlushed DEF DataSyncWALSync
  <2> QED
    BY <1>1, <2>1, <2>2 DEF SyncInv, SyncDurable
<1>8. CASE SyncReturn \/ FsyncReturn \/ CloseActiveZone
  <2>1. syncer.pc \in {"return", "closezone"} /\ syncer' = Idle /\ synced' = syncer.flushed
    BY <1>8 DEF SyncReturn, FsyncReturn, CloseActiveZone
  <2>2. UNCHANGED <<file_size_, inflight>>
    BY <1>8 DEF SyncReturn, FsyncReturn, CloseActiveZone, file, device
  <2>3. syncer'.pc \notin PastWALSync
    BY <1>3, <2>1 DEF PastWALSync
  <2>4. \A e \in inflight : e.off >= syncer.flushed
    BY <2>1 DEF SyncInv, PastWALSync
  <2> QED
    BY <1>1, <1>3, <2>1, <2>2, <2>3, <2>4 DEF SyncInv, SyncDurable
<1> DEFINE Quiet == /\ inflight' \subseteq inflight
                    /\ UNCHANGED <<file_size_, synced>>
                    /\ syncer'.flushed = syncer.flushed
                    /\ syncer'.pc \in PastWALSync => syncer.pc \in PastWALSync
<1>9. Quiet => SyncInv'
  BY <1>1, SyncFrame
<1>10. ASSUME NEW n \in AppendSizes, AppendCall(n) PROVE Quiet
  BY <1>10 DEF AppendCall, file, device
<1>11. ASSUME BufferedWrite \/ SparseBarrier \/ UNCHANGED vars PROVE Quiet
  BY <1>11 DEF BufferedWrite, SparseBarrier, vars, file, device
<1>12. ASSUME FlushBuffer \/ ZoneFull PROVE Quiet
  BY <1>12 DEF FlushBuffer, ZoneFull, device
<1>13. ASSUME FlushError PROVE /\ syncer'.flushed = syncer.flushed
                               /\ syncer'.pc \in PastWALSync => syncer.pc \in PastWALSync
                               /\ UNCHANGED synced
  BY <1>3, <1>13 DEF FlushError, PastWALSync
<1>14. ASSUME FlushBufferNoSpace \/ ZoneFullNoSpace \/ SparseAppendError PROVE Quiet
  BY <1>13, <1>14 DEF FlushBufferNoSpace, ZoneFullNoSpace, SparseAppendError, file, device
<1>18. ASSUME SparseBarrierError \/ FlushBufferUnlogged \/ ZoneFullUnlogged PROVE Quiet
  BY <1>13, <1>18 DEF SparseBarrierError, FlushBufferUnlogged, ZoneFullUnlogged, file, device
<1>19. ASSUME FsyncUnlogged \/ CloseWRUnlogged PROVE Quiet
  BY <1>3, <1>19 DEF FsyncUnlogged, CloseWRUnlogged, PastWALSync, file, device
<1>15. ASSUME FlushReturn PROVE Quiet
  <2>1. UNCHANGED <<file_size_, inflight, synced>>
    BY <1>15 DEF FlushReturn, file, device
  <2>2. CASE buffer_mtx_ = "sync"
    <3>1. syncer.pc \in PastWALSync
      BY <1>1, <2>2 DEF TypeInv, Control, PastWALSync
    <3>2. syncer'.flushed = syncer.flushed
      BY <1>2, <1>15, <2>2, MoveFlushed DEF FlushReturn
    <3> QED
      BY <2>1, <3>1, <3>2
  <2>3. CASE buffer_mtx_ # "sync"
    BY <1>15, <2>1, <2>3 DEF FlushReturn
  <2> QED
    BY <2>2, <2>3
<1>16. ASSUME DataSyncLock \/ CloseWR PROVE Quiet
  <2>1. syncer.pc \in PastWALSync /\ UNCHANGED <<file_size_, inflight, synced>>
    BY <1>16 DEF DataSyncLock, CloseWR, PastWALSync, file, device
  <2>2. syncer'.flushed = syncer.flushed
    BY <1>2, <1>16, MoveFlushed DEF DataSyncLock, CloseWR
  <2> QED
    BY <2>1, <2>2
<1>17. ASSUME NEW e \in inflight, Land(e) PROVE Quiet
  BY <1>17 DEF Land, file
<1> QED
  BY <1>5, <1>6, <1>7, <1>8, <1>9, <1>10, <1>11, <1>12, <1>14, <1>15, <1>16, <1>17,
     <1>18, <1>19
  DEF Next, Flush, Failure, SyncStep, LandSome

\* When Sync, Fsync or Close has returned, nothing the file held when it was
\* called is still in flight (WALSync in DataSync, racing the appending thread).
THEOREM SyncDurableCorrect == Spec => []SyncDurable
<1>1. Init => SyncInv
  <2> SUFFICES ASSUME Init PROVE SyncInv
    OBVIOUS
  <2>1. TypeInv
    BY TypeInit
  <2> QED
    BY <2>1 DEF Init, SyncInv, SyncDurable
<1>2. SyncInv => SyncDurable
  BY DEF SyncInv
<1> QED
  BY <1>1, <1>2, SyncNext, PTL DEF Spec

-----------------------------------------------------------------------------
(***************************************************************************)
(* The write path implements the chunked log of module ChunkLog, for every *)
(* buffer, barrier and zone size, queue depth and workload: an append maps *)
(* to Submit, a refused one to Refuse, a completion to Complete in the     *)
(* chunk being filled, a barrier to NextChunk, and all else stutters.  The *)
(* steps rest on BarrierInv.                                               *)
(***************************************************************************)

\* Before the first write the log is empty.
LEMMA ChunkLogInit == Init => ChunkedLog!Init
BY DEF Init, ChunkedLog!Init

\* A completion takes one sequence number out of those in flight, and no other
\* entry in flight has it.
LEMMA LandCompletes ==
  ASSUME BarrierInv, NEW e \in inflight, Land(e)
  PROVE  ChunkedLog!Complete(e.seq)
<1> DEFINE d == [entry |-> e, dpos |-> dwp]
<1>1. /\ inflight' = inflight \ {e} /\ landed' = landed \cup {d}
      /\ UNCHANGED <<wal_syncs_, wal_seq_>>
  BY DEF Land, file
<1>2. d.entry = e /\ d.dpos = dwp
  OBVIOUS
<1> HIDE DEF d
<1>3. \A f \in inflight : f.seq = e.seq => f = e
  BY DEF BarrierInv, SeqFollowsHost, Entries
<1>4. {f.seq : f \in inflight'} = {f.seq : f \in inflight} \ {e.seq}
  BY <1>1, <1>3
<1>5. Chunk(dwp) = wal_syncs_
  BY LandingChunk
<1>6. {[seq |-> l.entry.seq, chunk |-> Chunk(l.dpos)] : l \in landed'}
        = {[seq |-> l.entry.seq, chunk |-> Chunk(l.dpos)] : l \in landed}
          \cup {[seq |-> e.seq, chunk |-> wal_syncs_]}
  BY <1>1, <1>2, <1>5
<1> QED
  BY <1>1, <1>4, <1>6 DEF ChunkedLog!Complete

\* Every step of the write path is a step of the chunked log, or leaves it alone.
LEMMA ChunkLogNext ==
  BarrierInv /\ [Next]_vars => [ChunkedLog!Next]_(ChunkedLog!vars)
<1> SUFFICES ASSUME BarrierInv, [Next]_vars
             PROVE  [ChunkedLog!Next]_(ChunkedLog!vars)
  OBVIOUS
<1>1. CASE SparseBarrier
  <2>1. inflight = {} /\ wal_syncs_' = wal_syncs_ + 1
        /\ UNCHANGED <<wal_seq_, inflight, landed>>
    BY <1>1 DEF SparseBarrier, WALSync, device
  <2>2. ChunkedLog!NextChunk
    BY <2>1 DEF ChunkedLog!NextChunk
  <2> QED
    BY <2>2 DEF ChunkedLog!Next
<1>2. CASE SparseAppend
  <2>1. NewEntry.seq = wal_seq_
    BY DEF NewEntry
  <2>2. /\ inflight' = inflight \cup {NewEntry} /\ wal_seq_' = wal_seq_ + 1
        /\ UNCHANGED <<landed, wal_syncs_>>
    BY <1>2 DEF SparseAppend
  <2>3. {e.seq : e \in inflight'} = {e.seq : e \in inflight} \cup {wal_seq_}
    BY <2>1, <2>2
  <2>4. ChunkedLog!Submit
    BY <2>2, <2>3 DEF ChunkedLog!Submit
  <2> QED
    BY <2>4 DEF ChunkedLog!Next
<1>3. ASSUME NEW e \in inflight, Land(e) PROVE ChunkedLog!Next
  <2>1. ChunkedLog!Complete(e.seq)
    BY <1>3, LandCompletes
  <2> QED
    BY <2>1 DEF ChunkedLog!Next
<1>4. CASE SparseAppendError
  <2>1. wal_seq_' = wal_seq_ + 1 /\ UNCHANGED <<wal_syncs_, inflight, landed>>
    BY <1>4 DEF SparseAppendError, device
  <2>2. ChunkedLog!Refuse
    BY <2>1 DEF ChunkedLog!Refuse
  <2> QED
    BY <2>2 DEF ChunkedLog!Next
<1> DEFINE Quiet == UNCHANGED <<wal_seq_, wal_syncs_, inflight, landed>>
<1>5. ASSUME NEW n \in AppendSizes, AppendCall(n) PROVE Quiet
  BY <1>5 DEF AppendCall, file, device
<1>6. ASSUME NEW k \in SyncKinds, SyncCall(k) PROVE Quiet
  BY <1>6 DEF SyncCall, file, device
<1>7. ASSUME BufferedWrite \/ UNCHANGED vars PROVE Quiet
  BY <1>7 DEF BufferedWrite, vars, file, device
<1>8. ASSUME FlushBuffer \/ ZoneFull PROVE Quiet
  BY <1>8 DEF FlushBuffer, ZoneFull, device
<1>9. ASSUME FlushBufferNoSpace \/ ZoneFullNoSpace \/ FlushReturn PROVE Quiet
  BY <1>9 DEF FlushBufferNoSpace, ZoneFullNoSpace, FlushReturn, file, device
<1>10. ASSUME SyncStep PROVE Quiet
  BY <1>10 DEF SyncStep, DataSyncWALSync, DataSyncLock, SyncReturn, FsyncReturn, CloseWR,
               CloseActiveZone, file, device
<1>12. ASSUME SparseBarrierError \/ FlushBufferUnlogged \/ ZoneFullUnlogged \/ FsyncUnlogged
              \/ CloseWRUnlogged
       PROVE  Quiet
  BY <1>12 DEF SparseBarrierError, FlushBufferUnlogged, ZoneFullUnlogged, FsyncUnlogged,
               CloseWRUnlogged, file, device
<1>11. Quiet => UNCHANGED ChunkedLog!vars
  BY DEF ChunkedLog!vars
<1> HIDE DEF Quiet
<1> QED
  BY <1>1, <1>2, <1>3, <1>4, <1>5, <1>6, <1>7, <1>8, <1>9, <1>10, <1>11, <1>12
  DEF Next, Flush, Failure, LandSome

\* The write path of a ZWAL log implements the chunked log recovery relies on
\* (SparseAppend's barriers against TryRecoverWAL's chunks).
THEOREM ImplementsChunkLogCorrect == Spec => ImplementsChunkLog
<1>1. Spec => []BarrierInv
  BY BarrierInit, BarrierNext, PTL DEF Spec
<1> QED
  BY <1>1, ChunkLogInit, ChunkLogNext, PTL DEF Spec, ImplementsChunkLog, ChunkedLog!Spec

=============================================================================
