----------------------------- MODULE ZWalReadProofs -----------------------------
(***************************************************************************)
(* What a reader of a log is given, after a Close and after a crash.  For  *)
(* every size of blocks, zones, groups, barriers and reads, and every      *)
(* device: with a buffer of one block, flushed short by a Close alone, the *)
(* log in one group of zones, and a metadata log that refuses no record.   *)
(***************************************************************************)
EXTENDS ZWalRead, ZWalExtentProofs

USE SizeAssumption, BarrierAssumption, DeviceAssumption, WorkloadAssumption, ReadAssumption

-----------------------------------------------------------------------------
(***************************************************************************)
(* The log while it is written.  With a buffer of one block every entry is *)
(* one block, and only a close can submit one that is not full.            *)
(***************************************************************************)

\* A log that every entry fills to the block, in one group of zones: the default
\* buffer, and an application that only closes.  No record of it is refused.
FullBlocks ==
  /\ BufferBlocks = 1
  /\ SyncKinds \subseteq {"close"}
  /\ WalZones <= GroupZones
  /\ MaxUnlogged = 0

\* The closing thread has submitted its last entry, or no entry can follow.
Finished ==
  \/ syncer.pc = "flush" /\ fpc = "loop" /\ left = 0
  \/ syncer.pc \in {"return", "closezone"}
  \/ ~open
  \/ Stuck

\* Only closes are called, with nothing in flight before their own entry, and
\* the appending thread writes full buffers.
Calls ==
  /\ syncer.pc # "idle" => syncer.kind = "close"
  /\ syncer.pc = "lock" => inflight = {}
  /\ syncer.pc = "flush" /\ (fpc = "idle" \/ left > 0) => inflight = {}
  /\ buffer_mtx_ = "append" /\ fpc = "loop" /\ left > 0 => Len(buffer) = buffer_sz

\* The size of a file with these extents, all full but the last
SizeOf(exts) ==
  IF exts = << >> THEN 0
  ELSE (Len(exts) - 1) * buffer_sz + exts[Len(exts)].length

\* Entry i, its extent and the unit it begins with
Layout ==
  /\ wp_ = Len(extents_) /\ wp_ <= WalZones * ZoneCap
  /\ file_size_ = SizeOf(extents_)
  /\ \A e \in Entries :
       /\ e.blocks = 1 /\ e.ipos < wp_ /\ e.off = e.ipos * buffer_sz
       /\ Len(e.data) \in 1..buffer_sz
       /\ extents_[e.ipos + 1].length = Len(e.data)
  /\ \A i \in 0..(wp_ - 1) : \E e \in Entries : e.ipos = i

\* An entry that is not full is the last one, with nothing beside it in flight.
LastOnly ==
  \A e \in Entries :
    Len(e.data) # buffer_sz => Finished /\ e.ipos = wp_ - 1 /\ inflight \subseteq {e}

\* The device has one entry in each block, and one that is not full in the last.
Device ==
  /\ \A l \in landed : l.dpos < dwp
  /\ \A p \in 0..(dwp - 1) : \E l \in landed : l.dpos = p
  /\ \A l, m \in landed : l.dpos = m.dpos \/ l.entry = m.entry => l = m
  /\ \A l \in landed : Len(l.entry.data) # buffer_sz => l.dpos = dwp - 1

\* Where the active zone is: the zone the next entry goes to, or none
Zoned ==
  /\ wal_ \in {0, 1}
  /\ active_zone_ # 0 =>
       /\ wp_ + capacity_ = active_zone_ * ZoneCap
       /\ meta.start # NO_EXTENT => meta.start = (active_zone_ - 1) * ZoneCap
       /\ extents_ = << >> => active_zone_ = 1
  /\ filled > 0 =>
       /\ capacity_ = 0 /\ extents_ # << >>
       /\ extents_[Len(extents_)].zone = active_zone_
  /\ active_zone_ = 0 => extents_ = << >> \/ ~ZoneAvailable \/ ~open

\* What the metadata log has of the file
Persisted ==
  /\ meta.size = SizeOf(meta.extents)
  /\ meta.start = NO_EXTENT =>
       \/ meta.extents = << >> /\ meta.size = 0 /\ extents_ = << >> /\ active_zone_ = 0
       \/ /\ syncer.pc = "closezone" \/ ~open
          /\ meta.extents = extents_ /\ meta.size = file_size_
  /\ meta.start # NO_EXTENT =>
       /\ Len(meta.extents) = meta.start /\ meta.start <= Len(extents_)
       /\ \A i \in 1..meta.start : meta.extents[i] = extents_[i]
       /\ \E z \in Nat : meta.start = z * ZoneCap /\ wp_ <= (z + 1) * ZoneCap

\* The inductive invariant of the writer
RunInv ==
  StartInv /\ ContentInv /\ Calls /\ Layout /\ LastOnly /\ Device /\ Zoned /\ Persisted

-----------------------------------------------------------------------------
(***************************************************************************)
(* The log on the device and in the metadata: what a crash leaves as it is *)
(***************************************************************************)

\* The first n extents of exts have the lengths of the first n entries on the device.
Lengths(exts, n) ==
  /\ \A l \in landed : l.dpos < n => exts[l.dpos + 1].length = Len(l.entry.data)
  /\ n > 0 => exts[1].zone \in 1..GroupZones

\* The entries on the device: whole, in their chunk, numbered in the order of the
\* host, and only the last one short
OnDevice ==
  /\ landed \in SUBSET [entry : Entry, dpos : Nat]
  /\ dwp \in Nat /\ dwp <= GroupZones * ZoneCap
  /\ Device
  /\ \A l \in landed :
       /\ l.entry.off = l.entry.ipos * buffer_sz
       /\ Len(l.entry.data) \in 1..buffer_sz
       /\ \A i \in 1..Len(l.entry.data) : l.entry.data[i] = l.entry.off + i
       /\ Chunk(l.dpos) = Chunk(l.entry.ipos)
       /\ \A m \in landed : m.entry.seq < l.entry.seq <=> m.entry.ipos < l.entry.ipos
       /\ \A m \in landed : m.entry.ipos = l.entry.ipos => m.entry = l.entry
       /\ Len(l.entry.data) # buffer_sz => \A m \in landed : m.entry.ipos <= l.entry.ipos

\* The file was not persisted as closed before it was all on the device.
Trusted == meta.start = NO_EXTENT => Durable(meta.size)

\* The extents in the metadata match the entries on the device.
InMetadata ==
  /\ meta \in Metadata /\ meta.size = SizeOf(meta.extents)
  /\ meta.start = NO_EXTENT /\ Trusted =>
       Len(meta.extents) = dwp /\ Lengths(meta.extents, dwp)
  /\ meta.start # NO_EXTENT =>
       /\ Len(meta.extents) = meta.start /\ meta.start <= dwp
       /\ Lengths(meta.extents, meta.start)
       /\ \E z \in Nat : meta.start = z * ZoneCap /\ dwp <= (z + 1) * ZoneCap

\* What every mount begins with
LogInv == OnDevice /\ InMetadata

-----------------------------------------------------------------------------
(***************************************************************************)
(* Recovery and the reader                                                 *)
(***************************************************************************)

\* The reader before its first read
Fresh ==
  /\ wal_entries_ = << >> /\ end_ = 0 /\ jump_ = 0 /\ chunk_id_ = 0
  /\ reader_offset_ = 0 /\ reader_offset_index_ = 0
  /\ pc = "idle" /\ rp = 0 /\ result = << >>

\* The extents of the file and the entries on the device match, as far as recovery
\* has got.
Recovering ==
  /\ meta.start # NO_EXTENT
  /\ next_extent_start \in Nat /\ next_extent_start \in meta.start..dwp
  /\ extents_ \in ExtentList /\ Len(extents_) = next_extent_start
  /\ Lengths(extents_, next_extent_start)
  /\ wal_ \in {0, 1}

\* What the reader finds of the file
FileRead ==
  /\ extents_ \in ExtentList /\ Len(extents_) = dwp /\ Lengths(extents_, dwp)
  /\ file_size_ = SizeOf(extents_)
  /\ wal_ \in {0, 1}

\* The unit in front of entry i, when all entries before it are full
Start(i) == i * buffer_sz

\* s is chunk k of the log, in order, and without a gap as far as the log has none.
ChunkOf(s, k) ==
  /\ s \in Seq(Entry) /\ Len(s) = Smaller(BarrierBlocks, dwp - k * BarrierBlocks)
  /\ \A i \in 1..Len(s) :
       /\ Len(s[i].data) = extents_[k * BarrierBlocks + i].length
       /\ \A j \in 1..Len(s[i].data) : s[i].data[j] = s[i].off + j
       /\ \A n \in Nat : Durable(n) /\ Start(k * BarrierBlocks + i - 1) < n =>
                           s[i].off = Start(k * BarrierBlocks + i - 1)

\* The end of the first m entries
EndOf(m) == IF m = dwp THEN file_size_ ELSE Start(m)

\* The chunk that is loaded, if one is
Window ==
  IF chunk_id_ = 0 THEN wal_entries_ = << >> /\ end_ = 0 /\ jump_ = 0
  ELSE /\ chunk_id_ \in Nat \ {0} /\ jump_ = (chunk_id_ - 1) * BarrierBlocks
       /\ jump_ < dwp
       /\ ChunkOf(wal_entries_, chunk_id_ - 1)
       /\ end_ = EndOf(jump_ + Len(wal_entries_))

\* The reader is in the loaded chunk or at its end.
Within ==
  /\ result \in Seq(Nat) /\ Len(result) <= file_size_
  /\ IF chunk_id_ = 0 THEN result = << >>
     ELSE Start(jump_) <= Len(result) /\ Len(result) <= end_

\* r has unit i in place i, up to n.
Follows(r, n) == \A i \in 1..Len(r) : i <= n => r[i] = i

\* What was read, as far as the log has no gap
Content == \A n \in Nat : Durable(n) => Follows(result, n)

\* The reader is in front of unit o of entry g.
At(g, o) ==
  /\ g \in Nat /\ o \in Nat /\ g < dwp
  /\ Len(result) = Start(g) + o /\ o <= extents_[g + 1].length

\* Between two reads the position is in front of the next unit to read.
Idling ==
  /\ pc \in {"idle", "eof"} /\ rp = Len(result)
  /\ \/ dwp = 0
     \/ /\ At(reader_offset_index_, reader_offset_)
        /\ rp < file_size_ => reader_offset_ < extents_[reader_offset_index_ + 1].length
  /\ pc = "eof" => rp = file_size_

\* What a read has copied so far
InCall ==
  /\ r_sz \in Nat /\ read \in Nat /\ read <= r_sz /\ rp \in Nat /\ rp + r_sz <= file_size_
  /\ Len(result) = rp + read

\* On the way to an extent: the first of the read, or the one after a full copy
Looking ==
  /\ pc \in {"enter", "load", "extent"} /\ InCall
  /\ \/ /\ stage = "first" /\ read = 0
        /\ At(extend_id, reader_offset_)
        /\ reader_offset_ < extents_[extend_id + 1].length
     \/ /\ stage \in {"next", "last"} /\ chunk_id_ # 0
        /\ At(extend_id, r_off)
        /\ r_off = extents_[extend_id + 1].length
  /\ stage # "last" => read < r_sz
  /\ pc = "load" => Len(result) = end_
  /\ pc = "extent" /\ stage # "last" => Len(result) < end_

\* The entry at the position is loaded and has units left.
Copying ==
  /\ pc = "copy" /\ InCall
  /\ At(extend_id, r_off)
  /\ r_off < extents_[extend_id + 1].length
  /\ read < r_sz /\ Len(result) < end_

\* The read is done, and its position is one the next read can begin at.
Returning ==
  /\ pc = "return" /\ InCall
  /\ At(extend_id, r_off)
  /\ Len(result) < file_size_ => r_off < extents_[extend_id + 1].length

\* The reader, wherever it is
Reader ==
  /\ Window /\ Within /\ Content
  /\ Idling \/ Looking \/ Copying \/ Returning

\* The inductive invariant of the writer, the mount and the reader
ReadInv ==
  /\ mode \in {"run", "crashed", "recover", "mounted"}
  /\ mode = "run" => RunInv
  /\ mode # "run" => LogInv /\ appended \in Nat
  /\ mode = "recover" => Recovering
  /\ mode = "mounted" /\ Trusted => FileRead
  /\ ~Readable => Fresh
  /\ Readable /\ Trusted /\ ~ShortPadding(landed) => Fresh \/ Reader

-----------------------------------------------------------------------------
(***************************************************************************)
(* Arithmetic and sequences                                                *)
(***************************************************************************)

\* Multiples keep the order of their factors.
LEMMA Multiples ==
  ASSUME NEW a \in Nat, NEW b \in Nat, NEW c \in Nat, a <= b
  PROVE  a * c \in Nat /\ b * c \in Nat /\ a * c <= b * c
<1>1. PICK d \in Nat : b = a + d
  <2>1. b - a \in Nat /\ b = a + (b - a)
    OBVIOUS
  <2> QED
    BY <2>1
<1>2. b * c = a * c + d * c /\ d * c \in Nat /\ a * c \in Nat
  BY <1>1
<1> QED
  BY <1>2

\* Different factors are a whole multiple apart.
LEMMA Apart ==
  ASSUME NEW a \in Nat, NEW b \in Nat, NEW c \in Nat, a < b
  PROVE  a * c \in Nat /\ b * c \in Nat /\ a * c + c <= b * c /\ (a + 1) * c = a * c + c
<1>1. a + 1 \in Nat /\ a + 1 <= b
  OBVIOUS
<1>2. (a + 1) * c <= b * c /\ b * c \in Nat /\ a * c \in Nat
  BY <1>1, Multiples
<1>3. (a + 1) * c = a * c + c
  OBVIOUS
<1> QED
  BY <1>2, <1>3

\* A sequence without elements
LEMMA NoElements ==
  ASSUME NEW S, NEW s \in Seq(S)
  PROVE  s = << >> <=> Len(s) = 0
<1>1. Len(s) = 0 => s = << >>
  BY EmptySeq
<1>2. Len(<< >>) = 0
  OBVIOUS
<1> QED
  BY <1>1, <1>2

\* Facts the steps below use about sums
LEMMA Before == ASSUME NEW a \in Nat \ {0} PROVE \E z \in Nat : z = a - 1 /\ a = z + 1
<1>1. a - 1 \in Nat /\ a = (a - 1) + 1
  OBVIOUS
<1> QED
  BY <1>1

\* A summand is not more than the sum.
LEMMA PartOf == ASSUME NEW a \in Nat, NEW b \in Nat, NEW c, a + b = c PROVE a <= c
OBVIOUS

\* A multiple and the next one
LEMMA NextMultiple ==
  ASSUME NEW z \in Nat, NEW c \in Nat
  PROVE  z * c \in Nat /\ z * c <= (z + 1) * c /\ (z + 1) * c = z * c + c
OBVIOUS

\* An element of a sequence over a set is in the set.
LEMMA ElementOf ==
  ASSUME NEW S, NEW s \in Seq(S), NEW i \in 1..Len(s)
  PROVE  s[i] \in S
OBVIOUS

-----------------------------------------------------------------------------
(***************************************************************************)
(* Every step of the writer keeps RunInv.                                  *)
(***************************************************************************)

\* A block has room for the headers and at least one unit.
LEMMA BufferSize ==
  ASSUME FullBlocks
  PROVE  buffer_sz \in Nat \ {0} /\ buffer_sz = BlockSz - HeaderSize /\ HeaderSize \in Nat
BY DEF FullBlocks, buffer_sz, HeaderSize

\* The positions of the two threads exclude each other.
LEMMA Positions ==
  ASSUME RunInv
  PROVE  /\ TypeInv /\ BarrierInv /\ OneBlock
         /\ syncer \in Syncer /\ fpc \in {"idle", "loop"} /\ open \in BOOLEAN
         /\ left \in Nat /\ filled \in Nat
         /\ fpc = "loop" => buffer_mtx_ # "none" /\ active_zone_ # 0
         /\ left > 0 => fpc = "loop" /\ filled = 0
         /\ filled > 0 => fpc = "loop" /\ left = 0
         /\ buffer_mtx_ = "sync" => syncer.pc = "flush"
         /\ syncer.kind = "close" => buffer_mtx_ # "append"
         /\ syncer.pc # "idle" => open /\ syncer.kind = "close"
         /\ buffer_mtx_ # "none" => open
         /\ buffer_mtx_ \in {"none", "append", "sync"}
         /\ Stuck /\ open => buffer # << >>
         /\ syncer.pc \in {"return", "closezone"} => buffer = << >>
<1>1. TypeInv /\ BarrierInv /\ OneBlock /\ Closing /\ Calls
  BY DEF RunInv, ContentInv, StartInv
<1>2. /\ syncer \in Syncer /\ fpc \in {"idle", "loop"} /\ open \in BOOLEAN
      /\ buffer_mtx_ \in {"none", "append", "sync"} /\ left \in Nat /\ filled \in Nat
  BY <1>1 DEF TypeInv, TypeOK
<1>3. /\ (left > 0 \/ filled > 0) => fpc = "loop"
      /\ fpc = "loop" => buffer_mtx_ # "none" /\ active_zone_ # 0
      /\ buffer_mtx_ = "sync" => syncer.pc = "flush"
      /\ syncer.kind = "close" => buffer_mtx_ # "append"
  BY <1>1 DEF TypeInv, Control
<1>4. left > 0 => filled = 0
  BY <1>1, Zenon DEF OneBlock
<1>5. syncer.pc # "idle" => syncer.kind = "close"
  BY <1>1 DEF Calls
<1>6. /\ Stuck /\ open => buffer # << >>
      /\ syncer.kind = "close" /\ syncer.pc \in {"return", "closezone"} => buffer = << >>
      /\ syncer.pc # "idle" => open
      /\ buffer_mtx_ # "none" => open
  BY <1>1, Zenon DEF Closing
<1>7. filled > 0 => left = 0
  BY <1>2, <1>4
<1>8. syncer.pc \in {"return", "closezone"} => buffer = << >>
  BY <1>5, <1>6
<1> QED
  BY <1>1, <1>2, <1>3, <1>4, <1>5, <1>6, <1>7, <1>8

\* No record is refused, so that no flush, sync or close fails for one.
LEMMA WriterSteps ==
  ASSUME FullBlocks, RunInv, [Next]_vars
  PROVE  \/ \E n \in AppendSizes : AppendCall(n)
         \/ BufferedWrite \/ Flush \/ SparseAppendError \/ SparseBarrierError
         \/ \E k \in SyncKinds : SyncCall(k)
         \/ SyncStep \/ LandSome \/ UNCHANGED vars
<1>1. unlogged \in Nat /\ MaxUnlogged = 0
  BY Positions DEF TypeInv, TypeOK, FullBlocks
<1>2. ~PersistMetadataError
  BY <1>1 DEF PersistMetadataError
<1> QED
  BY <1>2 DEF Next, Failure, FlushBufferUnlogged, ZoneFullUnlogged, AllocateNewZoneError,
              FsyncUnlogged, CloseWRUnlogged

\* Where a zone is full and the next one is refused, the file has used up all zones.
LEMMA RefusedForever ==
  ASSUME FullBlocks, RunInv, filled > 0, NoSpace
  PROVE  ~ZoneAvailable
<1> SUFFICES ASSUME ZoneAvailable PROVE FALSE
  OBVIOUS
<1>1. NextZone \in Nat /\ NextZone > 1
  BY NextZoneType DEF RunInv, ContentInv, TypeInv, TypeOK, Extended
<1>2. PICK z \in 1..(GroupZones - 1) : z = NextZone - 1
  BY <1>1 DEF ZoneAvailable, FullBlocks
<1>3. z % GroupZones = z
  BY <1>2
<1> QED
  BY <1>2, <1>3 DEF NoSpace, NewGroup

\* Only SparseAppend moves the host's write pointer or adds to what is in flight.
LEMMA OthersKeep ==
  ASSUME FullBlocks, RunInv, [Next]_vars, ~SparseAppend
  PROVE  wp_' = wp_ /\ inflight' \subseteq inflight
<1> USE DEF vars, file, device
<1>1. ASSUME NEW e \in inflight, Land(e)
      PROVE  wp_' = wp_ /\ inflight' \subseteq inflight
  BY <1>1 DEF Land
<1>2. CASE UNCHANGED <<inflight, wp_>>
  BY <1>2
<1> QED
  BY <1>1, <1>2, WriterSteps
  DEF Flush, SyncStep, LandSome, AppendCall, BufferedWrite, FlushBuffer,
      FlushBufferNoSpace, SparseBarrier, ZoneFull, ZoneFullNoSpace, FlushReturn,
      SparseAppendError, SparseBarrierError, SyncCall, DataSyncWALSync, DataSyncLock,
      SyncReturn, FsyncReturn,
      CloseWR, CloseActiveZone

\* A finished log gets no more entries.
LEMMA FinishedStops ==
  ASSUME RunInv, Finished
  PROVE  ~CanAppend
BY Positions DEF CanAppend, Finished, Stuck

\* It stays finished.
LEMMA FinishedNext ==
  ASSUME FullBlocks, RunInv, [Next]_vars, Finished
  PROVE  Finished'
<1> USE DEF vars, file, device, writer
<1>0. Idle.pc = "idle" /\ Idle.kind = "none"
  BY Positions, IdleType
<1>1. ~CanAppend
  BY FinishedStops
<1>2. CASE Stuck
  <2>1. extents_' = extents_
    BY <1>1, EntriesKept DEF SparseAppend
  <2>2. active_zone_' = 0
    BY <1>2, WriterSteps
    DEF Stuck, Flush, SyncStep, LandSome, AppendCall, BufferedWrite, FlushBuffer,
      FlushBufferNoSpace, SparseBarrier, ZoneFull, ZoneFullNoSpace, FlushReturn,
      SparseAppendError, SparseBarrierError, SparseAppend, SyncCall, DataSyncWALSync, DataSyncLock,
      SyncReturn,
      FsyncReturn, CloseWR, CloseActiveZone, Land
  <2> QED
    BY <1>2, <2>1, <2>2, StuckKept DEF Finished, Stuck
<1>3. CASE ~open
  <2>1. ~open'
    BY <1>3, WriterSteps
    DEF Flush, SyncStep, LandSome, AppendCall, BufferedWrite, FlushBuffer,
      FlushBufferNoSpace, SparseBarrier, ZoneFull, ZoneFullNoSpace, FlushReturn, FlushError,
      SparseAppendError, SparseBarrierError, SparseAppend, SyncCall, DataSyncWALSync, DataSyncLock,
      SyncReturn,
      FsyncReturn, CloseWR, CloseActiveZone, Land
  <2> QED
    BY <2>1 DEF Finished
<1>4. CASE syncer.pc \in {"return", "closezone"} /\ open /\ ~Stuck
  <2>1. /\ fpc = "idle" /\ buffer_mtx_ = "none" /\ syncer.kind = "close" /\ syncer \in Syncer
    BY <1>4, Positions
  <2>2. CASE UNCHANGED syncer
    BY <1>4, <2>2 DEF Finished
  <2>3. CASE CloseWR
    <3>1. syncer'.pc = "closezone"
      BY <2>1, <2>3, MoveType DEF CloseWR
    <3> QED
      BY <3>1 DEF Finished
  <2>4. CASE CloseActiveZone
    BY <2>4 DEF CloseActiveZone, Finished
  <2> QED
    BY <1>4, <2>1, <2>2, <2>3, <2>4, WriterSteps
    DEF Flush, SyncStep, LandSome, AppendCall, BufferedWrite, FlushBuffer, WantsFlush,
      FlushBufferNoSpace, SparseBarrier, ZoneFull, ZoneFullNoSpace, FlushReturn,
      SparseAppendError, SparseBarrierError, SparseAppend, CanAppend, SyncCall,
      DataSyncWALSync, DataSyncLock, SyncReturn, FsyncReturn, Land
<1>5. CASE syncer.pc = "flush" /\ fpc = "loop" /\ left = 0
  <2>1. /\ buffer_mtx_ = "sync" /\ syncer.kind = "close" /\ syncer \in Syncer /\ open
        /\ left = 0
    BY <1>5, Positions
  <2>2. CASE UNCHANGED <<syncer, fpc, left>>
    BY <1>5, <2>2 DEF Finished
  <2>3. CASE FlushReturn
    <3>1. syncer'.pc = "return"
      BY <2>1, <2>3, MoveType DEF FlushReturn
    <3> QED
      BY <3>1 DEF Finished
  <2>4. CASE ZoneFullNoSpace
    <3>1. ~ZoneAvailable /\ active_zone_' = 0 /\ extents_' = extents_
      BY <2>4, RefusedForever DEF ZoneFullNoSpace
    <3>2. Stuck'
      BY <3>1, Zenon DEF Stuck, ZoneAvailable, NextZone
    <3> QED
      BY <3>2 DEF Finished
  <2> QED
    <3>0. ~(left > 0) /\ fpc # "idle"
      BY <1>5
    <3>1. /\ ~BufferedWrite /\ ~FlushBuffer /\ ~FlushBufferNoSpace /\ ~SparseBarrier
          /\ ~SparseAppend /\ ~SparseAppendError /\ ~SparseBarrierError
      <4>1. ~BufferedWrite /\ ~FlushBuffer /\ ~FlushBufferNoSpace
        BY <3>0, Zenon DEF BufferedWrite, FlushBuffer, WantsFlush, FlushBufferNoSpace
      <4>2. ~SparseBarrier /\ ~SparseBarrierError
        BY <3>0, Zenon DEF SparseBarrier, SparseBarrierError
      <4>3. ~SparseAppend /\ ~SparseAppendError
        BY <1>1, Zenon DEF SparseAppend, SparseAppendError
      <4> QED
        BY <4>1, <4>2, <4>3
    <3>2. ~SyncStep
      BY <1>5 DEF SyncStep, DataSyncWALSync, DataSyncLock, SyncReturn, FsyncReturn, CloseWR,
                  CloseActiveZone
    <3> QED
      BY <1>5, <2>2, <2>3, <2>4, <3>1, <3>2, WriterSteps
      DEF Flush, LandSome, AppendCall, ZoneFull, SyncCall, Land
<1> QED
  BY <1>2, <1>3, <1>4, <1>5 DEF Finished

\* Closes wait for the device before they write, and appends write full buffers.
LEMMA CallsNext ==
  ASSUME FullBlocks, RunInv, [Next]_vars
  PROVE  Calls'
<1> USE DEF vars, file, device, writer
<1>0. Idle.pc = "idle" /\ Idle.kind = "none"
  BY Positions, IdleType
<1>1. Calls
  BY DEF RunInv
<1>s. buffer_sz' = buffer_sz
  BY DEF buffer_sz, HeaderSize
<1>a. ASSUME syncer'.pc = "idle", fpc' = "idle" PROVE Calls'
  BY <1>a DEF Calls
<1>b. ASSUME UNCHANGED <<syncer, fpc, left, buffer, buffer_mtx_>>, inflight' \subseteq inflight
      PROVE  Calls'
  BY <1>1, <1>s, <1>b DEF Calls
<1>2. ASSUME NEW n \in AppendSizes, AppendCall(n) PROVE Calls'
  BY <1>a, <1>2, Positions DEF AppendCall
<1>3. CASE BufferedWrite
  BY <1>a, <1>3, Positions DEF BufferedWrite
<1>4. CASE FlushBuffer
  <2>1. /\ fpc = "idle" /\ fpc' = "loop" /\ UNCHANGED <<syncer, buffer, buffer_mtx_, inflight>>
        /\ buffer_mtx_ = "append" => Len(buffer) = buffer_sz
    BY <1>4 DEF FlushBuffer, WantsFlush
  <2> QED
    BY <1>1, <1>s, <2>1 DEF Calls
<1>5. CASE FlushBufferNoSpace \/ ZoneFullNoSpace \/ SparseAppendError \/ SparseBarrierError
  <2>1. FlushError /\ buffer_mtx_ # "none"
    BY <1>5, Positions
    DEF FlushBufferNoSpace, ZoneFullNoSpace, SparseAppendError, SparseBarrierError,
        WantsFlush, CanAppend
  <2>2. fpc' = "idle" /\ syncer' = IF buffer_mtx_ = "sync" THEN Idle ELSE syncer
    BY <2>1 DEF FlushError
  <2> QED
    BY <1>0, <1>a, <2>1, <2>2, Positions
<1>6. CASE SparseAppend
  <2>1. WrSize - HeaderSize = Len(buffer) /\ left = Len(buffer)
    BY <1>6, WholeBuffer DEF SparseAppend, RunInv, FullBlocks
  <2>2. /\ left' = left - (WrSize - HeaderSize) /\ fpc = "loop" /\ fpc' = "loop"
        /\ UNCHANGED syncer
    BY <1>6 DEF SparseAppend, CanAppend
  <2>3. left' = 0
    BY <2>1, <2>2, Positions
  <2>4. syncer.pc # "lock"
    BY <2>2, Positions
  <2> QED
    BY <1>1, <2>2, <2>3, <2>4 DEF Calls
<1>7. CASE ZoneFull
  <2>1. left = 0 /\ left' = 0 /\ fpc' = "loop" /\ UNCHANGED <<syncer, inflight>>
    BY <1>7, Positions DEF ZoneFull
  <2> QED
    BY <1>1, <2>1 DEF Calls
<1>8. CASE FlushReturn
  <2>1. fpc' = "idle" /\ buffer_mtx_ # "none" /\ UNCHANGED inflight
    BY <1>8, Positions DEF FlushReturn
  <2>2. CASE buffer_mtx_ = "sync"
    <3>1. syncer'.pc = "return" /\ syncer'.kind = "close"
      BY <1>8, <2>2, Positions, MoveType DEF FlushReturn
    <3> QED
      BY <2>1, <3>1 DEF Calls
  <2>3. CASE buffer_mtx_ # "sync"
    <3>1. syncer' = syncer /\ syncer.pc = "idle"
      BY <1>8, <2>1, <2>3, Positions DEF FlushReturn
    <3> QED
      BY <1>a, <2>1, <3>1
  <2> QED
    BY <2>2, <2>3
<1>9. ASSUME NEW k \in SyncKinds, SyncCall(k) PROVE Calls'
  <2>1. k = "close"
    BY DEF FullBlocks
  <2>2. syncer'.pc = "walsync" /\ syncer'.kind = "close" /\ UNCHANGED <<buffer_mtx_, fpc, left, buffer>>
    BY <1>9, <2>1 DEF SyncCall
  <2> QED
    BY <1>1, <1>s, <2>2 DEF Calls
<1>10. CASE DataSyncWALSync
  <2>1. syncer'.pc = "lock" /\ syncer'.kind = "close" /\ inflight' = {}
        /\ UNCHANGED <<buffer_mtx_, fpc, left, buffer>>
    BY <1>10, Positions, MoveType DEF DataSyncWALSync, WALSync
  <2> QED
    BY <1>1, <1>s, <2>1 DEF Calls
<1>11. CASE DataSyncLock
  <2>1. syncer'.pc \in {"return", "flush"} /\ syncer'.kind = "close" /\ inflight = {}
        /\ buffer_mtx_' # "append" /\ inflight' = {}
    BY <1>1, <1>11, Positions, MoveType DEF DataSyncLock, Calls
  <2> QED
    BY <1>1, <1>s, <2>1 DEF Calls
<1>12. CASE SyncReturn \/ FsyncReturn \/ CloseActiveZone
  <2>1. fpc = "idle" /\ syncer' = Idle /\ fpc' = fpc
    BY <1>12, Positions DEF SyncReturn, FsyncReturn, CloseActiveZone
  <2> QED
    BY <1>0, <1>a, <2>1
<1>13. CASE CloseWR
  <2>1. syncer'.pc = "closezone" /\ syncer'.kind = "close" /\ fpc' = "idle"
    BY <1>13, Positions, MoveType DEF CloseWR
  <2> QED
    BY <2>1 DEF Calls
<1>14. ASSUME NEW e \in inflight, Land(e) PROVE Calls'
  BY <1>b, <1>14 DEF Land
<1>15. CASE SparseBarrier \/ UNCHANGED vars
  BY <1>b, <1>15 DEF SparseBarrier
<1> QED
  BY <1>2, <1>3, <1>4, <1>5, <1>6, <1>7, <1>8, <1>9, <1>10, <1>11, <1>12, <1>13, <1>14, <1>15,
     WriterSteps
  DEF Flush, SyncStep, LandSome

\* What SparseAppend adds to a log of full entries
LEMMA AppendFull ==
  ASSUME FullBlocks, RunInv, SparseAppend
  PROVE  /\ NewEntry \in Entry /\ NewEntry.blocks = 1 /\ NewEntry.ipos = wp_
         /\ NewEntry.off = wp_ * buffer_sz /\ Len(NewEntry.data) = Len(buffer)
         /\ Len(buffer) \in 1..buffer_sz
         /\ Len(NewEntry.data) # buffer_sz => inflight = {} /\ syncer.pc = "flush"
         /\ Entries' = Entries \cup {NewEntry} /\ inflight' = inflight \cup {NewEntry}
         /\ wp_' = wp_ + 1 /\ capacity_' = capacity_ - 1 /\ capacity_ \in Nat \ {0}
         /\ file_size_ = wp_ * buffer_sz /\ file_size_' = wp_ * buffer_sz + Len(buffer)
         /\ Len(extents_') = Len(extents_) + 1
         /\ \A i \in 1..Len(extents_) : extents_'[i] = extents_[i]
         /\ extents_'[Len(extents_) + 1] = [zone |-> active_zone_, length |-> Len(buffer)]
         /\ left' = 0 /\ fpc' = "loop" /\ syncer' = syncer
         /\ filled' = IF capacity_ = 1 THEN Len(buffer) ELSE 0
         /\ \A e \in Entries : Len(e.data) = buffer_sz
<1>0. /\ TypeInv /\ CanAppend /\ BufferBlocks = 1 /\ ContentInv /\ Layout
      /\ buffer_sz \in Nat \ {0} /\ buffer_sz = BlockSz - HeaderSize /\ HeaderSize \in Nat
  BY Positions, BufferSize DEF SparseAppend, FullBlocks, RunInv
<1>1. /\ WrSize - HeaderSize = Len(buffer) /\ left = Len(buffer)
      /\ Len(buffer) \in Nat \ {0} /\ Len(buffer) <= buffer_sz /\ WrSize \in Nat
  BY <1>0, WholeBuffer, WrSizeBounds DEF ContentInv, OneBlock
<1>2. Blocks(WrSize) = 1
  <2>1. WrSize \in Nat \ {0} /\ WrSize <= 1 * BlockSz
    BY <1>0, <1>1
  <2> QED
    BY <2>1, BlocksBound
<1>3. NewEntry \in Entry /\ NewEntry.blocks = 1 /\ NewEntry.ipos = wp_
  BY <1>0, <1>2, NewEntryType
<1>4. ~Finished
  BY <1>0, FinishedStops
<1>5. /\ Entries' = Entries \cup {NewEntry} /\ Len(NewEntry.data) = Len(buffer)
      /\ Len(extents_') = Len(extents_) + 1
      /\ \A i \in 1..Len(extents_) : extents_'[i] = extents_[i]
  BY <1>0, <1>1, AppendAdds
<1>6. /\ inflight' = inflight \cup {NewEntry}
      /\ wp_' = wp_ + 1 /\ capacity_' = capacity_ - 1
      /\ file_size_' = file_size_ + Len(buffer)
      /\ extents_' = Append(extents_, [zone |-> active_zone_, length |-> Len(buffer)])
      /\ left' = left - Len(buffer) /\ fpc' = "loop" /\ syncer' = syncer
      /\ filled' = IF capacity_ = 1 THEN Len(buffer) ELSE 0
      /\ NewEntry.off = file_size_
  BY <1>1, <1>2, <1>3 DEF SparseAppend, CanAppend, NewEntry
<1>7. extents_'[Len(extents_) + 1] = [zone |-> active_zone_, length |-> Len(buffer)]
  BY <1>0, <1>6 DEF TypeInv, TypeOK, ExtentList
<1>8. \A e \in Entries : Len(e.data) = buffer_sz
  BY <1>4 DEF RunInv, LastOnly
<1>9. file_size_ = wp_ * buffer_sz
  <2>1. /\ wp_ = Len(extents_) /\ file_size_ = SizeOf(extents_) /\ wp_ \in Nat
        /\ extents_ \in ExtentList
    BY <1>0 DEF Layout, TypeInv, TypeOK
  <2>2. CASE wp_ = 0
    <3>1. extents_ = << >>
      BY <2>1, <2>2, NoElements DEF ExtentList
    <3> QED
      BY <1>0, <2>1, <2>2, <3>1 DEF SizeOf
  <2>3. CASE wp_ # 0
    <3>1. extents_ # << >>
      BY <2>1, <2>3
    <3>2. PICK e \in Entries : e.ipos = wp_ - 1
      <4>1. wp_ - 1 \in 0..(wp_ - 1)
        BY <2>1, <2>3
      <4> QED
        BY <1>0, <4>1 DEF Layout
    <3>3. extents_[e.ipos + 1].length = buffer_sz /\ e.ipos + 1 = wp_
      <4>1. Len(e.data) = buffer_sz /\ extents_[e.ipos + 1].length = Len(e.data)
        BY <1>0, <1>8 DEF Layout
      <4> QED
        BY <2>1, <3>2, <4>1
    <3>4. file_size_ = (wp_ - 1) * buffer_sz + buffer_sz
      BY <2>1, <3>1, <3>3 DEF SizeOf
    <3> QED
      BY <1>0, <2>1, <3>4
  <2> QED
    BY <2>2, <2>3
<1>10. Len(NewEntry.data) # buffer_sz => inflight = {} /\ syncer.pc = "flush"
  <2> SUFFICES ASSUME Len(buffer) # buffer_sz PROVE inflight = {} /\ syncer.pc = "flush"
    BY <1>5
  <2>1. fpc = "loop" /\ left > 0 /\ Calls
    BY <1>0 DEF CanAppend, RunInv
  <2>2. buffer_mtx_ = "sync"
    BY <2>1, Positions DEF Calls
  <2> QED
    BY <2>1, <2>2, Positions DEF Calls
<1>11. capacity_ \in Nat \ {0} /\ left' = 0
  BY <1>0, <1>1, <1>6, Positions DEF TypeInv, TypeOK, Control, CanAppend
<1> QED
  BY <1>0, <1>1, <1>3, <1>5, <1>6, <1>7, <1>8, <1>9, <1>10, <1>11

\* Entries and extents stay paired.
LEMMA LayoutNext ==
  ASSUME FullBlocks, RunInv, TypeInv', [Next]_vars, Zoned'
  PROVE  Layout' /\ LastOnly'
<1>0. /\ TypeInv /\ Layout /\ LastOnly /\ buffer_sz' = buffer_sz /\ buffer_sz \in Nat \ {0}
      /\ wp_ \in Nat /\ extents_ \in ExtentList
  BY Positions, BufferSize DEF RunInv, buffer_sz, HeaderSize, TypeInv, TypeOK
<1>1. CASE ~SparseAppend
  <2>1. Entries' = Entries /\ extents_' = extents_ /\ file_size_' = file_size_
        /\ wp_' = wp_ /\ inflight' \subseteq inflight
    BY <1>1, EntriesKept, OthersKeep
  <2>2. Layout'
    BY <1>0, <2>1 DEF Layout, SizeOf
  <2>3. Finished => Finished'
    BY FinishedNext
  <2>4. LastOnly'
    BY <1>0, <2>1, <2>3 DEF LastOnly
  <2> QED
    BY <2>2, <2>4
<1>2. CASE SparseAppend
  <2> DEFINE e == NewEntry
             n == Len(extents_)
  <2>1. /\ e \in Entry /\ e.blocks = 1 /\ e.ipos = wp_
        /\ e.off = wp_ * buffer_sz /\ Len(e.data) = Len(buffer)
        /\ Len(buffer) \in 1..buffer_sz
        /\ Len(e.data) # buffer_sz => inflight = {} /\ syncer.pc = "flush"
        /\ Entries' = Entries \cup {e} /\ inflight' = inflight \cup {e}
        /\ wp_' = wp_ + 1
        /\ file_size_' = wp_ * buffer_sz + Len(buffer)
        /\ Len(extents_') = n + 1
        /\ \A i \in 1..n : extents_'[i] = extents_[i]
        /\ extents_'[n + 1] = [zone |-> active_zone_, length |-> Len(buffer)]
        /\ left' = 0 /\ fpc' = "loop" /\ syncer' = syncer
        /\ \A f \in Entries : Len(f.data) = buffer_sz
    BY <1>2, AppendFull
  <2>2. n = wp_ /\ n \in Nat /\ extents_' \in ExtentList
    BY <1>0 DEF Layout, TypeInv, TypeOK
  <2>3. extents_'[n + 1].length = Len(buffer)
    BY <2>1
  <2>4. \A f \in Entries : /\ f.ipos \in Nat /\ f.ipos < wp_ /\ f.blocks = 1
                           /\ f.off = f.ipos * buffer_sz
                           /\ Len(f.data) \in 1..buffer_sz
                           /\ extents_[f.ipos + 1].length = Len(f.data)
    <3>1. \A f \in Entries : f.ipos \in Nat
      BY <1>0 DEF TypeInv, TypeOK, Entries, Entry
    <3>2. \A f \in Entries : /\ f.ipos < wp_ /\ f.blocks = 1
                             /\ f.off = f.ipos * buffer_sz
                             /\ Len(f.data) \in 1..buffer_sz
                             /\ extents_[f.ipos + 1].length = Len(f.data)
      BY <1>0, Zenon DEF Layout
    <3> QED
      BY <3>1, <3>2, Zenon
  <2> HIDE DEF e, n
  <2>5. \A f \in Entries : extents_'[f.ipos + 1].length = Len(f.data)
    <3> TAKE f \in Entries
    <3>1. f.ipos + 1 \in 1..n
      BY <2>2, <2>4
    <3>2. extents_'[f.ipos + 1] = extents_[f.ipos + 1]
      BY <2>1, <3>1
    <3> QED
      BY <2>4, <3>2
  <2>6. file_size_' = SizeOf(extents_')
    <3>1. extents_' # << >> /\ Len(extents_') - 1 = wp_ /\ Len(extents_') = n + 1
      BY <2>1, <2>2 DEF ExtentList
    <3> QED
      BY <1>0, <2>1, <2>2, <2>3, <3>1, Zenon DEF SizeOf
  <2>7. wp_' <= WalZones * ZoneCap
    <3>1. active_zone_' # 0
      BY <1>2, Positions DEF SparseAppend, CanAppend
    <3>2. wp_' + capacity_' = active_zone_' * ZoneCap
      BY <3>1 DEF Zoned
    <3>3. active_zone_' \in 1..WalZones /\ capacity_' \in Nat /\ wp_' \in Nat /\ ZoneCap \in Nat /\ WalZones \in Nat
      BY <3>1 DEF TypeInv, TypeOK
    <3>4. PICK a \in Nat : a = active_zone_' /\ a <= WalZones
      BY <3>3
    <3>5. a * ZoneCap <= WalZones * ZoneCap /\ a * ZoneCap \in Nat /\ WalZones * ZoneCap \in Nat
      BY <3>3, <3>4, Multiples
    <3> QED
      BY <3>2, <3>3, <3>4, <3>5
  <2>8. \A i \in 0..(wp_' - 1) : \E f \in Entries' : f.ipos = i
    <3> TAKE i \in 0..(wp_' - 1)
    <3>1. CASE i = wp_
      BY <2>1, <3>1
    <3>2. CASE i # wp_
      <4>1. i \in 0..(wp_ - 1)
        BY <1>0, <2>1, <3>2
      <4>2. \E f \in Entries : f.ipos = i
        BY <1>0, <4>1 DEF Layout
      <4> QED
        BY <2>1, <4>2
    <3> QED
      BY <3>1, <3>2
  <2>9. Layout'
    <3>1. wp_' = Len(extents_')
      BY <2>1, <2>2
    <3>2. \A f \in Entries' :
            /\ f.blocks = 1 /\ f.ipos < wp_' /\ f.off = f.ipos * buffer_sz
            /\ Len(f.data) \in 1..buffer_sz
            /\ extents_'[f.ipos + 1].length = Len(f.data)
      <4>1. ASSUME NEW f \in Entries PROVE f.ipos < wp_'
        BY <1>0, <2>1, <2>4
      <4>2. e.ipos < wp_' /\ e.ipos + 1 = n + 1
        BY <1>0, <2>1, <2>2
      <4> QED
        BY <2>1, <2>3, <2>4, <2>5, <4>1, <4>2
    <3> QED
      BY <1>0, <2>6, <2>7, <2>8, <3>1, <3>2 DEF Layout
  <2>10. LastOnly'
    <3> SUFFICES ASSUME Len(e.data) # buffer_sz
                 PROVE  Finished' /\ e.ipos = wp_' - 1 /\ inflight' \subseteq {e}
      BY <1>0, <2>1 DEF LastOnly
    <3>1. Finished'
      BY <2>1 DEF Finished
    <3>2. e.ipos = wp_' - 1
      BY <1>0, <2>1
    <3> QED
      BY <2>1, <3>1, <3>2
  <2> QED
    BY <2>9, <2>10
<1> QED
  BY <1>1, <1>2

\* Each append lands in a block of its own, and one that is not full comes last.
LEMMA DeviceNext ==
  ASSUME FullBlocks, RunInv, [Next]_vars
  PROVE  Device'
<1>0. /\ TypeInv /\ BarrierInv /\ Device /\ Layout /\ LastOnly /\ dwp \in Nat
      /\ buffer_sz' = buffer_sz
  BY Positions DEF RunInv, buffer_sz, HeaderSize, TypeInv, TypeOK
<1>1. CASE UNCHANGED <<landed, dwp>>
  BY <1>0, <1>1 DEF Device
<1>2. ASSUME NEW e \in inflight, Land(e) PROVE Device'
  <2> DEFINE d == [entry |-> e, dpos |-> dwp]
  <2>1. landed' = landed \cup {d} /\ dwp' = dwp + e.blocks
    BY <1>2 DEF Land
  <2>2. d.entry = e /\ d.dpos = dwp
    OBVIOUS
  <2> HIDE DEF d
  <2>3. e \in Entries /\ \A l \in landed : l.entry \in Entries
    BY DEF Entries
  <2>4. dwp' = dwp + 1
    <3>1. e.blocks = 1
      BY <1>0, <2>3 DEF Layout
    <3> QED
      BY <2>1, <3>1
  <2>5. \A l \in landed : l.entry # e /\ l.entry \notin inflight
    BY <1>0 DEF BarrierInv, SeqFollowsHost
  <2>6. \A l \in landed : l.dpos \in Nat /\ l.dpos < dwp
    BY <1>0 DEF Device, TypeInv, TypeOK
  <2>7. ASSUME NEW l \in landed PROVE Len(l.entry.data) = buffer_sz
    <3>1. l.entry \in Entries /\ ~(inflight \subseteq {l.entry})
      BY <2>3, <2>5
    <3> QED
      BY <1>0, <3>1 DEF LastOnly
  <2>8. \A l \in landed' : l.dpos < dwp'
    BY <1>0, <2>1, <2>2, <2>4, <2>6
  <2>9. \A p \in 0..(dwp' - 1) : \E l \in landed' : l.dpos = p
    <3> TAKE p \in 0..(dwp' - 1)
    <3>1. CASE p = dwp
      BY <2>1, <2>2, <3>1
    <3>2. CASE p # dwp
      <4>1. p \in 0..(dwp - 1)
        BY <1>0, <2>4, <3>2
      <4> QED
        BY <1>0, <2>1, <4>1 DEF Device
    <3> QED
      BY <3>1, <3>2
  <2>10. \A l, m \in landed' : l.dpos = m.dpos \/ l.entry = m.entry => l = m
    <3>1. \A l \in landed : l.dpos # d.dpos /\ l.entry # d.entry
      BY <1>0, <2>2, <2>5, <2>6
    <3>2. \A l, m \in landed : l.dpos = m.dpos \/ l.entry = m.entry => l = m
      BY <1>0, Zenon DEF Device
    <3> QED
      BY <2>1, <3>1, <3>2, Zenon
  <2>11. \A l \in landed' : Len(l.entry.data) # buffer_sz => l.dpos = dwp' - 1
    <3>1. d.dpos = dwp' - 1
      BY <1>0, <2>2, <2>4
    <3> QED
      BY <2>1, <2>7, <3>1
  <2> QED
    BY <1>0, <2>8, <2>9, <2>10, <2>11 DEF Device
<1> QED
  BY <1>1, <1>2, WriterSteps
  DEF vars, file, device, Flush, SyncStep, LandSome, AppendCall, BufferedWrite,
      FlushBuffer, FlushBufferNoSpace, SparseBarrier, SparseAppend, ZoneFull, ZoneFullNoSpace,
      FlushReturn, SparseAppendError, SparseBarrierError, SyncCall, DataSyncWALSync, DataSyncLock,
      SyncReturn,
      FsyncReturn, CloseWR, CloseActiveZone

\* The next zone is the one behind the zone of the last extent.
LEMMA NextZoneIs ==
  ASSUME TypeInv, extents_ # << >>
  PROVE  NextZone = 1 + extents_[Len(extents_)].zone
<1> DEFINE n == Len(extents_)
           L(z) == /\ \E i \in DOMAIN extents_ : extents_[i].zone = z
                   /\ \A i \in DOMAIN extents_ : extents_[i].zone <= z
<1>1. n \in Nat \ {0} /\ DOMAIN extents_ = 1..n
  BY EmptySeq DEF TypeInv, TypeOK, ExtentList
<1>2. /\ \A i \in DOMAIN extents_ : extents_[i].zone \in 1..WalZones
      /\ \A i, j \in DOMAIN extents_ : i <= j => extents_[i].zone <= extents_[j].zone
  BY DEF TypeInv, Control, ZonesAscend
<1> HIDE DEF n
<1>3. n \in DOMAIN extents_ /\ \A i \in DOMAIN extents_ : i <= n
  BY <1>1
<1>4. extents_[n].zone \in 1..WalZones /\ L(extents_[n].zone)
  BY <1>2, <1>3
<1>5. \A z \in 1..WalZones : L(z) => z = extents_[n].zone
  <2> TAKE z \in 1..WalZones
  <2> HAVE L(z)
  <2>1. extents_[n].zone <= z
    BY <1>3
  <2>2. PICK i \in DOMAIN extents_ : extents_[i].zone = z
    OBVIOUS
  <2>3. z <= extents_[n].zone
    BY <1>2, <1>3, <2>2
  <2> QED
    BY <1>4, <2>1, <2>3
<1> HIDE DEF L
<1>6. (CHOOSE z \in 1..WalZones : L(z)) = extents_[n].zone
  BY <1>4, <1>5
<1> QED
  BY <1>6 DEF NextZone, L, n

\* A group's worth of zones or less is one group.
LEMMA FirstGroup ==
  ASSUME FullBlocks, NEW z \in 1..GroupZones
  PROVE  (z - 1) \div GroupZones + 1 = 1
<1> DEFINE q == (z - 1) \div GroupZones
<1>1. q \in Int /\ q * GroupZones <= z - 1 /\ z - 1 < (q + 1) * GroupZones
  OBVIOUS
<1> HIDE DEF q
<1>2. q < 1 /\ q > -1
  BY <1>1
<1> QED
  BY <1>1, <1>2 DEF q

\* Where a zone is allocated: at a multiple of its size
LEMMA AllocateAt ==
  ASSUME FullBlocks, RunInv, ZoneAvailable, AllocateNewZone, UNCHANGED <<wp_, extents_>>,
         \/ active_zone_ = 0 /\ open
         \/ filled > 0
  PROVE  /\ active_zone_' \in Nat \ {0} /\ wal_' = 1 /\ capacity_' = ZoneCap
         /\ wp_' + capacity_' = active_zone_' * ZoneCap
         /\ meta' = [extents |-> extents_, start |-> wp_, size |-> file_size_, seq |-> wal_seq_]
         /\ wp_ = (active_zone_' - 1) * ZoneCap
         /\ extents_' = << >> => active_zone_' = 1
<1>0. /\ TypeInv /\ Zoned /\ Layout /\ wp_ \in Nat /\ wp_ = Len(extents_) /\ extents_ \in ExtentList
      /\ active_zone_ \in Nat
  <2>1. TypeInv /\ Zoned /\ Layout
    BY Positions DEF RunInv
  <2>2. wp_ \in Nat /\ extents_ \in ExtentList /\ active_zone_ \in Nat
    BY <2>1 DEF TypeInv, TypeOK
  <2> QED
    BY <2>1, <2>2 DEF Layout
<1>1. /\ active_zone_' = NextZone /\ capacity_' = ZoneCap
      /\ wal_' = (NextZone - 1) \div GroupZones + 1
      /\ meta' = [extents |-> extents_, start |-> wp_, size |-> file_size_, seq |-> wal_seq_]
  BY DEF AllocateNewZone, SetActiveZone, PersistMetadata
<1>2. NextZone \in Nat \ {0} /\ NextZone <= WalZones
  BY <1>0, NextZoneType DEF ZoneAvailable
<1>3. wal_' = 1
  <2>1. NextZone \in 1..GroupZones
    BY <1>2 DEF FullBlocks
  <2> QED
    BY <1>1, <2>1, FirstGroup
<1>4. wp_ = (NextZone - 1) * ZoneCap /\ (extents_ = << >> => NextZone = 1)
  <2>1. CASE extents_ = << >>
    <3>1. NextZone = 1 /\ wp_ = 0
      BY <1>0, <2>1 DEF NextZone
    <3> QED
      BY <3>1
  <2>2. CASE extents_ # << >>
    <3>1. filled > 0
      BY <1>0, <2>2 DEF Zoned
    <3>2. capacity_ = 0 /\ extents_[Len(extents_)].zone = active_zone_ /\ active_zone_ # 0
      BY <1>0, <3>1, Positions DEF Zoned
    <3>3. wp_ = active_zone_ * ZoneCap
      BY <1>0, <3>2 DEF Zoned
    <3>4. NextZone = 1 + active_zone_
      BY <1>0, <2>2, <3>2, NextZoneIs
    <3> QED
      BY <1>0, <2>2, <3>3, <3>4
  <2> QED
    BY <2>1, <2>2
<1>5. PICK z \in Nat : z + 1 = NextZone
  <2>1. NextZone - 1 \in Nat /\ (NextZone - 1) + 1 = NextZone
    BY <1>2
  <2> QED
    BY <2>1
<1>6. (z + 1) * ZoneCap = z * ZoneCap + ZoneCap /\ NextZone - 1 = z
  BY <1>5
<1> QED
  BY <1>0, <1>1, <1>2, <1>3, <1>4, <1>5, <1>6

\* Zones are filled one after the other.
LEMMA ZonedNext ==
  ASSUME FullBlocks, RunInv, [Next]_vars
  PROVE  Zoned'
<1> USE DEF vars, file, device, writer
<1>0. /\ TypeInv /\ Zoned /\ wp_ \in Nat /\ extents_ \in ExtentList /\ filled \in Nat
      /\ active_zone_ \in Nat
  <2>1. TypeInv /\ Zoned
    BY Positions DEF RunInv
  <2>2. /\ wp_ \in Nat /\ extents_ \in ExtentList /\ filled \in Nat /\ active_zone_ \in Nat
    BY <2>1 DEF TypeInv, TypeOK
  <2> QED
    BY <2>1, <2>2
<1>a. ASSUME UNCHANGED <<wal_, active_zone_, wp_, capacity_, extents_, open>>,
             meta' = meta \/ meta'.start = NO_EXTENT, filled' \in {filled, 0}
      PROVE  Zoned'
  BY <1>0, <1>a DEF Zoned, ZoneAvailable, NextZone
<1>b. ASSUME UNCHANGED <<wal_, extents_>>, active_zone_' = 0, filled' = 0,
             ~ZoneAvailable \/ ~open'
      PROVE  Zoned'
  BY <1>0, <1>b DEF Zoned, ZoneAvailable, NextZone
<1>c. ASSUME ZoneAvailable, AllocateNewZone, UNCHANGED <<wp_, extents_>>,
             (active_zone_ = 0 /\ open) \/ filled > 0, filled' = 0
      PROVE  Zoned'
  <2>1. /\ active_zone_' \in Nat \ {0} /\ wal_' = 1
        /\ wp_' + capacity_' = active_zone_' * ZoneCap
        /\ meta' = [extents |-> extents_, start |-> wp_, size |-> file_size_, seq |-> wal_seq_]
        /\ wp_ = (active_zone_' - 1) * ZoneCap
        /\ extents_' = << >> => active_zone_' = 1
    BY <1>c, AllocateAt
  <2>2. meta'.start = wp_
    BY <2>1
  <2> QED
    BY <1>c, <2>1, <2>2 DEF Zoned
<1>1. CASE FlushBuffer
  <2>1. buffer_mtx_ # "none" /\ fpc = "idle" /\ filled' = filled
    BY <1>1 DEF FlushBuffer, WantsFlush
  <2>2. open /\ filled = 0
    BY <1>0, <2>1, Positions
  <2>3. CASE active_zone_ = 0
    BY <1>1, <1>c, <2>1, <2>2, <2>3 DEF FlushBuffer
  <2>4. CASE active_zone_ # 0
    BY <1>1, <1>a, <2>1, <2>4 DEF FlushBuffer
  <2> QED
    BY <2>3, <2>4
<1>2. CASE ZoneFull
  BY <1>2, <1>c DEF ZoneFull
<1>3. CASE ZoneFullNoSpace
  <2>1. ~ZoneAvailable
    BY <1>3, RefusedForever DEF ZoneFullNoSpace
  <2> QED
    BY <1>3, <1>b, <2>1 DEF ZoneFullNoSpace, FlushError
<1>4. CASE SparseAppend
  <2> DEFINE n == Len(extents_)
  <2>1. /\ wp_' = wp_ + 1 /\ capacity_' = capacity_ - 1 /\ capacity_ \in Nat \ {0}
        /\ Len(extents_') = n + 1
        /\ extents_'[n + 1] = [zone |-> active_zone_, length |-> Len(buffer)]
        /\ filled' = IF capacity_ = 1 THEN Len(buffer) ELSE 0
    BY <1>4, AppendFull
  <2>2. active_zone_ # 0 /\ UNCHANGED <<active_zone_, meta, wal_, open>>
    BY <1>4, Positions DEF SparseAppend, CanAppend
  <2>3. n \in Nat /\ extents_' # << >> /\ extents_'[Len(extents_')].zone = active_zone_
    BY <1>0, <2>1 DEF ExtentList
  <2> HIDE DEF n
  <2>4. wp_ + capacity_ = active_zone_ * ZoneCap
    BY <1>0, <2>2 DEF Zoned
  <2>5. wp_' + capacity_' = active_zone_' * ZoneCap
    BY <1>0, <2>1, <2>2, <2>4
  <2>6. filled' > 0 => capacity_' = 0
    BY <2>1
  <2> QED
    BY <1>0, <2>2, <2>3, <2>5, <2>6 DEF Zoned
<1>5. CASE SparseAppendError \/ SparseBarrierError \/ FlushBufferNoSpace
  BY <1>a, <1>5 DEF SparseAppendError, SparseBarrierError, FlushBufferNoSpace, FlushError
<1>6. CASE CloseWR
  <2>1. meta'.start = NO_EXTENT
    BY <1>6 DEF CloseWR, PersistMetadata
  <2> QED
    BY <1>6, <1>a, <2>1 DEF CloseWR
<1>7. CASE CloseActiveZone
  <2>1. filled = 0
    BY <1>0, <1>7, Positions DEF CloseActiveZone
  <2> QED
    BY <1>7, <1>b, <2>1 DEF CloseActiveZone
<1>8. ASSUME FsyncReturn PROVE FALSE
  BY <1>8, Positions DEF FsyncReturn
<1>9. ASSUME NEW n \in AppendSizes, AppendCall(n) PROVE Zoned'
  BY <1>9, <1>a DEF AppendCall
<1>10. ASSUME NEW k \in SyncKinds, SyncCall(k) PROVE Zoned'
  BY <1>10, <1>a DEF SyncCall
<1>11. ASSUME NEW e \in inflight, Land(e) PROVE Zoned'
  BY <1>11, <1>a DEF Land
<1>12. CASE BufferedWrite \/ SparseBarrier \/ FlushReturn \/ DataSyncWALSync \/ DataSyncLock
            \/ SyncReturn \/ UNCHANGED vars
  BY <1>12, <1>a DEF BufferedWrite, SparseBarrier, FlushReturn, DataSyncWALSync, DataSyncLock,
                     SyncReturn
<1> QED
  BY <1>1, <1>2, <1>3, <1>4, <1>5, <1>6, <1>7, <1>8, <1>9, <1>10, <1>11, <1>12, WriterSteps
  DEF Flush, SyncStep, LandSome

\* The metadata log has the extents up to the last zone that was allocated, or all of a
\* file that is being closed.
LEMMA PersistedNext ==
  ASSUME FullBlocks, RunInv, TypeInv', Zoned', [Next]_vars
  PROVE  Persisted'
<1> USE DEF vars, file, device, writer
<1>0. /\ TypeInv /\ Zoned /\ Layout /\ Persisted
  BY Positions DEF RunInv
<1>t. /\ wp_ \in Nat /\ extents_ \in ExtentList /\ active_zone_ \in Nat /\ wp_ = Len(extents_)
      /\ meta.start \in Nat \cup {NO_EXTENT} /\ file_size_ \in Nat /\ wal_seq_ \in Nat
      /\ file_size_ = SizeOf(extents_)
  BY <1>0 DEF TypeInv, TypeOK, Metadata, Layout
<1>s. meta.size = SizeOf(meta.extents)
  BY <1>0 DEF Persisted
<1>p. /\ meta.start = NO_EXTENT =>
           \/ meta.extents = << >> /\ meta.size = 0 /\ extents_ = << >> /\ active_zone_ = 0
           \/ /\ syncer.pc = "closezone" \/ ~open
              /\ meta.extents = extents_ /\ meta.size = file_size_
      /\ meta.start # NO_EXTENT =>
           /\ Len(meta.extents) = meta.start /\ meta.start <= Len(extents_)
           /\ \A i \in 1..meta.start : meta.extents[i] = extents_[i]
           /\ \E z \in Nat : meta.start = z * ZoneCap /\ wp_ <= (z + 1) * ZoneCap
  BY <1>0, Zenon DEF Persisted
<1>a. ASSUME UNCHANGED <<meta, extents_, file_size_, wp_>>, active_zone_' \in {active_zone_, 0},
             (syncer.pc = "closezone" \/ ~open) => (syncer'.pc = "closezone" \/ ~open')
      PROVE  Persisted'
  <2>1. (meta.size = SizeOf(meta.extents))'
    BY <1>s, <1>a DEF SizeOf
  <2> QED
    BY <1>p, <1>a, <2>1 DEF Persisted
<1>c. ASSUME ZoneAvailable, AllocateNewZone, UNCHANGED <<wp_, extents_>>,
             (active_zone_ = 0 /\ open) \/ filled > 0
      PROVE  Persisted'
  <2>1. /\ active_zone_' \in Nat \ {0}
        /\ meta' = [extents |-> extents_, start |-> wp_, size |-> file_size_, seq |-> wal_seq_]
        /\ wp_ = (active_zone_' - 1) * ZoneCap
    BY <1>c, AllocateAt
  <2>2. meta'.start = wp_ /\ meta'.extents = extents_ /\ meta'.size = file_size_
    BY <2>1
  <2>s. (meta.size = SizeOf(meta.extents))'
    BY <1>t, <2>2 DEF SizeOf
  <2>3. wp_ # NO_EXTENT
    BY <1>t DEF NO_EXTENT
  <2>4. PICK z \in Nat : z = active_zone_' - 1 /\ active_zone_' = z + 1
    <3>0. active_zone_' \in Nat \ {0}
      BY <2>1
    <3> QED
      BY <3>0, Before
  <2>5. wp_ = z * ZoneCap /\ wp_ <= (z + 1) * ZoneCap
    <3>1. z * ZoneCap <= (z + 1) * ZoneCap
      BY NextMultiple
    <3> QED
      BY <2>1, <2>4, <3>1
  <2> QED
    BY <1>c, <1>t, <2>2, <2>3, <2>5, <2>s DEF Persisted
<1>1. CASE FlushBuffer
  <2>1. buffer_mtx_ # "none" /\ UNCHANGED <<syncer, open>>
    BY <1>1 DEF FlushBuffer, WantsFlush
  <2>2. open
    BY <2>1, Positions
  <2>3. CASE active_zone_ = 0
    BY <1>1, <1>c, <2>1, <2>2, <2>3 DEF FlushBuffer
  <2>4. CASE active_zone_ # 0
    BY <1>1, <1>a, <2>1, <2>4 DEF FlushBuffer
  <2> QED
    BY <2>3, <2>4
<1>2. CASE ZoneFull
  BY <1>2, <1>c DEF ZoneFull
<1>3. CASE ZoneFullNoSpace \/ SparseAppendError \/ SparseBarrierError \/ FlushBufferNoSpace
  <2>1. FlushError /\ buffer_mtx_ # "none" /\ UNCHANGED <<meta, extents_, file_size_, wp_>>
        /\ active_zone_' \in {active_zone_, 0}
    BY <1>3, Positions
    DEF ZoneFullNoSpace, SparseAppendError, SparseBarrierError, FlushBufferNoSpace,
        CanAppend, WantsFlush
  <2>2. syncer.pc # "closezone" /\ open
    BY <2>1, Positions
  <2> QED
    BY <1>a, <2>1, <2>2
<1>4. CASE SparseAppend
  <2> DEFINE n == Len(extents_)
  <2>1. /\ Len(extents_') = n + 1
        /\ \A i \in 1..n : extents_'[i] = extents_[i]
    BY <1>4, AppendFull
  <2>2. active_zone_ # 0 /\ UNCHANGED <<active_zone_, meta>> /\ open /\ syncer.pc # "closezone"
    BY <1>4, Positions DEF SparseAppend, CanAppend
  <2>3. meta.start # NO_EXTENT /\ meta.start \in Nat
    BY <1>p, <1>t, <2>2
  <2>4. meta.start = (active_zone_ - 1) * ZoneCap
    BY <1>0, <2>2, <2>3 DEF Zoned
  <2>5. wp_' + capacity_' = active_zone_ * ZoneCap /\ capacity_' \in Nat /\ wp_' \in Nat
    <3>1. active_zone_' # 0 /\ active_zone_' = active_zone_
      BY <2>2
    <3>2. wp_' + capacity_' = active_zone_' * ZoneCap
      BY <3>1 DEF Zoned
    <3>3. capacity_' \in Nat /\ wp_' \in Nat
      BY DEF TypeInv, TypeOK
    <3> QED
      BY <3>1, <3>2, <3>3
  <2>6. PICK z \in Nat : z = active_zone_ - 1 /\ active_zone_ = z + 1
    BY <1>t, <2>2
  <2>7. meta.start = z * ZoneCap /\ wp_' <= (z + 1) * ZoneCap
    <3>1. meta.start = z * ZoneCap /\ wp_' + capacity_' = (z + 1) * ZoneCap
      BY <2>4, <2>5, <2>6, Zenon
    <3>2. PICK c \in Nat : c = (z + 1) * ZoneCap
      BY Multiples
    <3>3. wp_' + capacity_' = c /\ capacity_' \in Nat /\ wp_' \in Nat
      BY <2>5, <3>1, <3>2, Zenon
    <3>4. wp_' <= c
      BY <3>3, PartOf, Zenon
    <3> QED
      BY <3>1, <3>2, <3>4, Zenon
  <2>8. n \in Nat /\ meta.start <= n
    BY <1>p, <1>t, <2>3
  <2> HIDE DEF n
  <2>9. \A i \in 1..meta.start : meta.extents[i] = extents_'[i]
    <3> TAKE i \in 1..meta.start
    <3>1. i \in 1..n
      BY <2>3, <2>8
    <3> QED
      BY <1>p, <2>1, <2>3, <3>1
  <2>10. Len(meta.extents) = meta.start /\ meta.start <= Len(extents_')
    BY <1>p, <2>1, <2>3, <2>8
  <2>s. (meta.size = SizeOf(meta.extents))'
    BY <1>s, <2>2 DEF SizeOf
  <2> QED
    BY <2>2, <2>3, <2>7, <2>9, <2>10, <2>s DEF Persisted
<1>5. CASE CloseWR
  <2>1. /\ meta' = [extents |-> extents_, start |-> NO_EXTENT, size |-> file_size_, seq |-> wal_seq_]
        /\ UNCHANGED <<extents_, file_size_>>
    BY <1>5 DEF CloseWR, PersistMetadata
  <2>2. syncer'.pc = "closezone"
    BY <1>5, Positions, MoveType DEF CloseWR
  <2>3. meta'.start = NO_EXTENT /\ meta'.extents = extents_ /\ meta'.size = file_size_
    BY <2>1
  <2>s. (meta.size = SizeOf(meta.extents))'
    BY <1>t, <2>3 DEF SizeOf
  <2> QED
    BY <2>1, <2>2, <2>3, <2>s DEF Persisted
<1>6. CASE CloseActiveZone
  BY <1>6, <1>a DEF CloseActiveZone
<1>7. ASSUME FsyncReturn PROVE FALSE
  BY <1>7, Positions DEF FsyncReturn
<1>8. ASSUME NEW n \in AppendSizes, AppendCall(n) PROVE Persisted'
  BY <1>8, <1>a DEF AppendCall
<1>9. ASSUME NEW k \in SyncKinds, SyncCall(k) PROVE Persisted'
  <2>1. syncer.pc # "closezone" /\ UNCHANGED open
    BY <1>9 DEF SyncCall
  <2> QED
    BY <1>9, <1>a, <2>1 DEF SyncCall
<1>10. ASSUME NEW e \in inflight, Land(e) PROVE Persisted'
  BY <1>10, <1>a DEF Land
<1>11. CASE FlushReturn
  <2>1. fpc = "loop" /\ UNCHANGED open
    BY <1>11 DEF FlushReturn
  <2>2. syncer.pc # "closezone"
    BY <2>1, Positions
  <2> QED
    BY <1>11, <1>a, <2>1, <2>2 DEF FlushReturn
<1>12. CASE BufferedWrite \/ SparseBarrier \/ UNCHANGED vars
  BY <1>12, <1>a DEF BufferedWrite, SparseBarrier
<1>13. CASE DataSyncWALSync \/ DataSyncLock \/ SyncReturn
  <2>1. syncer.pc # "closezone" /\ UNCHANGED open
    BY <1>13 DEF DataSyncWALSync, DataSyncLock, SyncReturn
  <2> QED
    BY <1>13, <1>a, <2>1 DEF DataSyncWALSync, DataSyncLock, SyncReturn
<1> QED
  BY <1>1, <1>2, <1>3, <1>4, <1>5, <1>6, <1>7, <1>8, <1>9, <1>10, <1>11, <1>12, <1>13,
     WriterSteps
  DEF Flush, SyncStep, LandSome

\* A flush that fails has submitted nothing or there is no next one: no entry is
\* written twice.
LEMMA NeverRepeated ==
  ASSUME FullBlocks, RunInv, [Next]_vars
  PROVE  ~repeated'
<1> USE DEF vars
<1>1. ~repeated /\ OneBlock /\ Len(buffer) \in Nat
  BY DEF RunInv, ContentInv, TypeInv, TypeOK
<1>2. CASE UNCHANGED repeated
  BY <1>1, <1>2
<1>3. CASE SparseAppendError \/ SparseBarrierError
  <2>1. left > 0 /\ repeated' = (repeated \/ left < Len(buffer))
    BY <1>3 DEF SparseAppendError, SparseBarrierError, CanAppend
  <2>2. left = Len(buffer)
    BY <1>1, <2>1, Zenon DEF OneBlock
  <2>3. ~(left < Len(buffer))
    BY <1>1, <2>2
  <2> QED
    BY <1>1, <2>1, <2>3, Zenon
<1>4. CASE ZoneFullNoSpace
  <2>1. ~ZoneAvailable /\ repeated' = (repeated \/ ZoneAvailable)
    BY <1>4, RefusedForever DEF ZoneFullNoSpace
  <2> QED
    BY <1>1, <2>1, Zenon
<1> QED
  BY <1>2, <1>3, <1>4, WriterSteps
  DEF Flush, SyncStep, LandSome, AppendCall, BufferedWrite, FlushBuffer, FlushBufferNoSpace,
      SparseBarrier, SparseAppend, ZoneFull, FlushReturn, SyncCall, DataSyncWALSync,
      DataSyncLock, SyncReturn, FsyncReturn, CloseWR, CloseActiveZone, Land

\* Every step of the writer keeps RunInv.
LEMMA RunNext ==
  ASSUME FullBlocks, RunInv, [Next]_vars
  PROVE  RunInv'
<1>1. BufferBlocks = 1 /\ "fsync" \notin SyncKinds /\ ~repeated'
  BY NeverRepeated DEF FullBlocks
<1>2. StartInv /\ ContentInv
  BY DEF RunInv
<1>3. StartInv'
  BY <1>1, <1>2, StartNext
<1>4. TypeInv'
  BY <1>3 DEF StartInv, BarrierInv
<1>5. ContentInv'
  BY <1>1, <1>2, <1>4, OneBlockNext, EntriesNext, ClosingNext,
     ExtendedNext DEF ContentInv
<1>6. Zoned'
  BY ZonedNext
<1> QED
  BY <1>3, <1>4, <1>5, <1>6, CallsNext, LayoutNext, DeviceNext, PersistedNext DEF RunInv

\* It holds when the file has been created.
LEMMA RunInit ==
  ASSUME FullBlocks, Init
  PROVE  RunInv
<1>1. BarrierInv /\ TypeInv
  BY BarrierInit, TypeInit
<1>2. /\ inflight = {} /\ landed = {} /\ buffer = << >> /\ file_size_ = 0 /\ appended = 0 /\ left = 0
      /\ open /\ fpc = "idle" /\ buffer_mtx_ = "none" /\ extents_ = << >> /\ filled = 0
      /\ syncer.pc = "idle" /\ syncer.kind = "none" /\ meta.start = NO_EXTENT
      /\ meta.extents = << >> /\ meta.size = 0 /\ active_zone_ = 0 /\ wal_ = 0 /\ wp_ = 0 /\ dwp = 0
  BY DEF Init
<1>r. ~repeated
  BY Zenon DEF Init
<1>3. Entries = {}
  BY <1>2 DEF Entries
<1>4. ~Stuck
  BY <1>2 DEF Stuck, ZoneAvailable, NextZone
<1>5. buffer_sz \in Nat
  BY DEF buffer_sz, HeaderSize
<1>6. OneBlock
  BY <1>2, <1>5 DEF OneBlock, Buffered
<1>7. ContentInv
  BY <1>1, <1>2, <1>r, <1>3, <1>4, <1>6 DEF ContentInv, FaithfulEntries, Covered, Closing, Extended
<1>8. StartInv
  BY <1>1, <1>2 DEF StartInv, ActiveExtentOnDevice
<1>9. Calls /\ Zoned /\ Persisted /\ LastOnly
  BY <1>2, <1>3 DEF Calls, Zoned, Persisted, LastOnly, SizeOf
<1>10. Device
  BY <1>2 DEF Device
<1>11. Layout
  <2>1. 0 <= WalZones * ZoneCap
    BY Multiples
  <2> QED
    BY <1>2, <1>3, <2>1 DEF Layout, SizeOf
<1> QED
  BY <1>7, <1>8, <1>9, <1>10, <1>11 DEF RunInv

-----------------------------------------------------------------------------
(***************************************************************************)
(* What the writer has left on the device and in the metadata log          *)
(***************************************************************************)

\* What is in flight lies between the two write pointers.
LEMMA InFlightBehind ==
  ASSUME BarrierInv
  PROVE  dwp <= wp_ /\ (inflight # {} => dwp < wp_)
<1>1. /\ wp_ \in Nat /\ dwp \in Nat /\ inflight \subseteq Entry
      /\ Cardinality(Outstanding) = wp_ - dwp
  BY DEF BarrierInv, TypeInv, TypeOK, Pointers
<1>2. IsFiniteSet(Outstanding)
  BY OutstandingBounds
<1>3. Cardinality(Outstanding) \in Nat
  BY <1>2, FS_CardinalityType
<1>4. ASSUME NEW e \in inflight PROVE Cardinality(Outstanding) # 0
  <2>1. e \in Entry
    BY <1>1
  <2>2. Cardinality(Span(e)) = e.blocks /\ IsFiniteSet(Span(e)) /\ e.blocks # 0
    BY <2>1, SpanSize DEF Entry
  <2>3. Span(e) # {}
    BY <2>2, FS_EmptySet
  <2>4. Outstanding # {}
    BY <2>3 DEF Outstanding
  <2> QED
    BY <1>2, <2>4, FS_EmptySet
<1> QED
  BY <1>1, <1>3, <1>4

\* Two entries that hold the same unit are the same.
LEMMA UniqueUnit ==
  ASSUME NEW c \in Nat, NEW a \in Nat, NEW b \in Nat, NEW i \in 1..c, NEW j \in 1..c,
         a * c + i = b * c + j
  PROVE  a = b
<1>1. ASSUME NEW x \in Nat, NEW y \in Nat, NEW k \in 1..c, NEW m \in 1..c,
             x * c + k = y * c + m, x < y
      PROVE  FALSE
  <2>1. PICK u \in Nat : u = x * c
    BY <1>1
  <2>2. PICK v \in Nat : v = y * c
    BY <1>1
  <2>3. u + c <= v
    BY <1>1, <2>1, <2>2, Apart
  <2>4. u + k = v + m
    BY <1>1, <2>1, <2>2, Zenon
  <2> QED
    BY <2>3, <2>4
<1>2. ~(a < b)
  BY <1>1
<1>3. ~(b < a)
  BY <1>1
<1> QED
  BY <1>2, <1>3

\* The entries of the log, in flight or on the device
LEMMA EntryFacts ==
  ASSUME FullBlocks, RunInv, NEW e \in Entries
  PROVE  /\ e \in Entry /\ e.seq \in Nat /\ e.ipos \in Nat /\ e.data \in Seq(Nat)
         /\ e.ipos < wp_ /\ e.off = e.ipos * buffer_sz /\ Len(e.data) \in 1..buffer_sz
         /\ extents_[e.ipos + 1].length = Len(e.data)
         /\ \A i \in 1..Len(e.data) : e.data[i] = e.off + i
<1>0. TypeInv /\ Layout /\ FaithfulEntries /\ ~repeated
  BY Positions DEF RunInv, ContentInv
<1>1. e \in Entry
  BY <1>0 DEF TypeInv, TypeOK, Entries
<1>2. e.seq \in Nat /\ e.ipos \in Nat /\ e.data \in Seq(Nat)
  BY <1>1 DEF Entry
<1>3. /\ e.ipos < wp_ /\ e.off = e.ipos * buffer_sz /\ Len(e.data) \in 1..buffer_sz
      /\ extents_[e.ipos + 1].length = Len(e.data)
  BY <1>0, Zenon DEF Layout
<1>4. \A i \in DOMAIN e.data : e.data[i] = e.off + i
  BY <1>0, Zenon DEF FaithfulEntries
<1>5. DOMAIN e.data = 1..Len(e.data)
  BY <1>2
<1> QED
  BY <1>1, <1>2, <1>3, <1>4, <1>5

\* Sequence numbers follow the host's addresses, and both name entries.
LEMMA EntryOrder ==
  ASSUME FullBlocks, RunInv, NEW e \in Entries, NEW f \in Entries
  PROVE  /\ e.seq < f.seq <=> e.ipos < f.ipos
         /\ e.ipos = f.ipos => e = f
<1>1. /\ e.seq \in Nat /\ e.ipos \in Nat /\ f.seq \in Nat /\ f.ipos \in Nat
  BY EntryFacts
<1>2. SeqFollowsHost /\ Layout
  BY Positions DEF RunInv, BarrierInv
<1>3. e.blocks = 1 /\ f.blocks = 1
  BY <1>2 DEF Layout
<1>4. /\ e.seq < f.seq => e.ipos + e.blocks <= f.ipos
      /\ f.seq < e.seq => f.ipos + f.blocks <= e.ipos
      /\ e.seq = f.seq => e = f
  BY <1>2 DEF SeqFollowsHost
<1> QED
  BY <1>1, <1>3, <1>4

\* The order on the device and the order of the extents differ, the lengths do not.
LEMMA LengthsHold ==
  ASSUME FullBlocks, RunInv, NEW l \in landed
  PROVE  /\ l.dpos \in Nat /\ l.dpos < dwp
         /\ extents_[l.dpos + 1].length = Len(l.entry.data)
<1>0. /\ TypeInv /\ BarrierInv /\ Device /\ Layout /\ LastOnly
  BY Positions DEF RunInv
<1>1. /\ l.dpos \in Nat /\ l.dpos < dwp /\ dwp \in Nat /\ wp_ \in Nat /\ dwp <= wp_
  BY <1>0, InFlightBehind DEF Device, TypeInv, TypeOK
<1>2. l.entry \in Entries /\ l.entry \notin inflight
  BY <1>0 DEF Entries, BarrierInv, SeqFollowsHost
<1>3. PICK e \in Entries : e.ipos = l.dpos
  <2>1. l.dpos \in 0..(wp_ - 1)
    BY <1>1
  <2> QED
    BY <1>0, <2>1 DEF Layout
<1>4. extents_[l.dpos + 1].length = Len(e.data) /\ e.ipos \in Nat
  BY <1>3, EntryFacts
<1>5. CASE Len(l.entry.data) # buffer_sz
  <2>1. inflight = {} /\ l.entry.ipos = wp_ - 1
    BY <1>0, <1>2, <1>5 DEF LastOnly
  <2>2. l.dpos = dwp - 1 /\ wp_ = dwp
    BY <1>0, <1>5, <2>1, PointersMeet DEF Device
  <2>3. extents_[l.entry.ipos + 1].length = Len(l.entry.data)
    BY <1>2, EntryFacts
  <2> QED
    BY <1>1, <2>1, <2>2, <2>3
<1>6. CASE Len(l.entry.data) = buffer_sz /\ Len(e.data) # buffer_sz
  <2>1. e.ipos = wp_ - 1
    BY <1>0, <1>6 DEF LastOnly
  <2>2. l.dpos = dwp - 1 /\ dwp = wp_
    BY <1>1, <1>3, <2>1
  <2>3. inflight = {}
    BY <1>0, <1>1, <2>2, InFlightBehind
  <2>4. PICK m \in landed : m.entry = e
    BY <2>3 DEF Entries
  <2>5. m.dpos = dwp - 1
    BY <1>0, <1>6, <2>4 DEF Device
  <2>6. m = l
    BY <1>0, <2>2, <2>5 DEF Device
  <2> QED
    BY <1>6, <2>4, <2>6
<1>7. CASE Len(l.entry.data) = buffer_sz /\ Len(e.data) = buffer_sz
  <2>1. extents_[l.dpos + 1].length = Len(l.entry.data)
    BY <1>4, <1>7, Zenon
  <2> QED
    BY <2>1, <1>1
<1> QED
  BY <1>1, <1>5, <1>6, <1>7

\* The zones of the extents are in the first group.
LEMMA FirstZone ==
  ASSUME FullBlocks, TypeInv, Len(extents_) > 0
  PROVE  extents_[1].zone \in 1..GroupZones
<1>1. extents_ \in ExtentList /\ ZonesAscend
  BY DEF TypeInv, TypeOK, Control
<1>2. 1 \in DOMAIN extents_
  BY <1>1 DEF ExtentList
<1>3. extents_[1].zone \in 1..WalZones
  BY <1>1, <1>2 DEF ZonesAscend
<1> QED
  BY <1>3 DEF FullBlocks

\* What is on the device while the log is written
LEMMA RunOnDevice ==
  ASSUME FullBlocks, RunInv
  PROVE  OnDevice
<1>0. /\ TypeInv /\ BarrierInv /\ Device /\ Layout /\ LastOnly
  BY Positions DEF RunInv
<1>1. landed \in SUBSET [entry : Entry, dpos : Nat] /\ dwp \in Nat /\ wp_ \in Nat
  BY <1>0 DEF TypeInv, TypeOK
<1>2. dwp <= GroupZones * ZoneCap
  <2>1. dwp <= wp_ /\ wp_ <= WalZones * ZoneCap
    BY <1>0, InFlightBehind DEF Layout
  <2>2. PICK a \in Nat : a = WalZones * ZoneCap
    BY Multiples
  <2>3. PICK b \in Nat : b = GroupZones * ZoneCap
    BY Multiples
  <2>4. a <= b
    BY <2>2, <2>3, Multiples DEF FullBlocks
  <2>5. wp_ <= a
    BY <2>1, <2>2, Zenon
  <2>6. dwp <= b
    BY <1>1, <2>1, <2>4, <2>5
  <2> QED
    BY <2>3, <2>6, Zenon
<1>3. ASSUME NEW l \in landed
      PROVE  /\ l.entry.off = l.entry.ipos * buffer_sz
             /\ Len(l.entry.data) \in 1..buffer_sz
             /\ \A i \in 1..Len(l.entry.data) : l.entry.data[i] = l.entry.off + i
             /\ Chunk(l.dpos) = Chunk(l.entry.ipos)
             /\ \A m \in landed : m.entry.seq < l.entry.seq <=> m.entry.ipos < l.entry.ipos
             /\ \A m \in landed : m.entry.ipos = l.entry.ipos => m.entry = l.entry
             /\ Len(l.entry.data) # buffer_sz => \A m \in landed : m.entry.ipos <= l.entry.ipos
  <2>1. \A m \in landed : m.entry \in Entries
    BY DEF Entries
  <2>2. /\ l.entry.off = l.entry.ipos * buffer_sz
        /\ Len(l.entry.data) \in 1..buffer_sz
        /\ \A i \in 1..Len(l.entry.data) : l.entry.data[i] = l.entry.off + i
    BY <2>1, EntryFacts
  <2>3. Chunk(l.dpos) = Chunk(l.entry.ipos)
    BY <1>0 DEF BarrierInv, InItsChunk
  <2>4. \A m \in landed : /\ m.entry.seq < l.entry.seq <=> m.entry.ipos < l.entry.ipos
                          /\ m.entry.ipos = l.entry.ipos => m.entry = l.entry
    BY <2>1, EntryOrder
  <2>5. ASSUME Len(l.entry.data) # buffer_sz, NEW m \in landed
        PROVE  m.entry.ipos <= l.entry.ipos
    <3>1. l.entry.ipos = wp_ - 1
      BY <1>0, <2>1, <2>5 DEF LastOnly
    <3>2. m.entry.ipos \in Nat /\ m.entry.ipos < wp_
      BY <2>1, EntryFacts
    <3> QED
      BY <1>1, <3>1, <3>2
  <2> QED
    BY <2>2, <2>3, <2>4, <2>5
<1> QED
  BY <1>0, <1>1, <1>2, <1>3, Zenon DEF OnDevice

\* A file whose units are all on the device has nothing in flight.
LEMMA AllLanded ==
  ASSUME FullBlocks, RunInv, Durable(file_size_)
  PROVE  inflight = {}
<1> SUFFICES ASSUME NEW e \in inflight PROVE FALSE
  OBVIOUS
<1>0. /\ TypeInv /\ BarrierInv /\ Layout /\ wp_ \in Nat /\ extents_ \in ExtentList /\ file_size_ \in Nat
      /\ wp_ = Len(extents_) /\ file_size_ = SizeOf(extents_)
  <2>1. TypeInv /\ BarrierInv /\ Layout
    BY Positions DEF RunInv
  <2> QED
    BY <2>1 DEF Layout, TypeInv, TypeOK
<1>1. e \in Entries
  BY DEF Entries
<1>2. /\ e.ipos \in Nat /\ e.ipos < wp_ /\ e.off = e.ipos * buffer_sz
      /\ Len(e.data) \in 1..buffer_sz /\ extents_[e.ipos + 1].length = Len(e.data)
  BY <1>1, EntryFacts
<1>3. buffer_sz \in Nat \ {0}
  BY BufferSize
<1>4. PICK o \in Nat : o = e.ipos * buffer_sz
  BY <1>2, <1>3
<1>5. o + 1 <= file_size_
  <2>1. extents_ # << >> /\ wp_ \in Nat \ {0}
    BY <1>0, <1>2, NoElements DEF ExtentList
  <2>2. file_size_ = (wp_ - 1) * buffer_sz + extents_[wp_].length
    BY <1>0, <2>1 DEF SizeOf
  <2>3. PICK w \in Nat : w = wp_ - 1 /\ wp_ = w + 1
    BY <2>1, Before
  <2>4. PICK a \in Nat : a = w * buffer_sz
    BY <1>3
  <2>5. extents_[wp_].length \in Nat
    <3>1. extents_ \in Seq([zone : Nat, length : Nat])
      BY <1>0 DEF ExtentList
    <3>2. wp_ \in 1..Len(extents_)
      BY <1>0, <2>1
    <3>3. extents_[wp_] \in [zone : Nat, length : Nat]
      BY <3>1, <3>2, ElementOf
    <3> QED
      BY <3>3
  <2>6. file_size_ = a + extents_[wp_].length
    BY <2>2, <2>3, <2>4, Zenon
  <2>7. CASE e.ipos = w
    <3>1. a = o /\ extents_[wp_].length = Len(e.data)
      BY <1>2, <1>4, <2>3, <2>4, <2>7
    <3> QED
      BY <1>2, <2>6, <3>1
  <2>8. CASE e.ipos < w
    <3>1. o + buffer_sz <= a
      BY <1>2, <1>3, <1>4, <2>4, <2>8, Apart
    <3> QED
      BY <1>3, <2>5, <2>6, <3>1
  <2> QED
    BY <1>2, <2>3, <2>7, <2>8
<1>6. PICK l \in landed : \E i \in DOMAIN l.entry.data : l.entry.data[i] = o + 1
  <2>1. o + 1 \in 1..file_size_
    BY <1>0, <1>5
  <2> QED
    BY <2>1 DEF Durable
<1>7. PICK i \in DOMAIN l.entry.data : l.entry.data[i] = o + 1
  BY <1>6
<1>8. l.entry \in Entries /\ l.entry \notin inflight
  BY <1>0 DEF Entries, BarrierInv, SeqFollowsHost
<1>9. /\ l.entry.ipos \in Nat /\ l.entry.off = l.entry.ipos * buffer_sz
      /\ Len(l.entry.data) \in 1..buffer_sz /\ l.entry.data \in Seq(Nat)
      /\ \A k \in 1..Len(l.entry.data) : l.entry.data[k] = l.entry.off + k
  BY <1>8, EntryFacts
<1>10. i \in 1..Len(l.entry.data) /\ i \in 1..buffer_sz
  <2>1. i \in 1..Len(l.entry.data)
    BY <1>9
  <2> QED
    BY <1>3, <1>9, <2>1
<1>11. l.entry.ipos * buffer_sz + i = e.ipos * buffer_sz + 1
  BY <1>4, <1>7, <1>9, <1>10, Zenon
<1>12. l.entry.ipos = e.ipos
  <2>1. 1 \in 1..buffer_sz /\ buffer_sz \in Nat
    BY <1>3
  <2>2. PICK a \in Nat : a = l.entry.ipos
    BY <1>9
  <2>3. PICK b \in Nat : b = e.ipos
    BY <1>2
  <2>4. a * buffer_sz + i = b * buffer_sz + 1
    BY <1>11, <2>2, <2>3, Zenon
  <2>5. a = b
    BY <1>10, <2>1, <2>4, UniqueUnit
  <2> QED
    BY <2>2, <2>3, <2>5, Zenon
<1> QED
  BY <1>1, <1>8, <1>12, EntryOrder

\* What is in the metadata log while the log is written
LEMMA RunInMetadata ==
  ASSUME FullBlocks, RunInv
  PROVE  InMetadata
<1>0. /\ TypeInv /\ BarrierInv /\ Device /\ Layout /\ Persisted /\ StartInv
  BY Positions DEF RunInv
<1>1. /\ meta \in Metadata /\ wp_ \in Nat /\ dwp \in Nat /\ wp_ = Len(extents_)
      /\ extents_ \in ExtentList /\ file_size_ = SizeOf(extents_)
  BY <1>0 DEF TypeInv, TypeOK, Layout
<1>2. dwp <= wp_
  BY <1>0, InFlightBehind
<1>3. \A l \in landed : l.dpos \in Nat /\ l.dpos < dwp
                        /\ extents_[l.dpos + 1].length = Len(l.entry.data)
  BY LengthsHold
<1>4. wp_ > 0 => extents_[1].zone \in 1..GroupZones
  BY <1>0, <1>1, FirstZone
<1>p. /\ meta.start = NO_EXTENT =>
           \/ meta.extents = << >> /\ meta.size = 0 /\ extents_ = << >> /\ active_zone_ = 0
           \/ /\ syncer.pc = "closezone" \/ ~open
              /\ meta.extents = extents_ /\ meta.size = file_size_
      /\ meta.start # NO_EXTENT =>
           /\ Len(meta.extents) = meta.start /\ meta.start <= Len(extents_)
           /\ \A i \in 1..meta.start : meta.extents[i] = extents_[i]
           /\ \E z \in Nat : meta.start = z * ZoneCap /\ wp_ <= (z + 1) * ZoneCap
  BY <1>0, Zenon DEF Persisted
<1>s. meta.size = SizeOf(meta.extents)
  BY <1>0 DEF Persisted
<1>5. ASSUME meta.start = NO_EXTENT, Trusted
      PROVE  Len(meta.extents) = dwp /\ Lengths(meta.extents, dwp)
  <2>1. CASE meta.extents = << >> /\ meta.size = 0 /\ extents_ = << >>
    <3>1. dwp = 0 /\ Len(meta.extents) = 0
      BY <1>1, <1>2, <2>1
    <3> QED
      BY <1>3, <2>1, <3>1 DEF Lengths, SizeOf
  <2>2. CASE meta.extents = extents_ /\ meta.size = file_size_
    <3>1. inflight = {}
      BY <1>5, <2>2, AllLanded DEF Trusted
    <3>2. dwp = wp_
      BY <1>0, <3>1, PointersMeet
    <3>3. Lengths(meta.extents, dwp)
      BY <1>3, <1>4, <2>2, <3>2 DEF Lengths
    <3> QED
      BY <1>1, <2>2, <3>2, <3>3
  <2> QED
    BY <1>5, <1>p, <2>1, <2>2
<1>6. ASSUME meta.start # NO_EXTENT
      PROVE  /\ Len(meta.extents) = meta.start /\ meta.start <= dwp
             /\ Lengths(meta.extents, meta.start)
             /\ \E z \in Nat : meta.start = z * ZoneCap /\ dwp <= (z + 1) * ZoneCap
  <2>1. meta.start <= dwp /\ meta.start \in Nat
    BY <1>0, <1>1, <1>6 DEF StartInv, ActiveExtentOnDevice, Metadata
  <2>2. \A i \in 1..meta.start : meta.extents[i] = extents_[i]
    BY <1>6, <1>p
  <2>3. ASSUME NEW l \in landed, l.dpos < meta.start
        PROVE  meta.extents[l.dpos + 1].length = Len(l.entry.data)
    <3>1. l.dpos + 1 \in 1..meta.start
      BY <1>3, <2>1, <2>3
    <3> QED
      BY <1>3, <2>2, <3>1
  <2>4. meta.start > 0 => meta.extents[1].zone \in 1..GroupZones
    <3> SUFFICES ASSUME meta.start > 0 PROVE meta.extents[1].zone \in 1..GroupZones
      OBVIOUS
    <3>1. 1 \in 1..meta.start /\ wp_ > 0
      BY <1>1, <1>2, <2>1
    <3> QED
      BY <1>4, <2>2, <3>1
  <2>5. Lengths(meta.extents, meta.start)
    BY <2>3, <2>4 DEF Lengths
  <2>6. PICK z \in Nat : meta.start = z * ZoneCap /\ wp_ <= (z + 1) * ZoneCap
    BY <1>6, <1>p
  <2>7. PICK c \in Nat : c = (z + 1) * ZoneCap
    BY Multiples
  <2>8. wp_ <= c
    BY <2>6, <2>7, Zenon
  <2>9. dwp <= c
    BY <1>1, <1>2, <2>8
  <2>10. meta.start = z * ZoneCap /\ dwp <= (z + 1) * ZoneCap
    BY <2>6, <2>7, <2>9, Zenon
  <2> QED
    BY <1>6, <1>p, <2>1, <2>5, <2>10
<1> QED
  BY <1>1, <1>s, <1>5, <1>6, Zenon DEF InMetadata

\* What a reader finds of a closed file
LEMMA ClosedFile ==
  ASSUME FullBlocks, RunInv, ~open
  PROVE  /\ FileRead /\ appended = file_size_ /\ Durable(appended)
         /\ Trusted
<1>0. /\ TypeInv /\ BarrierInv /\ Layout /\ Zoned /\ ContentInv /\ Persisted
  BY Positions DEF RunInv
<1>1. inflight = {} /\ appended = file_size_ /\ meta.size = file_size_
  BY <1>0 DEF ContentInv, Closing
<1>2. Entries = {l.entry : l \in landed}
  BY <1>1 DEF Entries
<1>3. Durable(appended)
  BY <1>0, <1>1, <1>2 DEF ContentInv, Covered, Durable
<1>4. wp_ = dwp /\ wp_ = Len(extents_) /\ file_size_ = SizeOf(extents_) /\ wal_ \in {0, 1}
      /\ extents_ \in ExtentList
  BY <1>0, <1>1, PointersMeet DEF Layout, Zoned, TypeInv, TypeOK
<1>5. Lengths(extents_, dwp)
  <2>1. dwp > 0 => extents_[1].zone \in 1..GroupZones
    BY <1>0, <1>4, FirstZone
  <2> QED
    BY <2>1, LengthsHold DEF Lengths
<1> QED
  BY <1>1, <1>3, <1>4, <1>5 DEF FileRead, Trusted

-----------------------------------------------------------------------------
(***************************************************************************)
(* Sums                                                                    *)
(***************************************************************************)

\* A set of natural numbers that is not empty has a least element.
LEMMA Smallest ==
  ASSUME NEW T, T \subseteq Nat, T # {}
  PROVE  \E x \in T : \A y \in T : x <= y
<1> DEFINE I == {1..n : n \in T}
<1>1. IsWellFoundedOn(StrictSubsetOrdering(Nat), FiniteSubsetsOf(Nat))
  BY FS_StrictSubsetOrderingWellFounded
<1>2. I \subseteq FiniteSubsetsOf(Nat) /\ I # {}
  <2>1. ASSUME NEW n \in T PROVE IsFiniteSet(1..n) /\ 1..n \in SUBSET Nat
    BY FS_Interval
  <2>2. ASSUME NEW n \in T PROVE 1..n \in FiniteSubsetsOf(Nat)
    BY <2>1 DEF FiniteSubsetsOf
  <2> QED
    BY <2>2
<1> HIDE DEF I
<1>3. PICK s \in I : \A t \in I : <<t, s>> \notin StrictSubsetOrdering(Nat)
  <2>1. \E x \in I : \A y \in I : ~(<<y, x>> \in StrictSubsetOrdering(Nat))
    BY <1>1, <1>2, WFMin, Zenon
  <2> QED
    BY <2>1
<1>4. PICK n \in T : s = 1..n
  BY <1>3 DEF I
<1>5. ASSUME NEW m \in T, m < n PROVE FALSE
  <2>1. 1..m \in I
    BY DEF I
  <2>2. 1..m \subseteq 1..n /\ 1..m # 1..n /\ 1..m \subseteq Nat /\ 1..n \subseteq Nat
    <3>1. n \in 1..n /\ n \notin 1..m
      BY <1>5
    <3> QED
      BY <1>5, <3>1
  <2>3. <<1..m, 1..n>> \in StrictSubsetOrdering(Nat)
    BY <2>2 DEF StrictSubsetOrdering
  <2> QED
    BY <1>3, <1>4, <2>1, <2>3
<1> QED
  BY <1>5

\* Induction over the natural numbers, for a set in place of a predicate
LEMMA Induction ==
  ASSUME NEW S, 0 \in S, \A n \in Nat : n \in S => n + 1 \in S
  PROVE  Nat \subseteq S
<1> DEFINE T == Nat \ S
<1> SUFFICES ASSUME T # {} PROVE FALSE
  OBVIOUS
<1>1. PICK x \in T : \A y \in T : x <= y
  BY Smallest
<1> QED
  BY <1>1

\* The sums that Total goes through
Sums(f, s) == f = [i \in 0..Len(s) |-> IF i = 0 THEN 0 ELSE f[i - 1] + s[i]]

\* The sum of a list whose elements are the same but for the last
LEMMA EvenTotal ==
  ASSUME NEW s \in Seq(Nat), NEW b \in Nat, NEW m \in Nat, Len(s) = m,
         \A i \in 1..m : i # m => s[i] = b
  PROVE  /\ m = 0 => Total(s) = 0
         /\ m # 0 => Total(s) = (m - 1) * b + s[m]
<1> DEFINE P(i) == IF i = m /\ m # 0 THEN (m - 1) * b + s[m] ELSE i * b
           g == [i \in 0..m |-> P(i)]
<1>0. \A i \in 1..m : s[i] \in Nat
  OBVIOUS
<1>1. ASSUME NEW i \in 0..m
      PROVE  P(i) = IF i = 0 THEN 0 ELSE P(i - 1) + s[i]
  <2>1. CASE i = 0
    BY <2>1
  <2>2. CASE i # 0
    <3>1. PICK j \in Nat : i = j + 1 /\ j = i - 1
      BY <2>2
    <3>2. P(j) = j * b
      BY <3>1
    <3>3. CASE i = m
      BY <2>2, <3>1, <3>2, <3>3
    <3>4. CASE i # m
      <4>1. s[i] = b
        BY <2>2, <3>4
      <4>2. (j + 1) * b = j * b + b
        BY <3>1
      <4>3. P(i) = (j + 1) * b
        BY <3>1, <3>4
      <4> QED
        BY <2>2, <3>1, <3>2, <4>1, <4>2, <4>3
    <3> QED
      BY <3>3, <3>4
  <2> QED
    BY <2>1, <2>2
<1> HIDE DEF P
<1>2. Sums(g, s)
  <2>1. \A i \in 0..m : g[i] = IF i = 0 THEN 0 ELSE g[i - 1] + s[i]
    <3> SUFFICES ASSUME NEW i \in 0..m
                 PROVE  g[i] = IF i = 0 THEN 0 ELSE g[i - 1] + s[i]
      OBVIOUS
    <3>1. i # 0 => i - 1 \in 0..m
      OBVIOUS
    <3> QED
      BY <1>1, <3>1
  <2>2. g = [i \in 0..m |-> g[i]]
    OBVIOUS
  <2> HIDE DEF g
  <2> QED
    BY <2>1, <2>2, Zenon DEF Sums
<1> HIDE DEF g
<1>3. PICK f : Sums(f, s) /\ Total(s) = f[m]
  <2> DEFINE ch == CHOOSE f : Sums(f, s)
  <2>1. Sums(ch, s)
    BY <1>2
  <2>2. Total(s) = ch[m]
    BY DEF Total, Sums
  <2> QED
    BY <2>1, <2>2
<1>4. \A i \in 0..m : f[i] = IF i = 0 THEN 0 ELSE f[i - 1] + s[i]
  BY <1>3, Zenon DEF Sums
<1> DEFINE S == {i \in Nat : i <= m => f[i] = P(i)}
<1>5. 0 \in S
  <2>1. 0 \in 0..m
    OBVIOUS
  <2> QED
    BY <1>1, <1>4, <2>1
<1>6. ASSUME NEW i \in Nat, i \in S PROVE i + 1 \in S
  <2> SUFFICES ASSUME i + 1 <= m PROVE f[i + 1] = P(i + 1)
    OBVIOUS
  <2>1. f[i] = P(i)
    BY <1>6
  <2> HIDE DEF S
  <2>2. i + 1 \in 0..m /\ i + 1 # 0 /\ (i + 1) - 1 = i
    OBVIOUS
  <2> QED
    BY <1>1, <1>4, <2>1, <2>2
<1> HIDE DEF S
<1>7. Nat \subseteq S
  BY <1>5, <1>6, Induction
<1>8. Total(s) = P(m)
  BY <1>3, <1>7 DEF S
<1> QED
  BY <1>8 DEF P

-----------------------------------------------------------------------------
(***************************************************************************)
(* Sorting                                                                 *)
(***************************************************************************)

\* A function on 1..n is a sequence of length n.
LEMMA ListOf ==
  ASSUME NEW S, NEW n \in Nat, NEW s, s = [i \in 1..n |-> s[i]], \A i \in 1..n : s[i] \in S
  PROVE  s \in Seq(S) /\ Len(s) = n
<1>1. s \in [1..n -> S]
  OBVIOUS
<1> QED
  BY <1>1

\* The size of an interval of addresses
LEMMA IntervalSize ==
  ASSUME NEW a \in Nat, NEW b \in Nat, a <= b
  PROVE  IsFiniteSet(a..(b - 1)) /\ Cardinality(a..(b - 1)) = b - a
<1>1. PICK h \in Int : h = b - 1
  OBVIOUS
<1>2. IsFiniteSet(a..h) /\ Cardinality(a..h) = IF a > h THEN 0 ELSE h - a + 1
  BY FS_Interval
<1> QED
  BY <1>1, <1>2

\* How many entries of S come before e
Rank(S, e) == Cardinality({f \in S : f.seq < e.seq})

\* Different entries have different ranks.
LEMMA RankOrders ==
  ASSUME NEW S, IsFiniteSet(S), \A e \in S : e.seq \in Nat,
         NEW e \in S, NEW f \in S, e.seq < f.seq
  PROVE  Rank(S, e) # Rank(S, f)
<1> DEFINE A == {g \in S : g.seq < e.seq}
           B == {g \in S : g.seq < f.seq}
<1>1. A \in SUBSET B /\ e \in B /\ e \notin A
  OBVIOUS
<1>2. IsFiniteSet(B)
  BY FS_Subset
<1> HIDE DEF A, B
<1>3. A # B
  BY <1>1
<1>4. Cardinality(B) # Cardinality(A)
  BY <1>1, <1>2, <1>3, FS_Subset
<1> QED
  BY <1>4 DEF Rank, A, B

\* A rank is a place in the sorted sequence.
LEMMA RankPlace ==
  ASSUME NEW S, IsFiniteSet(S), \A e \in S : e.seq \in Nat,
         NEW m \in Nat, Cardinality(S) = m, NEW e \in S
  PROVE  Rank(S, e) \in 0..(m - 1)
<1> DEFINE A == {g \in S : g.seq < e.seq}
<1>1. A \in SUBSET S /\ e \notin A
  OBVIOUS
<1>2. IsFiniteSet(A) /\ Cardinality(A) <= m /\ (m = Cardinality(A) => A = S)
  BY <1>1, FS_Subset
<1>3. Cardinality(A) \in Nat
  BY <1>2, FS_CardinalityType
<1> HIDE DEF A
<1>4. Cardinality(A) \in 0..(m - 1)
  BY <1>1, <1>2, <1>3
<1> QED
  BY <1>4 DEF Rank, A

\* SortBySeq puts every entry in the place of its rank.
LEMMA Sorted ==
  ASSUME NEW S, IsFiniteSet(S), \A e \in S : e.seq \in Nat,
         \A e, f \in S : e.seq = f.seq => e = f,
         NEW m \in Nat, Cardinality(S) = m
  PROVE  /\ SortBySeq(S) \in Seq(S) /\ Len(SortBySeq(S)) = m
         /\ \A i \in 1..m : SortBySeq(S)[i] \in S /\ Rank(S, SortBySeq(S)[i]) = i - 1
         /\ \A e \in S : SortBySeq(S)[Rank(S, e) + 1] = e
<1> DEFINE r == [e \in S |-> Rank(S, e)]
           T == 0..(m - 1)
           s == SortBySeq(S)
<1>1. \A e \in S : Rank(S, e) \in T
  BY RankPlace
<1>2. ASSUME NEW e \in S, NEW f \in S, Rank(S, e) = Rank(S, f) PROVE e = f
  <2>1. e.seq \in Nat /\ f.seq \in Nat
    OBVIOUS
  <2>2. ~(e.seq < f.seq) /\ ~(f.seq < e.seq)
    BY <1>2, RankOrders
  <2> QED
    BY <2>1, <2>2
<1>3. IsFiniteSet(T) /\ Cardinality(T) = m
  BY FS_Interval
<1> HIDE DEF T
<1>4. r \in Injection(S, T)
  BY <1>1, <1>2 DEF Injection, IsInjective
<1>5. r \in Surjection(S, T)
  BY <1>3, <1>4, FS_Injection
<1>6. ASSUME NEW i \in 1..m
      PROVE  s[i] \in S /\ Rank(S, s[i]) = i - 1
  <2>1. i - 1 \in T
    BY DEF T
  <2>2. \E e \in S : Rank(S, e) = i - 1
    BY <1>5, <2>1 DEF Surjection
  <2>3. s[i] = CHOOSE e \in S : Rank(S, e) = i - 1
    BY DEF SortBySeq, Rank
  <2> HIDE DEF s
  <2> QED
    BY <2>2, <2>3
<1>7. s = [i \in 1..m |-> s[i]]
  <2> DEFINE h(i) == CHOOSE e \in S : Cardinality({f \in S : f.seq < e.seq}) = i - 1
  <2>1. s = [i \in 1..m |-> h(i)]
    BY DEF SortBySeq
  <2> HIDE DEF s, h
  <2> QED
    BY <2>1
<1> HIDE DEF s, r
<1>8. s \in Seq(S) /\ Len(s) = m
  BY <1>6, <1>7, ListOf
<1>9. ASSUME NEW e \in S PROVE s[Rank(S, e) + 1] = e
  <2>1. PICK k \in T : k = Rank(S, e)
    BY <1>1
  <2>2. k + 1 \in 1..m /\ (k + 1) - 1 = k
    BY DEF T
  <2>3. s[k + 1] \in S /\ Rank(S, s[k + 1]) = k
    BY <1>6, <2>2
  <2> QED
    BY <1>2, <2>1, <2>3
<1> QED
  BY <1>6, <1>8, <1>9 DEF s

-----------------------------------------------------------------------------
(***************************************************************************)
(* A chunk of the log, as it is decoded from the device                    *)
(***************************************************************************)

\* The entries between two addresses
Inside(lo, hi) == {l \in landed : lo <= l.dpos /\ l.dpos < hi}
EntriesOf(lo, hi) == {l.entry : l \in Inside(lo, hi)}

\* What is on the device, entry by entry
LEMMA LandedFacts ==
  ASSUME OnDevice, NEW l \in landed
  PROVE  /\ l.entry \in Entry /\ l.dpos \in Nat /\ l.dpos < dwp /\ dwp \in Nat
         /\ l.entry.seq \in Nat /\ l.entry.ipos \in Nat /\ l.entry.data \in Seq(Nat)
         /\ Len(l.entry.data) \in 1..buffer_sz
         /\ l.entry.off = l.entry.ipos * buffer_sz
         /\ Chunk(l.dpos) = Chunk(l.entry.ipos)
<1>1. l \in [entry : Entry, dpos : Nat] /\ dwp \in Nat
  BY DEF OnDevice
<1>2. l.dpos < dwp
  BY DEF OnDevice, Device
<1>3. /\ Len(l.entry.data) \in 1..buffer_sz
      /\ l.entry.off = l.entry.ipos * buffer_sz
      /\ Chunk(l.dpos) = Chunk(l.entry.ipos)
  BY DEF OnDevice
<1>4. l.entry \in Entry /\ l.dpos \in Nat
  BY <1>1
<1>5. l.entry.seq \in Nat /\ l.entry.ipos \in Nat /\ l.entry.data \in Seq(Nat)
  BY <1>4 DEF Entry
<1> QED
  BY <1>1, <1>2, <1>3, <1>4, <1>5

\* An address is in its chunk.
LEMMA ChunkBounds ==
  ASSUME NEW p \in Nat, NEW k \in Nat, Chunk(p) = k
  PROVE  k * BarrierBlocks <= p /\ p < k * BarrierBlocks + BarrierBlocks
BY DEF Chunk

\* The order of sequence numbers is the order of host addresses.
LEMMA LandedOrder ==
  ASSUME OnDevice, NEW l \in landed, NEW m \in landed
  PROVE  /\ m.entry.seq < l.entry.seq <=> m.entry.ipos < l.entry.ipos
         /\ m.entry.ipos = l.entry.ipos => m.entry = l.entry
         /\ m.entry.seq = l.entry.seq => m.entry = l.entry
<1>1. /\ m.entry.seq < l.entry.seq <=> m.entry.ipos < l.entry.ipos
      /\ l.entry.seq < m.entry.seq <=> l.entry.ipos < m.entry.ipos
      /\ m.entry.ipos = l.entry.ipos => m.entry = l.entry
  BY Zenon DEF OnDevice
<1>2. /\ m.entry.seq \in Nat /\ l.entry.seq \in Nat
      /\ m.entry.ipos \in Nat /\ l.entry.ipos \in Nat
  BY LandedFacts
<1>3. PICK a \in Nat : a = m.entry.ipos
  BY <1>2
<1>4. PICK b \in Nat : b = l.entry.ipos
  BY <1>2
<1>5. m.entry.seq = l.entry.seq => ~(a < b) /\ ~(b < a)
  BY <1>1, <1>2, <1>3, <1>4
<1>6. m.entry.seq = l.entry.seq => a = b
  BY <1>5
<1> QED
  BY <1>1, <1>3, <1>4, <1>6

\* RecoverWALChunk decodes all that is between its addresses: only the last entry
\* is padded, and only the first chunk has a zero sequence number.
LEMMA DecodesAll ==
  ASSUME FullBlocks, OnDevice, GetWriteTail = 0, NEW k \in Nat,
         NEW lo \in Nat, lo = k * BarrierBlocks, NEW hi \in Nat, hi <= dwp
  PROVE  Decoded(lo, hi) = Inside(lo, hi)
<1>1. ASSUME NEW p \in Inside(lo, hi), Unpadded(p.entry) # 0,
             NEW l \in Inside(lo, hi)
      PROVE  l.dpos <= p.dpos
  <2>1. p \in landed /\ l \in landed
    BY DEF Inside
  <2>2. Len(p.entry.data) # buffer_sz
    <3>1. (buffer_sz + HeaderSize) % BlockSz = 0
      <4>1. buffer_sz + HeaderSize = BlockSz /\ BlockSz \in Nat \ {0}
        BY BufferSize DEF HeaderSize
      <4>2. BlockSz % BlockSz = 0
        BY <4>1
      <4> QED
        BY <4>1, <4>2, Zenon
    <3> QED
      BY <1>1, <3>1 DEF Unpadded
  <2>3. p.dpos = dwp - 1
    BY <2>1, <2>2 DEF OnDevice, Device
  <2>4. l.dpos \in Nat /\ l.dpos < dwp /\ dwp \in Nat
    BY <2>1, LandedFacts
  <2> QED
    BY <2>3, <2>4
<1>2. ASSUME NEW z \in Inside(lo, hi), z.entry.seq = 0, lo > GetWriteTail
      PROVE  FALSE
  <2>1. z \in landed /\ lo <= z.dpos
    BY DEF Inside
  <2>2. z.dpos \in Nat /\ z.dpos < dwp /\ dwp \in Nat /\ z.entry.ipos \in Nat
    BY <2>1, LandedFacts
  <2>3. PICK m \in landed : m.dpos = 0
    <3>1. 0 \in 0..(dwp - 1)
      BY <2>2
    <3> QED
      BY <3>1 DEF OnDevice, Device
  <2>4. Chunk(m.dpos) = 0
    BY <2>3, ChunkIs
  <2>5. PICK c : c = Chunk(z.dpos)
    OBVIOUS
  <2>6. c \in Nat /\ c # 0
    <3>1. lo > 0
      BY <1>2
    <3>2. lo >= BarrierBlocks
      <4>1. k # 0
        BY <3>1
      <4> QED
        BY <4>1, Apart
    <3>3. z.dpos >= BarrierBlocks
      BY <2>1, <2>2, <3>2
    <3>4. z.dpos \div BarrierBlocks \in Nat /\ z.dpos \div BarrierBlocks # 0
      BY <2>2, <3>3
    <3> QED
      BY <2>5, <3>4 DEF Chunk
  <2>7. Chunk(m.entry.ipos) < Chunk(z.entry.ipos)
    <3>1. Chunk(m.entry.ipos) = 0 /\ Chunk(z.entry.ipos) = c
      BY <2>1, <2>4, <2>5, LandedFacts
    <3> QED
      BY <2>6, <3>1
  <2>8. m.entry.ipos \in Nat /\ m.entry.seq \in Nat
    BY LandedFacts
  <2>9. m.entry.ipos < z.entry.ipos
    BY <2>2, <2>7, <2>8, ChunkMonotone
  <2>10. m.entry.seq < z.entry.seq
    BY <2>1, <2>9, LandedOrder
  <2> QED
    BY <1>2, <2>8, <2>10
<1> DEFINE inside == Inside(lo, hi)
           padded == {l \in inside : Unpadded(l.entry) # 0}
           zero == {l \in inside : l.entry.seq = 0 /\ lo > GetWriteTail}
<1>3. Decoded(lo, hi) = {l \in inside : /\ \A p \in padded : l.dpos <= p.dpos
                                        /\ \A z \in zero : l.dpos < z.dpos}
  BY DEF Decoded, Inside
<1>4. \A l \in inside : /\ \A p \in padded : l.dpos <= p.dpos
                        /\ \A z \in zero : l.dpos < z.dpos
  BY <1>1, <1>2
<1> HIDE DEF inside, padded, zero
<1>5. Decoded(lo, hi) = inside
  BY <1>3, <1>4
<1> QED
  BY <1>5 DEF inside

\* A bijection with the addresses counts the entries.
LEMMA EntryCount ==
  ASSUME OnDevice, NEW lo \in Nat, NEW hi \in Nat, lo <= hi, hi <= dwp
  PROVE  IsFiniteSet(EntriesOf(lo, hi)) /\ Cardinality(EntriesOf(lo, hi)) = hi - lo
<1> DEFINE P == lo..(hi - 1)
           T == EntriesOf(lo, hi)
           at(p) == CHOOSE l \in landed : l.dpos = p
           f == [p \in P |-> at(p).entry]
<1>0. dwp \in Nat /\ \A l \in landed : l.dpos \in Nat
  BY DEF OnDevice
<1>1. IsFiniteSet(P) /\ Cardinality(P) = hi - lo
  BY IntervalSize
<1>2. ASSUME NEW p \in P PROVE at(p) \in landed /\ at(p).dpos = p
  <2>1. p \in 0..(dwp - 1)
    BY <1>0
  <2>2. \E l \in landed : l.dpos = p
    BY <2>1 DEF OnDevice, Device
  <2> QED
    BY <2>2
<1>3. ASSUME NEW p \in P PROVE at(p).entry \in T
  <2>1. at(p) \in Inside(lo, hi)
    BY <1>2 DEF Inside
  <2> HIDE DEF at
  <2> QED
    BY <2>1 DEF EntriesOf
<1>4. ASSUME NEW e \in T PROVE \E p \in P : at(p).entry = e
  <2>1. PICK l \in landed : e = l.entry /\ lo <= l.dpos /\ l.dpos < hi
    BY DEF EntriesOf, Inside
  <2>2. l.dpos \in P
    BY <1>0, <2>1
  <2>3. at(l.dpos) \in landed /\ at(l.dpos).dpos = l.dpos
    BY <1>2, <2>2
  <2> HIDE DEF at, P
  <2>4. at(l.dpos) = l
    BY <2>3 DEF OnDevice, Device
  <2> QED
    BY <2>1, <2>2, <2>4
<1>5. ASSUME NEW p \in P, NEW q \in P, at(p).entry = at(q).entry PROVE p = q
  <2>1. at(p) \in landed /\ at(p).dpos = p /\ at(q) \in landed /\ at(q).dpos = q
    BY <1>2
  <2> HIDE DEF at, P
  <2>2. at(p) = at(q)
    BY <1>5, <2>1 DEF OnDevice, Device
  <2> QED
    BY <2>1, <2>2
<1> HIDE DEF P, T, at
<1>6. f \in Bijection(P, T)
  BY <1>3, <1>4, <1>5 DEF Bijection, Injection, Surjection, IsInjective
<1>7. IsFiniteSet(T) /\ Cardinality(T) = hi - lo
  BY <1>1, <1>6, FS_Bijection DEF ExistsBijection
<1> QED
  BY <1>7 DEF T

\* s has each of the m entries of T in the place of its rank.
InOrder(s, T, m) ==
  /\ s \in Seq(T) /\ Len(s) = m
  /\ \A i \in 1..m : s[i] \in T /\ Rank(T, s[i]) = i - 1
  /\ \A e \in T : s[Rank(T, e) + 1] = e

\* The entries of a chunk, sorted
LEMMA ChunkSorted ==
  ASSUME OnDevice, NEW lo \in Nat, NEW hi \in Nat, lo <= hi, hi <= dwp
  PROVE  InOrder(SortBySeq(EntriesOf(lo, hi)), EntriesOf(lo, hi), hi - lo)
<1> DEFINE T == EntriesOf(lo, hi)
<1>1. IsFiniteSet(T) /\ Cardinality(T) = hi - lo /\ hi - lo \in Nat
  BY EntryCount
<1>2. \A e \in T : \E l \in landed : e = l.entry
  BY DEF EntriesOf, Inside
<1>3. \A e \in T : e.seq \in Nat
  BY <1>2, LandedFacts
<1>4. \A e, f \in T : e.seq = f.seq => e = f
  BY <1>2, LandedOrder
<1> HIDE DEF T
<1>5. PICK m \in Nat : m = hi - lo
  BY <1>1
<1>6. Cardinality(T) = m
  BY <1>1, <1>5
<1>7. /\ SortBySeq(T) \in Seq(T) /\ Len(SortBySeq(T)) = m
      /\ \A i \in 1..m : SortBySeq(T)[i] \in T /\ Rank(T, SortBySeq(T)[i]) = i - 1
      /\ \A e \in T : SortBySeq(T)[Rank(T, e) + 1] = e
  BY <1>1, <1>3, <1>4, <1>6, Sorted
<1> QED
  BY <1>5, <1>7, Zenon DEF T, InOrder

\* An entry that is not full is the last of its chunk, on the device and in order.
LEMMA ShortLast ==
  ASSUME OnDevice, NEW lo \in Nat, NEW hi \in Nat, lo <= hi, hi <= dwp,
         NEW T, T = EntriesOf(lo, hi),
         NEW l \in Inside(lo, hi), Len(l.entry.data) # buffer_sz
  PROVE  l.dpos = dwp - 1 /\ hi = dwp /\ Rank(T, l.entry) = hi - lo - 1
<1>1. l \in landed /\ l.dpos < hi
  BY DEF Inside
<1>2. l.dpos = dwp - 1 /\ dwp \in Nat
  BY <1>1 DEF OnDevice, Device
<1>3. hi = dwp
  BY <1>1, <1>2
<1>4. l.entry \in T
  BY DEF EntriesOf
<1>5. IsFiniteSet(T) /\ Cardinality(T) = hi - lo
  BY EntryCount
<1>6. {f \in T : f.seq < l.entry.seq} = T \ {l.entry}
  <2>1. ASSUME NEW f \in T PROVE f.seq < l.entry.seq <=> f # l.entry
    <3>1. PICK m \in landed : f = m.entry
      BY DEF EntriesOf, Inside
    <3>2. m.entry.ipos <= l.entry.ipos
      BY <1>1 DEF OnDevice
    <3>3. /\ m.entry.ipos \in Nat /\ l.entry.ipos \in Nat
          /\ m.entry.seq \in Nat /\ l.entry.seq \in Nat
      BY <1>1, LandedFacts
    <3>4. /\ m.entry.seq < l.entry.seq <=> m.entry.ipos < l.entry.ipos
          /\ m.entry.ipos = l.entry.ipos => m.entry = l.entry
      BY <1>1, LandedOrder
    <3> QED
      BY <3>1, <3>2, <3>3, <3>4
  <2> QED
    BY <2>1
<1>7. Rank(T, l.entry) = Cardinality(T \ {l.entry})
  BY <1>6, Zenon DEF Rank
<1>8. Cardinality(T \ {l.entry}) = Cardinality(T) - 1
  BY <1>4, <1>5, FS_RemoveElement
<1> QED
  BY <1>2, <1>3, <1>5, <1>7, <1>8

\* A log that is durable up to n has every entry that begins before n.
LEMMA DurableEntry ==
  ASSUME FullBlocks, OnDevice, NEW n \in Nat, Durable(n), NEW g \in Nat, g * buffer_sz < n
  PROVE  \E l \in landed : l.entry.ipos = g
<1>1. buffer_sz \in Nat \ {0}
  BY BufferSize
<1>2. PICK o \in Nat : o = g * buffer_sz
  BY <1>1
<1>3. o + 1 \in 1..n
  BY <1>2
<1>4. PICK l \in landed : \E i \in DOMAIN l.entry.data : l.entry.data[i] = o + 1
  BY <1>3 DEF Durable
<1>5. PICK i \in DOMAIN l.entry.data : l.entry.data[i] = o + 1
  BY <1>4
<1>6. /\ l.entry.ipos \in Nat /\ l.entry.off = l.entry.ipos * buffer_sz
      /\ Len(l.entry.data) \in 1..buffer_sz /\ l.entry.data \in Seq(Nat)
  BY LandedFacts
<1>7. \A k \in 1..Len(l.entry.data) : l.entry.data[k] = l.entry.off + k
  BY DEF OnDevice
<1>8. i \in 1..Len(l.entry.data) /\ i \in 1..buffer_sz
  <2>1. i \in 1..Len(l.entry.data)
    BY <1>6
  <2> QED
    BY <1>1, <1>6, <2>1
<1>9. PICK a \in Nat : a = l.entry.ipos
  BY <1>6
<1>10. a * buffer_sz + i = g * buffer_sz + 1
  BY <1>2, <1>5, <1>6, <1>7, <1>8, <1>9, Zenon
<1>11. 1 \in 1..buffer_sz /\ buffer_sz \in Nat
  BY <1>1
<1>12. a = g
  BY <1>8, <1>10, <1>11, UniqueUnit
<1> QED
  BY <1>9, <1>12

\* An entry with nothing missing before it, in its chunk, comes where its host
\* address says.
LEMMA GaplessRank ==
  ASSUME OnDevice, NEW k \in Nat, NEW lo \in Nat, lo = k * BarrierBlocks,
         NEW hi \in Nat, hi = Smaller(lo + BarrierBlocks, dwp), lo <= dwp,
         NEW T, T = EntriesOf(lo, hi),
         NEW g \in Nat, lo <= g, g < lo + BarrierBlocks,
         \A i \in lo..g : \E l \in landed : l.entry.ipos = i
  PROVE  \E l \in Inside(lo, hi) : l.entry.ipos = g /\ Rank(T, l.entry) = g - lo
<1> DEFINE at(i) == CHOOSE l \in landed : l.entry.ipos = i
<1>0. dwp \in Nat /\ lo <= hi /\ hi <= dwp
  BY DEF OnDevice, Smaller
<1>1. ASSUME NEW i \in lo..g PROVE at(i) \in landed /\ at(i).entry.ipos = i
  <2>1. \E l \in landed : l.entry.ipos = i
    OBVIOUS
  <2> QED
    BY <2>1
<1>2. ASSUME NEW l \in landed, l.entry.ipos \in lo..g PROVE l \in Inside(lo, hi)
  <2>1. l.dpos \in Nat /\ l.dpos < dwp /\ Chunk(l.dpos) = Chunk(l.entry.ipos) /\ l.entry.ipos \in Nat
    BY LandedFacts
  <2>2. PICK a \in Nat : a = l.entry.ipos /\ lo <= a /\ a < lo + BarrierBlocks
    BY <1>2, <2>1
  <2>3. Chunk(a) = k
    BY <2>2, ChunkIs
  <2>4. Chunk(l.dpos) = k
    BY <2>1, <2>2, <2>3, Zenon
  <2>5. lo <= l.dpos /\ l.dpos < lo + BarrierBlocks
    BY <2>1, <2>4, ChunkBounds
  <2> QED
    BY <1>0, <2>1, <2>5 DEF Inside, Smaller
<1>3. g \in lo..g
  OBVIOUS
<1>4. PICK x \in landed : x.entry.ipos = g
  BY <1>3
<1>5. x \in Inside(lo, hi)
  BY <1>2, <1>3, <1>4
<1> DEFINE A == {f \in T : f.seq < x.entry.seq}
           P == lo..(g - 1)
           b == [i \in P |-> at(i).entry]
<1>6. \A i \in P : i \in lo..g /\ i < g
  OBVIOUS
<1>7. ASSUME NEW i \in P PROVE at(i).entry \in A
  <2>1. PICK l \in landed : l = at(i) /\ l.entry.ipos = i
    BY <1>1, <1>6
  <2>2. l \in Inside(lo, hi)
    BY <1>2, <1>6, <2>1
  <2>3. l.entry \in T
    BY <2>2 DEF EntriesOf
  <2>4. l.entry.seq < x.entry.seq
    BY <1>4, <1>6, <2>1, LandedOrder
  <2> QED
    BY <2>1, <2>3, <2>4
<1>8. ASSUME NEW f \in A PROVE \E i \in P : at(i).entry = f
  <2>1. PICK l \in landed : f = l.entry /\ lo <= l.dpos /\ l.dpos < hi
    BY DEF EntriesOf, Inside
  <2>2. l.entry.ipos < g
    BY <1>4, <2>1, LandedOrder
  <2>3. l.dpos \in Nat /\ Chunk(l.dpos) = Chunk(l.entry.ipos) /\ l.entry.ipos \in Nat
    BY LandedFacts
  <2>4. l.dpos < lo + BarrierBlocks
    BY <1>0, <2>1, <2>3 DEF Smaller
  <2>5. Chunk(l.dpos) = k
    BY <2>1, <2>3, <2>4, ChunkIs
  <2>6. lo <= l.entry.ipos
    BY <2>3, <2>5, ChunkBounds
  <2>7. PICK i \in P : i = l.entry.ipos
    BY <2>2, <2>3, <2>6
  <2>8. at(i) \in landed /\ at(i).entry.ipos = i
    BY <1>1, <1>6
  <2> HIDE DEF at
  <2>9. at(i).entry = l.entry
    BY <2>7, <2>8, LandedOrder
  <2> QED
    BY <2>1, <2>9
<1>9. ASSUME NEW i \in P, NEW j \in P, at(i).entry = at(j).entry PROVE i = j
  <2>1. at(i).entry.ipos = i /\ at(j).entry.ipos = j
    BY <1>1, <1>6
  <2> HIDE DEF at
  <2> QED
    BY <1>9, <2>1
<1> HIDE DEF at, A
<1>10. IsFiniteSet(P) /\ Cardinality(P) = g - lo
  BY IntervalSize
<1> HIDE DEF P
<1>11. b \in Bijection(P, A)
  BY <1>7, <1>8, <1>9 DEF Bijection, Injection, Surjection, IsInjective
<1>12. Cardinality(A) = g - lo
  BY <1>10, <1>11, FS_Bijection DEF ExistsBijection
<1>13. Rank(T, x.entry) = g - lo
  BY <1>12 DEF Rank, A
<1> QED
  BY <1>4, <1>5, <1>13

\* A chunk is read in order, with the lengths the extents say, and with the entries
\* that belong there as far as none is missing (RecoverWALChunk, SparseAppend's
\* barriers).
LEMMA ChunkRead ==
  ASSUME FullBlocks, OnDevice, GetWriteTail = 0, Lengths(extents_, dwp),
         NEW k \in Nat, NEW lo \in Nat, lo = k * BarrierBlocks, lo < dwp,
         NEW hi \in Nat, hi = Smaller(lo + BarrierBlocks, dwp)
  PROVE  ChunkOf(RecoverWALChunk(lo, hi), k) /\ Len(RecoverWALChunk(lo, hi)) = hi - lo
<1> DEFINE T == EntriesOf(lo, hi)
           s == SortBySeq(T)
<1>0. dwp \in Nat /\ lo <= hi /\ hi <= dwp
  BY DEF OnDevice, Smaller
<1>1. RecoverWALChunk(lo, hi) = s
  <2>1. Decoded(lo, hi) = Inside(lo, hi)
    BY <1>0, DecodesAll
  <2> QED
    BY <2>1 DEF RecoverWALChunk, EntriesOf
<1>2. /\ s \in Seq(T) /\ Len(s) = hi - lo
      /\ \A i \in 1..(hi - lo) : s[i] \in T /\ Rank(T, s[i]) = i - 1
      /\ \A e \in T : s[Rank(T, e) + 1] = e
  <2>1. InOrder(s, T, hi - lo)
    BY <1>0, ChunkSorted
  <2> HIDE DEF s, T
  <2> QED
    BY <2>1, Zenon DEF InOrder
<1>3. \A e \in T : \E l \in Inside(lo, hi) : e = l.entry
  BY DEF EntriesOf
<1>t. \A l \in Inside(lo, hi) : l.entry \in T
  BY DEF EntriesOf
<1>l. \A l \in Inside(lo, hi) : l \in landed /\ lo <= l.dpos /\ l.dpos < hi
  BY DEF Inside
<1> HIDE DEF s, T
<1>4. s \in Seq(Entry)
  <2>1. \A e \in T : e \in Entry
    BY <1>3, <1>l, LandedFacts
  <2>2. T \subseteq Entry
    BY <2>1
  <2> QED
    BY <1>2, <2>2
<1>5. Len(s) = Smaller(BarrierBlocks, dwp - k * BarrierBlocks)
  <2>1. hi - lo = Smaller(BarrierBlocks, dwp - lo)
    BY <1>0 DEF Smaller
  <2> QED
    BY <1>2, <2>1, Zenon
<1>6. ASSUME NEW i \in 1..Len(s)
      PROVE  Len(s[i].data) = extents_[k * BarrierBlocks + i].length
  <2>0. i \in 1..(hi - lo) /\ i \in Nat
    BY <1>0, <1>2
  <2>1. PICK l \in Inside(lo, hi) : s[i] = l.entry
    BY <1>2, <1>3, <2>0
  <2>2. PICK p \in Nat : p = lo + i - 1 /\ p < hi /\ lo <= p /\ p + 1 = lo + i
    BY <1>0, <2>0
  <2>3. PICK m \in landed : m.dpos = p
    <3>1. p \in 0..(dwp - 1)
      BY <1>0, <2>2
    <3> QED
      BY <3>1 DEF OnDevice, Device
  <2>4. m \in Inside(lo, hi)
    BY <2>2, <2>3 DEF Inside
  <2>5. extents_[p + 1].length = Len(m.entry.data)
    <3>1. m.dpos < dwp
      BY LandedFacts
    <3> QED
      BY <2>3, <3>1 DEF Lengths
  <2>6. Len(m.entry.data) = Len(l.entry.data)
    <3>1. CASE Len(l.entry.data) # buffer_sz
      <4>1. l.dpos = dwp - 1 /\ hi = dwp /\ Rank(T, l.entry) = hi - lo - 1
        BY <1>0, <3>1, ShortLast DEF T
      <4>2. Rank(T, l.entry) = i - 1
        BY <1>2, <2>0, <2>1
      <4>3. m.dpos = l.dpos
        BY <1>0, <2>0, <2>2, <2>3, <4>1, <4>2
      <4>4. m = l
        BY <1>l, <4>3 DEF OnDevice, Device
      <4> QED
        BY <4>4
    <3>2. CASE Len(m.entry.data) # buffer_sz
      <4>1. m.dpos = dwp - 1 /\ hi = dwp /\ Rank(T, m.entry) = hi - lo - 1
        BY <1>0, <2>4, <3>2, ShortLast DEF T
      <4>2. Rank(T, m.entry) + 1 = i
        BY <1>0, <2>0, <2>2, <2>3, <4>1
      <4>3. s[i] = m.entry
        BY <1>2, <1>t, <2>4, <4>2
      <4> QED
        BY <2>1, <4>3
    <3> QED
      BY <3>1, <3>2
  <2>7. extents_[lo + i].length = Len(s[i].data)
    BY <2>1, <2>2, <2>5, <2>6
  <2> QED
    BY <2>7
<1>7. ASSUME NEW i \in 1..Len(s), NEW j \in 1..Len(s[i].data)
      PROVE  s[i].data[j] = s[i].off + j
  <2>0. i \in 1..(hi - lo)
    BY <1>2
  <2>1. PICK l \in Inside(lo, hi) : s[i] = l.entry
    BY <1>2, <1>3, <2>0
  <2>2. l \in landed
    BY <1>l
  <2>3. \A q \in 1..Len(l.entry.data) : l.entry.data[q] = l.entry.off + q
    BY <2>2 DEF OnDevice
  <2> QED
    BY <1>7, <2>1, <2>3
<1>8. ASSUME NEW i \in 1..Len(s), NEW n \in Nat, Durable(n),
             Start(k * BarrierBlocks + i - 1) < n
      PROVE  s[i].off = Start(k * BarrierBlocks + i - 1)
  <2>0. i \in 1..(hi - lo) /\ i \in Nat
    BY <1>0, <1>2
  <2>1. PICK g \in Nat : g = lo + i - 1 /\ lo <= g /\ g < lo + BarrierBlocks /\ g - lo + 1 = i
    BY <1>0, <2>0 DEF Smaller
  <2>2. g = k * BarrierBlocks + i - 1
    BY <2>1
  <2>3. g * buffer_sz < n
    BY <1>8, <2>2 DEF Start
  <2>4. ASSUME NEW q \in lo..g PROVE \E l \in landed : l.entry.ipos = q
    <3>1. q \in Nat /\ q <= g /\ buffer_sz \in Nat
      BY <2>1, BufferSize
    <3>2. PICK a \in Nat : a = q * buffer_sz
      BY <3>1, Multiples
    <3>3. PICK c \in Nat : c = g * buffer_sz
      BY <3>1, Multiples
    <3>4. a <= c
      BY <3>1, <3>2, <3>3, Multiples
    <3>5. c < n
      BY <2>3, <3>3
    <3>6. a < n
      BY <3>4, <3>5
    <3>7. q * buffer_sz < n
      BY <3>2, <3>6
    <3> QED
      BY <1>8, <3>1, <3>7, DurableEntry
  <2>5. PICK l \in Inside(lo, hi) : l.entry.ipos = g /\ Rank(T, l.entry) = g - lo
    BY <1>0, <2>1, <2>4, GaplessRank DEF T
  <2>6. s[i] = l.entry
    <3>1. Rank(T, l.entry) + 1 = i
      BY <2>1, <2>5
    <3> QED
      BY <1>2, <1>t, <3>1
  <2>7. l.entry.off = g * buffer_sz
    BY <1>l, <2>5, LandedFacts
  <2> QED
    BY <2>2, <2>6, <2>7 DEF Start
<1>9. ChunkOf(s, k)
  BY <1>4, <1>5, <1>6, <1>7, <1>8, Zenon DEF ChunkOf
<1> QED
  BY <1>1, <1>2, <1>9

-----------------------------------------------------------------------------
(***************************************************************************)
(* What recovery and the reader leave alone                                *)
(***************************************************************************)

\* A closed file is not written any more.
LEMMA ClosedStops ==
  ASSUME RunInv, ~open, [Next]_vars
  PROVE  UNCHANGED vars
<1>1. inflight = {}
  BY DEF RunInv, ContentInv, Closing
<1>2. syncer.pc = "idle" /\ buffer_mtx_ = "none" /\ fpc = "idle"
  BY Positions
<1>3. ~(\E n \in AppendSizes : AppendCall(n)) /\ ~(\E k \in SyncKinds : SyncCall(k))
  BY DEF AppendCall, SyncCall
<1>4. ~BufferedWrite /\ ~LandSome
  BY <1>1, <1>2 DEF BufferedWrite, LandSome
<1>5. ~Flush
  BY <1>2 DEF Flush, FlushBuffer, FlushBufferNoSpace, WantsFlush, SparseBarrier, SparseAppend,
              CanAppend, ZoneFull, ZoneFullNoSpace, FlushReturn
<1>6. ~SyncStep
  BY <1>2 DEF SyncStep, DataSyncWALSync, DataSyncLock, SyncReturn, FsyncReturn, CloseWR,
              CloseActiveZone
<1>7. ~Failure
  BY <1>2 DEF Failure, SparseAppendError, CanAppend, SparseBarrierError, FlushBufferUnlogged,
              WantsFlush, ZoneFullUnlogged, FsyncUnlogged, CloseWRUnlogged
<1> QED
  BY <1>3, <1>4, <1>5, <1>6, <1>7 DEF Next

\* What is on the device and in the metadata log stays what it is.
LEMMA LogKept ==
  ASSUME UNCHANGED <<landed, dwp, meta>>
  PROVE  /\ LogInv => LogInv'
         /\ Trusted' <=> Trusted
         /\ \A n : Durable(n)' <=> Durable(n)
<1>1. \A n : Durable(n)' <=> Durable(n)
  BY DEF Durable
<1>2. Trusted' <=> Trusted
  BY DEF Trusted, Durable
<1>3. Device => Device'
  BY DEF Device
<1>4. OnDevice => OnDevice'
  BY <1>3 DEF OnDevice
<1>5. /\ Lengths(meta.extents, dwp) => Lengths(meta.extents, dwp)'
      /\ Lengths(meta.extents, meta.start) => Lengths(meta.extents, meta.start)'
      /\ meta.size = SizeOf(meta.extents) => (meta.size = SizeOf(meta.extents))'
  BY DEF Lengths, SizeOf
<1>6. InMetadata => InMetadata'
  BY <1>2, <1>5 DEF InMetadata
<1> QED
  BY <1>1, <1>2, <1>4, <1>6 DEF LogInv

-----------------------------------------------------------------------------
(***************************************************************************)
(* The extents of the file and the group of its zones                      *)
(***************************************************************************)

\* The length of an extent
LEMMA ExtentLength ==
  ASSUME OnDevice, NEW exts, NEW n \in Nat, n <= dwp, Lengths(exts, n), NEW p \in 0..(n - 1)
  PROVE  exts[p + 1].length \in 1..buffer_sz /\ (p # dwp - 1 => exts[p + 1].length = buffer_sz)
<1>0. dwp \in Nat
  BY DEF OnDevice
<1>1. PICK l \in landed : l.dpos = p
  <2>1. p \in 0..(dwp - 1)
    BY <1>0
  <2> QED
    BY <2>1 DEF OnDevice, Device
<1>2. exts[p + 1].length = Len(l.entry.data)
  BY <1>1 DEF Lengths
<1>3. Len(l.entry.data) \in 1..buffer_sz
  BY LandedFacts
<1>4. Len(l.entry.data) # buffer_sz => l.dpos = dwp - 1
  BY DEF OnDevice, Device
<1> QED
  BY <1>1, <1>2, <1>3, <1>4

\* Where an entry ends in the file
LEMMA EntryEnd ==
  ASSUME FullBlocks, OnDevice, FileRead, NEW g \in Nat, g < dwp, NEW x, x = extents_[g + 1].length
  PROVE  /\ x \in 1..buffer_sz /\ Start(g) \in Nat /\ file_size_ \in Nat
         /\ g = dwp - 1 => file_size_ = Start(g) + x
         /\ g # dwp - 1 => x = buffer_sz /\ Start(g + 1) = Start(g) + x /\ Start(g + 1) <= file_size_
         /\ Start(g) + x <= file_size_
<1>0. /\ dwp \in Nat /\ extents_ \in ExtentList /\ Len(extents_) = dwp /\ Lengths(extents_, dwp)
      /\ file_size_ = SizeOf(extents_) /\ buffer_sz \in Nat
  BY BufferSize DEF OnDevice, FileRead
<1>1. \A p \in 0..(dwp - 1) : /\ extents_[p + 1].length \in 1..buffer_sz
                              /\ p # dwp - 1 => extents_[p + 1].length = buffer_sz
  <2> TAKE p \in 0..(dwp - 1)
  <2>1. dwp <= dwp
    BY <1>0
  <2> QED
    BY <1>0, <2>1, ExtentLength
<1>2. x \in 1..buffer_sz /\ (g # dwp - 1 => x = buffer_sz)
  <2>1. g \in 0..(dwp - 1)
    BY <1>0
  <2> QED
    BY <1>1, <2>1
<1>3. PICK w \in Nat : w = dwp - 1 /\ dwp = w + 1
  BY <1>0
<1>4. PICK y : y = extents_[dwp].length
  OBVIOUS
<1>5. y \in 1..buffer_sz
  <2>1. w \in 0..(dwp - 1)
    BY <1>3
  <2>2. extents_[w + 1].length \in 1..buffer_sz
    BY <1>1, <2>1
  <2> QED
    BY <1>3, <1>4, <2>2
<1>6. PICK a \in Nat : a = w * buffer_sz
  BY <1>0
<1>7. PICK b \in Nat : b = g * buffer_sz
  BY <1>0
<1>8. file_size_ = a + y
  <2>1. extents_ # << >>
    BY <1>0, <1>3
  <2>2. file_size_ = (Len(extents_) - 1) * buffer_sz + extents_[Len(extents_)].length
    BY <1>0, <2>1 DEF SizeOf
  <2> QED
    BY <1>0, <1>3, <1>4, <1>6, <2>2, Zenon
<1>9. CASE g = w
  <2>1. a = b /\ x = y
    BY <1>3, <1>4, <1>6, <1>7, <1>9
  <2>2. file_size_ = b + x /\ file_size_ \in Nat
    BY <1>5, <1>8, <2>1
  <2> QED
    BY <1>2, <1>3, <1>7, <1>9, <2>2 DEF Start
<1>10. CASE g # w
  <2>1. b + buffer_sz <= a /\ (g + 1) * buffer_sz = b + buffer_sz
    <3>1. g < w
      BY <1>3, <1>10
    <3> QED
      BY <1>0, <1>6, <1>7, <3>1, Apart
  <2>2. b + buffer_sz <= file_size_ /\ file_size_ \in Nat /\ x = buffer_sz
    BY <1>0, <1>2, <1>3, <1>5, <1>8, <1>10, <2>1
  <2>3. Start(g + 1) = Start(g) + x /\ Start(g) = b
    BY <1>7, <2>1, <2>2 DEF Start
  <2> QED
    BY <1>2, <1>3, <1>7, <1>10, <2>1, <2>2, <2>3
<1> QED
  BY <1>9, <1>10

\* A file with nothing on the device is empty.
LEMMA EmptyFile ==
  ASSUME FullBlocks, OnDevice, FileRead
  PROVE  dwp \in Nat /\ file_size_ \in Nat /\ (dwp = 0 => file_size_ = 0)
<1>0. /\ dwp \in Nat /\ extents_ \in ExtentList /\ Len(extents_) = dwp /\ file_size_ = SizeOf(extents_)
  BY DEF OnDevice, FileRead
<1>1. dwp = 0 => file_size_ = 0
  BY <1>0, NoElements DEF SizeOf, ExtentList
<1>2. dwp # 0 => file_size_ \in Nat
  <2> SUFFICES ASSUME dwp # 0 PROVE file_size_ \in Nat
    OBVIOUS
  <2>1. PICK w \in Nat : w < dwp
    BY <1>0
  <2> QED
    BY <2>1, EntryEnd
<1> QED
  BY <1>0, <1>1, <1>2

\* The log is in the first group.
LEMMA OneGroup ==
  ASSUME OnDevice, FileRead, dwp > 0
  PROVE  GetWriteTail = 0 /\ GetWriteHead = dwp
<1>1. Group = 1
  <2>1. wal_ \in {0, 1} /\ extents_[1].zone \in 1..GroupZones
    BY DEF FileRead, Lengths
  <2>2. (extents_[1].zone - 1) \div GroupZones = 0
    <3>1. PICK z \in 1..GroupZones : z = extents_[1].zone
      BY <2>1
    <3>2. (z - 1) \div GroupZones = 0
      BY <3>1
    <3> QED
      BY <3>1, <3>2
  <2> QED
    BY <2>1, <2>2 DEF Group
<1>2. GetWriteTail = 0
  BY <1>1 DEF GetWriteTail
<1>3. GetWriteHead = dwp
  <2>1. dwp <= GroupZones * ZoneCap
    BY DEF OnDevice
  <2> QED
    BY <1>1, <2>1 DEF GetWriteHead, Smaller
<1> QED
  BY <1>2, <1>3

\* A reader that has not read is at the beginning of the file.
LEMMA FreshReader ==
  ASSUME FullBlocks, OnDevice, FileRead, Fresh
  PROVE  Reader
<1>1. dwp \in Nat /\ file_size_ \in Nat /\ buffer_sz \in Nat
  BY EmptyFile, BufferSize
<1>2. Window /\ Content
  BY DEF Fresh, Window, Content, Follows
<1>3. Within
  BY <1>1 DEF Fresh, Within
<1>4. Idling
  <2>1. CASE dwp = 0
    BY <2>1 DEF Fresh, Idling
  <2>2. CASE dwp # 0
    <3>1. PICK x : x = extents_[0 + 1].length
      OBVIOUS
    <3>2. x \in 1..buffer_sz
      BY <1>1, <2>2, <3>1, EntryEnd
    <3>3. Start(0) = 0
      BY <1>1 DEF Start
    <3> QED
      BY <1>1, <2>2, <3>1, <3>2, <3>3 DEF Fresh, Idling, At
  <2> QED
    BY <2>1, <2>2
<1> QED
  BY <1>2, <1>3, <1>4 DEF Reader

-----------------------------------------------------------------------------
(***************************************************************************)
(* Recovery                                                                *)
(***************************************************************************)

\* The quotient of a multiple
LEMMA ZoneOf ==
  ASSUME NEW z \in Nat, NEW a \in Nat, a = z * ZoneCap
  PROVE  a \div ZoneCap = z
<1> DEFINE q == a \div ZoneCap
<1>1. q \in Int /\ q * ZoneCap <= a /\ a < (q + 1) * ZoneCap
  OBVIOUS
<1>2. q < z + 1 /\ z < q + 1
  BY <1>1
<1> QED
  BY <1>1, <1>2

\* The zone of the active extent is the one the device's write pointer is in.
LEMMA ZoneWpIs ==
  ASSUME OnDevice, InMetadata, meta.start # NO_EXTENT
  PROVE  /\ ZoneWp = dwp /\ dwp \in Nat /\ meta.start \in Nat /\ meta.start <= dwp
         /\ meta.start = 0 => meta.start \div ZoneCap = 0
         /\ meta.start \div ZoneCap \in Nat
<1>1. PICK z \in Nat : meta.start = z * ZoneCap /\ dwp <= (z + 1) * ZoneCap
  BY DEF InMetadata
<1>2. dwp \in Nat /\ meta.start <= dwp /\ meta.start \in Nat
  BY DEF OnDevice, InMetadata, Metadata
<1>3. meta.start \div ZoneCap = z
  BY <1>1, <1>2, ZoneOf
<1>4. ZoneWp = dwp
  <2>1. ZoneWp = Smaller(dwp, (z + 1) * ZoneCap)
    BY <1>3 DEF ZoneWp
  <2> QED
    BY <1>1, <2>1 DEF Smaller
<1>5. meta.start = 0 => z = 0
  BY <1>1
<1> QED
  BY <1>2, <1>3, <1>4, <1>5

\* The group a decoded file takes its log from
LEMMA DecodedGroup ==
  ASSUME NEW exts, exts[1].zone \in 1..GroupZones
  PROVE  (exts[1].zone - 1) \div GroupZones + 1 = 1
<1>1. PICK z \in 1..GroupZones : z = exts[1].zone
  OBVIOUS
<1>2. (z - 1) \div GroupZones = 0
  BY <1>1
<1> QED
  BY <1>1, <1>2

\* Mount decodes the file: it is closed, or recovery begins at its active extent.
LEMMA MountStep ==
  ASSUME FullBlocks, ReadInv, Mount
  PROVE  ReadInv'
<1>1. mode = "crashed" /\ LogInv /\ appended \in Nat /\ Fresh
  BY DEF ReadInv, Mount, Readable
<1>2. OnDevice /\ InMetadata
  BY <1>1 DEF LogInv
<1>3. UNCHANGED <<landed, dwp, meta, appended>>
  BY DEF Mount, device, writer
<1>4. LogInv' /\ (Trusted' <=> Trusted)
  BY <1>1, <1>3, LogKept
<1>5. Fresh'
  BY <1>1 DEF Fresh, Mount, chunks, call, position
<1>6. PICK k \in 0..Len(meta.extents) : DecodeFrom(k)
  BY DEF Mount
<1>7. meta \in Metadata /\ meta.extents \in ExtentList /\ meta.size = SizeOf(meta.extents)
  BY <1>2 DEF InMetadata, Metadata
<1>8. extents_' = meta.extents /\ file_size_' = meta.size
  BY <1>6 DEF DecodeFrom
<1>9. ASSUME NEW n \in Nat, Len(meta.extents) = n, Lengths(meta.extents, n)
      PROVE  wal_' \in {0, 1}
  <2>1. CASE k = 0
    BY <1>6, <2>1 DEF DecodeFrom
  <2>2. CASE k # 0
    <3>1. n > 0
      BY <1>9, <2>2
    <3>2. meta.extents[1].zone \in 1..GroupZones
      BY <1>9, <3>1 DEF Lengths
    <3>3. wal_' = (meta.extents[1].zone - 1) \div GroupZones + 1
      BY <1>6, <2>2 DEF DecodeFrom
    <3> QED
      BY <3>2, <3>3, DecodedGroup
  <2> QED
    BY <2>1, <2>2
<1>10. (file_size_ = SizeOf(extents_))'
  BY <1>7, <1>8 DEF SizeOf
<1>11. CASE meta.start = NO_EXTENT
  <2>1. mode' = "mounted"
    BY <1>11 DEF Mount
  <2>2. ASSUME Trusted PROVE FileRead'
    <3>1. Len(meta.extents) = dwp /\ Lengths(meta.extents, dwp) /\ dwp \in Nat
      BY <1>2, <1>11, <2>2 DEF InMetadata, OnDevice
    <3>2. wal_' \in {0, 1}
      BY <1>9, <3>1
    <3>3. Lengths(extents_, dwp)'
      BY <1>3, <1>8, <3>1 DEF Lengths
    <3> QED
      BY <1>3, <1>7, <1>8, <1>10, <3>1, <3>2, <3>3 DEF FileRead
  <2> QED
    BY <1>1, <1>3, <1>4, <1>5, <2>1, <2>2 DEF ReadInv, Readable
<1>12. CASE meta.start # NO_EXTENT
  <2>1. ZoneWp = dwp /\ dwp \in Nat /\ meta.start \in Nat /\ meta.start <= dwp
    BY <1>2, <1>12, ZoneWpIs
  <2>2. Len(meta.extents) = meta.start /\ Lengths(meta.extents, meta.start)
    BY <1>2, <1>12 DEF InMetadata
  <2>3. wal_' \in {0, 1}
    BY <1>9, <2>1, <2>2
  <2>4. CASE dwp = meta.start
    <3>1. mode' = "mounted"
      BY <1>12, <2>1, <2>4 DEF Mount
    <3>2. Lengths(extents_, dwp)'
      BY <1>3, <1>8, <2>2, <2>4 DEF Lengths
    <3>3. FileRead'
      BY <1>3, <1>7, <1>8, <1>10, <2>2, <2>3, <2>4, <3>2 DEF FileRead
    <3> QED
      BY <1>1, <1>3, <1>4, <1>5, <3>1, <3>3 DEF ReadInv, Readable
  <2>5. CASE dwp # meta.start
    <3>1. mode' = "recover" /\ next_extent_start' = meta.start
      <4>1. ~(dwp < meta.start) /\ ~(dwp = meta.start)
        BY <2>1, <2>5
      <4> QED
        BY <1>12, <2>1, <4>1 DEF Mount
    <3>2. Lengths(extents_, next_extent_start)'
      BY <1>3, <1>8, <2>2, <3>1 DEF Lengths
    <3>3. Recovering'
      BY <1>3, <1>7, <1>8, <1>12, <2>1, <2>2, <2>3, <3>1, <3>2 DEF Recovering
    <3> QED
      BY <1>1, <1>3, <1>4, <1>5, <3>1, <3>3 DEF ReadInv, Readable
  <2> QED
    BY <2>4, <2>5
<1> QED
  BY <1>11, <1>12

\* RecoverSparseExtents finds an entry at every address up to the write pointer.
LEMMA RecoverStep ==
  ASSUME FullBlocks, ReadInv, RecoverSparseExtents
  PROVE  ReadInv'
<1>1. mode = "recover" /\ LogInv /\ appended \in Nat /\ Fresh /\ Recovering
  BY DEF ReadInv, RecoverSparseExtents, Readable
<1>2. OnDevice /\ InMetadata
  BY <1>1 DEF LogInv
<1>3. UNCHANGED <<landed, dwp, meta, appended, wal_>>
  BY DEF RecoverSparseExtents, device, writer
<1>4. LogInv'
  BY <1>1, <1>3, LogKept
<1>5. Fresh'
  BY <1>1 DEF Fresh, RecoverSparseExtents, chunks, call, position
<1>6. /\ meta.start # NO_EXTENT /\ next_extent_start \in Nat /\ next_extent_start \in meta.start..dwp
      /\ extents_ \in ExtentList /\ Len(extents_) = next_extent_start
      /\ Lengths(extents_, next_extent_start) /\ wal_ \in {0, 1}
  BY <1>1 DEF Recovering
<1>7. /\ ZoneWp = dwp /\ dwp \in Nat /\ meta.start \in Nat
      /\ meta.start = 0 => meta.start \div ZoneCap = 0
      /\ meta.start \div ZoneCap \in Nat
  BY <1>2, <1>6, ZoneWpIs
<1> DEFINE n == next_extent_start
<1>8. n < dwp
  BY <1>7 DEF RecoverSparseExtents
<1>9. PICK x \in landed : x.dpos = n
  <2>1. n \in 0..(dwp - 1)
    BY <1>6, <1>7, <1>8
  <2> QED
    BY <1>2, <2>1 DEF OnDevice, Device
<1>10. PICK l \in landed :
          /\ l.dpos = next_extent_start
          /\ extents_' = Append(extents_, [zone |-> meta.start \div ZoneCap + 1,
                                           length |-> Len(l.entry.data)])
          /\ next_extent_start' =
               next_extent_start + Blocks(Len(l.entry.data) + SPARSE_HEADER_SIZE)
          /\ UNCHANGED mode
  BY <1>9, Zenon DEF RecoverSparseExtents
<1>11. Len(l.entry.data) \in 1..buffer_sz
  BY <1>2, LandedFacts
<1>12. n' = n + 1
  <2>1. PICK u \in Nat : u = Len(l.entry.data) + SPARSE_HEADER_SIZE /\ u \in 1..BlockSz
    BY <1>11, BufferSize DEF HeaderSize
  <2>2. Blocks(u) = 1
    <3>1. Blocks(u) >= 1 /\ Blocks(u) <= 1 /\ Blocks(u) \in Nat
      BY <2>1, BlocksBound
    <3> QED
      BY <3>1
  <2> QED
    BY <1>10, <2>1, <2>2
<1>13. PICK x1 \in [zone : Nat, length : Nat] :
          x1 = [zone |-> meta.start \div ZoneCap + 1, length |-> Len(l.entry.data)]
  <2>1. PICK z \in Nat : z = meta.start \div ZoneCap + 1
    BY <1>7
  <2>2. PICK y \in Nat : y = Len(l.entry.data)
    BY <1>11
  <2>3. [zone |-> z, length |-> y] \in [zone : Nat, length : Nat]
    OBVIOUS
  <2> QED
    BY <2>1, <2>2, <2>3
<1>14. /\ extents_' \in ExtentList /\ Len(extents_') = n + 1 /\ extents_'[n + 1] = x1
       /\ \A i \in 1..n : extents_'[i] = extents_[i]
  BY <1>6, <1>10, <1>13 DEF ExtentList
<1> HIDE DEF n
<1>15. ASSUME NEW m \in landed, m.dpos < n + 1
       PROVE  extents_'[m.dpos + 1].length = Len(m.entry.data)
  <2>1. m.dpos \in Nat /\ n \in Nat
    BY <1>2, <1>6, LandedFacts DEF n
  <2>2. CASE m.dpos = n
    <3>1. m = l
      BY <1>2, <1>10, <2>2 DEF OnDevice, Device, n
    <3> QED
      BY <1>13, <1>14, <2>2, <3>1
  <2>3. CASE m.dpos # n
    <3>1. m.dpos < n /\ m.dpos + 1 \in 1..n
      BY <1>15, <2>1, <2>3
    <3>2. extents_[m.dpos + 1].length = Len(m.entry.data)
      BY <1>6, <3>1 DEF Lengths, n
    <3> QED
      BY <1>14, <3>1, <3>2
  <2> QED
    BY <2>2, <2>3
<1>16. extents_'[1].zone \in 1..GroupZones
  <2>1. CASE n = 0
    <3>1. meta.start = 0
      BY <1>6, <1>7, <2>1 DEF n
    <3>2. x1.zone = 1 /\ extents_'[1] = x1
      BY <1>7, <1>13, <1>14, <2>1, <3>1
    <3> QED
      BY <3>2
  <2>2. CASE n # 0
    <3>1. n > 0 /\ 1 \in 1..n
      BY <1>6, <2>2 DEF n
    <3>2. extents_[1].zone \in 1..GroupZones
      BY <1>6, <3>1 DEF Lengths, n
    <3> QED
      BY <1>14, <3>1, <3>2
  <2> QED
    BY <2>1, <2>2
<1>17. next_extent_start' = n + 1
  BY <1>12 DEF n
<1>18. Lengths(extents_, next_extent_start)'
  BY <1>3, <1>15, <1>16, <1>17 DEF Lengths
<1>19. Recovering'
  <2>1. n + 1 \in Nat /\ n + 1 \in meta.start..dwp
    BY <1>6, <1>7, <1>8 DEF n
  <2> QED
    BY <1>3, <1>6, <1>14, <1>17, <1>18, <2>1 DEF Recovering
<1> QED
  BY <1>1, <1>3, <1>4, <1>5, <1>10, <1>19 DEF ReadInv, Readable

\* The sum of the extents is the size of the file.
LEMMA SumIs ==
  ASSUME FullBlocks, OnDevice, NEW exts \in ExtentList, Len(exts) = dwp, Lengths(exts, dwp)
  PROVE  SumLengths(exts) = SizeOf(exts)
<1> DEFINE s == [i \in DOMAIN exts |-> exts[i].length]
<1>0. dwp \in Nat /\ buffer_sz \in Nat /\ DOMAIN exts = 1..dwp
  BY BufferSize DEF OnDevice, ExtentList
<1>1. \A i \in 1..dwp : exts[i] \in [zone : Nat, length : Nat]
  BY ElementOf DEF ExtentList
<1>2. \A i \in 1..dwp : s[i] = exts[i].length /\ s[i] \in Nat
  BY <1>0, <1>1
<1>3. s \in Seq(Nat) /\ Len(s) = dwp
  <2>1. s = [i \in 1..dwp |-> s[i]]
    BY <1>0
  <2> HIDE DEF s
  <2> QED
    BY <1>0, <1>2, <2>1, ListOf
<1>4. ASSUME NEW i \in 1..dwp, i # dwp PROVE s[i] = buffer_sz
  <2>1. PICK p \in 0..(dwp - 1) : i = p + 1 /\ p # dwp - 1
    BY <1>0, <1>4
  <2>2. dwp <= dwp
    BY <1>0
  <2>3. exts[p + 1].length = buffer_sz
    BY <1>0, <2>1, <2>2, ExtentLength
  <2> QED
    BY <1>2, <2>1, <2>3
<1>5. SumLengths(exts) = Total(s)
  BY DEF SumLengths
<1> HIDE DEF s
<1>6. /\ dwp = 0 => Total(s) = 0
      /\ dwp # 0 => Total(s) = (dwp - 1) * buffer_sz + s[dwp]
  BY <1>0, <1>3, <1>4, EvenTotal
<1>7. CASE dwp = 0
  <2>1. exts = << >>
    BY <1>7, NoElements DEF ExtentList
  <2> QED
    BY <1>5, <1>6, <1>7, <2>1 DEF SizeOf
<1>8. CASE dwp # 0
  <2>1. exts # << >>
    BY <1>8, NoElements DEF ExtentList
  <2>2. s[dwp] = exts[dwp].length
    BY <1>0, <1>2, <1>8
  <2>3. SizeOf(exts) = (Len(exts) - 1) * buffer_sz + exts[Len(exts)].length
    BY <2>1, Zenon DEF SizeOf
  <2>4. Total(s) = (dwp - 1) * buffer_sz + exts[dwp].length
    BY <1>6, <1>8, <2>2, Zenon
  <2> QED
    BY <1>5, <2>3, <2>4, Zenon
<1> QED
  BY <1>7, <1>8

\* The recovered size is the sum of the extents, and the reader finds the whole log.
LEMMA RecoverDoneStep ==
  ASSUME FullBlocks, ReadInv, RecoverDone
  PROVE  ReadInv'
<1>1. mode = "recover" /\ LogInv /\ appended \in Nat /\ Fresh /\ Recovering
  BY DEF ReadInv, RecoverDone, Readable
<1>2. OnDevice /\ InMetadata
  BY <1>1 DEF LogInv
<1>3. UNCHANGED <<landed, dwp, meta, appended, wal_, extents_>> /\ mode' = "mounted"
      /\ file_size_' = SumLengths(extents_)
  BY DEF RecoverDone, device, writer
<1>4. LogInv'
  BY <1>1, <1>3, LogKept
<1>5. Fresh'
  BY <1>1 DEF Fresh, RecoverDone, chunks, call, position
<1>6. /\ meta.start # NO_EXTENT /\ next_extent_start \in Nat /\ next_extent_start \in meta.start..dwp
      /\ extents_ \in ExtentList /\ Len(extents_) = next_extent_start
      /\ Lengths(extents_, next_extent_start) /\ wal_ \in {0, 1}
  BY <1>1 DEF Recovering
<1>7. next_extent_start = dwp
  <2>1. ZoneWp = dwp /\ dwp \in Nat /\ meta.start \in Nat
    BY <1>2, <1>6, ZoneWpIs
  <2> QED
    BY <1>6, <2>1 DEF RecoverDone
<1>8. SumLengths(extents_) = SizeOf(extents_)
  BY <1>2, <1>6, <1>7, SumIs
<1>9. (file_size_ = SizeOf(extents_))'
  BY <1>3, <1>8 DEF SizeOf
<1>10. Lengths(extents_, dwp)'
  BY <1>3, <1>6, <1>7 DEF Lengths
<1>11. FileRead'
  BY <1>3, <1>6, <1>7, <1>9, <1>10 DEF FileRead
<1> QED
  BY <1>1, <1>3, <1>4, <1>5, <1>11 DEF ReadInv, Readable

-----------------------------------------------------------------------------
(***************************************************************************)
(* The reader                                                              *)
(***************************************************************************)

\* The reader changes neither the file nor the device.
LEMMA FileKept ==
  ASSUME UNCHANGED vars
  PROVE  /\ UNCHANGED <<landed, dwp, meta, extents_, file_size_, wal_, appended, open>>
         /\ FileRead => FileRead'
<1>1. UNCHANGED <<landed, dwp, meta, extents_, file_size_, wal_, appended, open>>
  BY DEF vars, file, device, writer
<1>2. Lengths(extents_, dwp) => Lengths(extents_, dwp)'
  BY <1>1 DEF Lengths
<1>3. file_size_ = SizeOf(extents_) => (file_size_ = SizeOf(extents_))'
  BY <1>1 DEF SizeOf
<1>4. FileRead => FileRead'
  BY <1>1, <1>2, <1>3 DEF FileRead
<1> QED
  BY <1>1, <1>4

\* A chunk stays as it is while the log and the extents do.
LEMMA ChunkStays ==
  ASSUME NEW k, NEW s, ChunkOf(s, k), UNCHANGED <<landed, dwp, extents_>>,
         wal_entries_' = s, chunk_id_' - 1 = k
  PROVE  ChunkOf(wal_entries_, chunk_id_ - 1)'
<1>1. \A n : Durable(n)' <=> Durable(n)
  BY DEF Durable
<1>2. s \in Seq(Entry) /\ Len(s) = Smaller(BarrierBlocks, dwp - k * BarrierBlocks)
  BY DEF ChunkOf
<1>3. ASSUME NEW i \in 1..Len(s)
      PROVE  /\ Len(s[i].data) = extents_[k * BarrierBlocks + i].length
             /\ \A j \in 1..Len(s[i].data) : s[i].data[j] = s[i].off + j
             /\ \A n \in Nat : Durable(n)' /\ Start(k * BarrierBlocks + i - 1) < n =>
                                 s[i].off = Start(k * BarrierBlocks + i - 1)
  BY <1>1 DEF ChunkOf
<1>4. ASSUME NEW i \in 1..Len(wal_entries_')
      PROVE  /\ Len(wal_entries_'[i].data) = extents_'[(chunk_id_' - 1) * BarrierBlocks + i].length
             /\ \A j \in 1..Len(wal_entries_'[i].data) : wal_entries_'[i].data[j] = wal_entries_'[i].off + j
             /\ \A n \in Nat : Durable(n)' /\ Start((chunk_id_' - 1) * BarrierBlocks + i - 1) < n =>
                  wal_entries_'[i].off = Start((chunk_id_' - 1) * BarrierBlocks + i - 1)
  BY <1>3, Zenon
<1> QED
  BY <1>2, <1>4 DEF ChunkOf, Start

\* The loaded chunk stays as it is.
LEMMA WindowKept ==
  ASSUME Window, UNCHANGED vars, UNCHANGED chunks
  PROVE  Window'
<1>1. /\ UNCHANGED <<landed, dwp, extents_, file_size_>>
      /\ UNCHANGED <<wal_entries_, end_, jump_, chunk_id_>>
  BY FileKept DEF chunks
<1>2. ChunkOf(wal_entries_, chunk_id_ - 1) => ChunkOf(wal_entries_, chunk_id_ - 1)'
  BY <1>1, ChunkStays
<1>3. EndOf(jump_ + Len(wal_entries_))' = EndOf(jump_ + Len(wal_entries_))
  BY <1>1 DEF EndOf, Start
<1> QED
  BY <1>1, <1>2, <1>3 DEF Window

\* So does what was read.
LEMMA ContentKept ==
  ASSUME UNCHANGED vars, UNCHANGED result, Content
  PROVE  Content'
<1>1. UNCHANGED landed
  BY FileKept
<1> QED
  BY <1>1 DEF Content, Durable, Follows

\* The numbers the reader's position is made of
LEMMA Numbers ==
  ASSUME FullBlocks, OnDevice, FileRead, Reader
  PROVE  /\ dwp \in Nat /\ file_size_ \in Nat /\ buffer_sz \in Nat \ {0}
         /\ Len(result) \in Nat /\ Len(result) <= file_size_ /\ result \in Seq(Nat)
         /\ Len(extents_) = dwp
BY EmptyFile, BufferSize DEF Reader, Within, FileRead

\* The end of a loaded chunk
LEMMA EndNat ==
  ASSUME FullBlocks, OnDevice, FileRead, Window, chunk_id_ # 0
  PROVE  end_ \in Nat /\ jump_ \in Nat /\ Len(wal_entries_) \in Nat \ {0} /\ jump_ + Len(wal_entries_) <= dwp
<1>1. /\ wal_entries_ \in Seq(Entry)
      /\ Len(wal_entries_) = Smaller(BarrierBlocks, dwp - (chunk_id_ - 1) * BarrierBlocks)
      /\ jump_ = (chunk_id_ - 1) * BarrierBlocks /\ chunk_id_ \in Nat \ {0}
      /\ jump_ < dwp /\ end_ = EndOf(jump_ + Len(wal_entries_))
  BY DEF Window, ChunkOf
<1>2. dwp \in Nat /\ file_size_ \in Nat /\ buffer_sz \in Nat
  BY EmptyFile, BufferSize
<1>3. PICK j \in Nat : j = (chunk_id_ - 1) * BarrierBlocks
  <2>1. PICK c \in Nat : c = chunk_id_ - 1
    BY <1>1
  <2>2. c * BarrierBlocks \in Nat
    BY Multiples
  <2> QED
    BY <2>1, <2>2
<1>4. Len(wal_entries_) = Smaller(BarrierBlocks, dwp - j) /\ j < dwp /\ jump_ = j
  BY <1>1, <1>3
<1>5. Len(wal_entries_) \in Nat \ {0} /\ jump_ + Len(wal_entries_) <= dwp
  BY <1>2, <1>3, <1>4 DEF Smaller
<1>6. PICK m \in Nat : m = jump_ + Len(wal_entries_)
  BY <1>3, <1>4, <1>5
<1>7. m * buffer_sz \in Nat
  BY <1>2, Multiples
<1>8. EndOf(m) \in Nat
  BY <1>2, <1>7 DEF EndOf, Start
<1> QED
  BY <1>1, <1>3, <1>4, <1>5, <1>6, <1>8

\* A read begins where the last one ended.
LEMMA ReadCallStep ==
  ASSUME FullBlocks, OnDevice, FileRead, Reader, ReadCall
  PROVE  Reader'
<1>1. UNCHANGED vars /\ UNCHANGED chunks /\ UNCHANGED <<reader_offset_, reader_offset_index_, rp, result>>
      /\ pc = "idle"
  BY DEF ReadCall, position
<1>2. UNCHANGED <<dwp, extents_, file_size_, chunk_id_, jump_, end_>>
  BY <1>1, FileKept DEF chunks
<1>3. Window' /\ Content' /\ Within'
  BY <1>1, <1>2, WindowKept, ContentKept DEF Reader, Within
<1>4. Idling
  BY <1>1 DEF Reader, Looking, Copying, Returning
<1>5. /\ dwp \in Nat /\ file_size_ \in Nat /\ rp = Len(result) /\ rp \in Nat /\ rp <= file_size_
      /\ dwp = 0 => file_size_ = 0
  BY <1>4, Numbers, EmptyFile DEF Idling
<1>6. CASE rp >= file_size_
  <2>1. pc' = "eof" /\ rp = file_size_
    BY <1>5, <1>6 DEF ReadCall
  <2>2. Idling'
    BY <1>1, <1>2, <1>4, <2>1 DEF Idling, At
  <2> QED
    BY <1>3, <2>2 DEF Reader
<1>7. CASE ~(rp >= file_size_)
  <2>1. /\ pc' = "enter" /\ stage' = "first" /\ extend_id' = reader_offset_index_
        /\ read' = 0 /\ r_sz' = Smaller(ReadSize, file_size_ - rp)
    BY <1>7 DEF ReadCall
  <2>2. r_sz' \in Nat \ {0} /\ rp + r_sz' <= file_size_
    BY <1>5, <1>7, <2>1 DEF Smaller
  <2>3. /\ At(reader_offset_index_, reader_offset_)
        /\ reader_offset_ < extents_[reader_offset_index_ + 1].length
    BY <1>4, <1>5, <1>7 DEF Idling
  <2>4. InCall'
    BY <1>1, <1>2, <1>5, <2>1, <2>2 DEF InCall
  <2>5. Looking'
    BY <1>1, <1>2, <2>1, <2>2, <2>3, <2>4 DEF Looking, At
  <2> QED
    BY <1>3, <2>5 DEF Reader
<1> QED
  BY <1>6, <1>7

\* TryRecoverWAL loads a chunk only at the end of the one it has.
LEMMA TryRecoverStep ==
  ASSUME FullBlocks, OnDevice, FileRead, Reader, TryRecoverWAL
  PROVE  Reader'
<1>1. UNCHANGED vars /\ UNCHANGED chunks /\ UNCHANGED <<reader_offset_, reader_offset_index_, rp, result>>
      /\ pc = "enter" /\ UNCHANGED <<stage, r_off, extend_id, read, r_sz>>
      /\ pc' = IF wal_entries_ # << >> /\ end_ > rp + read THEN "extent" ELSE "load"
  BY DEF TryRecoverWAL, position
<1>2. UNCHANGED <<dwp, extents_, file_size_, chunk_id_, jump_, end_>>
  BY <1>1, FileKept DEF chunks
<1>3. Window' /\ Content' /\ Within'
  BY <1>1, <1>2, WindowKept, ContentKept DEF Reader, Within
<1>4. Looking
  BY <1>1 DEF Reader, Idling, Copying, Returning
<1>5. InCall /\ Len(result) = rp + read /\ Window /\ Within
  BY <1>4 DEF Looking, InCall, Reader
<1>6. /\ dwp \in Nat /\ file_size_ \in Nat /\ Len(result) \in Nat
  BY Numbers
<1>7. CASE wal_entries_ # << >> /\ end_ > rp + read
  <2>1. pc' = "extent"
    BY <1>1, <1>7
  <2>2. Len(result) < end_
    <3>1. end_ > Len(result)
      BY <1>5, <1>7
    <3> QED
      BY <3>1
  <2>3. Looking'
    BY <1>1, <1>2, <1>4, <2>1, <2>2 DEF Looking, InCall, At
  <2> QED
    BY <1>3, <2>3 DEF Reader
<1>8. CASE ~(wal_entries_ # << >> /\ end_ > rp + read)
  <2>1. pc' = "load"
    BY <1>1, <1>8
  <2>2. Len(result) = end_
    <3>1. CASE chunk_id_ = 0
      BY <1>5, <3>1 DEF Window, Within
    <3>2. CASE chunk_id_ # 0
      <4>1. wal_entries_ # << >>
        <5>1. Len(wal_entries_) # 0
          BY <1>5, <3>2, EndNat
        <5> QED
          BY <5>1
      <4>2. Len(result) <= end_ /\ ~(end_ > Len(result))
        BY <1>5, <1>8, <3>2, <4>1 DEF Within
      <4>3. end_ \in Nat
        BY <1>5, <3>2, EndNat
      <4> QED
        BY <1>6, <4>2, <4>3
    <3> QED
      BY <3>1, <3>2
  <2>3. Looking'
    BY <1>1, <1>2, <1>4, <2>1, <2>2 DEF Looking, InCall, At
  <2> QED
    BY <1>3, <2>3 DEF Reader
<1> QED
  BY <1>7, <1>8

\* GetWALExtent finds the extent the position is in, or the next one.
LEMMA ExtentStep ==
  ASSUME FullBlocks, OnDevice, FileRead, Reader, GetWALExtent
  PROVE  Reader'
<1>1. UNCHANGED vars /\ UNCHANGED chunks /\ UNCHANGED <<reader_offset_, reader_offset_index_, rp, result>>
      /\ pc = "extent" /\ UNCHANGED <<read, r_sz>>
  BY DEF GetWALExtent, position
<1>2. UNCHANGED <<dwp, extents_, file_size_, chunk_id_, jump_, end_>>
  BY <1>1, FileKept DEF chunks
<1>3. Window' /\ Content' /\ Within'
  BY <1>1, <1>2, WindowKept, ContentKept DEF Reader, Within
<1>4. Looking
  BY <1>1 DEF Reader, Idling, Copying, Returning
<1>5. /\ dwp \in Nat /\ file_size_ \in Nat /\ Len(result) \in Nat /\ Len(extents_) = dwp
      /\ buffer_sz \in Nat
  BY Numbers
<1>6. InCall /\ InCall'
  BY <1>1, <1>2, <1>4 DEF Looking, InCall
<1>7. ASSUME At(extend_id, r_off), r_off = extents_[extend_id + 1].length
      PROVE  /\ HasNext => /\ At(extend_id + 1, 0)
                           /\ 0 < extents_[extend_id + 2].length
                           /\ extend_id + 1 \in Nat
             /\ ~HasNext => Len(result) = file_size_
             /\ extend_id \in Nat /\ r_off \in Nat
  <2>1. /\ extend_id \in Nat /\ r_off \in Nat /\ extend_id < dwp
        /\ Len(result) = Start(extend_id) + r_off
    BY <1>7 DEF At
  <2>2. /\ extend_id = dwp - 1 => file_size_ = Start(extend_id) + r_off
        /\ extend_id # dwp - 1 => Start(extend_id + 1) = Start(extend_id) + r_off
    BY <1>7, <2>1, EntryEnd
  <2>3. ASSUME HasNext PROVE At(extend_id + 1, 0) /\ 0 < extents_[extend_id + 2].length
    <3>1. PICK h \in Nat : h = extend_id + 1 /\ h + 1 = extend_id + 2
      BY <2>1
    <3>2. h < dwp /\ extend_id # dwp - 1
      BY <1>5, <2>1, <2>3, <3>1 DEF HasNext
    <3>3. extents_[h + 1].length \in 1..buffer_sz
      BY <3>2, EntryEnd
    <3>4. Len(result) = Start(h) + 0
      BY <1>5, <2>1, <2>2, <3>1, <3>2
    <3>5. 0 < extents_[h + 1].length /\ 0 <= extents_[h + 1].length
      BY <1>5, <3>3
    <3> QED
      BY <3>1, <3>2, <3>4, <3>5 DEF At
  <2>4. ASSUME ~HasNext PROVE Len(result) = file_size_
    <3>1. extend_id = dwp - 1
      BY <1>5, <2>1, <2>4 DEF HasNext
    <3> QED
      BY <2>1, <2>2, <3>1
  <2> QED
    BY <2>1, <2>3, <2>4
<1>8. CASE stage = "first"
  <2>1. r_off' = reader_offset_ /\ pc' = "copy" /\ UNCHANGED extend_id
    BY <1>8 DEF GetWALExtent
  <2>2. /\ At(extend_id, reader_offset_) /\ read < r_sz /\ Len(result) < end_
        /\ reader_offset_ < extents_[extend_id + 1].length
    BY <1>1, <1>4, <1>8 DEF Looking
  <2>3. Copying'
    BY <1>1, <1>2, <1>6, <2>1, <2>2 DEF Copying, At
  <2> QED
    BY <1>3, <2>3 DEF Reader
<1>9. CASE stage = "next"
  <2>1. /\ At(extend_id, r_off) /\ read < r_sz /\ Len(result) < end_
        /\ r_off = extents_[extend_id + 1].length
    BY <1>1, <1>4, <1>9 DEF Looking
  <2>2. Len(result) < file_size_
    BY <1>5, <1>6, <2>1 DEF InCall
  <2>3. HasNext
    BY <1>5, <1>7, <2>1, <2>2
  <2>4. extend_id' = extend_id + 1 /\ r_off' = 0 /\ pc' = "copy"
    BY <1>9, <2>3 DEF GetWALExtent
  <2>5. At(extend_id + 1, 0) /\ 0 < extents_[extend_id + 2].length /\ (extend_id + 1) + 1 = extend_id + 2
    BY <1>7, <2>1, <2>3
  <2>6. Copying'
    BY <1>1, <1>2, <1>6, <2>1, <2>4, <2>5 DEF Copying, At
  <2> QED
    BY <1>3, <2>6 DEF Reader
<1>10. CASE stage = "last"
  <2>1. At(extend_id, r_off) /\ r_off = extents_[extend_id + 1].length
    BY <1>1, <1>4, <1>10 DEF Looking
  <2>2. pc' = "return"
    BY <1>10 DEF GetWALExtent
  <2>3. CASE HasNext
    <3>1. extend_id' = extend_id + 1 /\ r_off' = 0
      BY <1>10, <2>3 DEF GetWALExtent
    <3>2. At(extend_id + 1, 0) /\ 0 < extents_[extend_id + 2].length /\ (extend_id + 1) + 1 = extend_id + 2
      BY <1>7, <2>1, <2>3
    <3>3. Returning'
      BY <1>1, <1>2, <1>6, <2>2, <3>1, <3>2 DEF Returning, At
    <3> QED
      BY <1>3, <3>3 DEF Reader
  <2>4. CASE ~HasNext
    <3>1. UNCHANGED <<extend_id, r_off>>
      BY <1>10, <2>4 DEF GetWALExtent
    <3>2. Len(result) = file_size_
      BY <1>7, <2>1, <2>4
    <3>3. Returning'
      BY <1>1, <1>2, <1>5, <1>6, <2>1, <2>2, <3>1, <3>2 DEF Returning, At
    <3> QED
      BY <1>3, <3>3 DEF Reader
  <2> QED
    BY <2>3, <2>4
<1> QED
  BY <1>4, <1>8, <1>9, <1>10 DEF Looking

\* The position is kept for the next read.
LEMMA ReturnStep ==
  ASSUME FullBlocks, OnDevice, FileRead, Reader, ReadReturn
  PROVE  Reader'
<1>1. /\ UNCHANGED vars /\ UNCHANGED chunks /\ UNCHANGED result /\ pc = "return"
      /\ reader_offset_' = r_off /\ reader_offset_index_' = extend_id /\ rp' = rp + read
      /\ pc' = "idle"
  BY DEF ReadReturn
<1>2. UNCHANGED <<dwp, extents_, file_size_, chunk_id_, jump_, end_>>
  BY <1>1, FileKept DEF chunks
<1>3. Window' /\ Content' /\ Within'
  BY <1>1, <1>2, WindowKept, ContentKept DEF Reader, Within
<1>4. Returning
  BY <1>1 DEF Reader, Idling, Copying, Looking
<1>5. rp' = Len(result)
  BY <1>1, <1>4 DEF Returning, InCall
<1>6. Idling'
  BY <1>1, <1>2, <1>4, <1>5 DEF Returning, Idling, At
<1> QED
  BY <1>3, <1>6 DEF Reader

\* The entries of a chunk end where the next chunk, or nothing, begins.
LEMMA ChunkEnd ==
  ASSUME FullBlocks, OnDevice, FileRead, NEW k \in Nat,
         NEW lo \in Nat, lo = k * BarrierBlocks, NEW hi \in Nat, lo < hi, hi <= dwp,
         NEW s, ChunkOf(s, k), Len(s) = hi - lo
  PROVE  LET sum == Total([i \in DOMAIN s |-> Len(s[i].data)])
         IN  sum \in Nat \ {0} /\ Start(lo) \in Nat /\ Start(lo) + sum = EndOf(hi)
<1> DEFINE t == [i \in DOMAIN s |-> Len(s[i].data)]
<1>0. dwp \in Nat /\ buffer_sz \in Nat
  BY BufferSize, EmptyFile
<1>1. PICK m \in Nat \ {0} : m = hi - lo /\ m = Len(s)
  <2>1. hi - lo \in Nat \ {0}
    OBVIOUS
  <2> QED
    BY <2>1
<1>2. s \in Seq(Entry) /\ DOMAIN s = 1..m
  BY <1>1 DEF ChunkOf
<1>3. ASSUME NEW i \in 1..m
      PROVE  /\ t[i] \in 1..buffer_sz /\ t[i] = extents_[lo + i].length
             /\ i # m => t[i] = buffer_sz
  <2>1. PICK g \in Nat : g = lo + i - 1 /\ g + 1 = lo + i
    OBVIOUS
  <2>2. g < dwp /\ (i # m => g # dwp - 1)
    BY <1>0, <1>1, <2>1
  <2>3. PICK x : x = extents_[g + 1].length
    OBVIOUS
  <2>4. x \in 1..buffer_sz /\ (g # dwp - 1 => x = buffer_sz)
    BY <2>2, <2>3, EntryEnd
  <2>5. Len(s[i].data) = extents_[k * BarrierBlocks + i].length
    BY <1>1 DEF ChunkOf
  <2>6. t[i] = x
    BY <1>2, <2>1, <2>3, <2>5
  <2> HIDE DEF t
  <2> QED
    BY <2>1, <2>2, <2>3, <2>4, <2>6
<1>4. t \in Seq(Nat) /\ Len(t) = m
  <2>1. t = [i \in 1..m |-> t[i]]
    BY <1>2
  <2> HIDE DEF t
  <2>2. \A i \in 1..m : t[i] \in Nat
    BY <1>0, <1>3
  <2> QED
    BY <2>1, <2>2, ListOf
<1> HIDE DEF t
<1>5. Total(t) = (m - 1) * buffer_sz + t[m]
  <2>1. \A i \in 1..m : i # m => t[i] = buffer_sz
    BY <1>3
  <2>2. m \in Nat /\ m # 0
    OBVIOUS
  <2> QED
    BY <1>0, <1>4, <2>1, <2>2, EvenTotal
<1>6. PICK w \in Nat : w = m - 1 /\ m = w + 1
  BY Before
<1>7. PICK g \in Nat : g = lo + w /\ g + 1 = lo + m /\ g + 1 = hi
  BY <1>1, <1>6
<1>8. t[m] \in 1..buffer_sz /\ t[m] = extents_[g + 1].length
  <2>1. m \in 1..m
    OBVIOUS
  <2>2. t[m] \in 1..buffer_sz /\ t[m] = extents_[lo + m].length
    BY <1>3, <2>1
  <2> QED
    BY <1>7, <2>2
<1>9. PICK a \in Nat : a = lo * buffer_sz
  BY <1>0
<1>10. PICK b \in Nat : b = w * buffer_sz
  BY <1>0
<1>11. Start(g) = a + b
  <2>1. (lo + w) * buffer_sz = lo * buffer_sz + w * buffer_sz
    BY <1>0
  <2> QED
    BY <1>7, <1>9, <1>10, <2>1 DEF Start
<1>12. Total(t) = b + t[m]
  BY <1>5, <1>6, <1>10
<1>13. EndOf(hi) = Start(g) + t[m]
  <2>1. /\ g = dwp - 1 => file_size_ = Start(g) + t[m]
        /\ g # dwp - 1 => Start(g + 1) = Start(g) + t[m]
    <3>1. g < dwp
      BY <1>0, <1>7
    <3> QED
      BY <1>8, <3>1, EntryEnd
  <2> QED
    BY <1>0, <1>7, <2>1 DEF EndOf
<1>14. Total(t) \in Nat \ {0} /\ Start(lo) = a /\ a + Total(t) = EndOf(hi)
  <2>1. PICK y \in Nat \ {0} : y = t[m]
    BY <1>0, <1>8
  <2>2. EndOf(hi) = (a + b) + y /\ Total(t) = b + y
    BY <1>11, <1>12, <1>13, <2>1
  <2>3. b + y \in Nat \ {0} /\ a + (b + y) = (a + b) + y
    BY <2>1
  <2> QED
    BY <1>9, <2>2, <2>3, Zenon DEF Start
<1> QED
  BY <1>9, <1>14 DEF t

\* LoadChunk loads the chunk that comes next, and finds an entry at its beginning.
LEMMA LoadStep ==
  ASSUME FullBlocks, OnDevice, FileRead, ~ShortPadding(landed), Reader, LoadChunk
  PROVE  Reader'
<1>1. /\ UNCHANGED vars /\ UNCHANGED <<reader_offset_, reader_offset_index_, rp, result>>
      /\ pc = "load" /\ UNCHANGED <<stage, r_off, extend_id, read, r_sz>>
  BY DEF LoadChunk, position
<1>2. UNCHANGED <<dwp, extents_, file_size_, landed>>
  BY <1>1, FileKept
<1>3. Content'
  BY <1>1, ContentKept DEF Reader
<1>4. Looking
  BY <1>1 DEF Reader, Idling, Copying, Returning
<1>5. InCall /\ Len(result) = rp + read /\ Len(result) = end_ /\ Window /\ Within
  BY <1>1, <1>4 DEF Looking, InCall, Reader
<1>6. /\ dwp \in Nat /\ file_size_ \in Nat /\ Len(result) \in Nat /\ buffer_sz \in Nat
      /\ Len(result) <= file_size_ /\ result \in Seq(Nat)
  BY Numbers
<1>7. dwp > 0
  BY <1>4, <1>6 DEF Looking, At
<1>8. GetWriteTail = 0 /\ GetWriteHead = dwp
  BY <1>7, OneGroup
<1>9. PICK k \in Nat : k = chunk_id_
  BY <1>5 DEF Window
<1>10. PICK lo \in Nat : lo = k * BarrierBlocks
  BY Multiples
<1>11. (k + 1) * BarrierBlocks = lo + BarrierBlocks
  BY <1>10
<1>12. PICK hi \in Nat : hi = Smaller(lo + BarrierBlocks, dwp)
  BY <1>6 DEF Smaller
<1> DEFINE lba_in == Smaller(GetWriteTail + chunk_id_ * BarrierBlocks, GetWriteHead)
           lba_out == Smaller(GetWriteTail + (chunk_id_ + 1) * BarrierBlocks, GetWriteHead)
<1>13. lba_in = Smaller(lo, dwp) /\ lba_out = hi
  <2>1. 0 + chunk_id_ * BarrierBlocks = lo
    BY <1>9, <1>10
  <2>2. 0 + (chunk_id_ + 1) * BarrierBlocks = lo + BarrierBlocks
    BY <1>9, <1>11
  <2> QED
    BY <1>8, <1>12, <2>1, <2>2
<1>14. k # 0 => /\ jump_ \in Nat /\ jump_ + BarrierBlocks = lo
                /\ Len(wal_entries_) = Smaller(BarrierBlocks, dwp - jump_)
                /\ jump_ < dwp /\ end_ = EndOf(jump_ + Len(wal_entries_))
  <2> SUFFICES ASSUME k # 0
               PROVE  /\ jump_ \in Nat /\ jump_ + BarrierBlocks = lo
                      /\ Len(wal_entries_) = Smaller(BarrierBlocks, dwp - jump_)
                      /\ jump_ < dwp /\ end_ = EndOf(jump_ + Len(wal_entries_))
    OBVIOUS
  <2>1. PICK h \in Nat : h = k - 1 /\ k = h + 1
    BY <1>9
  <2>2. PICK j \in Nat : j = h * BarrierBlocks
    BY Multiples
  <2>3. (h + 1) * BarrierBlocks = j + BarrierBlocks
    BY <2>2
  <2>4. /\ Len(wal_entries_) = Smaller(BarrierBlocks, dwp - (chunk_id_ - 1) * BarrierBlocks)
        /\ jump_ = (chunk_id_ - 1) * BarrierBlocks
        /\ jump_ < dwp /\ end_ = EndOf(jump_ + Len(wal_entries_))
    BY <1>5, <1>9 DEF Window, ChunkOf
  <2>5. jump_ = j
    BY <1>9, <2>1, <2>2, <2>4
  <2> QED
    BY <1>9, <1>10, <2>1, <2>2, <2>3, <2>4, <2>5
<1>15. CASE lo >= dwp
  <2>1. ~(lba_in < lba_out)
    BY <1>6, <1>12, <1>13, <1>15 DEF Smaller
  <2>2. pc' = "extent" /\ UNCHANGED chunks
    BY <2>1, Zenon DEF LoadChunk
  <2>3. UNCHANGED <<chunk_id_, jump_, end_>>
    BY <2>2 DEF chunks
  <2>4. Window' /\ Within'
    BY <1>1, <1>2, <1>5, <2>2, <2>3, WindowKept DEF Within
  <2>5. k # 0
    <3>1. k = 0 => lo = 0
      BY <1>10
    <3>2. lo # 0
      BY <1>6, <1>7, <1>15
    <3> QED
      BY <3>1, <3>2
  <2>6. Len(wal_entries_) = dwp - jump_
    BY <1>6, <1>14, <1>15, <2>5 DEF Smaller
  <2>7. end_ = file_size_
    <3>1. jump_ + Len(wal_entries_) = dwp
      BY <1>6, <1>14, <2>5, <2>6
    <3> QED
      BY <1>14, <2>5, <3>1 DEF EndOf
  <2>8. stage = "last"
    <3> SUFFICES ASSUME stage # "last" PROVE FALSE
      OBVIOUS
    <3>1. read < r_sz
      BY <1>4 DEF Looking
    <3> QED
      BY <1>5, <1>6, <2>7, <3>1 DEF InCall
  <2>9. Looking'
    BY <1>1, <1>2, <1>4, <2>2, <2>3, <2>8 DEF Looking, InCall, At
  <2> QED
    BY <1>3, <2>4, <2>9 DEF Reader
<1>16. CASE lo < dwp
  <2>1. lba_in = lo /\ lba_out = hi /\ lo < hi /\ hi <= dwp
    BY <1>6, <1>12, <1>13, <1>16 DEF Smaller
  <2>2. PICK x \in landed : x.dpos = lo
    <3>1. lo \in 0..(dwp - 1)
      BY <1>6, <1>16
    <3> QED
      BY <3>1 DEF OnDevice, Device
  <2> DEFINE s == RecoverWALChunk(lo, hi)
             sum == Total([i \in DOMAIN s |-> Len(s[i].data)])
  <2>3. /\ wal_entries_' = s
        /\ end_' = end_ + sum
        /\ jump_' = jump_ + Len(wal_entries_)
        /\ chunk_id_' = k + 1
        /\ pc' = IF s # << >> /\ end_' < Smaller(rp + read, file_size_) THEN "load" ELSE "extent"
    <3>0. ~ShortPadding(Decoded(lba_in, lba_out))
      <4>1. Decoded(lba_in, lba_out) \subseteq landed
        BY Zenon DEF Decoded
      <4> QED
        BY <4>1, Zenon DEF ShortPadding
    <3>1. ~(lba_in >= lba_out) /\ ~(\A l \in landed : l.dpos # lba_in)
      BY <2>1, <2>2
    <3>2. /\ wal_entries_' = RecoverWALChunk(lba_in, lba_out)
          /\ end_' = end_ + Total([i \in DOMAIN wal_entries_' |-> Len(wal_entries_'[i].data)])
          /\ jump_' = Jump(wal_entries_)
          /\ chunk_id_' = chunk_id_ + 1
          /\ pc' = IF wal_entries_' # << >> /\ end_' < Smaller(rp + read, file_size_) THEN "load"
                   ELSE "extent"
      BY <3>0, <3>1, Zenon DEF LoadChunk
    <3>3. wal_entries_' = s
      BY <2>1, <3>2
    <3> HIDE DEF s
    <3> QED
      BY <1>9, <3>2, <3>3 DEF Jump
  <2>4. ChunkOf(s, k) /\ Len(s) = hi - lo
    BY <1>8, <1>10, <1>12, <1>16, ChunkRead DEF FileRead
  <2> HIDE DEF s
  <2>5. sum \in Nat \ {0} /\ Start(lo) \in Nat /\ Start(lo) + sum = EndOf(hi)
    BY <1>10, <2>1, <2>4, ChunkEnd
  <2> HIDE DEF sum
  <2>6. jump_' = lo /\ end_ = Start(lo)
    <3>1. CASE k = 0
      <4>1. jump_ = 0 /\ end_ = 0 /\ Len(wal_entries_) = 0 /\ lo = 0
        BY <1>5, <1>9, <1>10, <3>1 DEF Window
      <4>2. Start(0) = 0
        BY <1>6 DEF Start
      <4> QED
        BY <2>3, <4>1, <4>2
    <3>2. CASE k # 0
      <4>1. Len(wal_entries_) = BarrierBlocks
        BY <1>6, <1>14, <1>16, <3>2 DEF Smaller
      <4>2. jump_ + Len(wal_entries_) = lo
        BY <1>14, <3>2, <4>1
      <4> QED
        BY <1>14, <1>16, <2>3, <3>2, <4>2 DEF EndOf
    <3> QED
      BY <3>1, <3>2
  <2>7. end_' = EndOf(hi) /\ end_' \in Nat /\ end_ < end_'
    BY <1>5, <1>6, <2>3, <2>5, <2>6
  <2>8. pc' = "extent"
    <3>1. Smaller(rp + read, file_size_) = Len(result)
      BY <1>5, <1>6 DEF Smaller
    <3>2. ~(end_' < Len(result))
      BY <1>5, <1>6, <2>7
    <3> QED
      BY <2>3, <3>1, <3>2
  <2>9. chunk_id_' \in Nat \ {0} /\ chunk_id_' - 1 = k
    BY <2>3
  <2>10. ChunkOf(wal_entries_, chunk_id_ - 1)'
    BY <1>2, <2>3, <2>4, <2>9, ChunkStays
  <2>11. jump_' + Len(wal_entries_') = hi
    BY <2>1, <2>3, <2>4, <2>6
  <2>12. Window'
    <3>1. EndOf(jump_ + Len(wal_entries_))' = EndOf(hi)
      BY <1>2, <2>11 DEF EndOf, Start
    <3>2. jump_' = (chunk_id_' - 1) * BarrierBlocks
      BY <1>10, <2>6, <2>9
    <3> QED
      BY <1>2, <1>16, <2>6, <2>7, <2>9, <2>10, <3>1, <3>2 DEF Window
  <2>13. Within'
    <3>1. Start(jump_)' = Len(result)
      BY <1>5, <2>6 DEF Start
    <3> QED
      BY <1>1, <1>2, <1>5, <1>6, <2>7, <2>9, <3>1 DEF Within
  <2>14. Looking'
    BY <1>1, <1>2, <1>4, <1>5, <2>7, <2>8, <2>9 DEF Looking, InCall, At
  <2> QED
    BY <1>3, <2>12, <2>13, <2>14 DEF Reader
<1> QED
  BY <1>6, <1>15, <1>16

\* The entry the reader is in is in the loaded chunk.
LEMMA EntryLoaded ==
  ASSUME FullBlocks, OnDevice, FileRead, Window, Within, chunk_id_ # 0,
         NEW g, NEW o, At(g, o), o < extents_[g + 1].length, Len(result) < end_,
         NEW i, i = g - jump_ + 1
  PROVE  /\ i \in DOMAIN wal_entries_
         /\ Len(wal_entries_[i].data) = extents_[g + 1].length
         /\ \A j \in 1..Len(wal_entries_[i].data) : wal_entries_[i].data[j] = wal_entries_[i].off + j
         /\ \A n \in Nat : Durable(n) /\ Start(g) < n => wal_entries_[i].off = Start(g)
         /\ Start(g) + extents_[g + 1].length <= end_
<1>0. /\ dwp \in Nat /\ file_size_ \in Nat /\ buffer_sz \in Nat
  BY EmptyFile, BufferSize
<1>1. /\ end_ \in Nat /\ jump_ \in Nat /\ Len(wal_entries_) \in Nat \ {0}
      /\ jump_ + Len(wal_entries_) <= dwp
  BY EndNat
<1>2. PICK m \in Nat : m = jump_ + Len(wal_entries_)
  BY <1>1
<1>3. /\ chunk_id_ \in Nat \ {0} /\ jump_ = (chunk_id_ - 1) * BarrierBlocks
      /\ ChunkOf(wal_entries_, chunk_id_ - 1) /\ end_ = EndOf(m)
  BY <1>2 DEF Window
<1>4. PICK x : x = extents_[g + 1].length
  OBVIOUS
<1>5. g \in Nat /\ o \in Nat /\ g < dwp /\ Len(result) = Start(g) + o /\ o < x
  BY <1>4 DEF At
<1>6. /\ x \in 1..buffer_sz /\ Start(g) \in Nat /\ Start(g) + x <= file_size_
  BY <1>4, <1>5, EntryEnd
<1>7. PICK b \in Nat : b = Start(g) /\ b = g * buffer_sz
  BY <1>6 DEF Start
<1>8. PICK a \in Nat : a = jump_ * buffer_sz /\ a <= b + o
  <2>1. jump_ * buffer_sz \in Nat
    BY <1>0, <1>1, Multiples
  <2>2. Start(jump_) <= Len(result)
    BY DEF Within
  <2> QED
    BY <1>5, <1>7, <2>1, <2>2 DEF Start
<1>9. PICK c \in Nat : c = m * buffer_sz
  BY <1>0, Multiples
<1>10. jump_ <= g
  <2> SUFFICES ASSUME g < jump_ PROVE FALSE
    BY <1>1, <1>5
  <2>1. b + buffer_sz <= a
    BY <1>0, <1>1, <1>5, <1>7, <1>8, Apart
  <2> QED
    BY <1>0, <1>5, <1>6, <1>8, <2>1
<1>11. m = dwp \/ end_ = c
  BY <1>3, <1>9 DEF EndOf, Start
<1>12. g < m
  <2> SUFFICES ASSUME m <= g PROVE FALSE
    BY <1>2, <1>5
  <2>1. m # dwp
    BY <1>0, <1>5
  <2>2. c <= b
    BY <1>0, <1>5, <1>7, <1>9, Multiples
  <2>3. b + o < c
    BY <1>5, <1>7, <1>11, <2>1
  <2> QED
    BY <1>5, <2>2, <2>3
<1>13. PICK q \in Nat \ {0} : q = i /\ q = g - jump_ + 1 /\ jump_ + q = g + 1 /\ q <= Len(wal_entries_)
  <2>1. g - jump_ + 1 \in Nat \ {0} /\ jump_ + (g - jump_ + 1) = g + 1
    BY <1>1, <1>5, <1>10
  <2>2. g - jump_ + 1 <= Len(wal_entries_)
    BY <1>1, <1>2, <1>5, <1>12
  <2> QED
    BY <2>1, <2>2
<1>14. q \in 1..Len(wal_entries_) /\ wal_entries_ \in Seq(Entry)
  BY <1>1, <1>3, <1>13 DEF ChunkOf
<1>15. /\ Len(wal_entries_[q].data) = extents_[jump_ + q].length
       /\ \A j \in 1..Len(wal_entries_[q].data) : wal_entries_[q].data[j] = wal_entries_[q].off + j
       /\ \A n \in Nat : Durable(n) /\ Start(jump_ + q - 1) < n => wal_entries_[q].off = Start(jump_ + q - 1)
  BY <1>3, <1>14 DEF ChunkOf
<1>16. jump_ + q - 1 = g
  BY <1>1, <1>5, <1>13
<1>17. Start(g) + x <= end_
  <2>1. CASE m = dwp
    BY <1>3, <1>6, <2>1 DEF EndOf
  <2>2. CASE m # dwp
    <3>1. b + buffer_sz <= c
      BY <1>0, <1>5, <1>7, <1>9, <1>12, Apart
    <3> QED
      BY <1>0, <1>6, <1>7, <1>11, <2>2, <3>1
  <2> QED
    BY <2>1, <2>2
<1> QED
  BY <1>4, <1>13, <1>14, <1>15, <1>16, <1>17

\* d counts on from f.
Counts(d, f) == \A j \in 1..Len(d) : d[j] = f + j

\* z is r followed by p.
Joins(z, r, p, c, y) ==
  /\ z \in Seq(Nat) /\ Len(z) = c + y
  /\ \A i \in 1..c : z[i] = r[i]
  /\ \A j \in 1..y : z[c + j] = p[j]

\* The elements of a concatenation
LEMMA Joined ==
  ASSUME NEW r \in Seq(Nat), NEW p \in Seq(Nat), NEW c, c = Len(r), NEW y, y = Len(p)
  PROVE  Joins(r \o p, r, p, c, y)
BY DEF Joins

\* p counts on from o + f, for y units.
Piece(p, y, f, o) ==
  p \in Seq(Nat) /\ Len(p) = y /\ \A j \in 1..y : p[j] = f + (o + j)

\* The elements of a part of a sequence
LEMMA Part ==
  ASSUME NEW d \in Seq(Nat), NEW o \in Nat, NEW y \in Nat, o + y <= Len(d)
  PROVE  /\ SubSeq(d, o + 1, o + y) \in Seq(Nat) /\ Len(SubSeq(d, o + 1, o + y)) = y
         /\ \A j \in 1..y : SubSeq(d, o + 1, o + y)[j] = d[o + j]
OBVIOUS

\* A part of a sequence that counts on
LEMMA PartCounts ==
  ASSUME NEW d \in Seq(Nat), NEW o \in Nat, NEW y \in Nat, o + y <= Len(d),
         NEW f \in Nat, Counts(d, f)
  PROVE  Piece(SubSeq(d, o + 1, o + y), y, f, o)
<1> DEFINE p == SubSeq(d, o + 1, o + y)
<1>1. p \in Seq(Nat) /\ Len(p) = y /\ \A j \in 1..y : p[j] = d[o + j]
  BY Part
<1> HIDE DEF p
<1>2. ASSUME NEW j \in 1..y PROVE p[j] = f + (o + j)
  <2>1. o + j \in 1..Len(d)
    OBVIOUS
  <2>2. d[o + j] = f + (o + j)
    BY <2>1 DEF Counts
  <2> QED
    BY <1>1, <2>2
<1>3. Piece(p, y, f, o)
  BY <1>1, <1>2 DEF Piece
<1> QED
  BY <1>3 DEF p

\* What is copied is what comes next.
LEMMA CopyContent ==
  ASSUME NEW r, NEW p, NEW z, NEW c \in Nat, NEW y \in Nat, Joins(z, r, p, c, y),
         c = Len(r), NEW o \in Nat,
         NEW f \in Nat, Piece(p, y, f, o),
         NEW n \in Nat, Follows(r, n), c < n + o => f + o = c
  PROVE  Follows(z, n)
<1> SUFFICES ASSUME NEW i \in 1..Len(z), i <= n PROVE z[i] = i
  BY DEF Follows
<1>1. CASE i <= c
  <2>1. i \in 1..c
    BY <1>1
  <2> QED
    BY <2>1 DEF Follows, Joins
<1>2. CASE ~(i <= c)
  <2>1. Len(z) = c + y
    BY DEF Joins
  <2>2. PICK j \in 1..y : i = c + j
    BY <1>2, <2>1
  <2>3. f + o = c
    BY <2>2
  <2>4. z[i] = p[j] /\ p[j] = f + (o + j)
    BY <2>2 DEF Joins, Piece
  <2> QED
    BY <2>2, <2>3, <2>4
<1> QED
  BY <1>1, <1>2

\* CopyEntry copies from the entry of the extent, within its bounds.
LEMMA CopyStep ==
  ASSUME FullBlocks, OnDevice, FileRead, Reader, CopyEntry
  PROVE  Reader'
<1>1. /\ UNCHANGED vars /\ UNCHANGED chunks /\ UNCHANGED <<reader_offset_, reader_offset_index_, rp>>
      /\ pc = "copy" /\ UNCHANGED <<extend_id, r_sz>>
  BY DEF CopyEntry
<1>2. UNCHANGED <<dwp, extents_, file_size_, landed>> /\ UNCHANGED <<chunk_id_, jump_, end_>>
  BY <1>1, FileKept DEF chunks
<1>3. Window' /\ Window /\ Within /\ Content
  BY <1>1, WindowKept DEF Reader
<1>4. Copying
  BY <1>1 DEF Reader, Idling, Looking, Returning
<1>5. /\ InCall /\ At(extend_id, r_off) /\ r_off < extents_[extend_id + 1].length
      /\ read < r_sz /\ Len(result) < end_
  BY <1>4 DEF Copying
<1>6. /\ dwp \in Nat /\ file_size_ \in Nat /\ Len(result) \in Nat /\ buffer_sz \in Nat
      /\ Len(result) <= file_size_ /\ result \in Seq(Nat)
  BY Numbers
<1>7. chunk_id_ # 0
  <2> SUFFICES ASSUME chunk_id_ = 0 PROVE FALSE
    OBVIOUS
  <2>1. end_ = 0
    BY <1>3 DEF Window
  <2> QED
    BY <1>5, <1>6, <2>1
<1>8. PICK i : i = extend_id - jump_ + 1
  OBVIOUS
<1>9. PICK x : x = extents_[extend_id + 1].length
  OBVIOUS
<1>10. PICK e : e = wal_entries_[i]
  OBVIOUS
<1>11. /\ i \in DOMAIN wal_entries_ /\ Len(e.data) = x
       /\ \A j \in 1..Len(e.data) : e.data[j] = e.off + j
       /\ \A n \in Nat : Durable(n) /\ Start(extend_id) < n => e.off = Start(extend_id)
       /\ Start(extend_id) + x <= end_
  BY <1>3, <1>5, <1>7, <1>8, <1>9, <1>10, EntryLoaded
<1>12. e.data \in Seq(Nat) /\ e.off \in Nat
  <2>1. wal_entries_ \in Seq(Entry)
    BY <1>3, <1>7 DEF Window, ChunkOf
  <2>2. e \in Entry
    BY <1>10, <1>11, <2>1
  <2> QED
    BY <2>2 DEF Entry
<1>13. /\ extend_id \in Nat /\ r_off \in Nat /\ extend_id < dwp /\ Len(result) = Start(extend_id) + r_off
       /\ r_off < x
  BY <1>5, <1>9 DEF At
<1>14. x \in 1..buffer_sz /\ Start(extend_id) \in Nat /\ x \in Nat
  BY <1>6, <1>9, <1>13, EntryEnd
<1>15. r_sz \in Nat /\ read \in Nat /\ rp \in Nat /\ rp + r_sz <= file_size_ /\ Len(result) = rp + read
  BY <1>5 DEF InCall
<1>16. PICK y \in Nat \ {0} : y = Smaller(r_sz - read, x - r_off) /\ y <= r_sz - read /\ y <= x - r_off
  <2>1. r_sz - read \in Nat \ {0} /\ x - r_off \in Nat \ {0}
    BY <1>5, <1>13, <1>14, <1>15
  <2> QED
    BY <2>1 DEF Smaller
<1>17. r_off + y <= x /\ r_off + y <= Len(e.data)
  BY <1>11, <1>13, <1>14, <1>16
<1>a. PICK b \in Nat : b = Start(extend_id)
  BY <1>14
<1>b. PICK o \in Nat : o = r_off
  BY <1>13
<1>c. PICK d \in Seq(Nat) : d = e.data
  BY <1>12
<1>d. PICK f \in Nat : f = e.off
  BY <1>12
<1>18. /\ result' = result \o SubSeq(e.data, r_off + 1, r_off + y)
       /\ read' = read + y
       /\ r_off' = r_off + y
       /\ IF r_off' = x
          THEN /\ pc' = "enter"
               /\ stage' = IF read' # r_sz /\ y > 0 THEN "next" ELSE "last"
          ELSE pc' = "return" /\ UNCHANGED stage
  <2>1. i \in DOMAIN wal_entries_ /\ r_off + y <= Len(wal_entries_[i].data)
    BY <1>10, <1>11, <1>17
  <2> QED
    BY <1>8, <1>9, <1>10, <1>16, <2>1, Zenon DEF CopyEntry
<1>19. result' = result \o SubSeq(d, o + 1, o + y) /\ o + y <= Len(d)
  BY <1>17, <1>18, <1>b, <1>c
<1>e. PICK p : p = SubSeq(d, o + 1, o + y)
  OBVIOUS
<1>f. y \in Nat /\ Counts(d, f)
  BY <1>11, <1>c, <1>d DEF Counts
<1>g. Piece(p, y, f, o)
  BY <1>19, <1>e, <1>f, PartCounts
<1>h. PICK c \in Nat : c = Len(result) /\ c = b + o
  BY <1>6, <1>13, <1>a, <1>b
<1>i. PICK z : z = result' /\ Joins(z, result, p, c, y)
  <2>1. p \in Seq(Nat) /\ y = Len(p)
    BY <1>g DEF Piece
  <2> QED
    BY <1>6, <1>19, <1>e, <1>h, <2>1, Joined
<1>20. result' \in Seq(Nat) /\ Len(result') = Len(result) + y
  BY <1>h, <1>i DEF Joins
<1>21. Content'
  <2>1. ASSUME NEW n \in Nat, Durable(n) PROVE Follows(result', n)
    <3>1. Follows(result, n)
      BY <1>3, <2>1 DEF Content
    <3>2. Start(extend_id) < n => e.off = Start(extend_id)
      BY <1>11, <2>1
    <3>3. c < n + o => f + o = c
      <4>1. b < n => f = b
        BY <3>2, <1>a, <1>d
      <4> QED
        BY <4>1, <1>h
    <3>4. PICK r : r = result
      OBVIOUS
    <3>5. Follows(z, n)
      BY <1>f, <1>g, <1>h, <1>i, <3>1, <3>3, <3>4, CopyContent
    <3> QED
      BY <1>i, <3>5
  <2>2. \A n : Durable(n)' <=> Durable(n)
    BY <1>2 DEF Durable
  <2> QED
    BY <2>1, <2>2 DEF Content, Follows
<1>22. Len(result') <= end_ /\ Len(result') <= file_size_ /\ Len(result') = rp + read'
       /\ Len(result') = Start(extend_id) + r_off' /\ read' <= r_sz /\ read' \in Nat /\ r_off' \in Nat
  <2>1. end_ \in Nat
    BY <1>3, <1>7, EndNat
  <2>2. Len(result) = b + o /\ Len(result) = rp + read /\ o + y <= x /\ b + x <= end_
    BY <1>11, <1>13, <1>15, <1>17, <1>a, <1>b
  <2>3. Len(result') = b + (o + y) /\ b + (o + y) <= end_
    BY <1>14, <1>20, <2>1, <2>2
  <2>4. Len(result') = rp + (read + y) /\ rp + (read + y) <= file_size_ /\ read + y <= r_sz
    <3>1. read + y <= r_sz /\ rp + r_sz <= file_size_ /\ y \in Nat
      BY <1>15, <1>16
    <3>2. rp + (read + y) <= file_size_
      BY <1>6, <1>15, <3>1
    <3> QED
      BY <1>15, <1>20, <2>2, <3>1, <3>2
  <2>5. r_off' = o + y /\ read' = read + y /\ o + y \in Nat /\ read + y \in Nat
    BY <1>15, <1>18, <1>b
  <2>6. Len(result') = Start(extend_id) + r_off'
    BY <1>a, <2>3, <2>5
  <2> QED
    BY <2>3, <2>4, <2>5, <2>6
<1>23. Within'
  <2>1. Start(jump_) <= Len(result')
    <3>1. jump_ \in Nat
      BY <1>3, <1>7, EndNat
    <3>2. jump_ * buffer_sz \in Nat
      BY <1>6, <3>1, Multiples
    <3>3. Start(jump_) \in Nat /\ Start(jump_) <= Len(result)
      BY <1>3, <1>7, <3>2 DEF Within, Start
    <3> QED
      BY <1>6, <1>16, <1>20, <3>3
  <2>2. Start(jump_)' = Start(jump_)
    BY <1>2 DEF Start
  <2> QED
    BY <1>2, <1>7, <1>20, <1>22, <2>1, <2>2 DEF Within
<1>24. InCall'
  BY <1>1, <1>2, <1>15, <1>22 DEF InCall
<1>25. At(extend_id, r_off)'
  <2>1. r_off' <= x
    BY <1>17, <1>18
  <2> QED
    BY <1>1, <1>2, <1>9, <1>13, <1>22, <2>1 DEF At, Start
<1>26. CASE r_off' = x
  <2>1. pc' = "enter" /\ stage' = IF read' # r_sz /\ y > 0 THEN "next" ELSE "last"
    BY <1>18, <1>26
  <2>2. stage' \in {"next", "last"} /\ (stage' # "last" => read' < r_sz)
    BY <1>15, <1>22, <2>1
  <2>3. Looking'
    BY <1>1, <1>2, <1>7, <1>9, <1>24, <1>25, <1>26, <2>1, <2>2 DEF Looking
  <2> QED
    BY <1>3, <1>21, <1>23, <2>3 DEF Reader
<1>27. CASE r_off' # x
  <2>1. pc' = "return"
    BY <1>18, <1>27
  <2>2. r_off' < x
    BY <1>13, <1>14, <1>16, <1>17, <1>18, <1>27
  <2>3. Returning'
    BY <1>1, <1>2, <1>9, <1>24, <1>25, <2>1, <2>2 DEF Returning
  <2> QED
    BY <1>3, <1>21, <1>23, <2>3 DEF Reader
<1> QED
  BY <1>26, <1>27

-----------------------------------------------------------------------------
(***************************************************************************)
(* Every step                                                              *)
(***************************************************************************)

\* The log and the file the reader has
LEMMA ReadFacts ==
  ASSUME FullBlocks, ReadInv
  PROVE  /\ LogInv /\ appended \in Nat
         /\ Readable /\ Trusted => FileRead
         /\ Readable /\ Trusted /\ ~ShortPadding(landed) => Reader
<1>1. LogInv /\ appended \in Nat
  <2>1. CASE mode = "run"
    <3>1. RunInv
      BY <2>1 DEF ReadInv
    <3>2. TypeInv
      BY <3>1, Positions DEF RunInv
    <3>3. appended \in Nat
      BY <3>2 DEF TypeInv, TypeOK
    <3> QED
      BY <3>1, <3>3, RunOnDevice, RunInMetadata DEF LogInv
  <2>2. CASE mode # "run"
    BY <2>2 DEF ReadInv
  <2> QED
    BY <2>1, <2>2
<1>2. ASSUME Readable, Trusted PROVE FileRead
  <2>1. CASE mode = "run"
    <3>1. RunInv /\ ~open
      BY <1>2, <2>1 DEF ReadInv, Readable
    <3> QED
      BY <3>1, ClosedFile
  <2>2. CASE mode # "run"
    BY <1>2, <2>2 DEF ReadInv, Readable
  <2> QED
    BY <2>1, <2>2
<1>3. ASSUME Readable, Trusted, ~ShortPadding(landed) PROVE Reader
  <2>1. Fresh \/ Reader
    BY <1>3 DEF ReadInv
  <2>2. FileRead /\ OnDevice
    BY <1>1, <1>2, <1>3 DEF LogInv
  <2> QED
    BY <2>1, <2>2, FreshReader
<1> QED
  BY <1>1, <1>2, <1>3

\* A step of the reader
LEMMA ReaderStep ==
  ASSUME FullBlocks, OnDevice, FileRead, ~ShortPadding(landed), Reader, Read
  PROVE  Reader'
BY ReadCallStep, TryRecoverStep, LoadStep, ExtentStep, CopyStep, ReturnStep DEF Read

\* What a step that leaves the writer alone leaves alone
LEMMA WriterKept ==
  ASSUME FullBlocks, ReadInv, UNCHANGED vars, UNCHANGED recovery
  PROVE  /\ mode' \in {"run", "crashed", "recover", "mounted"}
         /\ mode' = "run" => RunInv'
         /\ mode' # "run" => LogInv' /\ (appended \in Nat)'
         /\ mode' = "recover" => Recovering'
         /\ mode' = "mounted" /\ Trusted' => FileRead'
         /\ Readable' <=> Readable
         /\ Trusted' <=> Trusted
         /\ ShortPadding(landed)' <=> ShortPadding(landed)
<1>1. UNCHANGED <<landed, dwp, meta, extents_, file_size_, wal_, appended, open>>
  BY FileKept
<1>2. UNCHANGED <<mode, next_extent_start>>
  BY DEF recovery
<1>3. (LogInv => LogInv') /\ (Trusted' <=> Trusted)
  BY <1>1, LogKept
<1>4. mode' = "run" => RunInv'
  BY <1>2, RunNext DEF ReadInv
<1>5. mode' # "run" => LogInv' /\ (appended \in Nat)'
  BY <1>1, <1>2, <1>3 DEF ReadInv
<1>6. mode' = "recover" => Recovering'
  <2> SUFFICES ASSUME mode' = "recover" PROVE Recovering'
    OBVIOUS
  <2>1. Recovering
    BY <1>2 DEF ReadInv
  <2> QED
    BY <1>1, <1>2, <2>1 DEF Recovering, Lengths
<1>7. mode' = "mounted" /\ Trusted' => FileRead'
  BY <1>2, <1>3, FileKept DEF ReadInv
<1>8. Readable' <=> Readable
  BY <1>1, <1>2 DEF Readable
<1>9. ShortPadding(landed)' <=> ShortPadding(landed)
  BY <1>1 DEF ShortPadding, Unpadded, HeaderSize
<1> QED
  BY <1>2, <1>3, <1>4, <1>5, <1>6, <1>7, <1>8, <1>9 DEF ReadInv

\* A read, whatever it is in the middle of
LEMMA ReadStep ==
  ASSUME FullBlocks, ReadInv, Read
  PROVE  ReadInv'
<1>1. UNCHANGED vars /\ UNCHANGED recovery
  BY DEF Read, ReadCall, TryRecoverWAL, LoadChunk, GetWALExtent, CopyEntry, ReadReturn
<1>2. Readable
  <2> SUFFICES ASSUME ~Readable PROVE FALSE
    OBVIOUS
  <2>1. pc = "idle"
    BY DEF ReadInv, Fresh
  <2> QED
    BY <2>1 DEF Read, ReadCall, TryRecoverWAL, LoadChunk, GetWALExtent, CopyEntry, ReadReturn
<1>3. /\ mode' \in {"run", "crashed", "recover", "mounted"}
      /\ mode' = "run" => RunInv'
      /\ mode' # "run" => LogInv' /\ (appended \in Nat)'
      /\ mode' = "recover" => Recovering'
      /\ mode' = "mounted" /\ Trusted' => FileRead'
      /\ Readable' <=> Readable
      /\ Trusted' <=> Trusted
      /\ ShortPadding(landed)' <=> ShortPadding(landed)
  BY <1>1, WriterKept
<1>4. Trusted /\ ~ShortPadding(landed) => Reader'
  BY <1>2, ReadFacts, ReaderStep DEF LogInv
<1> QED
  BY <1>2, <1>3, <1>4 DEF ReadInv

\* A step of nobody
LEMMA IdleStep ==
  ASSUME FullBlocks, ReadInv, UNCHANGED vars, UNCHANGED rvars
  PROVE  ReadInv'
<1>0. /\ UNCHANGED recovery /\ UNCHANGED chunks /\ UNCHANGED call /\ UNCHANGED position
  BY DEF rvars
<1>1. /\ mode' \in {"run", "crashed", "recover", "mounted"}
      /\ mode' = "run" => RunInv'
      /\ mode' # "run" => LogInv' /\ (appended \in Nat)'
      /\ mode' = "recover" => Recovering'
      /\ mode' = "mounted" /\ Trusted' => FileRead'
      /\ Readable' <=> Readable
      /\ Trusted' <=> Trusted
      /\ ShortPadding(landed)' <=> ShortPadding(landed)
  BY <1>0, WriterKept
<1>2. /\ UNCHANGED <<pc, stage, r_off, extend_id, read, r_sz>>
      /\ UNCHANGED <<reader_offset_, reader_offset_index_, rp, result>>
      /\ UNCHANGED <<wal_entries_, end_, jump_, chunk_id_>>
      /\ UNCHANGED <<dwp, extents_, file_size_>>
  BY <1>0, FileKept DEF chunks, call, position
<1>3. Fresh => Fresh'
  BY <1>2 DEF Fresh
<1>4. Reader => Reader'
  <2> SUFFICES ASSUME Reader PROVE Reader'
    OBVIOUS
  <2>1. Window' /\ Content'
    BY <1>0, <1>2, WindowKept, ContentKept DEF Reader
  <2>2. Within'
    BY <1>2 DEF Reader, Within, Start
  <2>3. Idling => Idling'
    BY <1>2 DEF Idling, At, Start
  <2>4. InCall => InCall'
    BY <1>2 DEF InCall
  <2>5. Looking => Looking'
    BY <1>2, <2>4 DEF Looking, At, Start
  <2>6. Copying => Copying'
    BY <1>2, <2>4 DEF Copying, At, Start
  <2>7. Returning => Returning'
    BY <1>2, <2>4 DEF Returning, At, Start
  <2> QED
    BY <2>1, <2>2, <2>3, <2>5, <2>6, <2>7 DEF Reader
<1> QED
  BY <1>1, <1>3, <1>4 DEF ReadInv

\* The writer's steps: while the file is open nobody reads it, and a closed file
\* is written no more.
LEMMA WriteStep ==
  ASSUME FullBlocks, ReadInv, Write
  PROVE  ReadInv'
<1>1. mode = "run" /\ [Next]_vars /\ UNCHANGED rvars /\ RunInv
  BY DEF Write, ReadInv
<1>2. CASE ~open
  BY <1>1, <1>2, ClosedStops, IdleStep
<1>3. CASE open
  <2>1. Fresh
    BY <1>1, <1>3 DEF ReadInv, Readable
  <2>2. Fresh' /\ mode' = "run"
    BY <1>1, <2>1 DEF Fresh, rvars, recovery, chunks, call, position
  <2>3. RunInv'
    BY <1>1, RunNext
  <2> QED
    BY <2>2, <2>3 DEF ReadInv
<1> QED
  BY <1>2, <1>3

\* A crash leaves the device and the metadata.
LEMMA CrashStep ==
  ASSUME FullBlocks, ReadInv, Crash
  PROVE  ReadInv'
<1>1. UNCHANGED <<landed, dwp, meta, appended>> /\ mode' = "crashed"
  BY DEF Crash
<1>2. LogInv' /\ (appended \in Nat)'
  BY <1>1, ReadFacts, LogKept
<1>3. Fresh'
  BY DEF Crash, Fresh
<1>4. ~Readable'
  BY <1>1 DEF Readable
<1> QED
  BY <1>1, <1>2, <1>3, <1>4 DEF ReadInv

\* Every step keeps the invariant.
LEMMA ReadInvNext ==
  ASSUME FullBlocks, ReadInv, [ReadNext]_allvars
  PROVE  ReadInv'
<1>1. CASE UNCHANGED allvars
  BY <1>1, IdleStep DEF allvars
<1>2. CASE ReadNext
  BY <1>2, WriteStep, CrashStep, MountStep, RecoverStep, RecoverDoneStep, ReadStep
     DEF ReadNext, Recover
<1> QED
  BY <1>1, <1>2

\* It holds at first.
LEMMA ReadInvInit ==
  ASSUME FullBlocks, Init, ReaderInit
  PROVE  ReadInv
<1>1. RunInv /\ mode = "run" /\ open
  BY RunInit DEF ReaderInit, Init
<1>2. Fresh
  BY DEF ReaderInit, Fresh
<1> QED
  BY <1>1, <1>2 DEF ReadInv, Readable

-----------------------------------------------------------------------------
(***************************************************************************)
(* What the reader was given                                               *)
(***************************************************************************)

\* The entries on the device are not more than its blocks.
LEMMA NoRoom ==
  ASSUME OnDevice, \A g \in 0..(dwp - 1) : \E l \in landed : l.entry.ipos = g,
         NEW h \in landed, dwp <= h.entry.ipos
  PROVE  FALSE
<1> DEFINE P == 0..(dwp - 1)
           T == EntriesOf(0, dwp)
           f == [g \in P |-> CHOOSE e \in T : e.ipos = g]
<1>0. dwp \in Nat /\ h.entry.ipos \in Nat
  BY LandedFacts
<1>1. IsFiniteSet(T) /\ Cardinality(T) = dwp
  BY <1>0, EntryCount
<1>2. IsFiniteSet(P) /\ Cardinality(P) = dwp
  BY <1>0, IntervalSize
<1>3. ASSUME NEW l \in landed PROVE l.entry \in T
  BY LandedFacts DEF EntriesOf, Inside
<1>4. ASSUME NEW g \in P PROVE f[g] \in T /\ f[g].ipos = g
  BY <1>3
<1>5. ASSUME NEW g \in P PROVE f[g] \in T \ {h.entry}
  <2>1. f[g] # h.entry
    BY <1>0, <1>4
  <2> QED
    BY <1>4, <2>1
<1>6. DOMAIN f = P /\ f = [g \in P |-> f[g]]
  OBVIOUS
<1> HIDE DEF P, T, f
<1>7. f \in Injection(P, T \ {h.entry})
  <2>1. f \in [P -> T \ {h.entry}]
    BY <1>5, <1>6
  <2>2. \A a, b \in P : f[a] = f[b] => a = b
    BY <1>4
  <2> QED
    BY <2>1, <2>2 DEF Injection, IsInjective
<1>8. IsFiniteSet(T \ {h.entry}) /\ Cardinality(T \ {h.entry}) = dwp - 1
  BY <1>1, <1>3, FS_RemoveElement
<1>9. Cardinality(P) <= Cardinality(T \ {h.entry})
  BY <1>7, <1>8, FS_Injection
<1> QED
  BY <1>0, <1>2, <1>8, <1>9

\* The file is as long as the gap-free beginning of the log.
LEMMA DurableSize ==
  ASSUME FullBlocks, OnDevice, FileRead, NEW n \in Nat, Durable(n)
  PROVE  n <= file_size_
<1>0. dwp \in Nat /\ file_size_ \in Nat /\ (dwp = 0 => file_size_ = 0) /\ buffer_sz \in Nat \ {0}
  BY EmptyFile, BufferSize
<1> SUFFICES ASSUME file_size_ < n PROVE FALSE
  BY <1>0
<1>1. file_size_ + 1 \in 1..n
  BY <1>0
<1>2. PICK m \in landed : \E i \in DOMAIN m.entry.data : m.entry.data[i] = file_size_ + 1
  BY <1>1 DEF Durable
<1>3. PICK i \in DOMAIN m.entry.data : m.entry.data[i] = file_size_ + 1
  BY <1>2
<1>4. /\ m.entry.ipos \in Nat /\ m.entry.off = m.entry.ipos * buffer_sz
      /\ Len(m.entry.data) \in 1..buffer_sz /\ m.entry.data \in Seq(Nat)
      /\ m.dpos \in Nat /\ m.dpos < dwp
  BY LandedFacts
<1>5. i \in 1..Len(m.entry.data) /\ i \in 1..buffer_sz
  <2>1. i \in 1..Len(m.entry.data)
    BY <1>4
  <2> QED
    BY <1>0, <1>4, <2>1
<1>6. PICK a \in Nat : a = m.entry.ipos /\ a * buffer_sz + i = file_size_ + 1
  <2>1. \A k \in 1..Len(m.entry.data) : m.entry.data[k] = m.entry.off + k
    BY DEF OnDevice
  <2>2. m.entry.ipos * buffer_sz + i = file_size_ + 1
    BY <1>3, <1>4, <1>5, <2>1, Zenon
  <2> QED
    BY <1>4, <2>2
<1>7. PICK q \in Nat : q = dwp - 1 /\ dwp = q + 1
  <2>1. dwp \in Nat \ {0}
    BY <1>0, <1>4
  <2> QED
    BY <2>1, Before
<1>8. PICK l \in landed : l.dpos = q
  <2>1. q \in 0..(dwp - 1)
    BY <1>7
  <2> QED
    BY <1>7, <2>1 DEF OnDevice, Device
<1>9. PICK x : x = extents_[q + 1].length
  OBVIOUS
<1>10. x \in 1..buffer_sz /\ file_size_ = Start(q) + x
  BY <1>0, <1>7, <1>9, EntryEnd
<1>11. x = Len(l.entry.data)
  BY <1>0, <1>7, <1>8, <1>9 DEF FileRead, Lengths
<1>12. PICK b \in Nat : b = q * buffer_sz /\ file_size_ = b + x
  <2>1. q * buffer_sz \in Nat
    BY <1>0
  <2> QED
    BY <1>10, <2>1 DEF Start
<1>13. \A g \in 0..(dwp - 1) : \E k \in landed : k.entry.ipos = g
  <2> SUFFICES ASSUME NEW g \in 0..(dwp - 1) PROVE \E k \in landed : k.entry.ipos = g
    OBVIOUS
  <2>1. g \in Nat /\ g <= q
    BY <1>7
  <2>2. g * buffer_sz <= b /\ g * buffer_sz \in Nat
    BY <1>0, <1>12, <2>1, Multiples
  <2>3. g * buffer_sz < n
    BY <1>0, <1>10, <1>12, <2>2
  <2> QED
    BY <2>1, <2>3, DurableEntry
<1>14. CASE x = buffer_sz
  <2>1. dwp * buffer_sz = b + buffer_sz
    BY <1>0, <1>7, <1>12, NextMultiple
  <2>2. a * buffer_sz + i = dwp * buffer_sz + 1 /\ 1 \in 1..buffer_sz
    BY <1>0, <1>6, <1>12, <1>14, <2>1
  <2>3. a = dwp
    BY <1>0, <1>5, <2>2, UniqueUnit
  <2>4. dwp <= m.entry.ipos
    BY <1>0, <1>6, <2>3
  <2> QED
    BY <1>13, <2>4, NoRoom
<1>15. CASE x # buffer_sz
  <2>1. PICK y \in 1..buffer_sz : y = x + 1
    BY <1>0, <1>10, <1>15
  <2>2. a * buffer_sz + i = q * buffer_sz + y
    <3>1. file_size_ + 1 = b + y
      BY <1>10, <1>12, <2>1
    <3> QED
      BY <1>6, <1>12, <3>1, Zenon
  <2>3. a = q
    BY <1>0, <1>5, <2>1, <2>2, UniqueUnit
  <2>4. i = x + 1
    <3>1. b + i = b + y
      BY <1>12, <2>2, <2>3, Zenon
    <3> QED
      BY <1>5, <2>1, <3>1
  <2>5. m.entry # l.entry
    BY <1>5, <1>10, <1>11, <2>4
  <2>6. m.entry.ipos # l.entry.ipos
    BY <2>5, LandedOrder
  <2>7. m.entry.ipos <= l.entry.ipos
    BY <1>11, <1>15, Zenon DEF OnDevice
  <2>8. l.entry.ipos \in Nat
    BY LandedFacts
  <2>9. dwp <= l.entry.ipos
    BY <1>6, <1>7, <2>3, <2>6, <2>7, <2>8
  <2> QED
    BY <1>13, <2>9, NoRoom
<1> QED
  BY <1>14, <1>15

\* A sequence begins with what it agrees with.
LEMMA Prefix ==
  ASSUME NEW s \in Seq(Nat), NEW t \in Seq(Nat), Len(s) <= Len(t),
         \A i \in 1..Len(s) : s[i] = t[i]
  PROVE  IsPrefix(s, t)
<1>1. SubSeq(s, 1, Len(s)) = SubSeq(t, 1, Len(s))
  OBVIOUS
<1> QED
  BY <1>1 DEF IsPrefix

\* The stream of units
LEMMA StreamIs ==
  ASSUME NEW n \in Nat
  PROVE  Stream(n) \in Seq(Nat) /\ Len(Stream(n)) = n /\ \A i \in 1..n : Stream(n)[i] = i
BY DEF Stream

\* After a close the reader is given what was appended, at the end all of it.
LEMMA InvReadBack ==
  ASSUME FullBlocks, ReadInv
  PROVE  ReadBack
<1> SUFFICES ASSUME mode = "run", ~ShortPadding(landed)
             PROVE  /\ IsPrefix(result, Stream(appended))
                    /\ pc = "eof" => result = Stream(appended)
                    /\ pc # "garbage"
  BY DEF ReadBack
<1>0. appended \in Nat /\ RunInv
  BY ReadFacts DEF ReadInv
<1>1. /\ Stream(appended) \in Seq(Nat) /\ Len(Stream(appended)) = appended
      /\ \A i \in 1..appended : Stream(appended)[i] = i
  BY <1>0, StreamIs
<1>2. CASE open
  <2>1. result = << >> /\ pc = "idle"
    BY <1>2 DEF ReadInv, Readable, Fresh
  <2>2. result \in Seq(Nat) /\ Len(result) = 0
    BY <2>1
  <2>3. IsPrefix(result, Stream(appended))
    <3>1. Len(result) <= Len(Stream(appended)) /\ \A i \in 1..Len(result) : FALSE
      BY <1>0, <1>1, <2>2
    <3>2. \A i \in 1..Len(result) : result[i] = Stream(appended)[i]
      BY <3>1
    <3> QED
      BY <1>1, <2>2, <3>1, <3>2, Prefix
  <2> QED
    BY <2>1, <2>3
<1>3. CASE ~open
  <2>1. Readable /\ FileRead /\ appended = file_size_ /\ Durable(appended) /\ Trusted
    BY <1>0, <1>3, ClosedFile DEF Readable
  <2>2. Reader /\ OnDevice
    BY <2>1, ReadFacts DEF LogInv
  <2>3. result \in Seq(Nat) /\ Len(result) \in Nat /\ Len(result) <= appended
    BY <2>1, <2>2, Numbers
  <2>4. \A i \in 1..Len(result) : result[i] = i
    BY <1>0, <2>1, <2>2, <2>3 DEF Reader, Content, Follows
  <2>5. IsPrefix(result, Stream(appended))
    <3>1. \A i \in 1..Len(result) : result[i] = Stream(appended)[i]
      BY <1>0, <1>1, <2>3, <2>4
    <3> QED
      BY <1>1, <2>3, <3>1, Prefix
  <2>6. ASSUME pc = "eof" PROVE result = Stream(appended)
    <3>1. Len(result) = appended
      BY <2>1, <2>2, <2>6 DEF Reader, Idling, Looking, Copying, Returning
    <3> QED
      BY <1>0, <1>1, <2>3, <2>4, <3>1
  <2>7. pc # "garbage"
    BY <2>2 DEF Reader, Idling, Looking, Copying, Returning
  <2> QED
    BY <2>5, <2>6, <2>7
<1> QED
  BY <1>2, <1>3

\* After a crash the reader is given every unit of the gap-free beginning.
LEMMA InvCrashPrefix ==
  ASSUME FullBlocks, ReadInv
  PROVE  CrashPrefix
<1> SUFFICES ASSUME mode # "run", Trusted, ~ShortPadding(landed)
             PROVE  /\ mode # "failed" /\ pc # "garbage"
                    /\ pc = "eof" =>
                         \A n \in 0..appended : Durable(n) => IsPrefix(Stream(n), result)
  BY DEF CrashPrefix, Trusted
<1>1. mode # "failed"
  BY DEF ReadInv
<1>2. CASE ~Readable
  BY <1>1, <1>2 DEF ReadInv, Fresh
<1>3. CASE Readable
  <2>1. Reader /\ FileRead /\ OnDevice /\ appended \in Nat
    BY <1>3, ReadFacts DEF LogInv
  <2>2. pc # "garbage"
    BY <2>1 DEF Reader, Idling, Looking, Copying, Returning
  <2>3. ASSUME pc = "eof", NEW n \in 0..appended, Durable(n)
        PROVE  IsPrefix(Stream(n), result)
    <3>1. n \in Nat /\ Follows(result, n)
      BY <2>1, <2>3 DEF Reader, Content
    <3>2. n <= file_size_
      BY <2>1, <2>3, <3>1, DurableSize
    <3>3. result \in Seq(Nat) /\ Len(result) \in Nat /\ Len(result) = file_size_
      <4>1. rp = Len(result) /\ rp = file_size_
        BY <2>1, <2>3 DEF Reader, Idling, Looking, Copying, Returning
      <4> QED
        BY <2>1, <4>1, Numbers
    <3>4. /\ Stream(n) \in Seq(Nat) /\ Len(Stream(n)) = n
          /\ \A i \in 1..n : Stream(n)[i] = i
      BY <3>1, StreamIs
    <3>5. \A i \in 1..n : result[i] = i
      BY <3>1, <3>2, <3>3 DEF Follows
    <3> QED
      BY <3>2, <3>3, <3>4, <3>5, Prefix
  <2> QED
    BY <1>1, <2>2, <2>3
<1> QED
  BY <1>2, <1>3

\* Whatever the sizes of blocks, zones, barriers and reads, the order in which the
\* appends land and the errors the device reports: after a clean Close a sequential
\* reader is given what was appended, in order, all of it when it meets the end, and
\* never memory that is not the log's (WALPositionedRead over RecoverWALChunk), unless
\* the last entry is followed by padding shorter than a length field.
THEOREM ReadBackCorrect ==
  ASSUME FullBlocks
  PROVE  ReadSpec => []ReadBack
<1>1. Init /\ ReaderInit => ReadInv
  BY ReadInvInit
<1>2. ReadInv /\ [ReadNext]_allvars => ReadInv'
  BY ReadInvNext
<1>3. ReadInv => ReadBack
  BY InvReadBack
<1> QED
  BY <1>1, <1>2, <1>3, PTL DEF ReadSpec

\* Wherever a crash cuts the writer off, unless inside the Close that has persisted
\* the file before its last append: the mount succeeds, and the reader is given every
\* unit of the log's gap-free beginning before anything else (Recover,
\* RecoverSparseExtents, WALPositionedRead).
THEOREM CrashPrefixCorrect ==
  ASSUME FullBlocks
  PROVE  ReadSpec => []CrashPrefix
<1>1. Init /\ ReaderInit => ReadInv
  BY ReadInvInit
<1>2. ReadInv /\ [ReadNext]_allvars => ReadInv'
  BY ReadInvNext
<1>3. ReadInv => CrashPrefix
  BY InvCrashPrefix
<1> QED
  BY <1>1, <1>2, <1>3, PTL DEF ReadSpec
=============================================================================
