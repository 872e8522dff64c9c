-------------------------------- MODULE ZWal --------------------------------
(***************************************************************************)
(* The write path of a ZWAL write-ahead log: a sparse, buffered ZoneFile   *)
(* whose name ends in ".log" (ZonedWritableFile and ZoneFile of            *)
(* zenfs-appends/fs/io_zenfs.cc) writing to its group of WAL zones through *)
(* asynchronous zone appends.                                              *)
(*                                                                         *)
(* Units.  Payload and wr_size are counted in abstract units of bytes,     *)
(* everything the code keeps block aligned (wp_, capacity_, the barrier    *)
(* counter) in blocks.  The payload itself is the position of the unit in  *)
(* the stream the application wrote: 1, 2, 3, ...  The zones the file      *)
(* fills, one after the other, form one line of block addresses.           *)
(*                                                                         *)
(* Threads.  One thread appends, another syncs: buffer_mtx_ protects the   *)
(* buffer and whatever SparseAppend touches, WALSync in DataSync runs      *)
(* outside of it (IsSyncThreadSafe is true).                               *)
(***************************************************************************)
EXTENDS Integers, Sequences, FiniteSets

CONSTANTS
  BlockSz,                 \* units in a block (4096 bytes)
  SPARSE_HEADER_SIZE,      \* units of the length field
  SPARSE_WAL_HEADER_SIZE,  \* units of the sequence number
  BufferBlocks,            \* SPARSE_BUFFER_SIZE_IN_KB, in blocks
  BarrierBlocks,           \* WAL_BARRIER_SIZE_IN_KB, in blocks
  ZoneCap,                 \* capacity of a zone, in blocks
  GroupZones,              \* ZENFS_ZONES_FOREACH_WAL
  WalZones,                \* zones in all groups this file may be given
  Depth,                   \* NAMELESS_WAL_DEPTH, appends in flight
  AppendSizes,             \* sizes of the application's Append calls
  MaxUnits,                \* bound: units the application appends in all
  SyncKinds,               \* the calls the application makes
  MaxErrors,               \* bound: zone appends and barriers the device fails
  MaxNoSpace,              \* bound: times all WAL groups are taken by other files
  MaxUnlogged              \* bound: records the metadata log refuses

HeaderSize == SPARSE_HEADER_SIZE + SPARSE_WAL_HEADER_SIZE

ASSUME SizeAssumption ==
  /\ BlockSz \in Nat
  /\ SPARSE_HEADER_SIZE \in Nat \ {0}
  /\ SPARSE_WAL_HEADER_SIZE \in Nat \ {0}
  /\ HeaderSize < BlockSz

\* The static_assert of io_zenfs.h
ASSUME BarrierAssumption ==
  /\ BufferBlocks \in Nat \ {0}
  /\ BarrierBlocks \in Nat \ {0}
  /\ BarrierBlocks % BufferBlocks = 0

ASSUME DeviceAssumption ==
  /\ ZoneCap \in Nat \ {0}
  /\ GroupZones \in Nat \ {0}
  /\ WalZones \in Nat \ {0}
  /\ Depth \in Nat \ {0}

ASSUME WorkloadAssumption ==
  /\ AppendSizes \subseteq Nat \ {0}
  /\ MaxUnits \in Nat
  /\ SyncKinds \subseteq {"sync", "fsync", "close"}
  /\ MaxErrors \in Nat
  /\ MaxNoSpace \in Nat
  /\ MaxUnlogged \in Nat

VARIABLES
  \* ZonedWritableFile
  buffer,           \* the first buffer_pos units of the sparse buffer
  buffer_mtx_,      \* which thread holds the mutex
  todo,             \* data_left of the running BufferedWrite
  fpc,              \* "loop" while FlushBuffer is running
  left,             \* left of the running SparseAppend
  filled,           \* extent_length of the piece that filled the zone, or 0
  open,
  syncer,           \* where the syncing thread is, and what it found
  \* ZoneFile
  wal_seq_, append_bytes_since_last_barrier_, wal_syncs_,
  extents_, extent_start_, file_size_,
  active_zone_,     \* 0 is nullptr
  wal_,             \* the group of zones the SZDOnceLog spans, 0 is nullptr
  \* Zone (host side): write pointer and free blocks of the active zone
  wp_, capacity_,
  \* the zoned device
  inflight,         \* appends submitted and not completed
  landed,           \* entries on the device, each with its block address
  dwp,              \* the device's own write pointer
  \* the metadata log: what a mount would find of this file
  meta,
  \* environment and history
  appended,         \* units accepted from the application
  synced,           \* file_size_ at the start of the last sync that returned
  errors, nospace, unlogged,  \* failures of each kind so far
  repeated          \* a flush failed behind an entry of its own that is still in the
                    \* buffer: the next flush writes it again

file == <<wal_seq_, append_bytes_since_last_barrier_, wal_syncs_, extents_,
          extent_start_, file_size_, active_zone_, wal_, wp_, capacity_>>
device == <<inflight, landed, dwp>>
writer == <<buffer, buffer_mtx_, todo, fpc, left, filled, open, appended,
            errors, nospace>>
vars == <<file, device, writer, syncer, meta, unlogged, synced, repeated>>

NO_EXTENT == -1

Entry == [seq : Nat, ipos : Nat, blocks : Nat \ {0}, off : Nat, data : Seq(Nat)]
ExtentList == Seq([zone : Nat, length : Nat])
Syncer == [pc : {"idle", "walsync", "lock", "flush", "return", "closezone"},
           kind : {"none", "sync", "fsync", "close"},
           flushed : Nat, appended : Nat]
Metadata == [extents : ExtentList, start : Nat \cup {NO_EXTENT}, size : Nat,
             seq : Nat]

-----------------------------------------------------------------------------
(***************************************************************************)
(* Sizes                                                                   *)
(***************************************************************************)

Smaller(a, b) == IF a <= b THEN a ELSE b

\* buffer_sz of the ZonedWritableFile constructor
buffer_sz == BufferBlocks * BlockSz - HeaderSize

\* Sparse entries are padded to the next block boundary.
Blocks(units) == (units + BlockSz - 1) \div BlockSz

\* wr_size of the next piece: what is left, cut at the end of the zone and at
\* the next barrier.
MutWrSizeIgnoresBarrier ==
  Smaller(left + HeaderSize, capacity_ * BlockSz)

WrSize ==
  Smaller(Smaller(left + HeaderSize, capacity_ * BlockSz),
          (BarrierBlocks - append_bytes_since_last_barrier_) * BlockSz)

-----------------------------------------------------------------------------
(***************************************************************************)
(* The device.  AsyncAppend only submits; the append lands where the       *)
(* device's write pointer is by then, in any order among those in flight.  *)
(***************************************************************************)

Land(e) ==
  /\ e \in inflight
  /\ inflight' = inflight \ {e}
  /\ landed' = landed \cup {[entry |-> e, dpos |-> dwp]}
  /\ dwp' = dwp + e.blocks
  /\ UNCHANGED <<file, writer, syncer, meta, unlogged, synced, repeated>>

\* wal_->Sync() returns once nothing is in flight (nothing is before wal_ exists).
MutWALSyncReturnsEarly == Cardinality(inflight) <= 1
WALSync == inflight = {}

-----------------------------------------------------------------------------
(***************************************************************************)
(* Zones                                                                   *)
(***************************************************************************)

PersistMetadata(start) ==
  /\ meta' = [extents |-> extents_, start |-> start, size |-> file_size_,
              seq |-> wal_seq_]
  /\ UNCHANGED unlogged

\* The metadata log refuses the record.
PersistMetadataError ==
  /\ unlogged < MaxUnlogged
  /\ unlogged' = unlogged + 1
  /\ UNCHANGED meta

\* The zone AllocateWALZone gives: the one after the last zone with an extent.
NextZone ==
  IF extents_ = << >> THEN 1
  ELSE 1 + CHOOSE z \in 1..WalZones :
             /\ \E i \in DOMAIN extents_ : extents_[i].zone = z
             /\ \A i \in DOMAIN extents_ : extents_[i].zone <= z

\* The next zone of the group is always there; a new group may not be.
NewGroup == (NextZone - 1) % GroupZones = 0
ZoneAvailable == NextZone <= WalZones
NoSpace ==
  /\ NewGroup
  /\ IF ZoneAvailable THEN nospace < MaxNoSpace /\ nospace' = nospace + 1
     ELSE UNCHANGED nospace

MutAllocateResetsBarrier ==
  /\ active_zone_' = NextZone
  /\ wal_' = (NextZone - 1) \div GroupZones + 1
  /\ capacity_' = ZoneCap
  /\ extent_start_' = wp_
  /\ PersistMetadata(wp_)
  /\ append_bytes_since_last_barrier_' = 0

\* The barrier counter runs on when a zone is crossed.
SetActiveZone ==
  /\ active_zone_' = NextZone
  /\ wal_' = (NextZone - 1) \div GroupZones + 1
  /\ capacity_' = ZoneCap
  /\ extent_start_' = wp_
  /\ UNCHANGED append_bytes_since_last_barrier_

AllocateNewZone == SetActiveZone /\ PersistMetadata(wp_)

\* The zone stays the active one although its record was refused.
AllocateNewZoneError == SetActiveZone /\ PersistMetadataError

-----------------------------------------------------------------------------
(***************************************************************************)
(* ZonedWritableFile::Append and BufferedWrite                             *)
(***************************************************************************)

AppendCall(n) ==
  /\ open /\ syncer.kind # "close"
  /\ buffer_mtx_ = "none"
  /\ appended + n <= MaxUnits
  /\ buffer_mtx_' = "append"
  /\ todo' = n
  /\ UNCHANGED <<file, device, buffer, fpc, left, filled, open, appended,
                 errors, nospace, syncer, meta, unlogged, synced, repeated>>

\* One turn of BufferedWrite's loop that finds room; the call returns with the
\* last one.
BufferedWrite ==
  /\ buffer_mtx_ = "append" /\ fpc = "idle"
  /\ todo > 0 /\ Len(buffer) < buffer_sz
  /\ LET to_buffer == Smaller(todo, buffer_sz - Len(buffer))
     IN  /\ buffer' = buffer \o [i \in 1..to_buffer |-> appended + i]
         /\ appended' = appended + to_buffer
         /\ todo' = todo - to_buffer
         /\ buffer_mtx_' = IF to_buffer = todo THEN "none" ELSE "append"
  /\ UNCHANGED <<file, device, fpc, left, filled, open, errors, nospace, syncer,
                 meta, unlogged, synced, repeated>>

-----------------------------------------------------------------------------
(***************************************************************************)
(* FlushBuffer and SparseAppend, run by whoever holds buffer_mtx_          *)
(***************************************************************************)

\* BufferedWrite found the buffer full, or DataSync found it not empty.
WantsFlush ==
  /\ fpc = "idle" /\ buffer # << >>
  /\ \/ buffer_mtx_ = "append" /\ todo > 0 /\ Len(buffer) = buffer_sz
     \/ buffer_mtx_ = "sync"

\* The syncing thread after its call has returned
Idle == [syncer EXCEPT !.pc = "idle", !.kind = "none"]

MutFlushErrorKeepsLock ==
  /\ fpc' = "idle" /\ left' = 0 /\ filled' = 0
  /\ todo' = 0
  /\ syncer' = IF buffer_mtx_ = "sync" THEN Idle ELSE syncer
  /\ UNCHANGED <<buffer_mtx_, open, appended, synced>>

\* An error leaves buffer_pos as it is and goes up to the caller.
FlushError ==
  /\ fpc' = "idle" /\ left' = 0 /\ filled' = 0
  /\ buffer_mtx_' = "none" /\ todo' = 0
  /\ syncer' = IF buffer_mtx_ = "sync" THEN Idle ELSE syncer
  /\ UNCHANGED <<open, appended, synced>>

FlushBuffer ==
  /\ WantsFlush
  /\ active_zone_ # 0 \/ ZoneAvailable
  /\ fpc' = "loop"
  /\ left' = Len(buffer)
  /\ IF active_zone_ = 0 THEN AllocateNewZone
     ELSE UNCHANGED <<active_zone_, wal_, capacity_, extent_start_, meta, unlogged,
                      append_bytes_since_last_barrier_>>
  /\ UNCHANGED <<wal_seq_, wal_syncs_, extents_, file_size_, wp_, device, buffer,
                 buffer_mtx_, todo, filled, open, appended, errors, nospace, syncer,
                 synced, repeated>>

FlushBufferNoSpace ==
  /\ WantsFlush
  /\ active_zone_ = 0
  /\ NoSpace
  /\ FlushError
  /\ UNCHANGED <<file, device, buffer, errors, meta, unlogged, repeated>>

\* The next flush finds the zone active and does not log it again.
FlushBufferUnlogged ==
  /\ WantsFlush
  /\ active_zone_ = 0 /\ ZoneAvailable
  /\ AllocateNewZoneError
  /\ FlushError
  /\ UNCHANGED <<wal_seq_, wal_syncs_, extents_, file_size_, wp_, device, buffer,
                 errors, nospace, repeated>>

MutSparseBarrierNoSync ==
  /\ fpc = "loop" /\ left > 0 /\ filled = 0
  /\ append_bytes_since_last_barrier_ >= BarrierBlocks
  /\ append_bytes_since_last_barrier_' = 0
  /\ wal_syncs_' = wal_syncs_ + 1
  /\ UNCHANGED <<wal_seq_, extents_, extent_start_, file_size_, active_zone_,
                 wal_, wp_, capacity_, device, writer, syncer, meta, unlogged, synced, repeated>>

\* The barrier at the head of SparseAppend's loop.
SparseBarrier ==
  /\ fpc = "loop" /\ left > 0 /\ filled = 0
  /\ append_bytes_since_last_barrier_ >= BarrierBlocks
  /\ WALSync
  /\ append_bytes_since_last_barrier_' = 0
  /\ wal_syncs_' = wal_syncs_ + 1
  /\ UNCHANGED <<wal_seq_, extents_, extent_start_, file_size_, active_zone_,
                 wal_, wp_, capacity_, device, writer, syncer, meta, unlogged, synced, repeated>>

\* wal_->Sync() reports a failure: the barrier counter stays where it is.
SparseBarrierError ==
  /\ fpc = "loop" /\ left > 0 /\ filled = 0
  /\ append_bytes_since_last_barrier_ >= BarrierBlocks
  /\ errors < MaxErrors
  /\ errors' = errors + 1
  /\ repeated' = (repeated \/ left < Len(buffer))
  /\ FlushError
  /\ UNCHANGED <<file, device, buffer, nospace, meta, unlogged>>

CanAppend ==
  /\ fpc = "loop" /\ left > 0 /\ filled = 0
  /\ append_bytes_since_last_barrier_ < BarrierBlocks

\* The entry SparseAppend submits: off is where the file grows, ipos where the
\* host believes the entry goes.
NewEntry ==
  [seq |-> wal_seq_, ipos |-> wp_, blocks |-> Blocks(WrSize), off |-> file_size_,
   data |-> SubSeq(buffer, 1, WrSize - HeaderSize)]

\* memset of the padding, which may reach into the buffered data
Padded(buf, wr_size) ==
  [i \in DOMAIN buf |->
     IF /\ i > wr_size - HeaderSize
        /\ i <= Blocks(wr_size) * BlockSz - HeaderSize
     THEN 0 ELSE buf[i]]

\* One turn of SparseAppend's loop up to the test for a full zone.
SparseAppend ==
  /\ CanAppend
  /\ Cardinality(inflight) < Depth
  /\ LET e == NewEntry
         extent_length == WrSize - HeaderSize
     IN  /\ inflight' = inflight \cup {e}
         /\ wal_seq_' = wal_seq_ + 1
         /\ append_bytes_since_last_barrier_' =
              append_bytes_since_last_barrier_ + e.blocks
         /\ extents_' = Append(extents_, [zone |-> active_zone_,
                                          length |-> extent_length])
         /\ wp_' = wp_ + e.blocks
         /\ capacity_' = capacity_ - e.blocks
         /\ extent_start_' = wp_ + e.blocks
         /\ file_size_' = file_size_ + extent_length
         /\ left' = left - extent_length
         /\ buffer' = Padded(buffer, WrSize)
         /\ filled' = IF capacity_ = e.blocks THEN extent_length ELSE 0
  /\ UNCHANGED <<active_zone_, wal_, wal_syncs_, landed, dwp, buffer_mtx_, todo,
                 fpc, open, appended, errors, nospace, syncer, meta, unlogged, synced, repeated>>

MutSparseAppendErrorDropsBuffer ==
  /\ CanAppend
  /\ errors < MaxErrors
  /\ errors' = errors + 1
  /\ wal_seq_' = wal_seq_ + 1
  /\ repeated' = (repeated \/ left < Len(buffer))
  /\ buffer' = << >>
  /\ FlushError
  /\ UNCHANGED <<append_bytes_since_last_barrier_, wal_syncs_, extents_,
                 extent_start_, file_size_, active_zone_, wal_, wp_, capacity_,
                 device, nospace, meta, unlogged>>

MutSparseAppendErrorKeepsExtent ==
  /\ CanAppend
  /\ errors < MaxErrors
  /\ errors' = errors + 1
  /\ wal_seq_' = wal_seq_ + 1
  /\ repeated' = (repeated \/ left < Len(buffer))
  /\ buffer' = Padded(buffer, WrSize)
  /\ extents_' = Append(extents_, [zone |-> active_zone_,
                                   length |-> WrSize - HeaderSize])
  /\ FlushError
  /\ UNCHANGED <<append_bytes_since_last_barrier_, wal_syncs_, extent_start_,
                 file_size_, active_zone_, wal_, wp_, capacity_, device, nospace,
                 meta, unlogged>>

\* The device refuses the append: wal_seq_ has moved on, nothing else has.
SparseAppendError ==
  /\ CanAppend
  /\ errors < MaxErrors
  /\ errors' = errors + 1
  /\ wal_seq_' = wal_seq_ + 1
  /\ repeated' = (repeated \/ left < Len(buffer))
  /\ buffer' = Padded(buffer, WrSize)
  /\ FlushError
  /\ UNCHANGED <<append_bytes_since_last_barrier_, wal_syncs_, extents_,
                 extent_start_, file_size_, active_zone_, wal_, wp_, capacity_,
                 device, nospace, meta, unlogged>>

\* memmove of what is left behind the header
Memmove(buf) ==
  [i \in DOMAIN buf |-> IF i <= left THEN buf[i + filled] ELSE buf[i]]

MutZoneFullNoSync ==
  /\ fpc = "loop" /\ filled > 0
  /\ ZoneAvailable
  /\ buffer' = Memmove(buffer)
  /\ AllocateNewZone
  /\ filled' = 0
  /\ UNCHANGED <<wal_seq_, wal_syncs_, extents_, file_size_, wp_, device,
                 buffer_mtx_, todo, fpc, left, open, appended, errors, nospace, syncer,
                 synced, repeated>>

\* capacity_ reached 0: CloseActiveZone (a sync of the log), then the next zone
ZoneFull ==
  /\ fpc = "loop" /\ filled > 0
  /\ WALSync
  /\ ZoneAvailable
  /\ buffer' = Memmove(buffer)
  /\ AllocateNewZone
  /\ filled' = 0
  /\ UNCHANGED <<wal_seq_, wal_syncs_, extents_, file_size_, wp_, device,
                 buffer_mtx_, todo, fpc, left, open, appended, errors, nospace, syncer,
                 synced, repeated>>

\* Without any zone left there is no next flush.
ZoneFullNoSpace ==
  /\ fpc = "loop" /\ filled > 0
  /\ WALSync
  /\ NoSpace
  /\ buffer' = Memmove(buffer)
  /\ active_zone_' = 0
  /\ repeated' = (repeated \/ ZoneAvailable)
  /\ FlushError
  /\ UNCHANGED <<wal_seq_, append_bytes_since_last_barrier_, wal_syncs_, extents_,
                 extent_start_, file_size_, wal_, wp_, capacity_, device, errors,
                 meta, unlogged>>

ZoneFullUnlogged ==
  /\ fpc = "loop" /\ filled > 0
  /\ WALSync
  /\ ZoneAvailable
  /\ buffer' = Memmove(buffer)
  /\ AllocateNewZoneError
  /\ repeated' = TRUE
  /\ FlushError
  /\ UNCHANGED <<wal_seq_, wal_syncs_, extents_, file_size_, wp_, device, errors,
                 nospace>>

MutFlushReturnKeepsLock ==
  /\ fpc = "loop" /\ left = 0 /\ filled = 0
  /\ fpc' = "idle"
  /\ buffer' = << >>
  /\ syncer' = IF buffer_mtx_ = "sync" THEN [syncer EXCEPT !.pc = "return"] ELSE syncer
  /\ UNCHANGED <<file, device, buffer_mtx_, todo, left, filled, open, appended, errors,
                 nospace, meta, unlogged, synced, repeated>>

FlushReturn ==
  /\ fpc = "loop" /\ left = 0 /\ filled = 0
  /\ fpc' = "idle"
  /\ buffer' = << >>
  /\ IF buffer_mtx_ = "sync"
     THEN /\ buffer_mtx_' = "none"
          /\ syncer' = [syncer EXCEPT !.pc = "return"]
     ELSE UNCHANGED <<buffer_mtx_, syncer>>
  /\ UNCHANGED <<file, device, todo, left, filled, open, appended, errors, nospace, meta,
                 unlogged, synced, repeated>>

-----------------------------------------------------------------------------
(***************************************************************************)
(* Sync, Fsync and Close: DataSync and what follows it.  A file is closed  *)
(* when no other call is running.                                          *)
(***************************************************************************)

SyncCall(k) ==
  /\ open /\ syncer.pc = "idle"
  /\ k = "close" => buffer_mtx_ = "none"
  /\ syncer' = [pc |-> "walsync", kind |-> k, flushed |-> file_size_,
                appended |-> appended]
  /\ UNCHANGED <<file, device, writer, meta, unlogged, synced, repeated>>

DataSyncWALSync ==
  /\ syncer.pc = "walsync"
  /\ WALSync
  /\ syncer' = [syncer EXCEPT !.pc = "lock"]
  /\ UNCHANGED <<file, device, writer, meta, unlogged, synced, repeated>>

DataSyncLock ==
  /\ syncer.pc = "lock" /\ buffer_mtx_ = "none"
  /\ IF buffer = << >>
     THEN /\ syncer' = [syncer EXCEPT !.pc = "return"]
          /\ UNCHANGED buffer_mtx_
     ELSE /\ syncer' = [syncer EXCEPT !.pc = "flush"]
          /\ buffer_mtx_' = "sync"
  /\ UNCHANGED <<file, device, buffer, todo, fpc, left, filled, open, appended,
                 errors, nospace, meta, unlogged, synced, repeated>>

SyncReturn ==
  /\ syncer.pc = "return" /\ syncer.kind = "sync"
  /\ synced' = syncer.flushed
  /\ syncer' = Idle
  /\ UNCHANGED <<file, device, writer, meta, unlogged, repeated>>

FsyncReturn ==
  /\ syncer.pc = "return" /\ syncer.kind = "fsync"
  /\ PersistMetadata(extent_start_)
  /\ synced' = syncer.flushed
  /\ syncer' = Idle
  /\ UNCHANGED <<file, device, writer, repeated>>

FsyncUnlogged ==
  /\ syncer.pc = "return" /\ syncer.kind = "fsync"
  /\ PersistMetadataError
  /\ syncer' = Idle
  /\ UNCHANGED <<file, device, writer, synced, repeated>>

\* CloseWR up to CloseActiveZone: the file is marked closed before its log is
\* synced.
CloseWR ==
  /\ syncer.pc = "return" /\ syncer.kind = "close"
  /\ extent_start_' = NO_EXTENT
  /\ PersistMetadata(NO_EXTENT)
  /\ syncer' = [syncer EXCEPT !.pc = "closezone"]
  /\ UNCHANGED <<wal_seq_, append_bytes_since_last_barrier_, wal_syncs_, extents_,
                 file_size_, active_zone_, wal_, wp_, capacity_, device, writer,
                 synced, repeated>>

\* The file stays open, and its active extent is forgotten.
CloseWRUnlogged ==
  /\ syncer.pc = "return" /\ syncer.kind = "close"
  /\ extent_start_' = NO_EXTENT
  /\ PersistMetadataError
  /\ syncer' = Idle
  /\ UNCHANGED <<wal_seq_, append_bytes_since_last_barrier_, wal_syncs_, extents_,
                 file_size_, active_zone_, wal_, wp_, capacity_, device, writer,
                 synced, repeated>>

MutCloseActiveZoneNoSync ==
  /\ syncer.pc = "closezone"
  /\ active_zone_' = 0
  /\ open' = FALSE
  /\ synced' = syncer.flushed
  /\ syncer' = Idle
  /\ UNCHANGED <<wal_seq_, append_bytes_since_last_barrier_, wal_syncs_, extents_,
                 extent_start_, file_size_, wal_, wp_, capacity_, device, buffer,
                 buffer_mtx_, todo, fpc, left, filled, appended, errors, nospace, meta,
                 unlogged, repeated>>

CloseActiveZone ==
  /\ syncer.pc = "closezone"
  /\ WALSync
  /\ active_zone_' = 0
  /\ open' = FALSE
  /\ synced' = syncer.flushed
  /\ syncer' = Idle
  /\ UNCHANGED <<wal_seq_, append_bytes_since_last_barrier_, wal_syncs_, extents_,
                 extent_start_, file_size_, wal_, wp_, capacity_, device, buffer,
                 buffer_mtx_, todo, fpc, left, filled, appended, errors, nospace, meta,
                 unlogged, repeated>>

-----------------------------------------------------------------------------

Init ==
  /\ buffer = << >> /\ buffer_mtx_ = "none" /\ todo = 0
  /\ fpc = "idle" /\ left = 0 /\ filled = 0 /\ open = TRUE
  /\ syncer = [pc |-> "idle", kind |-> "none", flushed |-> 0, appended |-> 0]
  /\ wal_seq_ = 0 /\ append_bytes_since_last_barrier_ = 0 /\ wal_syncs_ = 0
  /\ extents_ = << >> /\ extent_start_ = NO_EXTENT /\ file_size_ = 0
  /\ active_zone_ = 0 /\ wal_ = 0 /\ wp_ = 0 /\ capacity_ = 0
  /\ inflight = {} /\ landed = {} /\ dwp = 0
  /\ meta = [extents |-> << >>, start |-> NO_EXTENT, size |-> 0, seq |-> 0]
  /\ appended = 0 /\ synced = 0 /\ errors = 0 /\ nospace = 0
  /\ unlogged = 0 /\ repeated = FALSE

Flush ==
  \/ FlushBuffer \/ FlushBufferNoSpace \/ SparseBarrier \/ SparseAppend
  \/ ZoneFull \/ ZoneFullNoSpace \/ FlushReturn

SyncStep ==
  \/ DataSyncWALSync \/ DataSyncLock \/ SyncReturn \/ FsyncReturn \/ CloseWR
  \/ CloseActiveZone

Failure ==
  \/ SparseAppendError \/ SparseBarrierError
  \/ FlushBufferUnlogged \/ ZoneFullUnlogged \/ FsyncUnlogged \/ CloseWRUnlogged

LandSome == \E e \in inflight : Land(e)

Next ==
  \/ \E n \in AppendSizes : AppendCall(n)
  \/ BufferedWrite
  \/ Flush
  \/ Failure
  \/ \E k \in SyncKinds : SyncCall(k)
  \/ SyncStep
  \/ LandSome

\* Threads keep running and the device completes what it accepted; calls and
\* errors need not happen.
Fairness ==
  /\ WF_vars(BufferedWrite) /\ WF_vars(Flush) /\ WF_vars(SyncStep)
  /\ WF_vars(LandSome)

Spec == Init /\ [][Next]_vars /\ Fairness

-----------------------------------------------------------------------------
(***************************************************************************)
(* Properties                                                              *)
(***************************************************************************)

Entries == inflight \cup {l.entry : l \in landed}

\* Every variable keeps to its type.
TypeOK ==
  /\ buffer \in Seq(Nat)
  /\ buffer_mtx_ \in {"none", "append", "sync"}
  /\ todo \in Nat /\ left \in Nat /\ filled \in Nat
  /\ fpc \in {"idle", "loop"} /\ open \in BOOLEAN
  /\ syncer \in Syncer
  /\ wal_seq_ \in Nat /\ wal_syncs_ \in Nat
  /\ append_bytes_since_last_barrier_ \in 0..BarrierBlocks
  /\ extents_ \in ExtentList /\ file_size_ \in Nat
  /\ extent_start_ \in Nat \cup {NO_EXTENT}
  /\ active_zone_ \in 0..WalZones /\ wal_ \in Nat /\ wp_ \in Nat /\ capacity_ \in 0..ZoneCap
  /\ inflight \in SUBSET Entry
  /\ landed \in SUBSET [entry : Entry, dpos : Nat]
  /\ dwp \in Nat
  /\ meta \in Metadata
  /\ appended \in Nat /\ synced \in Nat /\ errors \in Nat /\ nospace \in Nat
  /\ unlogged \in Nat /\ repeated \in BOOLEAN

\* The barrier-sized piece of the log a block address belongs to: what
\* TryRecoverWAL loads and sorts at a time.
Chunk(block) == block \div BarrierBlocks

\* Sorting each chunk by sequence number sorts the whole log, however the
\* device reordered the appends, and whatever zones, syncs and errors came
\* between: SparseAppend's barriers, RecoverWALChunk's sort.
BarrierOrder ==
  \A a, b \in landed :
    Chunk(a.dpos) < Chunk(b.dpos) => a.entry.seq < b.entry.seq

\* No entry straddles two chunks, so that a chunk can be decoded on its own
\* ("Prevent cross-barrier write" in SparseAppend).
ChunkAligned ==
  \A l \in landed : Chunk(l.dpos) = Chunk(l.dpos + l.entry.blocks - 1)

\* The entry written at file offset off carries the units the application wrote
\* at off: no piece is written twice or skipped (SparseAppend's handling of
\* sparse_buffer, FlushBuffer's of buffer_pos), until a flush that failed behind an
\* entry of its own is tried again.
FaithfulEntries ==
  ~repeated => \A e \in Entries : \A i \in DOMAIN e.data : e.data[i] = e.off + i

\* The i-th extent of the file has the length of the entry with the i-th
\* smallest sequence number: WALPositionedRead pairs the two by index.
ExtentsFollowSeq ==
  \A e \in Entries :
    LET i == 1 + Cardinality({f \in Entries : f.seq < e.seq})
    IN  i \in DOMAIN extents_ /\ extents_[i].length = Len(e.data)

\* When Sync, Fsync or Close has returned, all that had been handed to the device
\* when it was called is on the device (WALSync in DataSync).
SyncDurable == \A e \in inflight : e.off >= synced

Durable(n) == \A u \in 1..n : \E l \in landed : \E i \in DOMAIN l.entry.data :
                l.entry.data[i] = u

\* A closed file is on the device with every unit the application appended, and
\* its persisted size says so (CloseInternal: DataSync, CloseWR, CloseActiveZone),
\* unless a flush wrote something twice.
CloseDurable ==
  ~open /\ ~repeated => /\ inflight = {}
                        /\ Durable(appended)
                        /\ meta.size = appended

\* The active extent a mount would recover starts on the device: "if there is a
\* crash we know that this file wrote the data starting from active extent start
\* up to the zone write pointer" (ZoneFile::EncodeTo).
ActiveExtentOnDevice == meta.start # NO_EXTENT => meta.start <= dwp

\* When Sync has returned, all that had been appended when it was called is on
\* the device ("sync on datasync", "ensure WAL is persisted").
SyncCoversBuffer ==
  [][syncer.pc = "return" /\ syncer'.pc = "idle" => Durable(syncer.appended)]_vars

\* A call to Sync, Fsync or Close returns: neither the barrier, the queue depth
\* nor buffer_mtx_ leaves it waiting.
SyncReturns == syncer.pc = "walsync" ~> syncer.pc = "idle"

\* So does a call to Append.
AppendReturns == buffer_mtx_ = "append" ~> buffer_mtx_ # "append"

-----------------------------------------------------------------------------
(***************************************************************************)
(* The write path implements the chunked log of module ChunkLog.           *)
(***************************************************************************)

ChunkedLog ==
  INSTANCE ChunkLog WITH
    next <- wal_seq_,
    chunk <- wal_syncs_,
    pending <- {e.seq : e \in inflight},
    done <- {[seq |-> l.entry.seq, chunk |-> Chunk(l.dpos)] : l \in landed}

\* Every entry lands in the chunk that was being filled when it was submitted, and the
\* barriers, and only they, go on to the next chunk, with nothing in flight, across
\* zones, syncs and refused appends (SparseAppend, against TryRecoverWAL's chunks).
ImplementsChunkLog == ChunkedLog!Spec
=============================================================================
