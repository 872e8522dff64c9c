# A TLA+ model of ZWAL

ZWAL is a fork of ZenFS (`src/zenfs-appends`), the RocksDB file system plugin for
zoned storage. It writes RocksDB's write-ahead logs with *zone appends* instead of
zone writes: several appends are in flight at a time, the device decides where each
lands, and the file system puts them back in order when the log is read. This
directory holds TLA+ modules for the parts of that design that are hard to test,
TLC runs over small instances, and TLAPS proofs, for instances of any size, of the safety
of the write path, zone allocation, garbage collection and the metadata log, and of the two refinements:
the ordering argument of the log, and the namespace that survives crashes.

Paths below are relative to `src/zenfs-appends/fs/`.

## 1. Inventory

| Component | State | Operations | What makes it correct |
|---|---|---|---|
| ZWAL write path (`io_zenfs.cc`: `ZonedWritableFile`, `ZoneFile::SparseAppend`) | buffer and `buffer_mtx_`; `wal_seq_`, barrier counter, extent list, active zone, `wal_`; the zone's host-side `wp_`, `capacity_` | `Append`, `Sync`, `Fsync`, `Close`, flush, barrier, next zone, next group | entries can be ordered again; each entry carries the right bytes; a sync means durable; metadata never runs ahead of the device; calls return |
| Recovery and read-back (`io_zenfs.cc`: `DecodeFrom`, `Recover`, `RecoverSparseExtents`, `TryRecoverWAL`, `WALPositionedRead`) | decoded extents, loaded chunk, the reader's position kept in the `ZoneFile` | mount, sequential `Read` | a closed log is read back exactly; after a crash the reader gets the gap-free beginning; reading ends |
| Zone allocation (`zbd_zenfs.cc`) | per zone `busy_`, `wp_`, `lifetime_`, used capacity; open and active token counters; the sleepers on `zone_resources_` | `AllocateIOZone`, `AllocateWALZone`, `FinishCheapestIOZone`, `ApplyFinishThreshold`, `ResetUnusedIOZones`, `ReleaseUnusedWALZones`, token get/put | one holder per zone; no used zone is reset; device limits hold; tokens come back; allocators are not forgotten |
| Ordinary files (`io_zenfs.cc`) | extent list, buffer, active zone | buffered and direct writes, reads | as above, without reordering |
| Metadata log (`fs_zenfs.cc`: `ZenMetaLog`, `PersistRecord`, `RollMetaZoneLocked`, `Mount`, `MkFS`) | two or more metadata zones, superblock sequence, snapshot and update records | append a record, roll, mount | every acknowledged record survives a crash at any point |
| Namespace (`fs_zenfs.cc`) | `files_`, link names, `files_mtx_`, `metadata_sync_mtx_` | create, delete, rename, link | memory and log agree; a failed operation changes nothing |
| Garbage collection (`fs_zenfs.cc`: `GCWorker`, `GetZenFSSnapshot`, `MigrateExtents`, `SyncFileExtents`; `zbd_zenfs.cc`: `TakeMigrateZone`, `ReleaseMigrateZone`; `io_zenfs.cc`: `MigrateData`, `ReplaceExtentList`) | extents to move, new extent list, target zone; per file `open_for_wr_`, `readers_`, `writer_mtx_`; the zones' used capacity | choose zones, copy extents, swap the list, log it, reset zones | no data is lost or read from a reset zone, at any moment of a crash; use is counted exactly; collector and readers get on |
| Backends (`zbdlib_zenfs.cc`, `zonefs_zenfs.cc`), SZD | device | read, write, append, reset, finish | external |
| Metrics, `util/zenfs.cc`, `src/zenfs-default`, RocksDB, YCSB, data | - | - | not part of the design |

Interaction. A `ZonedWritableFile` calls its `ZoneFile`; that asks
`ZonedBlockDevice` for zones, submits appends through `SZDOnceLog`, and calls back
into `ZenFS` (`MetadataWriter::Persist`) each time it gets a zone, on `Fsync` and
on `Close`. All files share the zone flags, the tokens and the metadata log.

Hard behaviours: appends completing in any order; a syncing thread beside an
appending one (`IsSyncThreadSafe` is true); crashes with metadata ahead of or behind
the device; allocators scanning the same zones with try-locks; tokens taken and
returned in different functions; one condition variable for two classes of waiters;
extent lists replaced while files are read, renamed, deleted and logged.
`PROJECT.json` lists each hazard at its line.

## 2. Modules

### ZWal.tla - the write path
One `.log` file: buffered, sparse, in the mount that created it. Two threads: one in
`Append`, one in `Sync`, `Fsync` or `Close`; a file is closed when no append is running.

* *Units.* Payload is counted in units, block-aligned quantities in blocks. A unit is
  its position in the application's stream, so "the right bytes" is "the right
  numbers". The padding `memset` and the `memmove` of the buffer are modelled by
  what they do to those numbers. All zones of the file form one line of addresses.
* *Device.* `SparseAppend` puts an entry into `inflight`, at most `Depth` of them;
  `Land` moves any of them to the device's write pointer. `Sync` of the
  `SZDOnceLog` is "nothing in flight". Data is copied at submission.
* *Steps.* `SparseAppend` is one turn of the C++ loop up to the test for a full zone;
  `SparseBarrier`, `ZoneFull` and `FlushReturn` are the places where the loop
  waits or ends. `buffer_mtx_` says who runs the flush. `DataSync` is
  `DataSyncWALSync` (outside of the mutex) and then `DataSyncLock`, in that order, as in the code.
* *Errors.* A refused submission (`SparseAppendError`), a barrier whose `WALSync` fails and is returned (`SparseBarrierError`), no free group
  (`FlushBufferNoSpace`, `ZoneFullNoSpace`), and a metadata record that is refused wherever the code persists: `FlushBufferUnlogged` and
  `ZoneFullUnlogged` (the zone stays active, the flush fails), `FsyncUnlogged`, `CloseWRUnlogged` (the file stays open). Appends that were accepted
  and fail later are not modelled: `DataSync` ignores the status of `WALSync` (1625), `CloseActiveZone` overwrites that of `Sync` (441-448).
* *Metadata.* `meta` is what a mount would find; `PersistMetadata` is atomic here.
* *History.* `repeated` says that a flush failed behind an entry of its own whose units are still in the buffer: `buffer_pos` is not moved, and the next flush writes them again.

### ChunkLog.tla - what recovery relies on
Entries are numbered as they are submitted, complete in any order in the chunk that is being filled,
and the log goes on to the next chunk only when nothing is pending. `ZWal` implements it
(`ImplementsChunkLog`): the sequence number is `wal_seq_`, the chunk `wal_syncs_`, what is pending the numbers
in flight, and what is done the entries on the device with the chunk *of their address*. So the
refinement says that buffers, zones, groups, padding, refusals and concurrent syncs never let an
entry land in another chunk than the one the barrier counter speaks of.

### ZWalRead.tla - crash, mount, read-back
Extends ZWal. `Crash` forgets memory and what is in flight. `Mount` decodes the file
(`DecodeFrom`; which prefix of the extents came with the file's own record is a choice)
and runs `Recover`; `RecoverSparseExtents` walks from entry to entry, with the 8-byte
header the code uses on a decoded file. The reader is a state machine with the
code's three calls of `TryRecoverWAL`; `RecoverWALChunk` decodes up to the first
padded entry and sorts by sequence number, which is what the code's stepping does.
Padding that is shorter than a length field (`ShortPadding`) makes the code decode the next length from the padding and from what
follows it, so anything may come out. Reading memory that is no entry, and that case, go to `pc = "garbage"`.

### ZoneAlloc.tla, MCZoneAlloc.tla - zones and tokens
Threads create, fill, close and delete files; each works on one at a time and hands
its content over in one piece (more pieces only repeat the loop). A scan takes one
step to acquire a zone and one to look at it, so try-locks of other scans fail as they do in the code. `owe` stands for the
`PutActiveIOZoneToken` that follows as a call of its own. `WriteZone` and `Account`
separate the moment the write pointer moves from the moment `used_capacity_` counts it.
`CloseActiveZone`, `PutOpenIOZoneToken` and `PutActiveIOZoneToken` are separate steps. Logs use the WAL zones in
groups of `GroupZones`; the next zone of a group is given without flag or tokens, as in the code. `wp_` is
the host's view: for WAL zones the device is reset by the log itself.
The build is taken as the release build: asserts do not stop the program.
`MCZoneAlloc` only names the threads and their symmetry (used for safety runs only).

### MetaLog.tla, MCMetaLog.tla - namespace and metadata log
A call (`OpenWritableFile`, `DeleteFile`, `RenameFile`, `LinkFile`, `SyncFileMetadata`) holds
`files_mtx_` from its beginning to its end, so one runs at a time. Its steps are the
call, the change of `files_` and the link names (`DeleteFileNoLock`, `OpenNewFile`, `RenameFileNoLock`, ...;
for a replaced file the deletion first), the write of the record, and what follows its success
(`DeletePersisted`, `OpenPersisted`, `UpdatePersisted`) or failure (`DeleteFailed`, `RenameFailed`, ...).
When the zone has no room for the record the log rolls, one step to each write: `AllocateMetaZone`,
`WriteEndRecord`, `FinishOldZone`, `AddSuperblock`, `WriteSnapshotLocked`, `SnapshotSynced`, `ResetOldZone`.
A crash may come between any two; `CrashInSnapshot` comes inside a snapshot of several blocks.

* *Data.* A path is a model value; a file is its ID, link names and list of extents; a record is
  what it encodes. An update has the extents behind `nr_synced_extents_`, a snapshot all. A record
  takes one block, a snapshot a block for every `FilesPerBlock` names.
* *Reading.* `RecoverFrom` applies `DecodeRecord` to the records of a zone, one behind the other (`Decoded`); `Recovered` is what
  `Mount` finds: the newest zone with a superblock and a snapshot. `Mount` itself rolls.
* *Writers.* `PushExtent` adds an extent to a file at any moment but inside the file's own `SyncFileMetadata`, since writers do not take `files_mtx_`.
* *Errors.* A refused write writes nothing; the end record may be refused too, and nobody looks. A zone whose first record is no superblock makes
  the mount fail (`Misplaced`). Failures of reset and finish are left out.
* *History.* `durable` is the namespace that the finished records amount to, `goal` the one with the
  running record. `trusted` is FALSE behind the four events after which the code keeps no promise (below). `overtaken` has the files that
  grew between the encoding of a record or snapshot with them and `MetadataSynced`, until the next snapshot.

### DurableNames.tla - what the namespace promises
A call changes the durable namespace in one step, or in two when it must remove a file that is in the
way first; failures and crashes leave it behind one of those steps; new files get an ID no
file has. `MetaLog` implements it (`ImplementsDurableNames`), with the namespace mapped to `durable` while `trusted`
(`NamespaceSurvives` ties `durable` to what a mount reads), the call to the running one, and
`lost` to `~trusted`.

### Migration.tla, MCMigration.tla - garbage collection
The collector beside a writer, readers, renames and deletions of ordinary files. An extent is a zone,
a first slot and a length in slots; the k-th slot of file f holds the datum `<<f, k>>`, so that
whatever is read from a wrong or reset place shows. An allocation (`AllocateNewZone`, which persists), a write with the `push_back` of its extent
(`BufferedAppend`), the update of `extent_start_`, use and size behind it (`BufferedAppendDone`),
`CloseWR` up to its record, the rest of it (`CloseWRDone`) and `CloseActiveZone` are steps of their own; `DeleteFile` and `RenameFile` change the namespace and reset unused
zones later (`ResetUnused`). The collector takes one step wherever the code lets another thread in: the choice of zones
(`GCWorker`), the snapshot of files, the look-up of a name, the WR lock, the target zone, the copy, the check that the name
is still there, `WriteLock`, the swap, `MetadataUnsynced`, the record, the decrease of the use, and the reset of zones.
`PositionedRead` reads extent by extent under `ReadLock`.

* *Persisting.* Two steps. A record is added, or the log rolls and a snapshot of all files takes its place (that choice
  is free: when a zone is full is `MetaLog`'s subject), or it is refused; then `MetadataSynced` marks the files that were written. In between
  the call holds `files_mtx_`, and writers, which do not take it, push extents. `logged` is what a mount would find.
* *Copying.* A copy may fail (`MigrateDataError`): fewer slots than the extent has come to the target, and the new list is used all the same, as the
  code drops the status. `LeaveExtent` may be taken at any time: a zone with room may be held by another scan for a moment.
* *Crash.* One step with the mount behind it: `MergeUpdate`, `Recover` of the extent that was being written, roll,
  and reset of unused zones. Only crashes in the middle of a migration are looked at.
* *Users.* A file has one name; no file is created or renamed in place of another (`MetaLog`'s subject), closed empty, read while it is
  written, or deleted while it is read; no file is reopened while it is migrated (the code then deadlocks, see the hazards).
  Zones have no tokens here.
* *History.* `misjudged` has the files of which the log says something else than the list or `nr_synced_extents_`: their extent was pushed while a record
  with them was encoded, written or marked; another call emptied their replace record, or it was refused; or a copy failed (`uncopied`).

`MCMigration` names the paths.

### Proofs (section 5)
Of ZWal: `ZWalProofs.tla` (types and control, order, durability of syncs, the chunked log) and
`ZWalExtentProofs.tla` (extents and contents). Of ChunkLog: `ChunkLogProofs.tla`. Of ZWalRead: `ZWalReadProofs.tla`.
Of ZoneAlloc: `ZoneAllocProofs.tla` (types, exclusion, data, groups, open tokens).
Of Migration: `MigrationControlProofs.tla` (names, locks and lists) and `MigrationProofs.tla` (use of zones, contents, log and reads).
Of MetaLog: `MetaLogProofs.tla` (types, namespace, extents, the refinement of DurableNames).

## 3. Runs

Passing:

| Run | Shows | Bounds and why they suffice |
|---|---|---|
| ZWalOrder | types, `BarrierOrder`, `ChunkAligned`, `SyncDurable`, `ImplementsChunkLog` | zones of 3 blocks and barriers of 4, so barriers, zone ends and entry ends fall apart in every way; 3 appends in flight; two groups; a group that is not there; a refused metadata record |
| ZWalDefault | `FaithfulEntries`, `ExtentsFollowSeq`, `CloseDurable`, `ActiveExtentOnDevice`, `SyncReturns`, `AppendReturns` | flushes of one block (no split at a barrier, as with aligned flushes), a refused append or failed barrier and a refused metadata record, zone crossing inside one group, queue of 3, `Sync` and `Close` beside `Append`; no `Fsync`: the cases outside are described below |
| ZWalReadCrash | `ReadBack`, `CrashPrefix`, `ReaderTerminates` | 5 full entries and a short one in 2 chunks and 2 zones in any order, closed, or with a crash at any point; blocks of 6 units with length fields of 2, so that the padding behind the last entry is missing, short, or long; reads of 3 units that end inside and at the end of entries |
| ZoneAllocMixed | `TypeOK`, `ZonesExclusive`, `DataKept`, `OpenTokensReturned`, no deadlock | 2 threads with ordinary files and 1 with logs, 2 IO zones and 1 WAL zone, 3 open and 2 active tokens, finish threshold on: every branch of the allocator, and allocators that sleep |
| ZoneAllocGroups | `GroupsExclusive`, `ZonesExclusive`, `DataKept`, `OpenTokensReturned` | 2 logs, 2 groups of 2, zones of one block, token drift bounded by `MaxDrift` |
| MetaLogCrash | `TypeOK`, `NamespaceSurvives`, `SyncedExtentsLogged`, `ImplementsDurableNames` | 2 names, 2 file IDs, 3 metadata zones of 4 blocks, so that nearly every second record rolls and snapshots of two files need two blocks; 2 crashes, so that a mount's own roll is cut off too; one refused write; extents added beside every step of a call |
| Migration | `TypeOK`, `ContentSurvives`, `UsedCapacityExact` | 2 names, 2 files of up to 2 extents, 2 zones of 2 slots, so that a zone with garbage and a target with room need each other and every reset zone is used again; one crash, refused record or failed copy anywhere in a migration; no reader, as readers change nothing these are about |
| MigrationReaders | `ReadsContent`, `MigrationEnds`, `ReadReturns` | the same zones and files under one name, and 1 reader |

Deadlock is checked in ZoneAllocMixed. It is not where the system may stop: all of the bounded stream is written
(ZWal, ZWalRead), all logs spin or the drift bound is reached (ZoneAllocGroups), the sequence number is
at its bound, the crashes are used up or the file system cannot be mounted (MetaLog), or no file ID or extent is left (Migration).

Violations, each of a statement in the code's own comments (quoted in `PROJECT.json`):

| Run | What happens |
|---|---|
| ZWalSync | `DataSync` waits for appends first and flushes the buffer afterwards: `Sync` returns before its data is durable |
| ZWalReadPadded | the reader steps over entries without their padding and loses what is behind a padded entry |
| MetaLogCreate | a file whose creation makes the metadata log roll is in no record: the snapshot that replaces its record is taken before the file is in `files_` |
| MigrationReplace | a roll between `MetadataUnsynced` and the replace record of a migrated file marks its extents as synced again: the replace record is empty, and a mount finds the file without extents |

What follows from these and from other instances, and limits the passing runs:

* since `DataSync` does not wait for what it flushes, `Fsync` persists an active extent start
  beyond the device's write pointer (a crash then fails the mount), and `CloseWR` persists the
  file as closed before its last appends are durable. `ZWalDefault` therefore has no
  `Fsync`, and `CrashPrefix` names the moment inside `Close` that it leaves out;
* a flush that fails behind an entry of its own is repeated as a whole: the allocation or the record of the next zone
  failed at the end of a zone, or, with larger buffers, a later piece was refused. `FaithfulEntries` and `CloseDurable` are about logs without such a repetition (`repeated`);
* a flush of several blocks that is cut at a barrier does not move the buffer up (`io_zenfs.cc:1285` against 1332-1336): the second piece repeats the first.
  `FaithfulEntries` fails with `BufferBlocks = 2`; ZWalDefault has flushes of one block, the default;
* recovery takes the header of a log's entries for 8 bytes instead of 16 (`io_zenfs.cc:1403`; `is_wal_` is not set on a decoded file). With flushes of two blocks it steps over
  an entry by a block too few, the mount fails and `CrashPrefix` with it; in one block both headers come to the same;
* a new zone whose metadata record was refused stays active and is never logged (`io_zenfs.cc:1167`, 1255): with `MaxUnlogged = 1` a mount finds nothing of the entries in it, against `CrashPrefix`;
* `ReadBack` and `CrashPrefix` leave out logs with padding shorter than a length field (`ShortPadding`): what is decoded behind it is not determined;
* a log that goes on to the next zone of its group takes no tokens but returns them, so
  the counters drift below the truth, without bound, and the limits of the device are not kept: with groups of three zones, as in the code, and two open tokens TLC finds
  three zones open. No property says that they are. `MaxDrift` bounds the drift;
* that next zone is not acquired either, so `ReleaseUnusedWALZones`, run by another log, may rewind
  it behind the first append: `ZonesExclusive` and `DataKept` are about the zones that are acquired (`Heads`): the IO
  zones and the first zone of every group, which is all zones when groups have one;
* allocation need not end: a file that ends exactly at the end of a zone is closed on an empty
  zone and keeps an active token, and with all tokens lost `AllocateIOZone` spins; and `notify_one`
  may wake an ordinary allocator that may not take the last open token while a log that may sleeps
  on. No liveness property of ZoneAlloc is stated. With as few open tokens as logs plus one there is a deadlock
  (`zbd_zenfs.cc:1076`): a log takes the last open token and spins for the active token of
  a zone whose writer waits for an open token. ZoneAllocMixed therefore has one open token more;
* `NamespaceSurvives` and `SyncedExtentsLogged` hold, and `ImplementsDurableNames` promises something, while `trusted`: not behind a creation that a roll
  has dropped, not behind a roll that failed after the swap of the logs (later records
  go to a zone without a snapshot), not behind an end record that was refused (the zeros behind the last record of the finished zone
  read as corruption), and not behind a snapshot torn by a crash (`RecoverFrom` reports
  corruption and `Mount` does not go on to the older zone). A mount that finds names and links in agreement
  trusts again;
* `SyncedExtentsLogged` has writers beside every call and roll; it leaves out a file with an extent that was added between the encoding of a record or snapshot and `MetadataSynced` (`overtaken`), until a snapshot has it: that extent counts as synced and is in no record;
* `ContentSurvives` leaves out the files in `misjudged`: those of MigrationReplace; those with an extent pushed between the encoding of their record and
  `MetadataSynced` (it is in no record), or in the list when the record was encoded and `extent_start_` not yet behind it (a mount adds it twice); those whose replace record was
  refused (the list has been swapped and counts as not synced, the log has the old one, and the file's next update adds the new extents behind the old);
  and those with an extent that could not be copied. `ReadsContent` leaves out the last, and all of them
  behind a crash. `UsedCapacityExact` stops at a refused record, after which the old extents stay counted.

## 4. Fairness

ZWal assumes that a thread inside a call keeps running and that the device completes
what it accepted (weak fairness of `BufferedWrite`, `Flush`, `SyncStep`, `LandSome`).
Calls, errors and crashes need not happen. ZWalRead adds weak fairness of mount and
reader. Migration assumes that the collector goes on within a round (weak fairness of `Collect`), that a call that has written its record
goes on (`MetadataSynced`), and that a reader goes on within a read; nothing has to start a round or a read. The collector gets `files_mtx_` if it is free again and
again (strong fairness of `TakeFilesMutex`). A reader that waits for `writer_mtx_` gets it if it is free again and
again (strong fairness of `ReadLock`, what a mutex gives). The collector's wait for `readers_` to fall to
zero is a spin with the mutex held, so it needs no such assumption: no new reader gets in meanwhile.
ZoneAlloc and MetaLog state no fairness: only safety is checked of them.

## 5. Proofs

All theorems are for all values of the constants that satisfy the named assumptions: positive sizes, a
header smaller than a block, the `static_assert` that the barrier is a multiple of the buffer, finitely many threads.
Where a theorem needs more, it says so in an `ASSUME` of its own, and none of these hypotheses can be dropped: for each, TLC finds the
property violated in a small instance without it.

### The write path

* `TypeCorrect`, `TypeOKCorrect` (ZWalProofs): types, strengthened to `TypeInv` by what keeps
  the sizes positive: while the loop runs there is an active zone with room, and
  the barrier counter is at most a barrier. That is what makes `WrSize` larger than a header.
* `BarrierOrderCorrect`, `ChunkAlignedCorrect`, from `BarrierInv`:
  `Pointers` (host and device write pointers differ by exactly the blocks in flight, and the barrier counter is the
  host pointer minus the last barrier, a multiple of the barrier size),
  `SinceBarrier` (what is in flight was submitted behind the last barrier), `InItsChunk` (entries land in the chunk the host sent them to,
  although not at the address it believed), `ChunkAligned`, and `SeqFollowsHost` (sequence numbers
  follow the host's addresses). Entries of different chunks are then ordered by their host
  addresses, hence by sequence number. The order alone is not inductive: it says
  nothing of what is in flight.
* `SyncDurableCorrect`, from `SyncInv`: once a sync is past `WALSync`, everything in
  flight is behind the offset it started from.
* `ExtentsFollowSeqCorrect` (ZWalExtentProofs), from `ExtentInv`: there are as many extents as entries. A new entry has the
  largest sequence number, so its rank is the index of the extent pushed with it, and no rank before it changes.
  A refused append uses up a sequence number and pushes no extent, which leaves ranks alone.
* `ActiveExtentOnDeviceCorrect`, for applications without `Fsync` (with it the property fails, section 3), from `StartInv`: a file
  without an active zone has nothing in flight, and `ZoneFull` waits for the device, so where a zone is allocated the two write pointers meet
  (`Pointers` with nothing outstanding).
* `FaithfulEntriesCorrect`, `CloseDurableCorrect`, for `BufferBlocks = 1` (the default; section 3 says what happens with larger buffers), any number of refused appends, barriers, allocations and records, from `~repeated => ContentInv`:
  * `OneBlock`: a flush is one entry, as a full buffer with its headers fits in front of every barrier and zone end, so
    `left` is the whole buffer or nothing and the padding stays outside of it; between flushes the buffer holds what comes
    behind `file_size_`, and behind the one write of a flush `file_size_` has caught up;
  * `Covered`: every unit of the file is in an entry;
  * `Closing`: a close that gets past `DataSync` found the buffer empty, and nothing runs behind it;
  * `Extended`: a full zone has an entry in it, so that a flush that fails there has one to repeat, and `repeated` is set;
  * the exception is a file that has used up all zones (`Stuck`): its buffer still has what is on the device already. It never
    gets a zone again, and it is never closed, because its buffer never gets empty.
* `ImplementsChunkLogCorrect` (ZWalProofs): the write path implements `ChunkLog`. An accepted append
  is a `Submit`, a refused one a `Refuse`, a landing a `Complete`, the barrier a `NextChunk`, and every
  other step changes nothing. The two steps with content rest on `BarrierInv`: what lands, lands in chunk `wal_syncs_`
  (`LandingChunk`, from `Pointers` and `SinceBarrier`), and numbers in flight are distinct (`SeqFollowsHost`), so one completion removes one.
* `ChunksSortedCorrect` (ChunkLogProofs): in *any* log with that discipline, sorting chunk by chunk sorts all. Its
  inductive invariant says that what is done has a chunk no later than the current one, and that pending
  numbers are greater than all numbers of earlier chunks.

### Reading a log back

`ReadBackCorrect`, `CrashPrefixCorrect` (ZWalReadProofs), for logs of `FullBlocks`: the default buffer of one block, no `Sync` or `Fsync` that
submits one that is not full (with one the reader stops behind the padding, run ZWalReadPadded), one group of zones (the reader opens
the last group of a longer log; in one group the next zone is refused only where there are no more, `RefusedForever`), and no refused metadata
record (section 3). For every order of landing, refused appends, crashes, sizes of blocks, zones, barriers and reads.
From `ReadInv`, which has a part for each phase:

* while the log is written, `RunInv`: entries are one block each, the i-th with the i-th extent (`Layout`); a short one is the last, with nothing beside it
  in flight (`LastOnly`, for which `Calls` says who may flush); the device has one entry at each address below its write pointer (`Device`);
  the active zone is the one the next entry goes to (`Zoned`); and the metadata has the extents up to the beginning of the active zone, or
  all of them behind `CloseWR` (`Persisted`);
* what a crash leaves, `LogInv`: entries lie in the chunk the host sent them to, sequence numbers follow host addresses, and the extents in
  the metadata have the *lengths* of the entries at their addresses. This is why recovery may pair by address and the reader by rank although
  appends land in any order: all entries but the last have the same length, and a short one lands last and has the highest rank;
* `Recovering`: `RecoverSparseExtents` has found an entry at each address so far, so it never takes payload for a header;
* the reader: what is loaded is a whole chunk in the order of sequence numbers, and *as far as the log has no gap* entry i is the i-th of
  the log (`ChunkOf`); the position is in the chunk that is loaded or at its end, where the next is loaded (`Window`, `Within`); what was read
  is the stream as far as there is no gap (`Content`); and in each step of a read, extent, offset and number of units read agree (`Idling`,
  `Looking`, `Copying`, `Returning`).

The argument about gaps (`GaplessRank`): the entries read with a chunk are those whose host addresses are in it, so if all in front of one
are on the device, its rank in the chunk is its host address in the chunk. `DurableSize` is the converse: the gap-free beginning is no longer than
the file a mount recovers, as entries that are all different would need more blocks than there are.

Sorting is by rank (`SortBySeq`: the entry with i - 1 smaller numbers comes i-th) and `Total` sums with a recursive function, so the data
needs no induction over an operator: ranks are cardinalities, and sums are had from the well-founded subsets used for the metadata log
(`Induction`, `Sums`). `ReadInv` was checked by TLC on instances of the run ZWalReadCrash before it was proved.

### Zone allocation

Each inductive step is shown for one thread at a time: `Elsewhere` says that a step of a thread leaves the position, the
zones and the file of every other alone.

* `TypeCorrect` (ZoneAllocProofs), from `TypeInv`: for each thread `Control` ties its place in the code to what it holds. A zone looked at in a
  scan is the one the scan is at, a candidate lies before it, a file has an active zone exactly from allocation to closing, and
  ordinary files and logs keep to their own zones.
* `ZonesAreExclusive`: every step is a `Handover`: it takes only zones that are not busy or its own already, and leaves busy exactly
  what it and the others hold.
* `DataIsKept`, from `DataInv`: of every zone, what is counted *and what is written and not counted yet* (`Pending`) lies
  below the write pointer. `DataKept` itself is not inductive. A scan finds a zone between the write and its accounting
  unused, and only the exclusion theorem says that it cannot hold it then.
* `GroupsAreExclusive`, from `GroupInv`: a log that uses a zone of a group has data in the group's first zone, unless that is the one it
  uses. So the first zone, the only one that is acquired, is not empty, and with `DataInv` stays so, for as long as the group is in use.
* `OpenTokensComeBack`, from `OpenInv`: no more open tokens are out than there are threads at a
  place where the code has one (`OpenHolders`), and exactly as many where groups have one zone.

### Garbage collection

All four safety invariants of Migration, for any number of files, zones, slots, extents and readers, any thresholds and any
number of crashes, refused records and failed copies. Assumed are finitely many names, none of them the "no file" value, finitely many readers, and positive
sizes; nothing is assumed of who is scheduled.

* `MigrationControl` (MigrationControlProofs): `Control`, what locks and namespace guarantee, without a word about data. Names
  belong to one file each (`Names1`); the WR lock and a busy zone have one owner, the writer or the collector (`WRLocks`);
  `readers_` counts the readers in their critical section, and `writer_mtx_` is held exactly while the collector replaces a list (`RWLocks`);
  the collector's list differs from the file's only in front of the extent it is at, and never in lengths (`Lists`); only the
  file being written has an active extent (`Active`); and a thread that is yet to mark files as synced holds `files_mtx_`, at a place behind its record (`Mutex`). All else rests on it: that a target zone still has room
  when the copy is made, for instance, is `WRLocks` (nobody else writes it) with `Lists` (it had room when it was taken).
* `MigrationTypes`, `MigrationCountsUse`, `MigrationKeepsContent`, `MigrationReads` (MigrationProofs), from one invariant `Inv`. They cannot
  be had one by one: contents stay because zones in use are not reset, and use is counted right because lists, old lists and log
  agree. Its parts beside `Control`:
  * `Capacity`: `used_capacity_` is never less than what the file lists and the collector's second list count, and is exactly that until a
    record or a copy is refused; an extent just pushed is not counted yet (`Uncounted`). The inequality is what is needed: a zone a list points into is not found unused;
  * `Opened`: the extent being written starts at the write pointer of a zone that its writer holds, or that the file has an
    extent in already. This covers the moment between `AllocateNewZone` and the first byte, when no list counts the zone;
  * `Ranges`: until a record or a copy is refused, extents, of misjudged files too, lie below the write pointers, and what the log has of a file is among
    the extents its lists have. So a mount, which resets by the log, resets nothing that memory uses;
  * `Contents`: a list that may be read holds its file's data in order: the file's, the collector's in work, the old one
    behind the swap, and in "check" the copy at the end of the target zone that no list has yet;
  * `Log`: of a file that is not misjudged, the log has the extents that count as synced, or, while `MetadataSynced` is outstanding, will do so (`Seen`);
    `nr_synced_extents_` itself lags behind only while the file is written or the collector is about to mark it (`Lagging`), and between the swap and the
    replace record the log has either list as a whole.
    The active extent reaches from where the record says to the write pointer, over an extent the writer has just pushed;
  * `Reads`: a reader has what comes in front of the extent it goes on with, in the list as it is *now*. Lengths are not
    changed by a swap, so its position stays right across one.

  `Inv` was checked by TLC on the instance of the run Migration before it was proved. The slots of a list are counted as cardinalities of
  sets of pairs (`Slots`, `Before`, `Moved`), so no induction over lists is needed: the lemmas say what a cardinality is when a list grows, is cut, or
  has one extent replaced.

### Metadata log

All properties of MetaLog, for any number of names, files, extents, records, crashes and refused writes. Assumed are two metadata zones or
more, finitely many names, and zones large enough for a superblock and a snapshot of all names.

* *Reading a log.* `Decoded` is a recursive function over the records. That it is defined at all, and that
  one more record is one more `DecodeRecord` (`DecodedAppend`), needs induction over the number of records; it is had from the fact that the proper
  subsets of a finite set are well-founded (`Smallest`, `Induction`), which takes no operator as a parameter. All else is shown one record at a
  time: what an update, a deletion and a snapshot make of a decoded state in which every file has exactly
  the names it is linked to, each once (`UpdateKnown`, `UpdateUnknown`, `DeletionKnown`, `SnapshotOfMemory`).
* `MetaLogTypes`, from `Control`: a call has its arguments and the record that fits it (`Calling`); IDs that have not been given
  out are nowhere (`Numbers`); a roll fills another zone than the one it leaves, and how far it has got (`Rolling`, from which the room for
  superblock and snapshot follows); what is decoded of a zone says nothing of files no record is about (`Decodable`, from which `Mount`
  gives out IDs that are new).
* `MetaLogNamespace`, from `Control` and, while `trusted`, `Trust`:
  * `AtHome`: one zone is newer than all others that have a snapshot, and decodes to `durable` with its links. While mounted it is the
    log's zone, or the old one until the new one has its snapshot; the next superblock is newer; and records added to it are
    read, as it is not ended. It is what makes every step of a roll invisible: `AllocateMetaZone` empties another zone, the end
    record and the zeros change nothing that was read, and a superblock alone does not make a zone a candidate;
  * `InMemory`: names and links in memory agree, except for a file being created. Without it a record could decode to `Corruption`;
  * `Ahead`: before a call changes memory, memory is what is durable, and the paths are as the call found them;
  * `Underway`: behind the change, `durable` is memory with the change taken back (`Undone`) until the write, and the call's goal
    behind it. So a rollback ends where `durable` is. The exception is a file whose creation makes the log roll: the
    snapshot does not have it, which is the finding of MetaLogCreate.
* `MetaLogExtents`, from these and `Extents`: of a file with a durable name that is not `overtaken` the log has a prefix of the extents in memory, exactly
  `nr_synced_extents_` of them except between the write and `MetadataSynced`; an update that is not in the log yet has just those behind. So `MergeUpdate`
  adds up to what memory has, extents pushed before the encoding or behind `MetadataSynced` included, and a file whose creation failed, or that lost its last link, starts at nothing again.
* `MetaLogImplements`: a call begins as `Call`; the write of its record, or of the snapshot that takes its place, is `Unlink` or `Enter`
  (`Pending`: it turns `durable` into what the abstract step says); a return, a rollback or a crash is `End`; giving up `trusted` is `Lose`
  and a mount that trusts again `Regain`; everything else changes nothing, the mount because it finds `durable`.

`Trust` and `Extents` were checked by TLC on instances of the run MetaLogCrash before they were proved.

### Only model-checked

Liveness: `SyncReturns`, `AppendReturns`, `ReaderTerminates`, `MigrationEnds` and `ReadReturns` (fairness and ENABLED are outside the prover). Every
invariant a passing run checks is stated by a theorem.

## 6. Not modelled

* Write path: direct writes, `PositionedAppend`, `Truncate`, `RangeSync`, failed completions of appends, logs reopened for writing. Reading: logs of several
  groups (what `SZDOnceLog` keeps of the earlier groups is outside of the repository), random reads, several readers of one log.
* Zones: device errors on ordinary files, mounts with zones in use, tokens of migration zones.
* Metadata log: read-only mounts, superblock compatibility, crashes inside `MkFS`. Namespace: directories and the auxiliary
  file system, the status a call returns (a rename or link that was rolled back returns OK).
* Garbage collection: several links to one file, sparse files (only `.sst` files
  are migrated). `src/zenfs-appends/README.md:177-178` says that there is no garbage collection; the code
  starts `GCWorker` when it is switched on, and that code is what `Migration` follows.
* Backends (system calls), metrics (counters for reporting), the `zenfs` utility (argument parsing and copies), and `src/zenfs-default`,
  the unchanged upstream baseline kept for measurements.
* Vendored RocksDB (several copies) and YCSB are nearly all of the repository's lines. They use ZWAL and are no part of it; the
  modules cover the three files that make up the file system, `io_zenfs.cc`, `zbd_zenfs.cc` and `fs_zenfs.cc`.

`PROJECT.json` says of each hazard without a property why it has none.

## 7. Plan

Done: ZWal with ChunkLog, ZWalRead, ZoneAlloc, MetaLog with DurableNames, Migration; the safety properties of all of them are proved. Next:

1. Files deleted while they are open, in MetaLog.
2. Tokens of migration zones in ZoneAlloc; mounts with active zones.
3. Logs that span groups in ZWalRead.
