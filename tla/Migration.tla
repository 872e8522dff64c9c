------------------------------ MODULE Migration ------------------------------
(***************************************************************************)
(* Garbage collection (GCWorker, GetZenFSSnapshot, MigrateExtents and      *)
(* SyncFileExtents in zenfs-appends/fs/fs_zenfs.cc, MigrateData and        *)
(* ReplaceExtentList in io_zenfs.cc) beside the threads that write, read,  *)
(* rename and delete files, with crashes and mounts.                       *)
(*                                                                         *)
(* An extent is a zone, its first slot there and its length in slots.  The *)
(* k-th slot of file f holds the datum <<f, k>>.  A file has one name (all *)
(* names stand for .sst files) and is read and deleted by its users only   *)
(* while it is not being written, and not deleted while they read it.      *)
(* PersistRecord is two steps here: the record is added, or the log rolls  *)
(* and a snapshot of all files takes its place, or it is refused; then the *)
(* files written count as synced (MetadataSynced).  Module MetaLog has the *)
(* writes one by one.  logged is what a mount would find.                  *)
(***************************************************************************)
EXTENDS Integers, Sequences, FiniteSets, SequencesExt

CONSTANTS
  Names,            \* the paths in use
  TempNames,        \* those that files are renamed from, to others
  Readers,          \* threads that read files
  IOZones,          \* number of IO zones
  ZoneCap,          \* their capacity, in slots
  Lengths,          \* slots written at a time
  MaxExtents,       \* bound: extents of a file
  MaxId,            \* bound: file IDs given out
  GC_START_LEVEL, GC_SLOPE,
  MaxFaults         \* bound: crashes, and records and copies the device refuses

Ids == 1..MaxId
NoFile == 0
Zones == 1..IOZones
NoZone == 0

ASSUME NameAssumption == TempNames \subseteq Names /\ NoFile \notin Names
ASSUME ReaderAssumption == IsFiniteSet(Readers)
ASSUME SizeAssumption ==
  /\ IOZones \in Nat \ {0} /\ ZoneCap \in Nat \ {0}
  /\ Lengths \subseteq 1..ZoneCap
  /\ MaxExtents \in Nat /\ MaxId \in Nat /\ MaxFaults \in Nat

\* The threshold of GCWorker does not wrap around.
ASSUME ThresholdAssumption ==
  GC_START_LEVEL \in 0..100 /\ GC_SLOPE \in Nat /\ GC_SLOPE * GC_START_LEVEL <= 100

VARIABLES
  \* the IO zones
  data, used_capacity_, busy_,
  \* ZenFS: the namespace, what a mount finds, the mutex: who holds it while the files of a
  \* record are yet to be marked as synced (otherwise it is held within a step only)
  files_, next_file_id_, logged, files_mtx_,
  \* ZoneFile
  extents_, nr_synced_extents_, file_size_, is_deleted_,
  extent_start_,    \* zone and slot of the active extent
  open_for_wr_, readers_, writer_mtx_,
  \* the thread that writes (its file, active_zone_, the length of an extent that is in the
  \* list and not counted yet), one that has deleted or renamed a file and is about to
  \* reset zones, the garbage collector and the readers
  writer, resetting, gc, reader,
  \* bounds; history: the files of which the log says something else than their lists or
  \* nr_synced_extents_, and those of them with an extent that could not be copied
  crashes, errors, misjudged, uncopied

device == <<data, used_capacity_, busy_>>
namespace == <<files_, next_file_id_>>
lists == <<extents_, nr_synced_extents_, file_size_, is_deleted_, extent_start_>>
locks == <<open_for_wr_, readers_, writer_mtx_>>
metadata == <<logged, files_mtx_>>
faults == <<crashes, errors, uncopied>>
vars == <<device, namespace, metadata, lists, locks, writer, resetting, gc, reader,
          faults, misjudged>>

-----------------------------------------------------------------------------
(***************************************************************************)
(* Zones                                                                   *)
(***************************************************************************)

capacity_(z) == ZoneCap - Len(data[z])
IsFull(z) == capacity_(z) = 0
IsEmpty(z) == data[z] = <<>>

\* The slots of zone z that the extents of a list take, as pairs of extent and slot
Slots(z, list) ==
  {s \in (DOMAIN list) \X (1..ZoneCap) : list[s[1]].zone = z /\ s[2] <= list[s[1]].length}
LengthIn(z, list) == Cardinality(Slots(z, list))

\* The slots of a list in front of its i-th extent, and all of them
Before(list, i) ==
  Cardinality({s \in (1..(i - 1)) \X (1..ZoneCap) : s[2] <= list[s[1]].length})
Total(list) == Before(list, Len(list) + 1)

\* The slots of zone z that a list takes with other extents than those at their place
\* in another list
Moved(z, list, other) == {s \in Slots(z, list) : list[s[1]] # other[s[1]]}

\* used_capacity_ as the extents of all files say it
Used(z, ext) == Cardinality(UNION {{id} \X Slots(z, ext[id]) : id \in Ids})

\* The zones a scan finds unused and can acquire are reset, the others left alone
ResetUnusedIOZones ==
  data' = [z \in Zones |-> IF ~busy_[z] /\ used_capacity_[z] = 0 THEN <<>> ELSE data[z]]

ClearExtents(id) ==
  used_capacity_' = [z \in Zones |-> used_capacity_[z] - LengthIn(z, extents_[id])]

-----------------------------------------------------------------------------
(***************************************************************************)
(* Persisting                                                              *)
(***************************************************************************)

NO_EXTENT == [zone |-> NoZone, start |-> 0]
NoRecord == [name |-> NoFile, ext |-> <<>>, size |-> 0, start |-> NO_EXTENT]
Live(files) == {id \in Ids : \E n \in Names : files[n] = id}
NameOf(files, id) == CHOOSE n \in Names : files[n] = id

\* EncodeUpdateTo: the extents that do not count as synced
Unsynced(id) == SubSeq(extents_[id], nr_synced_extents_[id] + 1, Len(extents_[id]))

Unlocked == [by |-> "none", ids |-> {}]
Free == files_mtx_ = Unlocked

\* The writer is between the push_back of an extent and the update of extent_start_
Pushed == IF writer.added > 0 THEN {writer.id} ELSE {}
\* The garbage collector is between its MetadataUnsynced and its record
Unmarked == IF gc.pc = "sync" THEN {gc.id} ELSE {}

\* A mount merges the update into what it has read of the file.  What a call changes
\* of the active extent it changes before it persists.
AddRecord(by, id, name, replace) ==
  /\ Free
  /\ logged' = [logged EXCEPT ![id] =
                  [name |-> name, size |-> file_size_[id], start |-> extent_start_'[id],
                   ext |-> (IF replace THEN <<>> ELSE @.ext) \o Unsynced(id)]]
  /\ files_mtx_' = [by |-> by, ids |-> {id}]

\* The snapshot has the files in files_
RollMetaZone(by, files) ==
  /\ Free
  /\ logged' = [id \in Ids |->
                  IF id \in Live(files)
                  THEN [name |-> NameOf(files, id), size |-> file_size_[id],
                        start |-> extent_start_'[id], ext |-> extents_[id]]
                  ELSE NoRecord]
  /\ files_mtx_' = [by |-> by, ids |-> Live(files)]

\* A roll marks one file after the other, its caller's once more: all at the last moment
MetadataSynced ==
  /\ ~Free /\ files_mtx_' = Unlocked
  /\ nr_synced_extents_' =
       [id \in Ids |-> IF id \in files_mtx_.ids THEN Len(extents_[id])
                       ELSE nr_synced_extents_[id]]
  /\ misjudged' = misjudged \cup (files_mtx_.ids \cap Unmarked)
  /\ UNCHANGED <<device, namespace, logged, extents_, file_size_, is_deleted_, extent_start_,
                 locks, writer, resetting, gc, reader, faults>>

\* The record of a file that is being changed says something else than its list
Race(ids, changing) == misjudged' = misjudged \cup (ids \cap changing)

PersistUpdate(by, id, name, files) ==
  \/ AddRecord(by, id, name, FALSE) /\ Race({id}, Pushed \cup Unmarked)
  \/ RollMetaZone(by, files) /\ Race(Live(files), Pushed \cup Unmarked)

PersistDeletion(by, id, files) ==
  \/ /\ Free
     /\ logged' = [logged EXCEPT ![id] = NoRecord]
     /\ UNCHANGED <<files_mtx_, misjudged>>
  \/ RollMetaZone(by, files) /\ Race(Live(files), Pushed \cup Unmarked)

Refused == crashes + errors < MaxFaults /\ errors' = errors + 1

-----------------------------------------------------------------------------
(***************************************************************************)
(* The users of the file system                                            *)
(***************************************************************************)

NoWriter == [id |-> NoFile, zone |-> NoZone, added |-> 0]
NoReader == [pc |-> "idle", id |-> NoFile, size |-> 0, ext |-> <<>>, got |-> <<>>]

\* The ZoneFile lives on while the garbage collector holds a pointer to it
Held(id) == gc.id = id
Read(id) == \E r \in Readers : reader[r].id = id

\* No user creates a file in place of another; module MetaLog has that case.
OpenWritableFile(n) ==
  /\ writer = NoWriter /\ files_[n] = NoFile /\ next_file_id_ \in Ids
  /\ next_file_id_' = next_file_id_ + 1
  /\ UNCHANGED extent_start_
  /\ PersistUpdate("writer", next_file_id_, n, files_)
  /\ files_' = [files_ EXCEPT ![n] = next_file_id_]
  /\ open_for_wr_' = [open_for_wr_ EXCEPT ![next_file_id_] = TRUE]
  /\ writer' = [NoWriter EXCEPT !.id = next_file_id_]
  /\ UNCHANGED <<device, extents_, nr_synced_extents_, file_size_, is_deleted_, readers_,
                 writer_mtx_, resetting, gc, reader, faults>>

\* AcquireWRLock is called with files_mtx_ held, which the garbage collector may need
\* before it releases the WR lock: no user reopens a file that is being migrated.
ReopenWritableFile(n) ==
  LET id == files_[n]
  IN  /\ Free
      /\ writer = NoWriter /\ id # NoFile /\ ~open_for_wr_[id] /\ ~Held(id) /\ ~Read(id)
      /\ Len(extents_[id]) < MaxExtents
      /\ open_for_wr_' = [open_for_wr_ EXCEPT ![id] = TRUE]
      /\ writer' = [NoWriter EXCEPT !.id = id]
      /\ UNCHANGED <<device, namespace, metadata, lists, readers_, writer_mtx_, resetting, gc,
                     reader, faults, misjudged>>

\* Any zone AllocateIOZone may return: module ZoneAlloc has how it chooses
AllocateNewZone(z) ==
  LET id == writer.id
  IN  /\ id # NoFile /\ writer.zone = NoZone
      /\ ~busy_[z] /\ ~IsFull(z)
      /\ writer' = [writer EXCEPT !.zone = z]
      /\ busy_' = [busy_ EXCEPT ![z] = TRUE]
      /\ extent_start_' = [extent_start_ EXCEPT ![id] = [zone |-> z, start |-> Len(data[z])]]
      /\ PersistUpdate("writer", id, NameOf(files_, id), files_)
      /\ UNCHANGED <<data, used_capacity_, namespace, extents_, nr_synced_extents_, file_size_,
                     is_deleted_, locks, resetting, gc, reader, faults>>

\* The extent is in the list before extent_start_ is behind it; no lock is held
BufferedAppend(length) ==
  LET id == writer.id
      z == writer.zone
  IN  /\ id # NoFile /\ z # NoZone /\ writer.added = 0 /\ Len(extents_[id]) < MaxExtents
      /\ extent_start_[id].zone # NoZone /\ files_mtx_.by # "writer"
      /\ capacity_(z) >= length
      /\ data' = [data EXCEPT ![z] = @ \o [k \in 1..length |-> <<id, file_size_[id] + k>>]]
      /\ extents_' = [extents_ EXCEPT ![id] =
                        Append(@, [zone |-> z, start |-> extent_start_[id].start, length |-> length])]
      /\ writer' = [writer EXCEPT !.added = length]
      /\ Race({id}, files_mtx_.ids)
      /\ UNCHANGED <<used_capacity_, busy_, namespace, metadata, nr_synced_extents_, file_size_,
                     is_deleted_, extent_start_, locks, resetting, gc, reader, faults>>

\* A full zone is closed; the next one is allocated at once, whether or not there is
\* more to write.
BufferedAppendDone ==
  LET id == writer.id
      z == writer.zone
  IN  /\ writer.added > 0
      /\ extent_start_' = [extent_start_ EXCEPT ![id].start = Len(data[z])]
      /\ used_capacity_' = [used_capacity_ EXCEPT ![z] = @ + writer.added]
      /\ file_size_' = [file_size_ EXCEPT ![id] = @ + writer.added]
      /\ writer' = [writer EXCEPT !.zone = IF IsFull(z) THEN NoZone ELSE z, !.added = 0]
      /\ busy_' = [busy_ EXCEPT ![z] = ~IsFull(z)]
      /\ UNCHANGED <<data, namespace, metadata, extents_, nr_synced_extents_, is_deleted_, locks,
                     resetting, gc, reader, faults, misjudged>>

\* No user closes an empty file, or one that has no zone yet.
CloseWR ==
  LET id == writer.id
  IN  /\ id # NoFile /\ extents_[id] # <<>> /\ writer.zone # NoZone /\ writer.added = 0
      /\ extent_start_[id].zone # NoZone
      /\ extent_start_' = [extent_start_ EXCEPT ![id] = NO_EXTENT]
      /\ PersistUpdate("writer", id, NameOf(files_, id), files_)
      /\ UNCHANGED <<device, namespace, extents_, nr_synced_extents_, file_size_, is_deleted_,
                     locks, writer, resetting, gc, reader, faults>>

\* The file is closed: the rest of CloseWR
CloseWRDone ==
  LET id == writer.id
  IN  /\ id # NoFile /\ writer.zone # NoZone /\ extent_start_[id].zone = NoZone
      /\ files_mtx_.by # "writer"
      /\ open_for_wr_' = [open_for_wr_ EXCEPT ![id] = FALSE]
      /\ writer' = [writer EXCEPT !.id = NoFile]
      /\ UNCHANGED <<device, namespace, metadata, lists, readers_, writer_mtx_, resetting, gc,
                     reader, faults, misjudged>>

CloseActiveZone ==
  /\ writer.id = NoFile /\ writer.zone # NoZone
  /\ busy_' = [busy_ EXCEPT ![writer.zone] = FALSE]
  /\ writer' = NoWriter
  /\ UNCHANGED <<data, used_capacity_, namespace, metadata, lists, locks, resetting, gc, reader,
                 faults, misjudged>>

\* The destination is a new name.
RenameFile(src, dst) ==
  LET id == files_[src]
      files == [files_ EXCEPT ![src] = NoFile, ![dst] = id]
  IN  /\ id \notin {NoFile, writer.id} /\ files_[dst] = NoFile /\ ~resetting
      /\ UNCHANGED extent_start_
      /\ PersistUpdate("user", id, dst, files)
      /\ files_' = files
      /\ resetting' = TRUE
      /\ UNCHANGED <<device, next_file_id_, extents_, nr_synced_extents_, file_size_,
                     is_deleted_, locks, writer, gc, reader, faults>>

DeleteFile(n) ==
  LET id == files_[n]
      files == [files_ EXCEPT ![n] = NoFile]
  IN  /\ id \notin {NoFile, writer.id} /\ ~resetting
      /\ ~Read(id)
      /\ UNCHANGED extent_start_
      /\ PersistDeletion("user", id, files)
      /\ files_' = files
      /\ is_deleted_' = [is_deleted_ EXCEPT ![id] = TRUE]
      /\ IF Held(id) THEN UNCHANGED <<used_capacity_, extents_>>
         ELSE ClearExtents(id) /\ extents_' = [extents_ EXCEPT ![id] = <<>>]
      /\ resetting' = TRUE
      /\ UNCHANGED <<data, busy_, next_file_id_, nr_synced_extents_, file_size_, locks, writer,
                     gc, reader, faults>>

\* The end of DeleteFile and RenameFile
ResetUnused ==
  /\ resetting /\ files_mtx_.by # "user" /\ resetting' = FALSE
  /\ ResetUnusedIOZones
  /\ UNCHANGED <<used_capacity_, busy_, namespace, metadata, lists, locks, writer, gc, reader,
                 faults, misjudged>>

-----------------------------------------------------------------------------
(***************************************************************************)
(* PositionedRead of a whole file, extent by extent                        *)
(***************************************************************************)

PositionedRead(r, n) ==
  /\ reader[r] = NoReader
  /\ files_[n] \notin {NoFile, writer.id} /\ file_size_[files_[n]] > 0
  /\ reader' = [reader EXCEPT ![r] = [NoReader EXCEPT !.pc = "lock", !.id = files_[n],
                                                      !.size = file_size_[files_[n]]]]
  /\ UNCHANGED <<device, namespace, metadata, lists, locks, writer, resetting, gc, faults,
                 misjudged>>

MutReadLockTakesNoMutex(r) ==
  LET id == reader[r].id
  IN  /\ reader[r].pc = "lock"
      /\ readers_' = [readers_ EXCEPT ![id] = @ + 1]
      /\ reader' = [reader EXCEPT ![r].pc = "extent"]
      /\ UNCHANGED <<device, namespace, metadata, lists, open_for_wr_, writer_mtx_, writer,
                     resetting, gc, faults, misjudged>>

ReadLock(r) ==
  LET id == reader[r].id
  IN  /\ reader[r].pc = "lock" /\ ~writer_mtx_[id]
      /\ readers_' = [readers_ EXCEPT ![id] = @ + 1]
      /\ reader' = [reader EXCEPT ![r].pc = "extent"]
      /\ UNCHANGED <<device, namespace, metadata, lists, open_for_wr_, writer_mtx_, writer,
                     resetting, gc, faults, misjudged>>

\* The extent of the list that has the slot behind the first n, as a set
GetExtent(list, n) ==
  {list[i] : i \in {j \in DOMAIN list : /\ Before(list, j) <= n
                                       /\ n < Before(list, j) + list[j].length}}

NextExtent(r) ==
  IF Len(reader[r].got) < reader[r].size
  THEN GetExtent(extents_[reader[r].id], Len(reader[r].got)) ELSE {}
ReadIsOver(r) == reader[r].pc = "extent" /\ NextExtent(r) = {}

ReadNextExtent(r) ==
  /\ reader[r].pc = "extent"
  /\ \/ /\ \E e \in NextExtent(r) :
             reader' = [reader EXCEPT ![r].pc = "read", ![r].ext = e]
        /\ UNCHANGED readers_
     \/ /\ ReadIsOver(r)
        /\ reader' = [reader EXCEPT ![r] = NoReader]
        /\ readers_' = [readers_ EXCEPT ![reader[r].id] = @ - 1]
  /\ UNCHANGED <<device, namespace, metadata, lists, open_for_wr_, writer_mtx_, writer,
                 resetting, gc, faults, misjudged>>

\* What the device has in the slots of an extent
Content(e) ==
  [k \in 1..e.length |-> IF e.start + k \in DOMAIN data[e.zone]
                         THEN data[e.zone][e.start + k] ELSE <<NoFile, 0>>]

ReadDevice(r) ==
  /\ reader[r].pc = "read"
  /\ reader' = [reader EXCEPT ![r].pc = "extent", ![r].ext = <<>>,
                              ![r].got = @ \o Content(reader[r].ext)]
  /\ UNCHANGED <<device, namespace, metadata, lists, locks, writer, resetting, gc, faults,
                 misjudged>>

-----------------------------------------------------------------------------
(***************************************************************************)
(* GCWorker                                                                *)
(***************************************************************************)

\* pc, the zones to empty, the extents to migrate with their file's name; of the file
\* at work: name, ID, new and old list, place in the list, target zone and target_start
NoGC == [pc |-> "idle", zones |-> {}, todo |-> {}, fname |-> NoFile, id |-> NoFile,
         list |-> <<>>, old |-> <<>>, i |-> 0, target |-> NoZone, start |-> 0]

Sum(f) == FoldLeft(LAMBDA m, n : m + n, 0, [z \in Zones |-> f[z]])
GetFreeSpace == Sum([z \in Zones |-> capacity_(z)])
GetUsedSpace == Sum(used_capacity_)
GetReclaimableSpace ==
  Sum([z \in Zones |-> IF IsFull(z) THEN ZoneCap - used_capacity_[z] ELSE 0])

GCWorker ==
  LET non_free == GetUsedSpace + GetReclaimableSpace
      free_percent == (100 * GetFreeSpace) \div (GetFreeSpace + non_free)
      threshold == 100 - GC_SLOPE * (GC_START_LEVEL - free_percent)
      Garbage(z) == 100 - (100 * used_capacity_[z]) \div ZoneCap
      migrate_zones == {z \in Zones : IsFull(z) /\ Garbage(z) > threshold /\ Garbage(z) < 100}
  IN  /\ gc.pc = "idle" /\ free_percent <= GC_START_LEVEL /\ migrate_zones # {}
      /\ gc' = [gc EXCEPT !.pc = "files", !.zones = migrate_zones]
      /\ UNCHANGED <<device, namespace, metadata, lists, locks, writer, resetting, reader,
                     faults, misjudged>>

\* "Skip files open for writing, as extents are being updated"
GetZenFSSnapshot ==
  LET todo == {t \in [fname : Names, ext : UNION {ToSet(extents_[id]) : id \in Ids}] :
                 /\ files_[t.fname] # NoFile
                 /\ ~open_for_wr_[files_[t.fname]]
                 /\ t.ext \in ToSet(extents_[files_[t.fname]])
                 /\ t.ext.zone \in gc.zones}
  IN  /\ gc.pc = "files" /\ Free
      /\ gc' = IF todo = {} THEN NoGC ELSE [NoGC EXCEPT !.pc = "next", !.todo = todo]
      /\ UNCHANGED <<device, namespace, metadata, lists, locks, writer, resetting, reader,
                     faults, misjudged>>

\* MigrateExtents goes on to ResetUnusedIOZones after every file
Skip(fname) ==
  [NoGC EXCEPT !.pc = "reset", !.todo = {t \in gc.todo : t.fname # fname}]

\* "The file may be deleted by other threads, better double check."
MigrateGetFile(n) ==
  /\ gc.pc = "next" /\ Free
  /\ \E t \in gc.todo : t.fname = n
  /\ gc' = IF files_[n] = NoFile THEN Skip(n)
           ELSE [gc EXCEPT !.pc = "wrlock", !.fname = n, !.id = files_[n]]
  /\ UNCHANGED <<device, namespace, metadata, lists, locks, writer, resetting, reader,
                 faults, misjudged>>

\* Dropping the last pointer to a deleted file
Drop(id) ==
  IF is_deleted_[id]
  THEN ClearExtents(id) /\ extents_' = [extents_ EXCEPT ![id] = <<>>]
  ELSE UNCHANGED <<used_capacity_, extents_>>

TryAcquireWRLock ==
  /\ gc.pc = "wrlock"
  /\ \/ /\ ~open_for_wr_[gc.id]
        /\ open_for_wr_' = [open_for_wr_ EXCEPT ![gc.id] = TRUE]
        /\ gc' = [gc EXCEPT !.pc = "extent", !.list = extents_[gc.id], !.i = 1]
        /\ UNCHANGED <<used_capacity_, extents_>>
     \/ /\ open_for_wr_[gc.id]
        /\ Drop(gc.id)
        /\ gc' = Skip(gc.fname)
        /\ UNCHANGED open_for_wr_
  /\ UNCHANGED <<data, busy_, namespace, metadata, nr_synced_extents_, file_size_, is_deleted_,
                 extent_start_, readers_, writer_mtx_, writer, resetting, reader, faults,
                 misjudged>>

MutTargetZonesFull(length) == {z \in Zones : ~busy_[z] /\ used_capacity_[z] > 0}

\* GetBestOpenZoneMatch, with any lifetimes: zones in use that have room
TargetZones(length) ==
  {z \in Zones : ~busy_[z] /\ used_capacity_[z] > 0 /\ ~IsFull(z) /\ capacity_(z) >= length}

ToMigrate(e) == \E t \in gc.todo : t.fname = gc.fname /\ t.ext.zone = e.zone
                                   /\ t.ext.start = e.start /\ t.ext.length = e.length

TakeMigrateZone(z) ==
  /\ gc.pc = "extent" /\ gc.i \in DOMAIN gc.list
  /\ ToMigrate(gc.list[gc.i]) /\ z \in TargetZones(gc.list[gc.i].length)
  /\ busy_' = [busy_ EXCEPT ![z] = TRUE]
  /\ gc' = [gc EXCEPT !.pc = "copy", !.target = z, !.start = Len(data[z])]
  /\ UNCHANGED <<data, used_capacity_, namespace, metadata, lists, locks, writer, resetting,
                 reader, faults, misjudged>>

\* "Migrate extent not found", or "Migrate Zone Acquire Failed, Ignore Task.": the zones
\* with room may be held by other scans for a moment
LeaveExtent ==
  /\ gc.pc = "extent" /\ gc.i \in DOMAIN gc.list
  /\ gc' = [gc EXCEPT !.i = @ + 1]
  /\ UNCHANGED <<device, namespace, metadata, lists, locks, writer, resetting, reader, faults,
                 misjudged>>

MigrateData ==
  /\ gc.pc = "copy"
  /\ data' = [data EXCEPT ![gc.target] = @ \o Content(gc.list[gc.i])]
  /\ gc' = [gc EXCEPT !.pc = "check"]
  /\ UNCHANGED <<used_capacity_, busy_, namespace, metadata, lists, locks, writer, resetting,
                 reader, faults, misjudged>>

\* Reading or writing fails, MigrateFileExtents does not look at the status: fewer slots of
\* the extent have been copied than it has
MigrateDataError ==
  LET e == gc.list[gc.i]
  IN  /\ gc.pc = "copy" /\ Refused
      /\ \E n \in 0..(e.length - 1) : \E part \in [1..n -> ToSet(Content(e))] :
           data' = [data EXCEPT ![gc.target] = @ \o part]
      /\ gc' = [gc EXCEPT !.pc = "check"]
      /\ misjudged' = misjudged \cup {gc.id} /\ uncopied' = uncopied \cup {gc.id}
      /\ UNCHANGED <<used_capacity_, busy_, namespace, metadata, lists, locks, writer, resetting,
                     reader, crashes>>

ReleaseMigrateZone == busy_' = [busy_ EXCEPT ![gc.target] = FALSE]

MutExtentMigratedUncounted ==
  LET e == gc.list[gc.i]
  IN  /\ gc.pc = "check" /\ files_[gc.fname] # NoFile
      /\ gc' = [gc EXCEPT !.pc = "extent", !.i = @ + 1, !.target = NoZone,
                          !.list[gc.i] = [e EXCEPT !.zone = gc.target, !.start = gc.start]]
      /\ ReleaseMigrateZone
      /\ UNCHANGED <<data, used_capacity_, namespace, metadata, lists, locks, writer,
                     resetting, reader, faults, misjudged>>

\* GetFileNoLock is called without files_mtx_ and sees files_ at some moment
ExtentMigrated ==
  LET e == gc.list[gc.i]
  IN  /\ gc.pc = "check" /\ files_[gc.fname] # NoFile
      /\ gc' = [gc EXCEPT !.pc = "extent", !.i = @ + 1, !.target = NoZone,
                          !.list[gc.i] = [e EXCEPT !.zone = gc.target, !.start = gc.start]]
      /\ used_capacity_' = [used_capacity_ EXCEPT ![gc.target] = @ + e.length]
      /\ ReleaseMigrateZone
      /\ UNCHANGED <<data, namespace, metadata, lists, locks, writer, resetting, reader,
                     faults, misjudged>>

\* "Migrate file not exist anymore."
FileGone ==
  /\ gc.pc = "check" /\ files_[gc.fname] = NoFile
  /\ gc' = [gc EXCEPT !.pc = "extent", !.i = Len(gc.list) + 1, !.target = NoZone]
  /\ ReleaseMigrateZone
  /\ UNCHANGED <<data, used_capacity_, namespace, metadata, lists, locks, writer, resetting,
                 reader, faults, misjudged>>

WriteLock ==
  /\ gc.pc = "extent" /\ gc.i \notin DOMAIN gc.list
  /\ ~writer_mtx_[gc.id]
  /\ writer_mtx_' = [writer_mtx_ EXCEPT ![gc.id] = TRUE]
  /\ gc' = [gc EXCEPT !.pc = "replace"]
  /\ UNCHANGED <<device, namespace, metadata, lists, open_for_wr_, readers_, writer, resetting,
                 reader, faults, misjudged>>

MutReplaceWaitsForNoReader ==
  /\ gc.pc = "replace"
  /\ extents_' = [extents_ EXCEPT ![gc.id] = gc.list]
  /\ writer_mtx_' = [writer_mtx_ EXCEPT ![gc.id] = FALSE]
  /\ gc' = [gc EXCEPT !.pc = "unsync", !.old = extents_[gc.id]]
  /\ UNCHANGED <<device, namespace, metadata, nr_synced_extents_, file_size_, is_deleted_,
                 extent_start_, open_for_wr_, readers_, writer, resetting, reader, faults,
                 misjudged>>

MutReplaceKeepsMutex ==
  /\ gc.pc = "replace" /\ readers_[gc.id] = 0
  /\ extents_' = [extents_ EXCEPT ![gc.id] = gc.list]
  /\ gc' = [gc EXCEPT !.pc = "unsync", !.old = extents_[gc.id]]
  /\ UNCHANGED <<device, namespace, metadata, nr_synced_extents_, file_size_, is_deleted_,
                 extent_start_, locks, writer, resetting, reader, faults, misjudged>>

ReplaceExtentList ==
  /\ gc.pc = "replace" /\ readers_[gc.id] = 0
  /\ extents_' = [extents_ EXCEPT ![gc.id] = gc.list]
  /\ writer_mtx_' = [writer_mtx_ EXCEPT ![gc.id] = FALSE]
  /\ gc' = [gc EXCEPT !.pc = "unsync", !.old = extents_[gc.id]]
  /\ UNCHANGED <<device, namespace, metadata, nr_synced_extents_, file_size_, is_deleted_,
                 extent_start_, open_for_wr_, readers_, writer, resetting, reader, faults,
                 misjudged>>

MutMetadataStaysSynced ==
  /\ gc.pc = "unsync"
  /\ gc' = [gc EXCEPT !.pc = "sync"]
  /\ UNCHANGED <<device, namespace, metadata, lists, locks, writer, resetting, reader, faults,
                 misjudged>>

MetadataUnsynced ==
  /\ gc.pc = "unsync"
  /\ nr_synced_extents_' = [nr_synced_extents_ EXCEPT ![gc.id] = 0]
  /\ gc' = [gc EXCEPT !.pc = "sync"]
  /\ UNCHANGED <<device, namespace, metadata, extents_, file_size_, is_deleted_, extent_start_,
                 locks, writer, resetting, reader, faults, misjudged>>

\* "File has been deleted, skip sync file metadata!"  MigrateFileExtents does not look
\* at the status.
SyncFileMetadata ==
  /\ gc.pc = "sync" /\ Free
  /\ UNCHANGED extent_start_
  /\ \/ /\ is_deleted_[gc.id]
        /\ gc' = [gc EXCEPT !.pc = "clear"]
        /\ UNCHANGED <<metadata, errors, misjudged>>
     \/ /\ ~is_deleted_[gc.id]
        /\ \/ AddRecord("gc", gc.id, NameOf(files_, gc.id), TRUE) /\ Race({gc.id}, Pushed)
           \/ RollMetaZone("gc", files_) /\ Race(Live(files_), Pushed)
        /\ gc' = [gc EXCEPT !.pc = "clear"]
        /\ UNCHANGED errors
     \/ /\ ~is_deleted_[gc.id]
        /\ Refused
        /\ gc' = [gc EXCEPT !.pc = "release"]
        /\ misjudged' = misjudged \cup {gc.id}
        /\ UNCHANGED metadata
  /\ UNCHANGED <<device, namespace, extents_, nr_synced_extents_, file_size_, is_deleted_, locks,
                 writer, resetting, reader, crashes, uncopied>>

\* "Clear changed extents' zone stats": the old extents whose place is taken by another
SyncFileExtentsDone ==
  /\ gc.pc = "clear" /\ files_mtx_.by # "gc"
  /\ used_capacity_' =
       [z \in Zones |-> used_capacity_[z] - Cardinality(Moved(z, gc.old, gc.list))]
  /\ gc' = [gc EXCEPT !.pc = "release", !.old = <<>>]
  /\ UNCHANGED <<data, busy_, namespace, metadata, lists, locks, writer, resetting, reader,
                 faults, misjudged>>

ReleaseWRLock ==
  /\ gc.pc = "release"
  /\ open_for_wr_' = [open_for_wr_ EXCEPT ![gc.id] = FALSE]
  /\ Drop(gc.id)
  /\ gc' = Skip(gc.fname)
  /\ UNCHANGED <<data, busy_, namespace, metadata, nr_synced_extents_, file_size_, is_deleted_,
                 extent_start_, readers_, writer_mtx_, writer, resetting, reader, faults,
                 misjudged>>

MigrateResets ==
  /\ gc.pc = "reset"
  /\ ResetUnusedIOZones
  /\ gc' = IF gc.todo = {} THEN NoGC ELSE [gc EXCEPT !.pc = "next"]
  /\ UNCHANGED <<used_capacity_, busy_, namespace, metadata, lists, locks, writer, resetting,
                 reader, faults, misjudged>>

-----------------------------------------------------------------------------
(***************************************************************************)
(* A crash and the mount behind it                                         *)
(***************************************************************************)

\* Recover: the active extent of a file that was being written ends at the write
\* pointer of its zone.
Recover(r) ==
  LET z == r.start.zone
  IN  IF z = NoZone \/ Len(data[z]) <= r.start.start THEN r
      ELSE [r EXCEPT !.ext = Append(@, [zone |-> z, start |-> r.start.start,
                                        length |-> Len(data[z]) - r.start.start]),
                     !.size = Total(r.ext) + Len(data[z]) - r.start.start]

\* The mount repairs the files, rolls the log and resets what is not used.
Mount ==
  LET file == [id \in Ids |-> Recover(logged[id])]
      ext == [id \in Ids |-> file[id].ext]
  IN  /\ extents_' = ext
      /\ nr_synced_extents_' = [id \in Ids |-> Len(ext[id])]
      /\ file_size_' = [id \in Ids |-> file[id].size]
      /\ extent_start_' = [id \in Ids |-> NO_EXTENT]
      /\ logged' = [id \in Ids |-> [file[id] EXCEPT !.start = NO_EXTENT]]
      /\ is_deleted_' = [id \in Ids |-> FALSE]
      /\ files_' = [n \in Names |->
                      IF \E id \in Ids : logged[id].name = n
                      THEN CHOOSE id \in Ids : logged[id].name = n ELSE NoFile]
      /\ used_capacity_' = [z \in Zones |-> Used(z, ext)]
      /\ busy_' = [z \in Zones |-> FALSE]
      /\ data' = [z \in Zones |-> IF used_capacity_'[z] = 0 THEN <<>> ELSE data[z]]
      /\ open_for_wr_' = [id \in Ids |-> FALSE] /\ writer_mtx_' = [id \in Ids |-> FALSE]
      /\ readers_' = [id \in Ids |-> 0]

\* File IDs are names of the model: none is given out twice.  A bound: the crashes looked
\* at are those in the middle of a migration; module MetaLog has the others.
Crash ==
  /\ gc.pc # "idle" /\ crashes + errors < MaxFaults /\ crashes' = crashes + 1
  /\ Mount
  /\ writer' = NoWriter /\ resetting' = FALSE /\ gc' = NoGC
  /\ reader' = [r \in Readers |-> NoReader]
  /\ files_mtx_' = Unlocked
  /\ UNCHANGED <<next_file_id_, errors, misjudged, uncopied>>

-----------------------------------------------------------------------------

Init ==
  /\ data = [z \in Zones |-> <<>>] /\ used_capacity_ = [z \in Zones |-> 0]
  /\ busy_ = [z \in Zones |-> FALSE]
  /\ files_ = [n \in Names |-> NoFile] /\ next_file_id_ = 1
  /\ logged = [id \in Ids |-> NoRecord] /\ files_mtx_ = Unlocked
  /\ extents_ = [id \in Ids |-> <<>>] /\ nr_synced_extents_ = [id \in Ids |-> 0]
  /\ file_size_ = [id \in Ids |-> 0] /\ is_deleted_ = [id \in Ids |-> FALSE]
  /\ extent_start_ = [id \in Ids |-> NO_EXTENT]
  /\ open_for_wr_ = [id \in Ids |-> FALSE] /\ writer_mtx_ = [id \in Ids |-> FALSE]
  /\ readers_ = [id \in Ids |-> 0]
  /\ writer = NoWriter /\ resetting = FALSE /\ gc = NoGC
  /\ reader = [r \in Readers |-> NoReader]
  /\ crashes = 0 /\ errors = 0 /\ misjudged = {} /\ uncopied = {}

Collect ==
  \/ GCWorker \/ GetZenFSSnapshot \/ TryAcquireWRLock
  \/ \E n \in Names : MigrateGetFile(n)
  \/ \E z \in Zones : TakeMigrateZone(z)
  \/ LeaveExtent \/ MigrateData \/ MigrateDataError \/ ExtentMigrated \/ FileGone
  \/ WriteLock \/ ReplaceExtentList \/ MetadataUnsynced \/ SyncFileMetadata
  \/ SyncFileExtentsDone \/ ReleaseWRLock \/ MigrateResets

GoOnReading(r) == ReadLock(r) \/ ReadNextExtent(r) \/ ReadDevice(r)

Next ==
  \/ Collect
  \/ \E n \in Names : OpenWritableFile(n) \/ ReopenWritableFile(n) \/ DeleteFile(n)
  \/ \E z \in Zones : AllocateNewZone(z)
  \/ \E length \in Lengths : BufferedAppend(length)
  \/ MetadataSynced \/ BufferedAppendDone
  \/ CloseWR \/ CloseWRDone \/ CloseActiveZone \/ ResetUnused
  \/ \E src \in TempNames, dst \in Names \ TempNames : RenameFile(src, dst)
  \/ \E r \in Readers, n \in Names : PositionedRead(r, n)
  \/ \E r \in Readers : GoOnReading(r)
  \/ Crash

TakeFilesMutex == GetZenFSSnapshot \/ (\E n \in Names : MigrateGetFile(n)) \/ SyncFileMetadata

\* Threads that are in the middle of a call go on; nothing has to call.  A thread gets a
\* mutex that is free again and again; WriteLock's loop on readers_ is not a mutex.
Fairness ==
  /\ WF_vars(MetadataSynced) /\ WF_vars(Collect) /\ SF_vars(TakeFilesMutex)
  /\ \A r \in Readers : WF_vars(GoOnReading(r)) /\ SF_vars(ReadLock(r))

Spec == Init /\ [][Next]_vars /\ Fairness

-----------------------------------------------------------------------------
(***************************************************************************)
(* Properties                                                              *)
(***************************************************************************)

Extent == [zone : Zones, start : 0..ZoneCap, length : 1..ZoneCap]
Datum == (0..MaxId) \X Nat

\* The variables have their types; used_capacity_ never falls below zero, no zone is
\* written past its capacity, and "new_list.size() == extents_.size()" holds where
\* ReplaceExtentList asserts it.
TypeOK ==
  /\ \A z \in Zones : data[z] \in Seq(Datum) /\ Len(data[z]) <= ZoneCap
  /\ used_capacity_ \in [Zones -> Nat] /\ busy_ \in [Zones -> BOOLEAN]
  /\ files_ \in [Names -> Ids \cup {NoFile}]
  /\ extents_ \in [Ids -> Seq(Extent)] /\ file_size_ \in [Ids -> Nat]
  /\ \A id \in Ids : nr_synced_extents_[id] \in 0..Len(extents_[id]) \/ is_deleted_[id]
  /\ readers_ \in [Ids -> 0..Cardinality(Readers)]
  /\ gc.pc = "replace" => Len(gc.list) = Len(extents_[gc.id])

\* The slots of a list hold the data of the file one after the other, up to the n-th
Intact(id, list, n) ==
  /\ Total(list) >= n
  /\ \A i \in DOMAIN list : \A k \in 1..list[i].length :
       Before(list, i) + k <= n => Content(list[i])[k] = <<id, Before(list, i) + k>>

\* A reader is given what was written to the file, all of it, although the file is
\* migrated and the zones it was in are reset while the read is under way (ReadLock
\* and WriteLock, ReplaceExtentList, ResetUnusedIOZones).  Left out are files with an
\* extent that could not be copied, and misjudged files that a mount may have read back
\* wrong.
ReadsContent ==
  \A r \in {q \in Readers : /\ crashes = 0 \/ reader[q].id \notin misjudged
                            /\ reader[q].id \notin uncopied} :
    /\ \A k \in DOMAIN reader[r].got : reader[r].got[k] = <<reader[r].id, k>>
    /\ ReadIsOver(r) => Len(reader[r].got) = reader[r].size

Survives(id) ==
  logged[id].name # NoFile =>
    LET r == Recover(logged[id])
    IN  /\ Intact(id, r.ext, r.size) /\ r.size >= logged[id].size
        /\ r.start.zone # NoZone => r.start.start <= Len(data[r.start.zone])

\* A mount at any moment finds every file with extents that hold its data, up to the
\* write pointer if it was being written: no zone is reset while the log still points
\* into it, and an extent is in the log once its data has been copied (SyncFileExtents,
\* MergeUpdate, Recover).  Left out are the misjudged files, for which the code does not
\* promise it: those that are written to a record, or marked as synced behind it, while
\* an extent is in their list and not counted, those whose replace record another call
\* emptied or the device refused, and those of which an extent could not be copied.
ContentSurvives == \A id \in Ids \ misjudged : Survives(id)

\* Behind its replace record the log has the new list of the file the garbage collector
\* has migrated: "At least one snapshot of all files in the file system" and "Incremental
\* file system updates (new files, new extents, ...)" (README, Metadata), and a migrated
\* file has as many extents as before, "assert(new_list.size() == extents_.size())"
\* (ReplaceExtentList).
MigrationKeepsFiles ==
  gc.pc = "clear" /\ ~is_deleted_[gc.id] => logged[gc.id].ext = gc.list

\* The extents the garbage collector has counted beside those of the lists: the new
\* ones before it replaces the list, the old ones behind that
Counted(z) ==
  CASE gc.pc \in {"extent", "copy", "check", "replace"} -> Moved(z, gc.list, extents_[gc.id])
    [] gc.pc \in {"unsync", "sync", "clear"} -> Moved(z, gc.old, gc.list)
    [] OTHER -> {}

\* The extent the writer has not counted yet
Uncounted(z) == IF z = writer.zone THEN writer.added ELSE 0

\* used_capacity_ of a zone is the sum of the extents in it, in every list that may
\* still be used: none is counted twice, forgotten or taken back too early when files
\* are deleted, renamed or mounted in the middle of a migration (MigrateFileExtents,
\* SyncFileExtents, ClearExtents, MergeUpdate).
UsedCapacityExact ==
  errors = 0 => \A z \in Zones : used_capacity_[z] + Uncounted(z)
                                    = Used(z, extents_) + Cardinality(Counted(z))

\* A round of the garbage collector comes to an end: no reader keeps it waiting for
\* ever in WriteLock, and no file is migrated without end (MigrateExtents).
MigrationEnds == gc.pc # "idle" ~> gc.pc = "idle"

\* A read returns, although the garbage collector may lock the file (ReadLock).
ReadReturns ==
  \A r \in Readers : reader[r].pc = "lock" ~> reader[r].pc = "idle"
=============================================================================
