------------------------------- MODULE MetaLog -------------------------------
(***************************************************************************)
(* The namespace of ZenFS and the metadata log it is kept in (ZenFS and    *)
(* ZenMetaLog in zenfs-appends/fs/fs_zenfs.cc).  A call that changes the   *)
(* namespace changes files_ and adds a record to the log's zone; when the  *)
(* zone is full the log rolls: another zone gets a superblock and a        *)
(* snapshot of files_ instead of the record, and the old zone is reset.    *)
(* After a crash Mount rebuilds files_ from the newest zone that has a     *)
(* snapshot, and rolls too.                                                *)
(*                                                                         *)
(* Calls hold files_mtx_ from their beginning to their end, so one runs at *)
(* a time; it may be cut off by a crash between any two writes.  Writers   *)
(* add extents to their files without that mutex.  A path is a model       *)
(* value, a file is its ID, its link names and its list of extents; an     *)
(* extent is its number.                                                   *)
(***************************************************************************)
EXTENDS Integers, Sequences, FiniteSets, SequencesExt

CONSTANTS
  Names,            \* the paths in use
  MaxId,            \* bound: file IDs given out
  MetaZones,        \* ZENFS_META_ZONES
  ZoneBlocks,       \* capacity of a metadata zone, in blocks
  FilesPerBlock,    \* files whose encoding fits into a block of a snapshot
  MaxExtents,       \* bound: extents of a file
  MaxSeq,           \* bound: superblock sequence
  MaxCrashes,       \* bound: crashes
  MaxErrors         \* bound: writes the device refuses

Ids == 1..MaxId
NoFile == 0
Zones == 1..MetaZones

ASSUME MetaAssumption ==
  /\ MaxId \in Nat /\ MaxExtents \in Nat /\ MaxSeq \in Nat
  /\ MaxCrashes \in Nat /\ MaxErrors \in Nat
  /\ MetaZones \in Nat /\ MetaZones >= 2
  /\ FilesPerBlock \in Nat \ {0}
  /\ ZoneBlocks \in Nat /\ ZoneBlocks >= 2 + Cardinality(Names) \div FilesPerBlock
  /\ IsFiniteSet(Names)

VARIABLES
  \* the metadata zones: their records, and capacity_ in blocks
  log, capacity_,
  \* ZenFS
  files_, next_file_id_,
  meta_log_,                        \* its zone
  old_meta_log,                     \* the zone RollMetaZoneLocked rolls from
  sequence_,                        \* of superblock_
  \* ZoneFile
  linkfiles_, extents_, nr_synced_extents_,
  \* the running call: the function, its paths and file, and the record to persist
  pc, call, record,
  \* bounds
  crashes, errors,
  \* history: the namespace as the log has it and what the record makes of it; FALSE
  \* once the code promises nothing any more; and the files that grew between the
  \* encoding of a record or a snapshot with them and MetadataSynced
  durable, goal, trusted, overtaken

device == <<log, capacity_>>
memory == <<files_, next_file_id_, linkfiles_, extents_, nr_synced_extents_>>
roll == <<meta_log_, old_meta_log, sequence_>>
history == <<durable, goal, trusted, overtaken>>
vars == <<device, memory, roll, pc, call, record, crashes, errors, history>>

NoCall == [name |-> "none", src |-> NoFile, dst |-> NoFile, id |-> NoFile]
NoRecord == [tag |-> "none"]

-----------------------------------------------------------------------------
(***************************************************************************)
(* Records                                                                 *)
(***************************************************************************)

Live == {id \in Ids : \E n \in Names : files_[n] = id}

EncodeUpdateTo(id, links) ==
  [tag |-> "update", id |-> id, links |-> links,
   ext |-> SubSeq(extents_[id], nr_synced_extents_[id] + 1, Len(extents_[id]))]

EncodeFileDeletionTo(id, n) == [tag |-> "delete", id |-> id, name |-> n]

\* One entry for every name: a file with two links is written twice
EncodeSnapshotTo ==
  [tag |-> "snapshot", entries |-> Cardinality({n \in Names : files_[n] # NoFile}),
   files |-> [id \in Live |-> [links |-> linkfiles_[id], ext |-> extents_[id]]]]

EncodeSuperblock == [tag |-> "super", seq |-> sequence_ + 1]

\* Blocks AddRecord writes: only a snapshot may need more than one
PhysSize(r) ==
  IF r.tag = "snapshot" THEN 1 + r.entries \div FilesPerBlock ELSE 1

MutAddRecordIgnoresCapacity(z, r) ==
  /\ log' = [log EXCEPT ![z] = Append(@, r)]
  /\ capacity_' = [capacity_ EXCEPT ![z] = @ - PhysSize(r)]

\* What AddRecord does to a zone with room for the record
AddRecord(z, r) ==
  /\ PhysSize(r) <= capacity_[z]
  /\ log' = [log EXCEPT ![z] = Append(@, r)]
  /\ capacity_' = [capacity_ EXCEPT ![z] = @ - PhysSize(r)]

Refused == errors < MaxErrors /\ errors' = errors + 1 /\ UNCHANGED device

-----------------------------------------------------------------------------
(***************************************************************************)
(* Reading the log                                                         *)
(***************************************************************************)

EmptyState == [status |-> "notfound", done |-> FALSE,
               files |-> [n \in Names |-> NoFile],
               links |-> [id \in Ids |-> <<>>],
               ext |-> [id \in Ids |-> <<>>]]

Corrupt(st) == [st EXCEPT !.status = "corrupt", !.done = TRUE]

\* A name that two files claim goes to one of them
DecodeSnapshotFrom(r) ==
  LET Has(n) == {id \in DOMAIN r.files : \E i \in DOMAIN r.files[id].links :
                                            r.files[id].links[i] = n}
  IN  [status |-> "ok", done |-> FALSE,
       files |-> [n \in Names |-> IF Has(n) = {} THEN NoFile ELSE CHOOSE id \in Has(n) : TRUE],
       links |-> [id \in Ids |-> IF id \in DOMAIN r.files THEN r.files[id].links ELSE <<>>],
       ext |-> [id \in Ids |-> IF id \in DOMAIN r.files THEN r.files[id].ext ELSE <<>>]]

MergeUpdate(st, r) == [st EXCEPT !.links[r.id] = r.links, !.ext[r.id] = @ \o r.ext]

\* The names of a known file are taken out of files_ and the new ones put in; a new
\* file gets its first name only.  map::insert replaces nothing.
DecodeFileUpdateFrom(st, r) ==
  LET known == \E n \in Names : st.files[n] = r.id
      old == IF known THEN ToSet(st.links[r.id]) ELSE {}
      new == IF known THEN ToSet(r.links) ELSE {r.links[1]}
      files == [n \in Names |->
                  IF n \in new /\ (n \in old \/ st.files[n] = NoFile) THEN r.id
                  ELSE IF n \in old THEN NoFile ELSE st.files[n]]
      missing == \/ \E n \in old : st.files[n] = NoFile
                 \/ Cardinality(old) < Len(st.links[r.id])
  IN  IF known
      THEN IF missing THEN Corrupt(st) ELSE [MergeUpdate(st, r) EXCEPT !.files = files]
      ELSE [st EXCEPT !.files = files, !.links[r.id] = r.links, !.ext[r.id] = r.ext]

DecodeFileDeletionFrom(st, r) ==
  IF st.files[r.name] # r.id
  THEN Corrupt(st)
  ELSE LET links == RemoveFirst(st.links[r.id], r.name)
       IN  [st EXCEPT !.files[r.name] = NoFile, !.links[r.id] = links,
                      !.ext[r.id] = IF links = <<>> THEN <<>> ELSE @]

\* A record that does not match its checksum, or the zeros behind the end of a
\* finished zone, end recovery with an error
DecodeRecord(st, r) ==
  IF st.done \/ r.tag = "super" THEN st
  ELSE CASE r.tag = "end" -> [st EXCEPT !.done = TRUE]
         [] r.tag = "snapshot" -> DecodeSnapshotFrom(r)
         [] r.tag = "update" -> DecodeFileUpdateFrom(st, r)
         [] r.tag = "delete" -> DecodeFileDeletionFrom(st, r)
         [] r.tag \in {"torn", "zeros"} -> Corrupt(st)

Decoded(records) ==
  LET st[i \in 0..Len(records)] ==
        IF i = 0 THEN EmptyState ELSE DecodeRecord(st[i - 1], records[i])
  IN  st[Len(records)]

RecoverFrom(z) == Decoded(log[z])

\* A first record that is no superblock: Mount gives up, whatever the other zones have
Misplaced(z) == log[z] # <<>> /\ log[z][1].tag \in {"update", "delete", "snapshot", "end"}

HasSuperblock(z) == log[z] # <<>> /\ log[z][1].tag = "super"

\* Mount's order: by descending sequence, then by descending index
Newer(y, z) == \/ log[y][1].seq > log[z][1].seq
               \/ log[y][1].seq = log[z][1].seq /\ y > z

Ready(z) == HasSuperblock(z) /\ RecoverFrom(z).status # "notfound"

\* The zone Mount recovers from, or 0
RecoveredZone ==
  LET ready == {z \in Zones : Ready(z)}
  IN  IF ready = {} THEN 0
      ELSE CHOOSE z \in ready : \A y \in ready \ {z} : Newer(z, y)

Recovered ==
  IF \E z \in Zones : Misplaced(z) THEN Corrupt(EmptyState)
  ELSE IF RecoveredZone = 0 THEN EmptyState ELSE RecoverFrom(RecoveredZone)

IdsIn(records) ==
  {id \in Ids : \E r \in ToSet(records) :
                  \/ r.tag = "update" /\ id = r.id
                  \/ r.tag = "snapshot" /\ id \in DOMAIN r.files}

\* The IDs Mount has seen, in the zones it tried
SeenIds == UNION {IdsIn(log[z]) : z \in {y \in Zones : HasSuperblock(y) /\ ~Newer(RecoveredZone, y)}}

-----------------------------------------------------------------------------
(***************************************************************************)
(* Calls.  Each takes files_mtx_; one that replaces or deletes a file goes *)
(* to DeleteFileNoLock first.                                              *)
(***************************************************************************)

Begin(name, src, dst, id, next) ==
  /\ pc = "idle" /\ sequence_ < MaxSeq
  /\ call' = [name |-> name, src |-> src, dst |-> dst, id |-> id]
  /\ pc' = next
  /\ UNCHANGED <<device, memory, roll, record, crashes, errors, history>>

OpenWritableFile(n) ==
  /\ next_file_id_ \in Ids
  /\ Begin("open", n, n, next_file_id_, IF files_[n] # NoFile THEN "unlink" ELSE "main")

DeleteFile(n) ==
  /\ files_[n] # NoFile
  /\ Begin("delete", n, n, files_[n], "unlink")

MutRenameFileKeepsTarget(src, dst) ==
  /\ files_[src] # NoFile
  /\ Begin("rename", src, dst, files_[src], "main")

RenameFile(src, dst) ==
  /\ files_[src] # NoFile
  /\ Begin("rename", src, dst, files_[src], IF files_[dst] # NoFile THEN "unlink" ELSE "main")

LinkFile(src, dst) ==
  /\ files_[dst] = NoFile /\ files_[src] # NoFile
  /\ Begin("link", src, dst, files_[src], "main")

SyncFileMetadata(n) ==
  /\ files_[n] # NoFile
  /\ Begin("sync", n, n, files_[n], "main")

\* The file is in the record that is being persisted or in the snapshot of a roll, and
\* its extents will count as synced
Encoded(id) == pc = "marksynced" \/ (record.tag = "update" /\ record.id = id)

\* A writer adds an extent to its file, without files_mtx_ and so beside any call; not
\* while it is itself in SyncFileMetadata
PushExtent(id) ==
  /\ id \in Live /\ Len(extents_[id]) < MaxExtents
  /\ call.name # "mount" /\ ~(call.name = "sync" /\ call.id = id)
  /\ extents_' = [extents_ EXCEPT ![id] = Append(@, IF @ = <<>> THEN 1 ELSE Last(@) + 1)]
  /\ overtaken' = IF Encoded(id) THEN overtaken \cup {id} ELSE overtaken
  /\ UNCHANGED <<device, files_, next_file_id_, linkfiles_, nr_synced_extents_, roll,
                 pc, call, record, crashes, errors, durable, goal, trusted>>

RemoveLinkName(links, n) == RemoveFirst(links, n)
RenameLink(links, src, dst) == Append(RemoveLinkName(links, src), dst)

PersistRecord(r, newfiles) ==
  /\ record' = r
  /\ goal' = newfiles
  /\ pc' = "add"
  /\ UNCHANGED <<device, extents_, nr_synced_extents_, roll, call, crashes, errors, durable,
                 trusted, overtaken>>

DeleteFileNoLock ==
  LET n == call.dst
      id == files_[n]
  IN  /\ pc = "unlink"
      /\ files_' = [files_ EXCEPT ![n] = NoFile]
      /\ linkfiles_' = [linkfiles_ EXCEPT ![id] = RemoveLinkName(@, n)]
      /\ PersistRecord(EncodeFileDeletionTo(id, n), files_')
      /\ UNCHANGED next_file_id_

\* The file is in files_ only after its record has been persisted
OpenNewFile ==
  /\ pc = "main" /\ call.name = "open"
  /\ next_file_id_' = next_file_id_ + 1
  /\ linkfiles_' = [linkfiles_ EXCEPT ![call.id] = <<call.dst>>]
  /\ PersistRecord(EncodeUpdateTo(call.id, linkfiles_'[call.id]),
                   [files_ EXCEPT ![call.dst] = call.id])
  /\ UNCHANGED files_

RenameFileNoLock ==
  /\ pc = "main" /\ call.name = "rename" /\ Contains(linkfiles_[call.id], call.src)
  /\ linkfiles_' = [linkfiles_ EXCEPT ![call.id] = RenameLink(@, call.src, call.dst)]
  /\ files_' = [files_ EXCEPT ![call.src] = NoFile, ![call.dst] = call.id]
  /\ PersistRecord(EncodeUpdateTo(call.id, linkfiles_'[call.id]), files_')
  /\ UNCHANGED next_file_id_

LinkFileLocked ==
  /\ pc = "main" /\ call.name = "link"
  /\ linkfiles_' = [linkfiles_ EXCEPT ![call.id] = Append(@, call.dst)]
  /\ files_' = [files_ EXCEPT ![call.dst] = call.id]
  /\ PersistRecord(EncodeUpdateTo(call.id, linkfiles_'[call.id]), files_')
  /\ UNCHANGED next_file_id_

MutSyncMarksSyncedFirst ==
  /\ pc = "main" /\ call.name = "sync"
  /\ record' = EncodeUpdateTo(call.id, linkfiles_[call.id])
  /\ goal' = files_
  /\ pc' = "add"
  /\ nr_synced_extents_' = [nr_synced_extents_ EXCEPT ![call.id] = Len(extents_[call.id])]
  /\ UNCHANGED <<device, files_, next_file_id_, linkfiles_, extents_, roll, call, crashes,
                 errors, durable, trusted, overtaken>>

SyncFileMetadataNoLock ==
  /\ pc = "main" /\ call.name = "sync"
  /\ PersistRecord(EncodeUpdateTo(call.id, linkfiles_[call.id]), files_)
  /\ UNCHANGED <<files_, next_file_id_, linkfiles_>>

-----------------------------------------------------------------------------
(***************************************************************************)
(* PersistRecord and RollMetaZoneLocked, write by write                    *)
(***************************************************************************)

HasSnapshot(z) == \E i \in DOMAIN log[z] : log[z][i].tag = "snapshot"

AddRecordOk ==
  /\ pc = "add"
  /\ AddRecord(meta_log_, record)
  /\ durable' = goal
  /\ trusted' = (trusted /\ HasSnapshot(meta_log_))
  /\ pc' = "synced"
  /\ UNCHANGED <<memory, roll, call, record, crashes, errors, goal, overtaken>>

AddRecordNoSpace ==
  /\ pc = "add" /\ PhysSize(record) > capacity_[meta_log_]
  /\ pc' = "alloc"
  /\ UNCHANGED <<device, memory, roll, call, record, crashes, errors, history>>

AddRecordError ==
  /\ pc = "add" /\ PhysSize(record) <= capacity_[meta_log_]
  /\ Refused
  /\ pc' = "failed"
  /\ UNCHANGED <<memory, roll, call, record, crashes, history>>

Reset(z) ==
  /\ log' = [log EXCEPT ![z] = <<>>]
  /\ capacity_' = [capacity_ EXCEPT ![z] = ZoneBlocks]

\* All zones but the log's own are free; the first is reset and taken
AllocateMetaZone ==
  LET z == CHOOSE z \in Zones \ {meta_log_} : \A y \in Zones \ {meta_log_} : z <= y
  IN  /\ pc = "alloc"
      /\ Reset(z)
      /\ old_meta_log' = meta_log_ /\ meta_log_' = z
      /\ trusted' = (trusted /\ HasSnapshot(meta_log_))
      /\ pc' = "end"
      /\ UNCHANGED <<memory, sequence_, call, record, crashes, errors, durable, goal, overtaken>>

\* If there is space left.  Nobody looks at the status: without the record, the zeros
\* behind the end of the finished zone make it unreadable
WriteEndRecord ==
  /\ pc = "end"
  /\ \/ /\ IF capacity_[old_meta_log] > 0
           THEN AddRecord(old_meta_log, [tag |-> "end"]) ELSE UNCHANGED device
        /\ UNCHANGED <<errors, trusted>>
     \/ capacity_[old_meta_log] > 0 /\ Refused /\ trusted' = FALSE
  /\ pc' = "finish"
  /\ UNCHANGED <<memory, roll, call, record, crashes, durable, goal, overtaken>>

MutFinishResetsOldZone ==
  /\ pc = "finish"
  /\ Reset(old_meta_log)
  /\ pc' = "super"
  /\ UNCHANGED <<memory, roll, call, record, crashes, errors, history>>

\* Behind its last record a finished zone reads as zeros
FinishOldZone ==
  /\ pc = "finish"
  /\ IF capacity_[old_meta_log] > 0
     THEN /\ log' = [log EXCEPT ![old_meta_log] = Append(@, [tag |-> "zeros"])]
          /\ capacity_' = [capacity_ EXCEPT ![old_meta_log] = 0]
     ELSE UNCHANGED device
  /\ pc' = "super"
  /\ UNCHANGED <<memory, roll, call, record, crashes, errors, history>>

AddSuperblock ==
  /\ pc = "super"
  /\ \/ AddRecord(meta_log_, EncodeSuperblock) /\ pc' = "snapshot" /\ UNCHANGED errors
     \/ Refused /\ pc' = "failed"
  /\ sequence_' = sequence_ + 1
  /\ UNCHANGED <<memory, meta_log_, old_meta_log, call, record, crashes, history>>

WriteSnapshotLocked ==
  /\ pc = "snapshot"
  /\ \/ /\ AddRecord(meta_log_, EncodeSnapshotTo)
        /\ durable' = files_ /\ overtaken' = overtaken \ Live
        /\ pc' = "marksynced" /\ UNCHANGED errors
     \/ Refused /\ pc' = "failed" /\ UNCHANGED <<durable, overtaken>>
  /\ UNCHANGED <<memory, roll, call, record, crashes, goal, trusted>>

SnapshotSynced ==
  /\ pc = "marksynced"
  /\ nr_synced_extents_' =
       [id \in Ids |-> IF id \in Live THEN Len(extents_[id]) ELSE nr_synced_extents_[id]]
  /\ pc' = "reset"
  /\ UNCHANGED <<device, files_, next_file_id_, linkfiles_, extents_, roll, call, record,
                 crashes, errors, history>>

ResetOldZone ==
  /\ pc = "reset"
  /\ Reset(old_meta_log)
  /\ pc' = "synced"
  /\ UNCHANGED <<memory, roll, call, record, crashes, errors, history>>

-----------------------------------------------------------------------------
(***************************************************************************)
(* What the calls do once PersistRecord has returned                       *)
(***************************************************************************)

Return(newfiles) ==
  /\ files_' = newfiles
  /\ goal' = newfiles /\ UNCHANGED <<durable, overtaken>>
  /\ pc' = "idle" /\ call' = NoCall /\ record' = NoRecord

MetadataSynced(id) == nr_synced_extents_' = [nr_synced_extents_ EXCEPT ![id] = Len(extents_[id])]

\* The file is gone with its last link.  RenameFileNoLock and OpenWritableFile go on.
DeletePersisted ==
  /\ pc = "synced" /\ record.tag = "delete"
  /\ LET gone == linkfiles_[record.id] = <<>>
     IN  /\ extents_' = IF gone THEN [extents_ EXCEPT ![record.id] = <<>>] ELSE extents_
         /\ nr_synced_extents_' =
              IF gone THEN [nr_synced_extents_ EXCEPT ![record.id] = 0] ELSE nr_synced_extents_
  /\ IF call.name = "delete"
     THEN Return(files_)
     ELSE /\ pc' = "main" /\ goal' = files_
          /\ UNCHANGED <<files_, call, record, durable, overtaken>>
  /\ UNCHANGED <<device, next_file_id_, linkfiles_, roll, crashes, errors, trusted>>

\* A roll wrote the snapshot without the new file
OpenPersisted ==
  /\ pc = "synced" /\ record.tag = "update" /\ call.name = "open"
  /\ trusted' = (trusted /\ Last(log[meta_log_]).tag # "snapshot")
  /\ MetadataSynced(call.id)
  /\ Return([files_ EXCEPT ![call.dst] = call.id])
  /\ UNCHANGED <<device, next_file_id_, linkfiles_, extents_, roll, crashes, errors>>

UpdatePersisted ==
  /\ pc = "synced" /\ record.tag = "update" /\ call.name \in {"rename", "link", "sync"}
  /\ MetadataSynced(call.id)
  /\ Return(files_)
  /\ UNCHANGED <<device, next_file_id_, linkfiles_, extents_, roll, crashes, errors, trusted>>

\* "Failed to persist the delete, return to a consistent state"
DeleteFailed ==
  /\ pc = "failed" /\ record.tag = "delete"
  /\ linkfiles_' = [linkfiles_ EXCEPT ![record.id] = Append(@, record.name)]
  /\ Return([files_ EXCEPT ![record.name] = record.id])
  /\ UNCHANGED <<device, next_file_id_, extents_, nr_synced_extents_, roll, crashes, errors,
                 trusted>>

OpenFailed ==
  /\ pc = "failed" /\ record.tag = "update" /\ call.name = "open"
  /\ linkfiles_' = [linkfiles_ EXCEPT ![call.id] = <<>>]
  /\ Return(files_)
  /\ UNCHANGED <<device, next_file_id_, extents_, nr_synced_extents_, roll, crashes, errors,
                 trusted>>

RenameFailed ==
  /\ pc = "failed" /\ record.tag = "update" /\ call.name = "rename"
  /\ linkfiles_' = [linkfiles_ EXCEPT ![call.id] = RenameLink(@, call.dst, call.src)]
  /\ Return([files_ EXCEPT ![call.dst] = NoFile, ![call.src] = call.id])
  /\ UNCHANGED <<device, next_file_id_, extents_, nr_synced_extents_, roll, crashes, errors,
                 trusted>>

LinkFailed ==
  /\ pc = "failed" /\ record.tag = "update" /\ call.name = "link"
  /\ linkfiles_' = [linkfiles_ EXCEPT ![call.id] = RemoveLinkName(@, call.dst)]
  /\ Return([files_ EXCEPT ![call.dst] = NoFile])
  /\ UNCHANGED <<device, next_file_id_, extents_, nr_synced_extents_, roll, crashes, errors,
                 trusted>>

\* A file renamed to its own name has been deleted: "Failed to find the linked file"
RenameLinkFailed ==
  /\ pc = "main" /\ call.name = "rename" /\ ~Contains(linkfiles_[call.id], call.src)
  /\ Return(files_)
  /\ UNCHANGED <<device, next_file_id_, linkfiles_, extents_, nr_synced_extents_, roll,
                 crashes, errors, trusted>>

SyncFailed ==
  /\ pc = "failed" /\ record.tag = "update" /\ call.name = "sync"
  /\ Return(files_)
  /\ UNCHANGED <<device, next_file_id_, linkfiles_, extents_, nr_synced_extents_, roll,
                 crashes, errors, trusted>>

-----------------------------------------------------------------------------
(***************************************************************************)
(* MkFS, crashes and Mount                                                 *)
(***************************************************************************)

NoMemory ==
  /\ files_' = EmptyState.files /\ linkfiles_' = EmptyState.links
  /\ extents_' = EmptyState.ext /\ nr_synced_extents_' = [id \in Ids |-> 0]
  /\ next_file_id_' = 1 /\ sequence_' = 0 /\ meta_log_' = 1 /\ old_meta_log' = 1
  /\ call' = NoCall /\ record' = NoRecord

\* All metadata zones are reset, the first gets a superblock and an empty snapshot
MkFS ==
  /\ pc = "blank"
  /\ LET first == <<[tag |-> "super", seq |-> 1], EncodeSnapshotTo>>
     IN  /\ log' = [z \in Zones |-> IF z = 1 THEN first ELSE <<>>]
         /\ capacity_' = [z \in Zones |-> IF z = 1 THEN ZoneBlocks - 2 ELSE ZoneBlocks]
  /\ pc' = "down"
  /\ UNCHANGED <<memory, roll, call, record, crashes, errors, history>>

Down == {"blank", "down", "unmountable"}

Crash ==
  /\ pc \notin Down /\ crashes < MaxCrashes
  /\ crashes' = crashes + 1
  /\ pc' = "down" /\ NoMemory
  /\ UNCHANGED <<device, errors, history>>

\* Only part of a snapshot of several blocks reaches the zone
CrashInSnapshot ==
  /\ pc = "snapshot" /\ crashes < MaxCrashes
  /\ \E b \in 1..(PhysSize(EncodeSnapshotTo) - 1) :
        capacity_' = [capacity_ EXCEPT ![meta_log_] = @ - b]
  /\ log' = [log EXCEPT ![meta_log_] = Append(@, [tag |-> "torn"])]
  /\ crashes' = crashes + 1
  /\ trusted' = FALSE
  /\ pc' = "down" /\ NoMemory
  /\ UNCHANGED <<errors, durable, goal, overtaken>>

\* Every file has exactly the names it is linked to, each once
LinksAgree(files, links) ==
  \A id \in Ids : /\ IsInjective(links[id])
                  /\ \A n \in Names : n \in ToSet(links[id]) <=> files[n] = id

\* A mount that succeeds goes on to roll
Mount ==
  /\ pc = "down" /\ Recovered.status = "ok"
  /\ files_' = Recovered.files /\ linkfiles_' = Recovered.links /\ extents_' = Recovered.ext
  /\ nr_synced_extents_' = [id \in Ids |-> Len(Recovered.ext[id])]
  /\ next_file_id_' = 1 + Max(SeenIds \cup {0})
  /\ meta_log_' = RecoveredZone
  /\ sequence_' = log[RecoveredZone][1].seq
  /\ call' = [NoCall EXCEPT !.name = "mount"] /\ record' = [tag |-> "mount"]
  /\ durable' = files_' /\ goal' = files_' /\ overtaken' = {}
  /\ trusted' = (trusted \/ LinksAgree(Recovered.files, Recovered.links))
  /\ pc' = "alloc"
  /\ UNCHANGED <<device, old_meta_log, crashes, errors>>

MountCorrupted ==
  /\ pc = "down" /\ Recovered.status # "ok"
  /\ pc' = "unmountable"
  /\ UNCHANGED <<device, memory, roll, call, record, crashes, errors, history>>

MountDone ==
  /\ pc = "synced" /\ record.tag = "mount"
  /\ Return(files_)
  /\ UNCHANGED <<device, next_file_id_, linkfiles_, extents_, nr_synced_extents_, roll,
                 crashes, errors, trusted>>

\* The caller gives up on a mount that could not roll
MountFailed ==
  /\ pc = "failed" /\ record.tag = "mount"
  /\ pc' = "down" /\ NoMemory
  /\ UNCHANGED <<device, crashes, errors, history>>

-----------------------------------------------------------------------------

Init ==
  /\ log = [z \in Zones |-> <<>>] /\ capacity_ = [z \in Zones |-> ZoneBlocks]
  /\ files_ = EmptyState.files /\ linkfiles_ = EmptyState.links
  /\ extents_ = EmptyState.ext /\ nr_synced_extents_ = [id \in Ids |-> 0]
  /\ next_file_id_ = 1 /\ sequence_ = 0 /\ meta_log_ = 1 /\ old_meta_log = 1
  /\ pc = "blank" /\ call = NoCall /\ record = NoRecord
  /\ crashes = 0 /\ errors = 0
  /\ durable = files_ /\ goal = files_ /\ trusted = TRUE /\ overtaken = {}

CallSome ==
  \/ \E n \in Names : OpenWritableFile(n)
  \/ \E n \in Names : DeleteFile(n)
  \/ \E n \in Names : SyncFileMetadata(n)
  \/ \E src, dst \in Names : RenameFile(src, dst)
  \/ \E src, dst \in Names : LinkFile(src, dst)

Change ==
  \/ DeleteFileNoLock \/ OpenNewFile \/ RenameFileNoLock \/ LinkFileLocked
  \/ SyncFileMetadataNoLock

Persist ==
  \/ AddRecordOk \/ AddRecordNoSpace \/ AddRecordError
  \/ AllocateMetaZone \/ WriteEndRecord \/ FinishOldZone \/ AddSuperblock
  \/ WriteSnapshotLocked \/ SnapshotSynced \/ ResetOldZone

Finish ==
  \/ DeletePersisted \/ OpenPersisted \/ UpdatePersisted \/ MountDone
  \/ DeleteFailed \/ OpenFailed \/ RenameFailed \/ RenameLinkFailed \/ LinkFailed
  \/ SyncFailed \/ MountFailed

Next ==
  \/ CallSome \/ Change \/ Persist \/ Finish
  \/ \E id \in Ids : PushExtent(id)
  \/ MkFS \/ Mount \/ MountCorrupted \/ Crash \/ CrashInSnapshot

Spec == Init /\ [][Next]_vars

-----------------------------------------------------------------------------
(***************************************************************************)
(* Properties                                                              *)
(***************************************************************************)

FileType(f) == f.links \in Seq(Names) /\ f.ext \in Seq(Nat)

IsRecord(r) ==
  \/ r.tag = "super" /\ r.seq \in Nat
  \/ r.tag = "update" /\ r.id \in Ids /\ FileType(r)
  \/ r.tag = "delete" /\ r.id \in Ids /\ r.name \in Names
  \/ r.tag = "snapshot" /\ r.entries \in Nat /\ DOMAIN r.files \subseteq Ids
       /\ \A id \in DOMAIN r.files : FileType(r.files[id])
  \/ r.tag \in {"end", "zeros", "torn"}

Namespace == [Names -> Ids \cup {NoFile}]

\* The variables have their types; the log never writes beyond a zone's capacity,
\* neither records nor the end record and superblock of a roll.
TypeOK ==
  /\ DOMAIN log = Zones
  /\ \A z \in Zones : \A i \in DOMAIN log[z] : IsRecord(log[z][i])
  /\ capacity_ \in [Zones -> 0..ZoneBlocks]
  /\ files_ \in Namespace /\ durable \in Namespace /\ goal \in Namespace
  /\ linkfiles_ \in [Ids -> Seq(Names)]
  /\ extents_ \in [Ids -> Seq(Nat)] /\ nr_synced_extents_ \in [Ids -> Nat]
  /\ meta_log_ \in Zones /\ old_meta_log \in Zones
  /\ next_file_id_ \in Nat /\ sequence_ \in Nat /\ trusted \in BOOLEAN
  /\ overtaken \subseteq Ids

\* A mount at any moment, whatever write a crash comes behind, finds the namespace
\* as it was before the running call's record, from the write of the record or of the
\* roll's snapshot on as these make it, and what the file system has in memory when no
\* call runs (PersistRecord, RollMetaZoneLocked, RecoverFrom and the rollbacks of
\* failed calls).
NamespaceSurvives ==
  trusted /\ pc # "blank" =>
    LET found == Recovered
    IN  /\ found.status = "ok"
        /\ found.files = durable
        /\ pc = "idle" => /\ found.files = files_
                          /\ \A id \in Live : ToSet(found.links[id]) = ToSet(linkfiles_[id])

\* A mount finds the extents a file takes for persisted, in order and none twice, also
\* when writers add extents beside calls and rolls (EncodeUpdateTo with
\* nr_synced_extents_, MergeUpdate, MetadataSynced).  Left out, until the next snapshot,
\* is a file that grew just between the encoding and MetadataSynced (overtaken).
SyncedExtentsLogged ==
  trusted /\ pc \notin Down =>
    LET found == Recovered
    IN  \A id \in Live \ overtaken :
          /\ IsPrefix(SubSeq(extents_[id], 1, nr_synced_extents_[id]), found.ext[id])
          /\ IsPrefix(found.ext[id], extents_[id])

\* Once a call has returned, the log has what it did: "After a successfull roll, a
\* complete snapshot has been persisted - no need to write the record update"
\* (PersistRecord).
NamespaceLogged == pc = "idle" => Recovered.status = "ok" /\ Recovered.files = files_

-----------------------------------------------------------------------------
(***************************************************************************)
(* The log implements the durable namespace of module DurableNames: names  *)
(* is what a mount would find (NamespaceSurvives), and a call's stage      *)
(* follows from whether its running persist has taken effect.              *)
(***************************************************************************)

Promised == trusted /\ pc \notin Down /\ call.name \in {"open", "delete", "rename", "link"}

Stage ==
  IF ~Promised THEN "idle"
  ELSE IF pc \in {"unlink", "main"} THEN pc
  ELSE IF durable # goal THEN IF record.tag = "delete" THEN "unlink" ELSE "main"
  ELSE IF record.tag = "delete" /\ call.name # "delete" THEN "main" ELSE "done"

Durable ==
  INSTANCE DurableNames WITH
    names <- IF trusted THEN durable ELSE EmptyState.files,
    call <- IF Promised THEN call ELSE NoCall,
    stage <- Stage,
    lost <- ~trusted

\* Calls change what a mount would find in one step each, in the order of their parts,
\* and new files get IDs that no file has: neither the roll of the log, whatever write
\* it is cut off behind, nor a mount, nor the rollback of a failed call shows
\* (PersistRecord, RollMetaZoneLocked, Mount, DeleteFileNoLock, RenameFileNoLock).
ImplementsDurableNames == Durable!Spec
=============================================================================
