------------------------ MODULE MigrationControlProofs ------------------------
(***************************************************************************)
(* Garbage collection beside the users of the file system: the part of its *)
(* inductive invariant that is about names, locks and lists, for every     *)
(* number of files, zones, readers, crashes and refused records.           *)
(***************************************************************************)
EXTENDS Migration, FiniteSetTheorems, TLAPS

USE NameAssumption, SizeAssumption

-----------------------------------------------------------------------------
(***************************************************************************)
(* The inductive invariant                                                 *)
(***************************************************************************)

Start == [zone : Zones \cup {NoZone}, start : 0..ZoneCap]
Record == [name : Names \cup {NoFile}, ext : Seq(Extent), size : Nat, start : Start]

\* The places of the collector: with a pointer to a file, with its WR lock, with a list
\* in which extents take new places, with the list swapped
Holding == {"wrlock", "extent", "copy", "check", "replace", "unsync", "sync", "clear",
            "release"}
Locking == Holding \ {"wrlock"}
Moving == {"extent", "copy", "check", "replace"}
Swapped == {"unsync", "sync", "clear"}

Collector ==
  [pc : {"idle", "files", "next", "reset"} \cup Holding, zones : SUBSET Zones,
   todo : SUBSET [fname : Names, ext : Extent], fname : Names \cup {NoFile},
   id : Ids \cup {NoFile}, list : Seq(Extent), old : Seq(Extent), i : Nat,
   target : Zones \cup {NoZone}, start : 0..ZoneCap]
Writer == [id : Ids \cup {NoFile}, zone : Zones \cup {NoZone}, added : 0..ZoneCap]
Holder == [by : {"none", "writer", "user", "gc"}, ids : SUBSET Ids]
Reader ==
  [pc : {"idle", "lock", "extent", "read"}, id : Ids \cup {NoFile}, size : Nat,
   ext : Extent \cup {<<>>}, got : Seq(Datum)]

Types ==
  /\ data \in [Zones -> Seq(Datum)] /\ \A z \in Zones : Len(data[z]) <= ZoneCap
  /\ used_capacity_ \in [Zones -> Int] /\ busy_ \in [Zones -> BOOLEAN]
  /\ files_ \in [Names -> Ids \cup {NoFile}] /\ next_file_id_ \in Nat \ {0}
  /\ logged \in [Ids -> Record]
  /\ extents_ \in [Ids -> Seq(Extent)] /\ nr_synced_extents_ \in [Ids -> Nat]
  /\ file_size_ \in [Ids -> Nat] /\ is_deleted_ \in [Ids -> BOOLEAN]
  /\ extent_start_ \in [Ids -> Start]
  /\ open_for_wr_ \in [Ids -> BOOLEAN] /\ writer_mtx_ \in [Ids -> BOOLEAN]
  /\ readers_ \in [Ids -> Int]
  /\ files_mtx_ \in Holder /\ writer \in Writer /\ resetting \in BOOLEAN
  /\ gc \in Collector /\ reader \in [Readers -> Reader]
  /\ crashes \in Nat /\ errors \in Nat /\ misjudged \in SUBSET Ids /\ uncopied \in SUBSET Ids

\* A file in the namespace has one name and is not deleted; one that is deleted is in no
\* record, and has extents only while the collector holds it; a number that has not
\* been given out is nowhere.
Fresh(id) ==
  /\ extents_[id] = <<>> /\ file_size_[id] = 0 /\ nr_synced_extents_[id] = 0
  /\ ~is_deleted_[id] /\ extent_start_[id] = NO_EXTENT /\ ~open_for_wr_[id]
  /\ logged[id] = NoRecord /\ id \notin misjudged
Names1 ==
  /\ \A n \in Names : files_[n] # NoFile =>
       /\ ~is_deleted_[files_[n]] /\ files_[n] < next_file_id_
       /\ \A m \in Names : files_[m] = files_[n] => m = n
  /\ \A id \in Ids : logged[id].name # NoFile => files_[logged[id].name] = id
  /\ \A id \in Ids : is_deleted_[id] =>
       logged[id] = NoRecord /\ (extents_[id] = <<>> \/ gc.id = id)
  /\ \A id \in Ids : id >= next_file_id_ => Fresh(id)

\* The WR lock has one owner, the thread that writes or the collector; so has a busy zone.
WRLocks ==
  /\ writer.id # NoFile => open_for_wr_[writer.id] /\ writer.id \in Live(files_)
  /\ gc.id # NoFile <=> gc.pc \in Holding
  /\ gc.id # NoFile => /\ is_deleted_[gc.id] \/ gc.id \in Live(files_)
                       /\ gc.id < next_file_id_
  /\ gc.pc \in Locking => open_for_wr_[gc.id] /\ gc.id # writer.id
  /\ writer.zone # NoZone => busy_[writer.zone]
  /\ gc.pc \in {"copy", "check"} =>
       gc.target \in Zones /\ busy_[gc.target] /\ gc.target # writer.zone

\* readers_ counts the readers in their critical section.
Reading(id) == {r \in Readers : reader[r].pc \in {"extent", "read"} /\ reader[r].id = id}
RWLocks ==
  /\ \A id \in Ids : readers_[id] = Cardinality(Reading(id))
  /\ \A id \in Ids : writer_mtx_[id] <=> gc.pc = "replace" /\ gc.id = id
  /\ \A r \in Readers : reader[r].pc # "idle" =>
       /\ reader[r].id \in Live(files_) /\ reader[r].id # writer.id
       /\ reader[r].size = file_size_[reader[r].id]
  /\ \A r \in Readers : /\ reader[r].pc = "idle" => reader[r] = NoReader
                        /\ reader[r].pc = "read" => reader[r].ext \in Extent

\* The list at work, the file's and the old one have extents of the same lengths.
SameLengths(one, other) ==
  Len(one) = Len(other) /\ \A i \in DOMAIN one : one[i].length = other[i].length
Lists ==
  /\ gc.pc \in Moving => SameLengths(gc.list, extents_[gc.id])
  /\ gc.pc \in {"extent", "copy", "check"} =>
       gc.i >= 1 /\ \A i \in DOMAIN gc.list : i >= gc.i => gc.list[i] = extents_[gc.id][i]
  /\ gc.pc \in {"copy", "check"} => gc.i \in DOMAIN gc.list
  /\ gc.pc = "copy" => /\ capacity_(gc.target) >= gc.list[gc.i].length
                       /\ gc.start = Len(data[gc.target])
  /\ gc.pc = "check" /\ gc.id \notin uncopied =>
       gc.start + gc.list[gc.i].length = Len(data[gc.target])
  /\ gc.pc \in Swapped => gc.list = extents_[gc.id] /\ SameLengths(gc.old, gc.list)
  /\ \A id \in Ids : nr_synced_extents_[id] <= Len(extents_[id]) \/ is_deleted_[id]

\* Only the file that is being written has an active extent.  It ends at the write pointer,
\* but for the extent that is in the list already.
Closing == writer.id # NoFile /\ writer.zone # NoZone /\ extent_start_[writer.id].zone = NoZone
Active ==
  /\ \A id \in Ids : extent_start_[id].zone # NoZone => id = writer.id
  /\ \A id \in Ids : logged[id].start.zone # NoZone =>
       id = writer.id /\ logged[id].start.zone = extent_start_[id].zone
  /\ writer.id # NoFile /\ writer.zone # NoZone /\ ~Closing =>
       /\ extent_start_[writer.id].zone = writer.zone
       /\ extent_start_[writer.id].start + writer.added = Len(data[writer.zone])
  /\ writer.added > 0 => writer.id # NoFile /\ writer.zone # NoZone /\ ~Closing

\* Who holds files_mtx_ is about to mark files of the namespace, the collector its own
\* among them.
Mutex ==
  /\ files_mtx_.by = "none" => files_mtx_.ids = {}
  /\ files_mtx_.ids \subseteq Live(files_)
  /\ files_mtx_.by = "gc" => gc.pc = "clear" /\ gc.id \in files_mtx_.ids
  /\ files_mtx_.by = "writer" => writer.added = 0
  /\ uncopied \subseteq misjudged /\ (errors = 0 => uncopied = {})

Control == Types /\ Names1 /\ WRLocks /\ RWLocks /\ Lists /\ Active /\ Mutex

-----------------------------------------------------------------------------
(***************************************************************************)
(* Types                                                                   *)
(***************************************************************************)

\* 0 is no file and no zone.
LEMMA Zeros == NoFile \notin Ids /\ NoZone \notin Zones /\ NoFile \notin Names
BY DEF NoFile, NoZone, Ids, Zones

\* The constant records have their types.
LEMMA ConstantTypes ==
  /\ NO_EXTENT \in Start /\ NoRecord \in Record
  /\ NoWriter \in Writer /\ Unlocked \in Holder
  /\ NoReader \in Reader /\ NoGC \in Collector
<1>1. NO_EXTENT \in Start
  BY DEF NO_EXTENT, Start
<1>2. NoRecord \in Record
  BY <1>1 DEF NoRecord, Record
<1>3. NoWriter \in Writer /\ Unlocked \in Holder
  BY DEF NoWriter, Writer, Unlocked, Holder
<1>4. NoReader \in Reader
  BY DEF NoReader, Reader
<1>5. NoGC \in Collector
  BY DEF NoGC, Collector
<1> QED
  BY <1>1, <1>2, <1>3, <1>4, <1>5

\* The fields of the state behind Skip
LEMMA SkipType ==
  ASSUME Types, NEW fname
  PROVE  /\ Skip(fname) \in Collector
         /\ Skip(fname).pc = "reset" /\ Skip(fname).id = NoFile
<1>1. gc \in Collector
  BY DEF Types
<1>2. Skip(fname) = [NoGC EXCEPT !.pc = "reset", !.todo = {t \in gc.todo : t.fname # fname}]
  BY DEF Skip
<1>3. {t \in gc.todo : t.fname # fname} \in SUBSET [fname : Names, ext : Extent]
  BY <1>1 DEF Collector
<1> QED
  BY Zenon, <1>2, <1>3, ConstantTypes DEF NoGC, Collector

\* What a set of slots and a number of them are
LEMMA SlotsFinite ==
  ASSUME NEW list \in Seq(Extent), NEW z
  PROVE  IsFiniteSet(Slots(z, list)) /\ LengthIn(z, list) \in Nat
<1>1. IsFiniteSet(DOMAIN list) /\ IsFiniteSet(1..ZoneCap)
  <2>1. DOMAIN list = 1..Len(list) /\ Len(list) \in Nat
    OBVIOUS
  <2> QED
    BY <2>1, FS_Interval
<1>2. IsFiniteSet((DOMAIN list) \X (1..ZoneCap))
  BY <1>1, FS_Product
<1>3. Slots(z, list) \in SUBSET ((DOMAIN list) \X (1..ZoneCap))
  BY DEF Slots
<1>4. IsFiniteSet(Slots(z, list))
  BY <1>2, <1>3, FS_Subset
<1> QED
  BY <1>4, FS_CardinalityType DEF LengthIn

\* The offset of an extent in its file is a number.
LEMMA BeforeType ==
  ASSUME NEW list, NEW i \in Nat
  PROVE  Before(list, i) \in Nat
<1> DEFINE all == (1..(i - 1)) \X (1..ZoneCap)
           some == {s \in all : s[2] <= list[s[1]].length}
<1>1. IsFiniteSet(1..(i - 1)) /\ IsFiniteSet(1..ZoneCap)
  BY FS_Interval
<1>2. IsFiniteSet(all) /\ some \in SUBSET all
  BY <1>1, FS_Product
<1>3. IsFiniteSet(some)
  BY <1>2, FS_Subset
<1>4. Cardinality(some) \in Nat
  BY <1>3, FS_CardinalityType
<1> QED
  BY <1>4 DEF Before

\* What is persisted has its type.
LEMMA PersistTypes ==
  ASSUME Types, extent_start_' \in [Ids -> Start], NEW id \in Ids, NEW name \in Names,
         NEW files \in [Names -> Ids \cup {NoFile}], NEW replace \in BOOLEAN,
         NEW by \in {"writer", "user", "gc"}, AddRecord(by, id, name, replace) \/ RollMetaZone(by, files)
  PROVE  logged' \in [Ids -> Record] /\ files_mtx_' \in Holder
<1>1. CASE AddRecord(by, id, name, replace)
  <2>1. Unsynced(id) \in Seq(Extent)
    BY DEF Types, Unsynced
  <2>2. logged[id].ext \in Seq(Extent)
    BY DEF Types, Record
  <2> DEFINE ext == (IF replace THEN <<>> ELSE logged[id].ext) \o Unsynced(id)
  <2>3. ext \in Seq(Extent)
    BY <2>1, <2>2
  <2> HIDE DEF ext
  <2>4. logged' = [logged EXCEPT ![id] = [name |-> name, size |-> file_size_[id],
                                          start |-> extent_start_'[id], ext |-> ext]]
    BY <1>1 DEF AddRecord, ext
  <2>5. [name |-> name, size |-> file_size_[id], start |-> extent_start_'[id], ext |-> ext]
          \in Record
    BY <2>3 DEF Record, Types
  <2>7. files_mtx_' \in Holder
    BY <1>1 DEF AddRecord, Holder
  <2> QED
    BY <2>4, <2>5, <2>7 DEF Types
<1>2. CASE RollMetaZone(by, files)
  <2>1. ASSUME NEW f \in Live(files) PROVE NameOf(files, f) \in Names
    BY DEF Live, NameOf
  <2>2. ASSUME NEW f \in Live(files)
        PROVE  [name |-> NameOf(files, f), size |-> file_size_[f],
                start |-> extent_start_'[f], ext |-> extents_[f]] \in Record
    <3>1. f \in Ids /\ NameOf(files, f) \in Names
      BY <2>1 DEF Live
    <3> QED
      BY <3>1 DEF Record, Types
  <2>3. logged' \in [Ids -> Record]
    BY <1>2, <2>2, ConstantTypes DEF RollMetaZone
  <2> QED
    BY <1>2, <2>3 DEF RollMetaZone, Holder, Live
<1> QED
  BY <1>1, <1>2

\* PersistUpdate writes a record of the right type, whether it appends or rolls the log.
LEMMA UpdateTypes ==
  ASSUME Types, extent_start_' \in [Ids -> Start], NEW id \in Ids, NEW name \in Names,
         NEW files \in [Names -> Ids \cup {NoFile}], NEW by \in {"writer", "user", "gc"},
         PersistUpdate(by, id, name, files)
  PROVE  /\ logged' \in [Ids -> Record] /\ files_mtx_' \in Holder
         /\ misjudged' \in SUBSET Ids
<1>1. AddRecord(by, id, name, FALSE) \/ RollMetaZone(by, files)
  BY DEF PersistUpdate
<1>2. logged' \in [Ids -> Record] /\ files_mtx_' \in Holder
  BY <1>1, PersistTypes
<1> QED
  BY <1>2 DEF PersistUpdate, Race, Live, Types

\* PersistDeletion does too.
LEMMA DeletionTypes ==
  ASSUME Types, extent_start_' \in [Ids -> Start], NEW id \in Ids,
         NEW files \in [Names -> Ids \cup {NoFile}], NEW by \in {"writer", "user", "gc"},
         PersistDeletion(by, id, files), NEW name \in Names
  PROVE  /\ logged' \in [Ids -> Record] /\ files_mtx_' \in Holder
         /\ misjudged' \in SUBSET Ids
<1>1. CASE RollMetaZone(by, files) /\ Race(Live(files), Pushed \cup Unmarked)
  <2>1. logged' \in [Ids -> Record] /\ files_mtx_' \in Holder
    BY <1>1, PersistTypes
  <2> QED
    BY <1>1, <2>1 DEF Race, Live, Types
<1>2. CASE /\ logged' = [logged EXCEPT ![id] = NoRecord]
            /\ UNCHANGED <<files_mtx_, misjudged>>
  <2>1. logged' \in [Ids -> Record]
    BY <1>2, ConstantTypes DEF Types
  <2> QED
    BY <1>2, <2>1 DEF Types
<1> QED
  BY <1>1, <1>2 DEF PersistDeletion

\* The name of a file in the namespace
LEMMA NameOfLive ==
  ASSUME NEW files, NEW id \in Live(files)
  PROVE  NameOf(files, id) \in Names /\ files[NameOf(files, id)] = id
BY DEF Live, NameOf

\* What is left where slots are taken from the count
LEMMA ClearTypes ==
  ASSUME Types, NEW id \in Ids, ClearExtents(id)
  PROVE  used_capacity_' \in [Zones -> Int]
<1>1. ASSUME NEW z \in Zones PROVE used_capacity_[z] - LengthIn(z, extents_[id]) \in Int
  <2>1. LengthIn(z, extents_[id]) \in Nat
    BY SlotsFinite DEF Types
  <2> QED
    BY <2>1 DEF Types
<1> QED
  BY <1>1 DEF ClearExtents

\* ResetUnusedIOZones empties zones and leaves the others alone.
LEMMA ResetTypes ==
  ASSUME Types, ResetUnusedIOZones
  PROVE  data' \in [Zones -> Seq(Datum)] /\ \A z \in Zones : Len(data'[z]) <= ZoneCap
<1>1. ASSUME NEW z \in Zones
      PROVE  /\ data'[z] = <<>> \/ data'[z] = data[z]
             /\ data'[z] \in Seq(Datum) /\ Len(data'[z]) <= ZoneCap
  BY DEF ResetUnusedIOZones, Types
<1> QED
  BY <1>1 DEF ResetUnusedIOZones

\* What is read from the place of an extent has the length of the extent.
LEMMA ContentType ==
  ASSUME Types, NEW e \in Extent
  PROVE  Content(e) \in Seq(Datum) /\ Len(Content(e)) = e.length
<1>1. data[e.zone] \in Seq(Datum) /\ e.length \in Nat
  BY DEF Types, Extent
<1>2. ASSUME NEW k \in 1..e.length
      PROVE  (IF e.start + k \in DOMAIN data[e.zone]
              THEN data[e.zone][e.start + k] ELSE <<NoFile, 0>>) \in Datum
  <2>1. <<NoFile, 0>> \in Datum
    BY DEF Datum, NoFile
  <2> QED
    BY <1>1, <2>1
<1>3. Content(e) \in [1..e.length -> Datum]
  BY <1>2 DEF Content
<1> QED
  BY <1>1, <1>3

\* What is appended to a sequence lies behind it.
LEMMA ConcatType ==
  ASSUME NEW S, NEW a \in Seq(S), NEW b \in Seq(S)
  PROVE  a \o b \in Seq(S) /\ Len(a \o b) = Len(a) + Len(b)
OBVIOUS

\* The file the collector holds
LEMMA HeldFile ==
  ASSUME Types, WRLocks, gc.pc \in Holding
  PROVE  gc.id \in Ids
<1>1. gc.id # NoFile
  BY DEF WRLocks
<1> QED
  BY <1>1 DEF Types, Collector

\* Dropping the last pointer leaves the types alone.
LEMMA DropTypes ==
  ASSUME Types, NEW id \in Ids, Drop(id)
  PROVE  used_capacity_' \in [Zones -> Int] /\ extents_' \in [Ids -> Seq(Extent)]
<1>1. CASE is_deleted_[id]
  <2>1. ClearExtents(id) /\ extents_' = [extents_ EXCEPT ![id] = <<>>]
    BY <1>1 DEF Drop
  <2>2. extents_ \in [Ids -> Seq(Extent)] /\ <<>> \in Seq(Extent)
    BY DEF Types
  <2> QED
    BY <2>1, <2>2, ClearTypes
<1>2. CASE ~is_deleted_[id]
  BY <1>2 DEF Drop, Types
<1> QED
  BY <1>1, <1>2

\* The actions that change the collector's state, and what else
LEMMA CollectTypes ==
  ASSUME Control, Collect
  PROVE  Types'
<1> USE DEF device, namespace, lists, locks, faults, metadata
<1>0. Types /\ gc \in Collector
  BY DEF Control, Types
<1>1. CASE GCWorker
  <2>1. gc' \in Collector
    BY Zenon, <1>0, <1>1 DEF GCWorker, Collector
  <2> QED
    BY <1>0, <1>1, <2>1 DEF Types, GCWorker
<1>2. CASE GetZenFSSnapshot
  <2> DEFINE todo == {t \in [fname : Names, ext : UNION {ToSet(extents_[id]) : id \in Ids}] :
                        /\ files_[t.fname] # NoFile
                        /\ ~open_for_wr_[files_[t.fname]]
                        /\ t.ext \in ToSet(extents_[files_[t.fname]])
                        /\ t.ext.zone \in gc.zones}
  <2>1. ASSUME NEW id \in Ids PROVE ToSet(extents_[id]) \subseteq Extent
    BY <1>0 DEF Types, ToSet
  <2>2. todo \in SUBSET [fname : Names, ext : Extent]
    BY <2>1
  <2> HIDE DEF todo
  <2>3. gc' = IF todo = {} THEN NoGC ELSE [NoGC EXCEPT !.pc = "next", !.todo = todo]
    BY <1>2 DEF GetZenFSSnapshot, todo
  <2>4. gc' \in Collector
    BY <2>2, <2>3, ConstantTypes DEF Collector
  <2> QED
    BY <1>0, <1>2, <2>4 DEF Types, GetZenFSSnapshot
<1>3. CASE TryAcquireWRLock
  <2>0. gc.id \in Ids
    BY <1>0, <1>3, HeldFile DEF Control, TryAcquireWRLock, Holding
  <2>1. gc' \in Collector
    <3>1. extents_[gc.id] \in Seq(Extent)
      BY <1>0, <2>0 DEF Types
    <3>2. CASE gc' = Skip(gc.fname)
      BY <1>0, <3>2, SkipType
    <3>3. CASE gc' = [gc EXCEPT !.pc = "extent", !.list = extents_[gc.id], !.i = 1]
      BY <1>0, <3>1, <3>3 DEF Collector, Holding
    <3> QED
      BY <1>3, <3>2, <3>3 DEF TryAcquireWRLock
  <2>2. open_for_wr_' \in [Ids -> BOOLEAN]
    BY <1>0, <1>3 DEF TryAcquireWRLock, Types
  <2>3. used_capacity_' \in [Zones -> Int] /\ extents_' \in [Ids -> Seq(Extent)]
    <3>1. CASE Drop(gc.id)
      BY <1>0, <2>0, <3>1, DropTypes
    <3>2. CASE UNCHANGED <<used_capacity_, extents_>>
      BY <1>0, <3>2 DEF Types
    <3> QED
      BY <1>3, <3>1, <3>2 DEF TryAcquireWRLock
  <2> QED
    BY <1>0, <1>3, <2>1, <2>2, <2>3 DEF Types, TryAcquireWRLock
<1>4. ASSUME NEW n \in Names, MigrateGetFile(n) PROVE Types'
  <2>1. gc' \in Collector
    <3>1. files_[n] \in Ids \cup {NoFile}
      BY <1>0 DEF Types
    <3>2. CASE gc' = Skip(n)
      BY <1>0, <3>2, SkipType
    <3>3. CASE gc' = [gc EXCEPT !.pc = "wrlock", !.fname = n, !.id = files_[n]]
      BY <1>0, <3>1, <3>3 DEF Collector, Holding
    <3> QED
      BY <1>4, <3>2, <3>3 DEF MigrateGetFile
  <2> QED
    BY <1>0, <1>4, <2>1 DEF Types, MigrateGetFile
<1>5. ASSUME NEW z \in Zones, TakeMigrateZone(z) PROVE Types'
  <2>0. Len(data[z]) \in 0..ZoneCap
    BY <1>0 DEF Types
  <2>1. gc' \in Collector
    BY <1>0, <1>5, <2>0 DEF TakeMigrateZone, Collector, Holding
  <2>2. busy_' \in [Zones -> BOOLEAN]
    BY <1>0, <1>5 DEF TakeMigrateZone, Types
  <2> QED
    BY <1>0, <1>5, <2>1, <2>2 DEF Types, TakeMigrateZone
<1>6. CASE LeaveExtent
  <2>1. gc' \in Collector
    <3>1. gc' = [gc EXCEPT !.i = @ + 1] /\ gc.i + 1 \in Nat
      BY <1>0, <1>6 DEF LeaveExtent, Collector
    <3> QED
      BY <1>0, <3>1 DEF Collector
  <2> QED
    BY <1>0, <1>6, <2>1 DEF Types, LeaveExtent
<1>7. CASE MigrateData
  <2>1. gc' \in Collector
    BY <1>0, <1>7 DEF MigrateData, Collector, Holding
  <2>2. gc.target \in Zones /\ gc.list[gc.i] \in Extent
    BY <1>0, <1>7 DEF MigrateData, Control, WRLocks, Lists, Collector
  <2>3. capacity_(gc.target) >= gc.list[gc.i].length
    BY <1>7 DEF MigrateData, Control, Lists
  <2>4. data[gc.target] \in Seq(Datum) /\ Content(gc.list[gc.i]) \in Seq(Datum)
        /\ Len(Content(gc.list[gc.i])) = gc.list[gc.i].length
        /\ gc.list[gc.i].length \in Nat
    <3>1. data[gc.target] \in Seq(Datum) /\ gc.list[gc.i].length \in Nat
      BY <1>0, <2>2 DEF Types, Extent
    <3> QED
      BY <1>0, <2>2, <3>1, ContentType
  <2>5. data[gc.target] \o Content(gc.list[gc.i]) \in Seq(Datum)
        /\ Len(data[gc.target] \o Content(gc.list[gc.i])) <= ZoneCap
    <3>1. Len(data[gc.target] \o Content(gc.list[gc.i]))
             = Len(data[gc.target]) + gc.list[gc.i].length
      <4> DEFINE d == data[gc.target]
                 c == Content(gc.list[gc.i])
      <4>1. d \in Seq(Datum) /\ c \in Seq(Datum) /\ Len(c) = gc.list[gc.i].length
        BY <2>4
      <4> HIDE DEF d, c
      <4>2. Len(d \o c) = Len(d) + Len(c)
        BY <4>1
      <4> QED
        BY <4>1, <4>2 DEF d, c
    <3>2. Len(data[gc.target]) \in Nat /\ Len(data[gc.target]) <= ZoneCap
      BY <1>0, <2>2 DEF Types
    <3> QED
      BY <2>3, <2>4, <3>1, <3>2 DEF capacity_
  <2>6. data' \in [Zones -> Seq(Datum)] /\ \A z \in Zones : Len(data'[z]) <= ZoneCap
    BY <1>0, <1>7, <2>2, <2>5 DEF MigrateData, Types
  <2> QED
    BY <1>0, <1>7, <2>1, <2>6 DEF Types, MigrateData
<1>8. CASE ExtentMigrated
  <2> DEFINE e == gc.list[gc.i]
             f == [e EXCEPT !.zone = gc.target, !.start = gc.start]
  <2>1. gc.i \in DOMAIN gc.list /\ gc.target \in Zones /\ e \in Extent
        /\ gc.start \in 0..ZoneCap
    BY <1>0, <1>8 DEF ExtentMigrated, Control, WRLocks, Lists, Collector
  <2>2. f \in Extent
    BY <2>1 DEF Extent
  <2> HIDE DEF f
  <2>3. gc' = [gc EXCEPT !.pc = "extent", !.i = @ + 1, !.target = NoZone, !.list[gc.i] = f]
    BY <1>8 DEF ExtentMigrated, f
  <2>4. [gc.list EXCEPT ![gc.i] = f] \in Seq(Extent)
    BY <1>0, <2>1, <2>2 DEF Collector
  <2>5. gc' \in Collector
    <3>1. gc.i + 1 \in Nat
      BY <1>0 DEF Collector
    <3>2. gc' = [gc EXCEPT !.pc = "extent", !.i = gc.i + 1, !.target = NoZone,
                           !.list = [gc.list EXCEPT ![gc.i] = f]]
      BY <1>0, <2>3 DEF Collector
    <3> QED
      BY <1>0, <2>4, <3>1, <3>2 DEF Collector, Holding
  <2>6. used_capacity_' \in [Zones -> Int]
    <3>1. used_capacity_ \in [Zones -> Int] /\ e.length \in Int
      BY <1>0, <2>1 DEF Types, Extent
    <3>2. used_capacity_' = [used_capacity_ EXCEPT ![gc.target] = @ + e.length]
      BY <1>8 DEF ExtentMigrated
    <3> QED
      BY <2>1, <3>1, <3>2
  <2>7. busy_' \in [Zones -> BOOLEAN]
    BY <1>0, <1>8 DEF ExtentMigrated, Types, ReleaseMigrateZone
  <2> QED
    BY <1>0, <1>8, <2>5, <2>6, <2>7 DEF Types, ExtentMigrated
<1>9. CASE FileGone
  <2>1. gc' \in Collector
    <3>1. gc' = [gc EXCEPT !.pc = "extent", !.i = Len(gc.list) + 1, !.target = NoZone]
      BY <1>9 DEF FileGone
    <3>2. Len(gc.list) + 1 \in Nat
      BY <1>0 DEF Collector
    <3> QED
      BY <1>0, <3>1, <3>2 DEF Collector, Holding
  <2>2. busy_' \in [Zones -> BOOLEAN]
    BY <1>0, <1>9 DEF FileGone, Types, ReleaseMigrateZone
  <2> QED
    BY <1>0, <1>9, <2>1, <2>2 DEF Types, FileGone
<1>10. CASE WriteLock
  <2>1. gc' \in Collector
    BY <1>0, <1>10 DEF WriteLock, Collector, Holding
  <2>2. writer_mtx_' \in [Ids -> BOOLEAN]
    BY <1>0, <1>10 DEF WriteLock, Types
  <2> QED
    BY <1>0, <1>10, <2>1, <2>2 DEF Types, WriteLock
<1>11. CASE ReplaceExtentList
  <2>0. gc.id \in Ids
    BY <1>0, <1>11, HeldFile DEF Control, ReplaceExtentList, Holding
  <2>1. extents_[gc.id] \in Seq(Extent) /\ gc.list \in Seq(Extent)
    BY <1>0, <2>0 DEF Types, Collector
  <2>2. gc' \in Collector
    BY <1>0, <1>11, <2>1 DEF ReplaceExtentList, Collector, Holding
  <2>3. writer_mtx_' \in [Ids -> BOOLEAN] /\ extents_' \in [Ids -> Seq(Extent)]
    BY <1>0, <1>11, <2>1 DEF ReplaceExtentList, Types
  <2> QED
    BY <1>0, <1>11, <2>2, <2>3 DEF Types, ReplaceExtentList
<1>12. CASE MetadataUnsynced
  <2>1. gc' \in Collector
    BY <1>0, <1>12 DEF MetadataUnsynced, Collector, Holding
  <2>2. nr_synced_extents_' \in [Ids -> Nat]
    BY <1>0, <1>12 DEF MetadataUnsynced, Types
  <2> QED
    BY <1>0, <1>12, <2>1, <2>2 DEF Types, MetadataUnsynced
<1>13. CASE SyncFileMetadata
  <2>0. gc.id \in Ids
    BY <1>0, <1>13, HeldFile DEF Control, SyncFileMetadata, Holding
  <2>1. gc' \in Collector
    <3>1. gc' = [gc EXCEPT !.pc = "clear"] \/ gc' = [gc EXCEPT !.pc = "release"]
      BY <1>13 DEF SyncFileMetadata
    <3>2. CASE gc' = [gc EXCEPT !.pc = "clear"]
      BY <1>0, <3>2 DEF Collector, Holding
    <3>3. CASE gc' = [gc EXCEPT !.pc = "release"]
      BY <1>0, <3>3 DEF Collector, Holding
    <3> QED
      BY <3>1, <3>2, <3>3
  <2>2. errors' \in Nat /\ misjudged' \in SUBSET Ids
    <3>1. errors \in Nat /\ misjudged \in SUBSET Ids
      BY <1>0 DEF Types
    <3>2. errors' = errors \/ errors' = errors + 1
      BY <1>13 DEF SyncFileMetadata, Refused
    <3>3. \/ misjudged' = misjudged \/ misjudged' = misjudged \cup {gc.id}
          \/ Race({gc.id}, Pushed) \/ Race(Live(files_), Pushed)
      BY <1>13 DEF SyncFileMetadata
    <3> QED
      BY <2>0, <3>1, <3>2, <3>3 DEF Race, Live
  <2>3. logged' \in [Ids -> Record] /\ files_mtx_' \in Holder
    <3>1. CASE UNCHANGED metadata
      BY <1>0, <3>1 DEF Types
    <3>2. CASE /\ ~is_deleted_[gc.id]
               /\ \/ AddRecord("gc", gc.id, NameOf(files_, gc.id), TRUE)
                  \/ RollMetaZone("gc", files_)
      <4>1. gc.id \in Live(files_)
        BY <1>13, <2>0, <3>2, Zeros DEF Control, WRLocks
      <4>2. NameOf(files_, gc.id) \in Names
        BY <4>1, NameOfLive
      <4>3. extent_start_' \in [Ids -> Start] /\ files_ \in [Names -> Ids \cup {NoFile}]
        BY <1>0, <1>13 DEF SyncFileMetadata, Types
      <4> QED
        BY <1>0, <2>0, <3>2, <4>2, <4>3, PersistTypes
    <3> QED
      BY <1>13, <3>1, <3>2 DEF SyncFileMetadata
  <2> QED
    BY <1>0, <1>13, <2>1, <2>2, <2>3 DEF Types, SyncFileMetadata
<1>14. CASE SyncFileExtentsDone
  <2>1. gc' \in Collector
    <3>1. gc' = [gc EXCEPT !.pc = "release", !.old = <<>>]
      BY <1>14 DEF SyncFileExtentsDone
    <3>2. <<>> \in Seq(Extent)
      OBVIOUS
    <3> QED
      BY <1>0, <3>1, <3>2 DEF Collector, Holding
  <2>2. ASSUME NEW z \in Zones PROVE Cardinality(Moved(z, gc.old, gc.list)) \in Nat
    <3>1. IsFiniteSet(Slots(z, gc.old)) /\ Moved(z, gc.old, gc.list) \in SUBSET Slots(z, gc.old)
      BY <1>0, SlotsFinite DEF Collector, Moved
    <3>2. IsFiniteSet(Moved(z, gc.old, gc.list))
      BY <3>1, FS_Subset
    <3> QED
      BY <3>2, FS_CardinalityType
  <2>3. used_capacity_' \in [Zones -> Int]
    BY <1>0, <1>14, <2>2 DEF SyncFileExtentsDone, Types
  <2> QED
    BY <1>0, <1>14, <2>1, <2>3 DEF Types, SyncFileExtentsDone
<1>15. CASE ReleaseWRLock
  <2>0. gc.id \in Ids
    BY <1>0, <1>15, HeldFile DEF Control, ReleaseWRLock, Holding
  <2>1. gc' \in Collector
    BY <1>0, <1>15, SkipType DEF ReleaseWRLock
  <2>2. open_for_wr_' \in [Ids -> BOOLEAN]
    BY <1>0, <1>15 DEF ReleaseWRLock, Types
  <2>3. used_capacity_' \in [Zones -> Int] /\ extents_' \in [Ids -> Seq(Extent)]
    BY <1>0, <1>15, <2>0, DropTypes DEF ReleaseWRLock
  <2> QED
    BY <1>0, <1>15, <2>1, <2>2, <2>3 DEF Types, ReleaseWRLock
<1>16. CASE MigrateResets
  <2>1. gc' \in Collector
    BY <1>0, <1>16, ConstantTypes DEF MigrateResets, Collector
  <2>2. data' \in [Zones -> Seq(Datum)] /\ \A z \in Zones : Len(data'[z]) <= ZoneCap
    BY <1>0, <1>16, ResetTypes DEF MigrateResets
  <2> QED
    BY <1>0, <1>16, <2>1, <2>2 DEF Types, MigrateResets
<1>17. CASE MigrateDataError
  <2> DEFINE e == gc.list[gc.i]
  <2>1. gc' \in Collector
    BY <1>0, <1>17 DEF MigrateDataError, Collector, Holding
  <2>2. gc.target \in Zones /\ e \in Extent /\ gc.id \in Ids
    <3>1. gc.id \in Ids
      BY <1>0, <1>17, HeldFile DEF Control, MigrateDataError, Holding
    <3> QED
      BY <1>0, <1>17, <3>1 DEF MigrateDataError, Control, WRLocks, Lists, Collector
  <2>3. capacity_(gc.target) >= e.length /\ e.length \in Nat
    BY <1>17, <2>2 DEF MigrateDataError, Control, Lists, Extent
  <2>4. PICK n \in 0..(e.length - 1) : \E part \in [1..n -> ToSet(Content(e))] :
          data' = [data EXCEPT ![gc.target] = @ \o part]
    BY <1>17 DEF MigrateDataError
  <2>5. PICK part \in [1..n -> ToSet(Content(e))] : data' = [data EXCEPT ![gc.target] = @ \o part]
    BY <2>4
  <2>6. part \in Seq(Datum) /\ Len(part) = n /\ n \in Nat /\ n <= e.length
    <3>1. n \in Nat /\ n <= e.length
      BY <2>3
    <3>2. ToSet(Content(e)) \subseteq Datum
      BY <1>0, <2>2, ContentType DEF ToSet
    <3>3. part \in [1..n -> Datum]
      BY <2>5, <3>2
    <3> QED
      BY <3>1, <3>3
  <2> HIDE DEF e
  <2>7. data[gc.target] \in Seq(Datum) /\ Len(data[gc.target]) \in Nat
    BY <1>0, <2>2 DEF Types
  <2>8. data[gc.target] \o part \in Seq(Datum)
        /\ Len(data[gc.target] \o part) = Len(data[gc.target]) + n
    BY <2>6, <2>7, ConcatType
  <2>9. Len(data[gc.target] \o part) <= ZoneCap
    BY <2>3, <2>6, <2>7, <2>8 DEF capacity_
  <2>10. data' \in [Zones -> Seq(Datum)] /\ \A z \in Zones : Len(data'[z]) <= ZoneCap
    BY <1>0, <2>2, <2>5, <2>8, <2>9 DEF Types
  <2>11. errors' \in Nat /\ misjudged' \in SUBSET Ids /\ uncopied' \in SUBSET Ids
    <3>1. /\ errors' = errors + 1 /\ misjudged' = misjudged \cup {gc.id}
          /\ uncopied' = uncopied \cup {gc.id}
      BY <1>17 DEF MigrateDataError, Refused
    <3>2. errors \in Nat /\ misjudged \in SUBSET Ids /\ uncopied \in SUBSET Ids
      BY <1>0 DEF Types
    <3> QED
      BY <2>2, <3>1, <3>2
  <2> QED
    BY <1>0, <1>17, <2>1, <2>10, <2>11 DEF Types, MigrateDataError
<1> QED
  BY <1>1, <1>2, <1>3, <1>4, <1>5, <1>6, <1>7, <1>8, <1>9, <1>10, <1>11, <1>12, <1>13,
     <1>14, <1>15, <1>16, <1>17 DEF Collect

\* Opening, allocating, writing, closing, deleting and renaming keep the types.
LEMMA UserTypes ==
  ASSUME Control,
         \/ \E n \in Names : OpenWritableFile(n) \/ ReopenWritableFile(n) \/ DeleteFile(n)
         \/ \E z \in Zones : AllocateNewZone(z)
         \/ \E length \in Lengths : BufferedAppend(length)
         \/ MetadataSynced \/ BufferedAppendDone
         \/ CloseWR \/ CloseWRDone \/ CloseActiveZone \/ ResetUnused
         \/ \E src \in TempNames, dst \in Names \ TempNames : RenameFile(src, dst)
  PROVE  Types'
<1> USE DEF device, namespace, lists, locks, faults, metadata
<1>0. /\ Types /\ writer \in Writer
      /\ files_ \in [Names -> Ids \cup {NoFile}] /\ extent_start_ \in [Ids -> Start]
  BY DEF Control, Types
<1>w. writer.id # NoFile => writer.id \in Ids /\ NameOf(files_, writer.id) \in Names
  BY <1>0, NameOfLive DEF Control, WRLocks, Writer
<1>1. ASSUME NEW n \in Names, OpenWritableFile(n) PROVE Types'
  <2> DEFINE id == next_file_id_
  <2>1. id \in Ids /\ UNCHANGED extent_start_ /\ PersistUpdate("writer", id, n, files_)
    BY <1>1 DEF OpenWritableFile
  <2>2. /\ logged' \in [Ids -> Record] /\ files_mtx_' \in Holder
        /\ misjudged' \in SUBSET Ids
    BY <1>0, <2>1, UpdateTypes
  <2>3. files_' \in [Names -> Ids \cup {NoFile}] /\ open_for_wr_' \in [Ids -> BOOLEAN]
    BY <1>0, <1>1, <2>1 DEF OpenWritableFile, Types
  <2>4. next_file_id_' \in Nat \ {0}
    BY <1>0, <1>1 DEF OpenWritableFile, Types
  <2>5. writer' \in Writer
    BY <1>1, <2>1 DEF OpenWritableFile, NoWriter, Writer, NoZone
  <2> QED
    BY <1>0, <1>1, <2>2, <2>3, <2>4, <2>5 DEF OpenWritableFile, Types
<1>2. ASSUME NEW n \in Names, ReopenWritableFile(n) PROVE Types'
  <2>1. open_for_wr_' \in [Ids -> BOOLEAN]
    BY <1>0, <1>2 DEF ReopenWritableFile, Types
  <2>2. writer' \in Writer
    BY <1>0, <1>2 DEF ReopenWritableFile, NoWriter, Writer, NoZone
  <2> QED
    BY <1>0, <1>2, <2>1, <2>2 DEF ReopenWritableFile, Types
<1>3. ASSUME NEW n \in Names, DeleteFile(n) PROVE Types'
  <2> DEFINE id == files_[n]
             files == [files_ EXCEPT ![n] = NoFile]
  <2>1. id \in Ids /\ UNCHANGED extent_start_ /\ PersistDeletion("user", id, files) /\ files_' = files
    BY <1>0, <1>3 DEF DeleteFile
  <2>2. files \in [Names -> Ids \cup {NoFile}]
    BY <1>0
  <2>3. /\ logged' \in [Ids -> Record] /\ files_mtx_' \in Holder
        /\ misjudged' \in SUBSET Ids
    BY <1>0, <2>1, <2>2, DeletionTypes
  <2>4. is_deleted_' \in [Ids -> BOOLEAN] /\ resetting' \in BOOLEAN
    BY <1>0, <1>3 DEF DeleteFile, Types
  <2>5. used_capacity_' \in [Zones -> Int] /\ extents_' \in [Ids -> Seq(Extent)]
    <3>1. CASE UNCHANGED <<used_capacity_, extents_>>
      BY <1>0, <3>1 DEF Types
    <3>2. CASE ClearExtents(id) /\ extents_' = [extents_ EXCEPT ![id] = <<>>]
      <4>1. extents_ \in [Ids -> Seq(Extent)] /\ <<>> \in Seq(Extent)
        BY <1>0 DEF Types
      <4> QED
        BY <1>0, <2>1, <3>2, <4>1, ClearTypes
    <3> QED
      BY <1>3, <3>1, <3>2 DEF DeleteFile
  <2> QED
    BY <1>0, <1>3, <2>1, <2>2, <2>3, <2>4, <2>5 DEF DeleteFile, Types
<1>4. ASSUME NEW z \in Zones, AllocateNewZone(z) PROVE Types'
  <2>1. writer.id \in Ids /\ NameOf(files_, writer.id) \in Names
    BY <1>4, <1>w DEF AllocateNewZone
  <2>2. [zone |-> z, start |-> Len(data[z])] \in Start
    BY <1>0 DEF Start, Types
  <2>3. extent_start_' \in [Ids -> Start]
    BY <1>0, <1>4, <2>2 DEF AllocateNewZone
  <2>4. /\ logged' \in [Ids -> Record] /\ files_mtx_' \in Holder
        /\ misjudged' \in SUBSET Ids
    <3>1. PersistUpdate("writer", writer.id, NameOf(files_, writer.id), files_)
      BY <1>4 DEF AllocateNewZone
    <3> QED
      BY <1>0, <2>1, <2>3, <3>1, UpdateTypes
  <2>5. busy_' \in [Zones -> BOOLEAN]
    BY <1>0, <1>4 DEF AllocateNewZone, Types
  <2>6. writer' \in Writer
    <3>1. writer' = [writer EXCEPT !.zone = z]
      BY <1>4 DEF AllocateNewZone
    <3> QED
      BY <1>0, <3>1 DEF Writer
  <2> QED
    BY <1>0, <1>4, <2>3, <2>4, <2>5, <2>6 DEF AllocateNewZone, Types
<1>5. ASSUME NEW length \in Lengths, BufferedAppend(length) PROVE Types'
  <2> DEFINE id == writer.id
             z == writer.zone
             d == data[z]
             c == [k \in 1..length |-> <<id, file_size_[id] + k>>]
             e == [zone |-> z, start |-> extent_start_[id].start, length |-> length]
  <2>1. id \in Ids /\ z \in Zones /\ length \in 1..ZoneCap
    BY <1>0, <1>5 DEF BufferedAppend, Writer
  <2>2. d \in Seq(Datum) /\ Len(d) \in Nat /\ Len(d) + length <= ZoneCap
    <3>1. capacity_(z) >= length
      BY <1>5 DEF BufferedAppend
    <3>2. d \in Seq(Datum) /\ Len(d) \in Nat
      BY <1>0, <2>1 DEF Types
    <3>3. ZoneCap - Len(d) >= length
      BY <3>1 DEF capacity_
    <3> HIDE DEF d
    <3> QED
      BY <2>1, <3>2, <3>3
  <2>3. c \in Seq(Datum) /\ Len(c) = length
    <3>1. ASSUME NEW k \in 1..length PROVE <<id, file_size_[id] + k>> \in Datum
      <4>1. file_size_[id] + k \in Nat /\ id \in 0..MaxId
        <5>1. file_size_[id] \in Nat /\ k \in Nat
          BY <1>0, <2>1 DEF Types
        <5> QED
          BY <2>1, <5>1 DEF Ids
      <4> QED
        BY <4>1 DEF Datum
    <3>2. c \in [1..length -> Datum] /\ length \in Nat
      BY <2>1, <3>1
    <3> QED
      BY <3>2
  <2>4. d \o c \in Seq(Datum) /\ Len(d \o c) = Len(d) + length
    <3> HIDE DEF d, c
    <3> QED
      BY <2>2, <2>3
  <2>5. e \in Extent
    BY <1>0, <2>1 DEF Extent, Start
  <2>6. data' \in [Zones -> Seq(Datum)] /\ \A y \in Zones : Len(data'[y]) <= ZoneCap
    <3>1. data' = [data EXCEPT ![z] = d \o c]
      BY <1>5 DEF BufferedAppend
    <3>2. \A y \in Zones : data[y] \in Seq(Datum) /\ Len(data[y]) <= ZoneCap
      BY <1>0 DEF Types
    <3>3. data \in [Zones -> Seq(Datum)]
      BY <1>0 DEF Types
    <3> HIDE DEF d, c
    <3>4. data' \in [Zones -> Seq(Datum)]
      BY <2>1, <2>4, <3>1, <3>3
    <3>5. Len(data'[z]) <= ZoneCap
      BY <2>1, <2>2, <2>4, <3>1, <3>3
    <3>6. \A y \in Zones \ {z} : data'[y] = data[y]
      BY <3>1, <3>3
    <3> QED
      BY <3>2, <3>4, <3>5, <3>6
  <2>8. extents_' \in [Ids -> Seq(Extent)]
    <3>1. extents_' = [extents_ EXCEPT ![id] = Append(@, e)]
      BY <1>5 DEF BufferedAppend
    <3>2. extents_ \in [Ids -> Seq(Extent)]
      BY <1>0 DEF Types
    <3> HIDE DEF e
    <3>3. Append(extents_[id], e) \in Seq(Extent)
      BY <2>1, <2>5, <3>2
    <3> QED
      BY <3>1, <3>2, <3>3
  <2>9. writer' \in Writer
    BY <1>0, <1>5, <2>1 DEF BufferedAppend, Writer
  <2>10. misjudged' \in SUBSET Ids
    BY <1>0, <1>5, <2>1 DEF BufferedAppend, Race, Types
  <2> HIDE DEF d, c, e
  <2> QED
    BY <1>0, <1>5, <2>6, <2>8, <2>9, <2>10 DEF BufferedAppend, Types
<1>10. CASE BufferedAppendDone
  <2> DEFINE id == writer.id
             z == writer.zone
             n == Len(data[z])
  <2>1. id \in Ids /\ z \in Zones /\ writer.added \in Nat
    BY <1>0, <1>10 DEF BufferedAppendDone, Control, Active, Writer
  <2>2. n \in 0..ZoneCap
    BY <1>0, <2>1 DEF Types
  <2>3. used_capacity_' \in [Zones -> Int] /\ busy_' \in [Zones -> BOOLEAN]
    <3>1. used_capacity_ \in [Zones -> Int] /\ busy_ \in [Zones -> BOOLEAN]
          /\ used_capacity_[z] + writer.added \in Int
      BY <1>0, <2>1 DEF Types
    <3>2. used_capacity_' = [used_capacity_ EXCEPT ![z] = used_capacity_[z] + writer.added]
          /\ busy_' = [busy_ EXCEPT ![z] = ~IsFull(z)]
      BY <1>10 DEF BufferedAppendDone
    <3> QED
      BY <3>1, <3>2
  <2>4. file_size_' \in [Ids -> Nat]
    <3>1. file_size_' = [file_size_ EXCEPT ![id] = file_size_[id] + writer.added]
      BY <1>10 DEF BufferedAppendDone
    <3>2. file_size_ \in [Ids -> Nat] /\ file_size_[id] + writer.added \in Nat
      BY <1>0, <2>1 DEF Types
    <3> QED
      BY <3>1, <3>2
  <2>5. extent_start_' \in [Ids -> Start]
    <3>1. extent_start_' = [extent_start_ EXCEPT ![id].start = n]
      BY <1>10 DEF BufferedAppendDone
    <3>2. [extent_start_[id] EXCEPT !.start = n] \in Start
      BY <1>0, <2>1, <2>2 DEF Start
    <3>3. extent_start_' = [extent_start_ EXCEPT ![id] = [extent_start_[id] EXCEPT !.start = n]]
      BY <3>1
    <3> QED
      BY <1>0, <3>2, <3>3
  <2>6. writer' \in Writer
    <3>1. writer' = [writer EXCEPT !.zone = IF IsFull(z) THEN NoZone ELSE z, !.added = 0]
      BY <1>10 DEF BufferedAppendDone
    <3> DEFINE y == IF IsFull(z) THEN NoZone ELSE z
    <3>2. y \in Zones \cup {NoZone} /\ 0 \in 0..ZoneCap
      BY <2>1
    <3> HIDE DEF y
    <3>3. writer' = [writer EXCEPT !.zone = y, !.added = 0]
      BY <3>1 DEF y
    <3> QED
      BY <1>0, <3>2, <3>3 DEF Writer
  <2> QED
    BY <1>0, <1>10, <2>3, <2>4, <2>5, <2>6 DEF BufferedAppendDone, Types
<1>11. CASE MetadataSynced
  <2>1. nr_synced_extents_' \in [Ids -> Nat]
    BY <1>0, <1>11 DEF MetadataSynced, Types
  <2>2. misjudged' \in SUBSET Ids
    <3>1. misjudged \in SUBSET Ids /\ files_mtx_.ids \in SUBSET Ids
      BY <1>0 DEF Types, Holder
    <3> QED
      BY <1>11, <3>1 DEF MetadataSynced
  <2>3. files_mtx_' \in Holder
    BY <1>11, ConstantTypes DEF MetadataSynced
  <2> QED
    BY <1>0, <1>11, <2>1, <2>2, <2>3 DEF MetadataSynced, Types
<1>12. CASE CloseWRDone
  <2>1. open_for_wr_' \in [Ids -> BOOLEAN]
    BY <1>0, <1>12 DEF CloseWRDone, Types
  <2>2. writer' \in Writer
    BY <1>0, <1>12 DEF CloseWRDone, Writer
  <2> QED
    BY <1>0, <1>12, <2>1, <2>2 DEF CloseWRDone, Types
<1>6. CASE CloseWR
  <2>1. writer.id \in Ids /\ NameOf(files_, writer.id) \in Names
    BY <1>6, <1>w DEF CloseWR
  <2>2. extent_start_' \in [Ids -> Start]
    BY <1>0, <1>6, ConstantTypes DEF CloseWR
  <2>3. /\ logged' \in [Ids -> Record] /\ files_mtx_' \in Holder
        /\ misjudged' \in SUBSET Ids
    <3>1. PersistUpdate("writer", writer.id, NameOf(files_, writer.id), files_)
      BY <1>6 DEF CloseWR
    <3> QED
      BY <1>0, <2>1, <2>2, <3>1, UpdateTypes
  <2> QED
    BY <1>0, <1>6, <2>2, <2>3 DEF CloseWR, Types
<1>7. CASE CloseActiveZone
  <2>1. busy_' \in [Zones -> BOOLEAN]
    BY <1>0, <1>7 DEF CloseActiveZone, Types
  <2> QED
    BY <1>0, <1>7, <2>1, ConstantTypes DEF CloseActiveZone, Types
<1>8. CASE ResetUnused
  <2>1. data' \in [Zones -> Seq(Datum)] /\ \A z \in Zones : Len(data'[z]) <= ZoneCap
    BY <1>0, <1>8, ResetTypes DEF ResetUnused
  <2> QED
    BY <1>0, <1>8, <2>1 DEF ResetUnused, Types
<1>9. ASSUME NEW src \in Names, NEW dst \in Names, RenameFile(src, dst) PROVE Types'
  <2> DEFINE id == files_[src]
             files == [files_ EXCEPT ![src] = NoFile, ![dst] = id]
  <2>1. id \in Ids /\ UNCHANGED extent_start_ /\ PersistUpdate("user", id, dst, files)
        /\ files_' = files /\ resetting' = TRUE
    BY <1>0, <1>9 DEF RenameFile
  <2>2. files \in [Names -> Ids \cup {NoFile}]
    BY <1>0, <2>1
  <2>3. /\ logged' \in [Ids -> Record] /\ files_mtx_' \in Holder
        /\ misjudged' \in SUBSET Ids
    BY <1>0, <2>1, <2>2, UpdateTypes
  <2>4. UNCHANGED <<device, next_file_id_, extents_, nr_synced_extents_, file_size_, is_deleted_, locks,
                    writer, gc, reader, faults>>
    BY Zenon, <1>9 DEF RenameFile
  <2> HIDE DEF files
  <2> QED
    BY <1>0, <2>1, <2>2, <2>3, <2>4 DEF Types
<1> QED
  BY <1>1, <1>2, <1>3, <1>4, <1>5, <1>6, <1>7, <1>8, <1>9, <1>10, <1>11, <1>12

\* The steps of a reader keep the types.
LEMMA ReaderTypes ==
  ASSUME Control, NEW r \in Readers,
         GoOnReading(r) \/ \E n \in Names : PositionedRead(r, n)
  PROVE  Types'
<1> USE DEF device, namespace, lists, locks, faults, metadata
<1>0. Types /\ reader \in [Readers -> Reader] /\ reader[r] \in Reader
  BY DEF Control, Types
<1>1. ASSUME NEW n \in Names, PositionedRead(r, n) PROVE Types'
  <2>1. files_[n] \in Ids /\ file_size_[files_[n]] \in Nat
    BY Zenon, <1>0, <1>1 DEF PositionedRead, Types
  <2>2. [NoReader EXCEPT !.pc = "lock", !.id = files_[n], !.size = file_size_[files_[n]]]
          \in Reader
    BY <2>1, ConstantTypes DEF Reader
  <2>3. reader' \in [Readers -> Reader]
    BY Zenon, <1>0, <1>1, <2>2 DEF PositionedRead
  <2> QED
    BY Zenon, <1>0, <1>1, <2>3 DEF PositionedRead, Types
<1>2. CASE ReadLock(r)
  <2>1. readers_' \in [Ids -> Int]
    <3>1. readers_' = [readers_ EXCEPT ![reader[r].id] = readers_[reader[r].id] + 1]
      BY <1>2 DEF ReadLock
    <3>2. reader[r].id \in Ids
      BY <1>0, <1>2 DEF ReadLock, Control, RWLocks, Live
    <3>3. readers_ \in [Ids -> Int] /\ readers_[reader[r].id] + 1 \in Int
      BY <1>0, <3>2 DEF Types
    <3> QED
      BY <3>1, <3>3
  <2>2. [reader[r] EXCEPT !.pc = "extent"] \in Reader
    BY <1>0 DEF Reader
  <2>3. reader' = [reader EXCEPT ![r] = [reader[r] EXCEPT !.pc = "extent"]]
    BY <1>2 DEF ReadLock
  <2>4. reader' \in [Readers -> Reader]
    BY <1>0, <2>2, <2>3
  <2> QED
    BY <1>0, <1>2, <2>1, <2>4 DEF ReadLock, Types
<1>3. CASE ReadNextExtent(r)
  <2>1. reader' \in [Readers -> Reader]
    <3>1. ASSUME NEW e \in NextExtent(r), reader' = [reader EXCEPT ![r].pc = "read", ![r].ext = e]
          PROVE  reader' \in [Readers -> Reader]
      <4>1. e \in Extent
        <5>1. Len(reader[r].got) < reader[r].size /\ reader[r].id \in Ids
          <6>1. reader[r].pc # "idle"
            BY <1>3 DEF ReadNextExtent
          <6> QED
            BY <1>0, <3>1, <6>1 DEF NextExtent, Control, RWLocks, Live
        <5>2. e \in GetExtent(extents_[reader[r].id], Len(reader[r].got))
          BY <3>1, <5>1 DEF NextExtent
        <5>3. extents_[reader[r].id] \in Seq(Extent)
          BY <1>0, <5>1 DEF Types
        <5> QED
          BY <5>2, <5>3 DEF GetExtent
      <4>2. [reader[r] EXCEPT !.pc = "read", !.ext = e] \in Reader
        BY <1>0, <4>1 DEF Reader
      <4>3. reader' = [reader EXCEPT ![r] = [reader[r] EXCEPT !.pc = "read", !.ext = e]]
        BY <1>0, <3>1
      <4> QED
        BY <1>0, <4>2, <4>3
    <3>2. CASE reader' = [reader EXCEPT ![r] = NoReader]
      BY <1>0, <3>2, ConstantTypes
    <3> QED
      BY <1>3, <3>1, <3>2 DEF ReadNextExtent
  <2>2. readers_' \in [Ids -> Int]
    BY <1>0, <1>3 DEF ReadNextExtent, Types
  <2> QED
    BY <1>0, <1>3, <2>1, <2>2 DEF ReadNextExtent, Types
<1>4. CASE ReadDevice(r)
  <2> DEFINE got == reader[r].got
             c == Content(reader[r].ext)
             new == [reader[r] EXCEPT !.pc = "extent", !.ext = <<>>, !.got = got \o c]
  <2>1. reader[r].ext \in Extent
    BY <1>4 DEF ReadDevice, Control, RWLocks
  <2>2. got \in Seq(Datum) /\ c \in Seq(Datum)
    BY <1>0, <2>1, ContentType DEF Reader
  <2>3. reader' = [reader EXCEPT ![r] = new]
    BY <1>0, <1>4 DEF ReadDevice
  <2>4. new \in Reader
    <3> HIDE DEF got, c
    <3>1. got \o c \in Seq(Datum)
      BY <2>2
    <3> QED
      BY <1>0, <3>1 DEF Reader
  <2>5. reader' \in [Readers -> Reader]
    BY <1>0, <2>3, <2>4
  <2> HIDE DEF new
  <2> QED
    BY <1>0, <1>4, <2>5 DEF ReadDevice, Types
<1> QED
  BY <1>1, <1>2, <1>3, <1>4 DEF GoOnReading

\* The empty file system has them.
LEMMA InitTypes ==
  ASSUME Init
  PROVE  Types
<1>1. <<>> \in Seq(Datum) /\ Len(<<>>) <= ZoneCap /\ <<>> \in Seq(Extent)
  OBVIOUS
<1>2. /\ data \in [Zones -> Seq(Datum)] /\ \A z \in Zones : Len(data[z]) <= ZoneCap
      /\ used_capacity_ \in [Zones -> Int] /\ busy_ \in [Zones -> BOOLEAN]
      /\ files_ \in [Names -> Ids \cup {NoFile}] /\ next_file_id_ \in Nat \ {0}
  BY <1>1 DEF Init
<1>3. /\ logged \in [Ids -> Record] /\ extents_ \in [Ids -> Seq(Extent)]
      /\ nr_synced_extents_ \in [Ids -> Nat] /\ file_size_ \in [Ids -> Nat]
      /\ is_deleted_ \in [Ids -> BOOLEAN] /\ extent_start_ \in [Ids -> Start]
  BY <1>1, ConstantTypes DEF Init
<1>4. /\ open_for_wr_ \in [Ids -> BOOLEAN] /\ writer_mtx_ \in [Ids -> BOOLEAN]
      /\ readers_ \in [Ids -> Int] /\ reader \in [Readers -> Reader]
  BY ConstantTypes DEF Init
<1> QED
  BY <1>2, <1>3, <1>4, ConstantTypes DEF Init, Types

\* What a mount makes of a record
LEMMA RecoverType ==
  ASSUME Types, NEW id \in Ids
  PROVE  Recover(logged[id]) \in Record
<1> DEFINE r == logged[id]
           z == r.start.zone
           s == r.start.start
<1>1. r \in Record /\ z \in Zones \cup {NoZone} /\ s \in 0..ZoneCap
  BY DEF Types, Record, Start
<1> HIDE DEF r, z, s
<1>2. CASE z = NoZone \/ Len(data[z]) <= s
  BY <1>1, <1>2 DEF Recover, r, z, s
<1>3. CASE ~(z = NoZone \/ Len(data[z]) <= s)
  <2> DEFINE e == [zone |-> z, start |-> s, length |-> Len(data[z]) - s]
             n == Total(r.ext) + Len(data[z]) - s
  <2>1. z \in Zones /\ Len(data[z]) \in Nat /\ Len(data[z]) <= ZoneCap
    BY <1>1, <1>3 DEF Types
  <2>2. e \in Extent
    BY <1>1, <1>3, <2>1 DEF Extent
  <2>3. r.ext \in Seq(Extent) /\ Len(r.ext) + 1 \in Nat
    BY <1>1 DEF Record
  <2>4. Total(r.ext) \in Nat
    BY <2>3, BeforeType DEF Total
  <2>5. n \in Nat
    BY <1>1, <1>3, <2>1, <2>4
  <2>6. Recover(r) = [r EXCEPT !.ext = Append(@, e), !.size = n]
    BY <1>3 DEF Recover, z, s
  <2> HIDE DEF e, n
  <2>7. Append(r.ext, e) \in Seq(Extent)
    BY <2>2, <2>3
  <2>8. Recover(r) \in Record
    BY <1>1, <2>5, <2>6, <2>7 DEF Record
  <2> QED
    BY <2>8 DEF r
<1> QED
  BY <1>2, <1>3

\* What the slots of all files amount to
LEMMA UsedFinite ==
  ASSUME NEW ext \in [Ids -> Seq(Extent)], NEW z, NEW ids \in SUBSET Ids
  PROVE  /\ IsFiniteSet(UNION {{id} \X Slots(z, ext[id]) : id \in ids})
         /\ Used(z, ext) \in Nat
<1> DEFINE S(id) == {id} \X Slots(z, ext[id])
<1>1. ASSUME NEW id \in Ids PROVE IsFiniteSet(S(id))
  BY SlotsFinite, FS_Singleton, FS_Product
<1>2. IsFiniteSet(Ids)
  BY FS_Interval DEF Ids
<1>3. ASSUME NEW some \in SUBSET Ids PROVE IsFiniteSet(UNION {S(id) : id \in some})
  <2>1. IsFiniteSet(some)
    BY <1>2, FS_Subset
  <2>2. IsFiniteSet({S(id) : id \in some})
    <3> DEFINE f == [id \in some |-> S(id)]
    <3>1. f \in Surjection(some, {S(id) : id \in some})
      BY DEF Surjection
    <3> QED
      BY <2>1, <3>1, FS_Surjection
  <2> QED
    BY <1>1, <2>2, FS_UNION
<1> QED
  BY <1>3, FS_CardinalityType DEF Used

\* A crash and the mount behind it keep the types.
LEMMA CrashTypes ==
  ASSUME Types, Crash
  PROVE  Types'
<1> USE DEF device, namespace, lists, locks, faults, metadata
<1> DEFINE file == [id \in Ids |-> Recover(logged[id])]
           ext == [id \in Ids |-> file[id].ext]
<1>1. file \in [Ids -> Record]
  BY RecoverType
<1>2. ext \in [Ids -> Seq(Extent)]
  BY <1>1 DEF Record
<1>3. ASSUME NEW id \in Ids
      PROVE  /\ Len(ext[id]) \in Nat /\ file[id].size \in Nat
             /\ [file[id] EXCEPT !.start = NO_EXTENT] \in Record
  <2>1. Len(ext[id]) \in Nat
    BY <1>2
  <2> HIDE DEF file
  <2>2. file[id] \in Record
    BY <1>1
  <2> QED
    BY <2>1, <2>2, ConstantTypes DEF Record
<1>4. \A z \in Zones : Used(z, ext) \in Nat
  BY <1>2, UsedFinite
<1> HIDE DEF file, ext
<1>5. Mount
  BY DEF Crash
<1>6. /\ extents_' = ext /\ nr_synced_extents_' = [id \in Ids |-> Len(ext[id])]
      /\ file_size_' = [id \in Ids |-> file[id].size]
      /\ logged' = [id \in Ids |-> [file[id] EXCEPT !.start = NO_EXTENT]]
      /\ used_capacity_' = [z \in Zones |-> Used(z, ext)]
  BY <1>5 DEF Mount, file, ext
<1>7. /\ extents_' \in [Ids -> Seq(Extent)] /\ nr_synced_extents_' \in [Ids -> Nat]
      /\ file_size_' \in [Ids -> Nat] /\ logged' \in [Ids -> Record]
      /\ used_capacity_' \in [Zones -> Int]
  BY <1>2, <1>3, <1>4, <1>6
<1>8. data' \in [Zones -> Seq(Datum)] /\ \A z \in Zones : Len(data'[z]) <= ZoneCap
  <2>1. data' = [z \in Zones |-> IF used_capacity_'[z] = 0 THEN <<>> ELSE data[z]]
    BY <1>5 DEF Mount
  <2>2. \A z \in Zones : data[z] \in Seq(Datum) /\ Len(data[z]) <= ZoneCap
    BY DEF Types
  <2>3. <<>> \in Seq(Datum) /\ Len(<<>>) = 0
    OBVIOUS
  <2> QED
    BY <2>1, <2>2, <2>3
<1>9. files_' \in [Names -> Ids \cup {NoFile}]
  BY <1>5 DEF Mount
<1>10. /\ extent_start_' \in [Ids -> Start] /\ is_deleted_' \in [Ids -> BOOLEAN]
       /\ busy_' \in [Zones -> BOOLEAN] /\ open_for_wr_' \in [Ids -> BOOLEAN]
       /\ writer_mtx_' \in [Ids -> BOOLEAN] /\ readers_' \in [Ids -> Int]
  BY <1>5, ConstantTypes DEF Mount
<1>11. /\ writer' = NoWriter /\ gc' = NoGC /\ reader' = [r \in Readers |-> NoReader]
       /\ resetting' = FALSE /\ crashes' = crashes + 1
       /\ files_mtx_' = Unlocked /\ UNCHANGED <<next_file_id_, errors, misjudged, uncopied>>
  BY DEF Crash
<1>12. /\ writer' \in Writer /\ files_mtx_' \in Holder
       /\ gc' \in Collector /\ reader' \in [Readers -> Reader]
  BY <1>11, ConstantTypes
<1>13. /\ next_file_id_' \in Nat \ {0} /\ errors' \in Nat /\ misjudged' \in SUBSET Ids
       /\ crashes' \in Nat /\ uncopied' \in SUBSET Ids
  BY <1>11 DEF Types
<1>14. resetting' \in BOOLEAN
  BY <1>11
<1> QED
  BY <1>7, <1>8, <1>9, <1>10, <1>12, <1>13, <1>14 DEF Types

\* Every step keeps the types.
LEMMA NextTypes ==
  ASSUME Control, Next
  PROVE  Types'
BY CollectTypes, UserTypes, ReaderTypes, CrashTypes, NameAssumption DEF Next, Control

-----------------------------------------------------------------------------
(***************************************************************************)
(* Persisting, file by file                                                *)
(***************************************************************************)

Waits(f) == f \in files_mtx_.ids
Kept(f) ==
  logged'[f] = logged[f] /\ nr_synced_extents_'[f] = nr_synced_extents_[f] /\ (Waits(f)' <=> Waits(f))
Erased(f) ==
  logged'[f] = NoRecord /\ nr_synced_extents_'[f] = nr_synced_extents_[f] /\ ~Waits(f)'
Written(f, name, ext) ==
  /\ logged'[f].name = name /\ logged'[f].size = file_size_[f]
  /\ logged'[f].start = extent_start_'[f] /\ logged'[f].ext = ext
  /\ nr_synced_extents_'[f] = nr_synced_extents_[f] /\ Waits(f)'

\* A record is about one file, a snapshot about all.
LEMMA AddEffect ==
  ASSUME Types, NEW by, NEW id \in Ids, NEW name, NEW replace \in BOOLEAN,
         AddRecord(by, id, name, replace), UNCHANGED nr_synced_extents_, NEW f \in Ids
  PROVE  /\ f = id => Written(f, name, (IF replace THEN <<>> ELSE logged[f].ext) \o Unsynced(f))
         /\ f # id => Kept(f)
<1>0. files_mtx_'.ids = {id} /\ files_mtx_.ids = {}
  BY DEF AddRecord, Free, Unlocked
<1>1. CASE f = id
  <2>1. logged'[f] = [name |-> name, size |-> file_size_[f], start |-> extent_start_'[f],
                      ext |-> (IF replace THEN <<>> ELSE logged[f].ext) \o Unsynced(f)]
    BY <1>1 DEF AddRecord, Types
  <2>2. nr_synced_extents_'[f] = nr_synced_extents_[f] /\ Waits(f)'
    BY <1>0, <1>1 DEF Waits
  <2> DEFINE ext == (IF replace THEN <<>> ELSE logged[f].ext) \o Unsynced(f)
  <2> HIDE DEF ext
  <2>3. logged'[f] = [name |-> name, size |-> file_size_[f], start |-> extent_start_'[f],
                      ext |-> ext]
    BY <2>1 DEF ext
  <2>4. Written(f, name, ext)
    BY <2>2, <2>3 DEF Written
  <2> QED
    BY <1>1, <2>4 DEF ext
<1>2. CASE f # id
  <2>1. logged'[f] = logged[f]
    BY <1>2 DEF AddRecord, Types
  <2> QED
    BY <1>0, <1>2, <2>1 DEF Kept, Waits
<1> QED
  BY <1>1, <1>2

\* RollMetaZone writes the whole list of every file with a name, and nothing of the others.
LEMMA RollEffect ==
  ASSUME Types, NEW by, NEW files, RollMetaZone(by, files), UNCHANGED nr_synced_extents_,
         NEW f \in Ids
  PROVE  /\ f \in Live(files) => Written(f, NameOf(files, f), extents_[f])
         /\ f \notin Live(files) => Erased(f)
<1>0. files_mtx_'.ids = Live(files)
  BY DEF RollMetaZone
<1>1. CASE f \in Live(files)
  <2>1. logged'[f] = [name |-> NameOf(files, f), size |-> file_size_[f],
                      start |-> extent_start_'[f], ext |-> extents_[f]]
    BY <1>1 DEF RollMetaZone
  <2> QED
    BY <1>0, <1>1, <2>1 DEF Written, Waits
<1>2. CASE f \notin Live(files)
  <2>1. logged'[f] = NoRecord
    BY <1>2 DEF RollMetaZone
  <2> QED
    BY <1>0, <1>2, <2>1 DEF Erased, Waits
<1> QED
  BY <1>1, <1>2

\* What the calls of the users persist: a file to which the writer has just added an
\* extent, and the one for which the collector is about to write a record, are judged so.
JudgedPush(f) == writer.added > 0 /\ writer.id = f => f \in misjudged'
Judged(f) == JudgedPush(f) /\ (gc.pc = "sync" /\ gc.id = f => f \in misjudged')

\* Files that Race looks at are judged, and no others.
LEMMA RaceEffect ==
  ASSUME NEW ids, Race(ids, Pushed \cup Unmarked)
  PROVE  /\ misjudged \subseteq misjudged' /\ misjudged' \subseteq misjudged \cup {gc.id, writer.id}
         /\ \A f \in ids : Judged(f)
BY DEF Race, Pushed, Unmarked, Judged, JudgedPush

Updated(f, id, name, files) ==
  \/ f # id /\ Kept(f)
  \/ f = id /\ Written(f, name, logged[f].ext \o Unsynced(f)) /\ Judged(f)
  \/ f \in Live(files) /\ Written(f, NameOf(files, f), extents_[f]) /\ Judged(f)
  \/ f \notin Live(files) /\ Erased(f)

\* PersistUpdate appends what is not synced to the record of the file, or rolls the log.
LEMMA UpdateEffect ==
  ASSUME Types, NEW by, NEW id \in Ids, NEW name, NEW files, PersistUpdate(by, id, name, files),
         UNCHANGED nr_synced_extents_
  PROVE  /\ misjudged \subseteq misjudged'
         /\ misjudged' \subseteq misjudged \cup {gc.id, writer.id}
         /\ Free /\ files_mtx_'.by = by /\ files_mtx_'.ids \subseteq {id} \cup Live(files)
         /\ \A f \in Ids : Updated(f, id, name, files)
<1>1. CASE AddRecord(by, id, name, FALSE) /\ Race({id}, Pushed \cup Unmarked)
  <2>1. ASSUME NEW f \in Ids
        PROVE  /\ f = id => Written(f, name, logged[f].ext \o Unsynced(f))
               /\ f # id => Kept(f)
    BY <1>1, AddEffect
  <2>2. Free /\ files_mtx_'.by = by /\ files_mtx_'.ids = {id}
    BY <1>1 DEF AddRecord
  <2> QED
    BY <1>1, <2>1, <2>2, RaceEffect DEF Updated
<1>2. CASE RollMetaZone(by, files) /\ Race(Live(files), Pushed \cup Unmarked)
  <2>1. Free /\ files_mtx_'.by = by /\ files_mtx_'.ids = Live(files)
    BY <1>2 DEF RollMetaZone
  <2> QED
    BY <1>2, <2>1, RollEffect, RaceEffect DEF Updated
<1> QED
  BY <1>1, <1>2 DEF PersistUpdate

\* PersistDeletion leaves nothing of the file it deletes in the log.
LEMMA DeletionEffect ==
  ASSUME Types, NEW by, by # "none", NEW id \in Ids, NEW files,
         PersistDeletion(by, id, files), id \notin Live(files), UNCHANGED nr_synced_extents_
  PROVE  /\ misjudged \subseteq misjudged'
         /\ misjudged' \subseteq misjudged \cup {gc.id, writer.id}
         /\ Free /\ files_mtx_'.by \in {by, "none"} /\ files_mtx_'.ids \subseteq Live(files)
         /\ files_mtx_'.by = "none" => files_mtx_'.ids = {}
         /\ Erased(id)
         /\ \A f \in Ids :
              \/ f # id /\ Kept(f)
              \/ f \in Live(files) /\ Written(f, NameOf(files, f), extents_[f]) /\ Judged(f)
              \/ f \notin Live(files) /\ Erased(f)
<1>1. CASE RollMetaZone(by, files) /\ Race(Live(files), Pushed \cup Unmarked)
  <2>1. Free /\ files_mtx_'.by = by /\ files_mtx_'.ids = Live(files)
    BY <1>1 DEF RollMetaZone
  <2> QED
    BY <1>1, <2>1, RollEffect, RaceEffect
<1>2. CASE /\ Free /\ logged' = [logged EXCEPT ![id] = NoRecord]
            /\ UNCHANGED <<files_mtx_, misjudged>>
  <2>1. Free /\ files_mtx_'.by = "none" /\ files_mtx_'.ids = {} /\ files_mtx_.ids = {}
    BY <1>2 DEF Free, Unlocked
  <2> QED
    BY <1>2, <2>1 DEF Kept, Erased, Types, Waits
<1> QED
  BY <1>1, <1>2 DEF PersistDeletion

\* The collector's own record
LEMMA SyncEffect ==
  ASSUME Types, SyncFileMetadata, gc.id \in Ids
  PROVE  /\ misjudged \subseteq misjudged' /\ misjudged' \subseteq misjudged \cup {gc.id, writer.id}
         /\ Free
         /\ \/ /\ gc'.pc = "release" /\ gc.id \in misjudged' /\ errors' = errors + 1
               /\ ~is_deleted_[gc.id] /\ files_mtx_' = files_mtx_
               /\ \A f \in Ids : Kept(f)
            \/ /\ gc'.pc = "clear" /\ UNCHANGED <<misjudged, errors>>
               /\ is_deleted_[gc.id] /\ files_mtx_' = files_mtx_
               /\ \A f \in Ids : Kept(f)
            \/ /\ gc'.pc = "clear" /\ UNCHANGED errors
               /\ ~is_deleted_[gc.id]
               /\ files_mtx_' = [by |-> "gc", ids |-> {gc.id}]
                  \/ files_mtx_' = [by |-> "gc", ids |-> Live(files_)]
               /\ \A f \in Ids :
                    \/ f # gc.id /\ Kept(f)
                    \/ f = gc.id /\ Written(f, NameOf(files_, f), Unsynced(f)) /\ JudgedPush(f)
                    \/ f \in Live(files_) /\ Written(f, NameOf(files_, f), extents_[f]) /\ JudgedPush(f)
                    \/ f \notin Live(files_) /\ Erased(f)
         /\ gc'.id = gc.id /\ gc'.list = gc.list /\ gc'.old = gc.old /\ gc'.i = gc.i
         /\ gc'.fname = gc.fname /\ gc'.target = gc.target
<1>0. gc \in Collector /\ Free /\ UNCHANGED nr_synced_extents_
  BY DEF Types, SyncFileMetadata
<1>1. CASE /\ is_deleted_[gc.id]
           /\ gc' = [gc EXCEPT !.pc = "clear"]
           /\ UNCHANGED <<metadata, errors, misjudged>>
  <2>1. UNCHANGED <<logged, files_mtx_>>
    BY <1>1 DEF metadata
  <2> QED
    BY <1>0, <1>1, <2>1 DEF Kept, Collector, Waits
<1>2. CASE /\ ~is_deleted_[gc.id]
           /\ \/ AddRecord("gc", gc.id, NameOf(files_, gc.id), TRUE) /\ Race({gc.id}, Pushed)
              \/ RollMetaZone("gc", files_) /\ Race(Live(files_), Pushed)
           /\ gc' = [gc EXCEPT !.pc = "clear"]
           /\ UNCHANGED errors
  <2>j. /\ misjudged \subseteq misjudged' /\ misjudged' \subseteq misjudged \cup {gc.id, writer.id}
    BY <1>2 DEF Race, Pushed
  <2>1. CASE AddRecord("gc", gc.id, NameOf(files_, gc.id), TRUE) /\ Race({gc.id}, Pushed)
    <3>1. ASSUME NEW f \in Ids
          PROVE  /\ f = gc.id => Written(f, NameOf(files_, f), <<>> \o Unsynced(f))
                 /\ f # gc.id => Kept(f)
      BY <1>0, <2>1, AddEffect
    <3>2. Unsynced(gc.id) \in Seq(Extent)
      BY DEF Types, Unsynced
    <3>3. <<>> \o Unsynced(gc.id) = Unsynced(gc.id)
      BY <3>2
    <3>4. JudgedPush(gc.id)
      BY <2>1 DEF Race, Pushed, JudgedPush
    <3>5. files_mtx_' = [by |-> "gc", ids |-> {gc.id}]
      BY <2>1 DEF AddRecord
    <3> QED
      BY <1>0, <1>2, <2>j, <3>1, <3>3, <3>4, <3>5 DEF Collector
  <2>2. CASE RollMetaZone("gc", files_) /\ Race(Live(files_), Pushed)
    <3>1. \A f \in Live(files_) : JudgedPush(f)
      BY <2>2 DEF Race, Pushed, JudgedPush
    <3>2. files_mtx_' = [by |-> "gc", ids |-> Live(files_)]
      BY <2>2 DEF RollMetaZone
    <3> QED
      BY <1>0, <1>2, <2>j, <2>2, <3>1, <3>2, RollEffect DEF Collector
  <2> QED
    BY <1>2, <2>1, <2>2
<1>3. CASE /\ ~is_deleted_[gc.id]
           /\ Refused
           /\ gc' = [gc EXCEPT !.pc = "release"]
           /\ misjudged' = misjudged \cup {gc.id}
           /\ UNCHANGED metadata
  <2>1. UNCHANGED <<logged, files_mtx_>>
    BY <1>3 DEF metadata
  <2> QED
    BY <1>0, <1>3, <2>1 DEF Kept, Collector, Refused, Waits
<1> QED
  BY <1>1, <1>2, <1>3 DEF SyncFileMetadata

-----------------------------------------------------------------------------
(***************************************************************************)
(* Names and files                                                         *)
(***************************************************************************)

\* Without a file the collector is between two files.
LEMMA Between ==
  ASSUME Control, gc.pc \notin Holding
  PROVE  gc.id = NoFile
BY DEF Control, WRLocks

\* Files in the namespace have been given out, with one name; so has the collector's.
LEMMA LiveFile ==
  ASSUME Names1, NEW f \in Live(files_)
  PROVE  /\ NameOf(files_, f) \in Names /\ files_[NameOf(files_, f)] = f
         /\ f \in Ids /\ ~is_deleted_[f] /\ f < next_file_id_
         /\ \A n \in Names : files_[n] = f => n = NameOf(files_, f)
<1>1. f \in Ids /\ NameOf(files_, f) \in Names /\ files_[NameOf(files_, f)] = f /\ f # NoFile
  BY NameOfLive, Zeros DEF Live
<1> QED
  BY <1>1 DEF Names1

\* A number that has not been given out is no file, and not the one of the collector.
LEMMA Unused ==
  ASSUME Names1, WRLocks, Types, NEW f \in Ids, f >= next_file_id_
  PROVE  f \notin Live(files_) /\ f # gc.id /\ f # writer.id
<1>1. f \in Int /\ next_file_id_ \in Int
  BY DEF Types, Ids
<1>2. f \notin Live(files_)
  BY <1>1, LiveFile
<1>3. f # gc.id
  BY <1>1, Zeros DEF WRLocks
<1>4. f # writer.id
  BY <1>2, Zeros DEF WRLocks
<1> QED
  BY <1>2, <1>3, <1>4

\* The collector's steps that leave the namespace, the lists and the log alone
LEMMA NamesFrame ==
  ASSUME Control, UNCHANGED <<namespace, logged, lists, open_for_wr_, misjudged>>,
         gc'.id = gc.id \/ gc.id = NoFile
  PROVE  Names1'
<1>1. UNCHANGED <<files_, next_file_id_, logged, extents_, nr_synced_extents_, file_size_,
                  is_deleted_, extent_start_, open_for_wr_, misjudged>>
  BY DEF namespace, lists
<1>2. \A id \in Ids : gc.id = id => gc'.id = id
  BY Zeros
<1> QED
  BY <1>1, <1>2 DEF Control, Names1, Fresh

\* The last pointer to a file is dropped.
LEMMA NamesDrop ==
  ASSUME Control, gc.id \in Ids, Drop(gc.id), 
         UNCHANGED <<namespace, logged, nr_synced_extents_, file_size_, is_deleted_,
                     extent_start_, misjudged>>,
         open_for_wr_' = open_for_wr_ \/ open_for_wr_' = [open_for_wr_ EXCEPT ![gc.id] = FALSE]
  PROVE  Names1'
<1>1. UNCHANGED <<files_, next_file_id_>>
  BY DEF namespace
<1>2. Names1 /\ Types
  BY DEF Control
<1>3. \A id \in Ids : id >= next_file_id_ => id # gc.id
  BY Unused DEF Control
<1>4. ASSUME NEW id \in Ids, is_deleted_[id] PROVE extents_'[id] = <<>>
  <2>1. CASE id = gc.id
    BY <1>2, <1>4, <2>1 DEF Drop, Types
  <2>2. CASE id # gc.id
    <3>1. extents_'[id] = extents_[id]
      BY <1>2, <2>2 DEF Drop, Types
    <3> QED
      BY <1>2, <1>4, <2>2, <3>1 DEF Names1
  <2> QED
    BY <2>1, <2>2
<1>5. \A id \in Ids \ {gc.id} : extents_'[id] = extents_[id] /\ open_for_wr_'[id] = open_for_wr_[id]
  BY <1>2 DEF Drop, Types
<1> QED
  BY <1>1, <1>2, <1>3, <1>4, <1>5 DEF Names1, Fresh

\* The collector keeps files under one name, and deleted ones out of the log.
LEMMA NamesCollect ==
  ASSUME Control, Collect
  PROVE  Names1'
<1> USE DEF device, faults, metadata
<1>0. Types /\ gc \in Collector /\ Names1 /\ WRLocks
  BY DEF Control, Types
<1>1. CASE GCWorker
  <2>1. gc.id = NoFile
    BY <1>1, Between DEF GCWorker, Holding
  <2> QED
    BY <1>1, <2>1, NamesFrame DEF GCWorker, locks
<1>2. CASE GetZenFSSnapshot
  <2>1. gc.id = NoFile
    BY <1>2, Between DEF GetZenFSSnapshot, Holding
  <2> QED
    BY <1>2, <2>1, NamesFrame DEF GetZenFSSnapshot, locks
<1>3. CASE TryAcquireWRLock
  <2>1. gc.id \in Ids
    BY <1>0, <1>3, HeldFile DEF TryAcquireWRLock, Holding
  <2>2. CASE Drop(gc.id) /\ UNCHANGED open_for_wr_
    BY <1>3, <2>1, <2>2, NamesDrop DEF TryAcquireWRLock
  <2>3. CASE /\ open_for_wr_' = [open_for_wr_ EXCEPT ![gc.id] = TRUE]
             /\ gc' = [gc EXCEPT !.pc = "extent", !.list = extents_[gc.id], !.i = 1]
             /\ UNCHANGED <<used_capacity_, extents_>>
    <3>1. gc.id < next_file_id_ /\ gc'.id = gc.id
      BY <1>0, <2>1, <2>3, Zeros DEF WRLocks, Collector
    <3>2. \A id \in Ids \ {gc.id} : open_for_wr_'[id] = open_for_wr_[id]
      BY <1>0, <2>3 DEF Types
    <3>3. UNCHANGED <<files_, next_file_id_, logged, extents_, nr_synced_extents_, file_size_,
                      is_deleted_, extent_start_, misjudged>>
      BY <1>3, <2>3 DEF TryAcquireWRLock, namespace
    <3>4. \A id \in Ids : id >= next_file_id_ => id # gc.id
      BY <2>1, <3>1, <1>0 DEF Types, Ids
    <3> QED
      BY <1>0, <3>1, <3>2, <3>3, <3>4 DEF Names1, Fresh
  <2> QED
    BY <1>3, <2>2, <2>3 DEF TryAcquireWRLock
<1>4. ASSUME NEW n \in Names, MigrateGetFile(n) PROVE Names1'
  <2>1. gc.id = NoFile
    BY <1>4, Between DEF MigrateGetFile, Holding
  <2> QED
    BY <1>4, <2>1, NamesFrame DEF MigrateGetFile, locks
<1>5. CASE (\E z \in Zones : TakeMigrateZone(z)) \/ LeaveExtent \/ MigrateData \/ ExtentMigrated
            \/ FileGone \/ WriteLock \/ SyncFileExtentsDone
  <2>1. gc'.id = gc.id
    BY <1>0, <1>5 DEF TakeMigrateZone, LeaveExtent, MigrateData, ExtentMigrated, FileGone,
                      WriteLock, SyncFileExtentsDone, Collector
  <2>2. UNCHANGED <<namespace, logged, lists, open_for_wr_, misjudged>>
    BY Zenon, <1>5 DEF TakeMigrateZone, LeaveExtent, MigrateData, ExtentMigrated, FileGone,
                WriteLock, SyncFileExtentsDone, locks
  <2> QED
    BY <2>1, <2>2, NamesFrame
<1>6. CASE ReplaceExtentList
  <2>1. gc.id \in Ids /\ gc'.id = gc.id
    BY <1>0, <1>6, HeldFile DEF ReplaceExtentList, Holding, Collector
  <2>2. gc.id < next_file_id_
    BY <1>0, <2>1, Zeros DEF WRLocks
  <2>3. \A id \in Ids \ {gc.id} : extents_'[id] = extents_[id]
    BY <1>0, <1>6 DEF ReplaceExtentList, Types
  <2>4. UNCHANGED <<files_, next_file_id_, logged, nr_synced_extents_, file_size_,
                    is_deleted_, extent_start_, open_for_wr_, misjudged>>
    BY <1>6 DEF ReplaceExtentList, namespace
  <2>5. \A id \in Ids : id >= next_file_id_ => id # gc.id
    BY <2>1, <2>2, <1>0 DEF Types, Ids
  <2> QED
    BY <1>0, <2>1, <2>3, <2>4, <2>5 DEF Names1, Fresh
<1>7. CASE MetadataUnsynced
  <2>1. gc.id \in Ids /\ gc'.id = gc.id
    BY <1>0, <1>7, HeldFile DEF MetadataUnsynced, Holding, Collector
  <2>2. gc.id < next_file_id_
    BY <1>0, <2>1, Zeros DEF WRLocks
  <2>3. \A id \in Ids \ {gc.id} : nr_synced_extents_'[id] = nr_synced_extents_[id]
    BY <1>0, <1>7 DEF MetadataUnsynced, Types
  <2>4. UNCHANGED <<files_, next_file_id_, logged, extents_, file_size_,
                    is_deleted_, extent_start_, open_for_wr_, misjudged>>
    BY <1>7 DEF MetadataUnsynced, namespace, locks
  <2>5. \A id \in Ids : id >= next_file_id_ => id # gc.id
    BY <2>1, <2>2, <1>0 DEF Types, Ids
  <2> QED
    BY <1>0, <2>1, <2>3, <2>4, <2>5 DEF Names1, Fresh
<1>8. CASE SyncFileMetadata
  <2>1. gc.id \in Ids
    BY <1>0, <1>8, HeldFile DEF SyncFileMetadata, Holding
  <2>2. gc.id < next_file_id_ /\ (is_deleted_[gc.id] \/ gc.id \in Live(files_))
    BY <1>0, <2>1, Zeros DEF WRLocks
  <2>3. UNCHANGED <<files_, next_file_id_, extents_, file_size_,
                    is_deleted_, extent_start_, open_for_wr_>> /\ gc'.id = gc.id
    BY <1>0, <1>8, <2>1, SyncEffect DEF SyncFileMetadata, namespace, locks
  <2>4. misjudged' \subseteq misjudged \cup {gc.id, writer.id}
    BY <1>0, <1>8, <2>1, SyncEffect
  <2>5. \A id \in Ids : id >= next_file_id_ => id \notin {gc.id, writer.id} /\ id \notin Live(files_)
    BY <1>0, Unused
  <2>6. ASSUME NEW f \in Ids
        PROVE  \/ Kept(f)
               \/ f \in Live(files_) /\ logged'[f].name = NameOf(files_, f)
               \/ f \notin Live(files_) /\ Erased(f)
    BY <1>0, <1>8, <2>1, <2>2, SyncEffect DEF Written
  <2>7. ASSUME NEW f \in Live(files_) PROVE files_[NameOf(files_, f)] = f /\ ~is_deleted_[f]
    BY <1>0, <2>7, LiveFile
  <2>8. ASSUME NEW f \in Ids, logged'[f].name # NoFile PROVE files_[logged'[f].name] = f
    BY <1>0, <2>6, <2>7, <2>8 DEF Names1, Kept, Erased, NoRecord
  <2>9. ASSUME NEW f \in Ids, is_deleted_[f] PROVE logged'[f] = NoRecord
    BY <1>0, <2>6, <2>7, <2>9 DEF Names1, Kept, Erased
  <2>10. ASSUME NEW f \in Ids, f >= next_file_id_ 
         PROVE  logged'[f] = NoRecord /\ nr_synced_extents_'[f] = 0 /\ f \notin misjudged'
    BY <1>0, <2>4, <2>5, <2>6, <2>10 DEF Names1, Fresh, Kept, Erased
  <2> QED
    BY <1>0, <2>3, <2>8, <2>9, <2>10 DEF Names1, Fresh
<1>9. CASE ReleaseWRLock
  <2>1. gc.id \in Ids
    BY <1>0, <1>9, HeldFile DEF ReleaseWRLock, Holding
  <2> QED
    BY <1>9, <2>1, NamesDrop DEF ReleaseWRLock
<1>10. CASE MigrateResets
  <2>1. gc.id = NoFile
    BY <1>10, Between DEF MigrateResets, Holding
  <2> QED
    BY <1>10, <2>1, NamesFrame DEF MigrateResets, locks
<1>11. CASE MigrateDataError
  <2>1. gc.id \in Ids /\ gc'.id = gc.id
    BY <1>0, <1>11, HeldFile DEF MigrateDataError, Holding, Collector
  <2>2. UNCHANGED <<files_, next_file_id_, logged, extents_, nr_synced_extents_, file_size_,
                    is_deleted_, extent_start_, open_for_wr_>>
        /\ misjudged' = misjudged \cup {gc.id}
    BY <1>11 DEF MigrateDataError, namespace, lists, locks
  <2>3. \A id \in Ids : id >= next_file_id_ => id # gc.id
    BY <1>0, Unused
  <2> QED
    BY <1>0, <2>1, <2>2, <2>3 DEF Names1, Fresh
<1> QED
  BY <1>1, <1>2, <1>3, <1>4, <1>5, <1>6, <1>7, <1>8, <1>9, <1>10, <1>11 DEF Collect

\* The records and the marks of files that are deleted or have not been given out
LEMMA NamesUpdate ==
  ASSUME Control, NEW by, NEW id \in Live(files_), NEW name, NEW files,
         PersistUpdate(by, id, name, files), \A f \in Live(files) : f \in Live(files_),
         UNCHANGED nr_synced_extents_
  PROVE  /\ \A f \in Ids : is_deleted_[f] => logged'[f] = NoRecord
         /\ \A f \in Ids : f >= next_file_id_ =>
              logged'[f] = NoRecord /\ nr_synced_extents_'[f] = 0 /\ f \notin misjudged'
<1>0. Types /\ Names1 /\ WRLocks
  BY DEF Control
<1>1. id \in Ids
  BY DEF Live
<1>2. misjudged' \subseteq misjudged \cup {gc.id, writer.id}
  BY <1>0, <1>1, UpdateEffect
<1>3. ASSUME NEW f \in Ids, f \notin Live(files_) PROVE Kept(f) \/ Erased(f)
  BY <1>0, <1>1, <1>3, UpdateEffect DEF Updated
<1>4. ASSUME NEW f \in Ids, is_deleted_[f] PROVE logged'[f] = NoRecord
  BY <1>0, <1>3, <1>4, LiveFile DEF Names1, Kept, Erased
<1>5. ASSUME NEW f \in Ids, f >= next_file_id_
      PROVE  logged'[f] = NoRecord /\ nr_synced_extents_'[f] = 0 /\ f \notin misjudged'
  BY <1>0, <1>2, <1>3, <1>5, Unused DEF Names1, Fresh, Kept, Erased
<1> QED
  BY <1>4, <1>5

\* So do the calls of the users, a rename over an existing file among them.
LEMMA NamesUser ==
  ASSUME Control, Types',
         \/ \E n \in Names : OpenWritableFile(n) \/ ReopenWritableFile(n) \/ DeleteFile(n)
         \/ \E z \in Zones : AllocateNewZone(z)
         \/ \E length \in Lengths : BufferedAppend(length)
         \/ MetadataSynced \/ BufferedAppendDone
         \/ CloseWR \/ CloseWRDone \/ CloseActiveZone \/ ResetUnused
         \/ \E src \in Names, dst \in Names : RenameFile(src, dst)
  PROVE  Names1'
<1> USE DEF device, faults, metadata
<1>0. Types /\ gc \in Collector /\ Names1 /\ WRLocks
  BY DEF Control, Types
<1>w. writer.id # NoFile => writer.id \in Live(files_)
  BY <1>0 DEF WRLocks
<1>1. ASSUME NEW n \in Names, OpenWritableFile(n) PROVE Names1'
  <2> DEFINE id == next_file_id_
  <2>1. /\ id \in Ids /\ files_[n] = NoFile /\ next_file_id_' = id + 1
        /\ PersistUpdate("writer", id, n, files_) /\ files_' = [files_ EXCEPT ![n] = id]
        /\ open_for_wr_' = [open_for_wr_ EXCEPT ![id] = TRUE]
        /\ UNCHANGED <<nr_synced_extents_, extents_, file_size_, is_deleted_, extent_start_, gc>>
    BY <1>1 DEF OpenWritableFile
  <2>2. misjudged' \subseteq misjudged \cup {gc.id, writer.id}
    BY <1>0, <2>1, UpdateEffect
  <2>3. Fresh(id) /\ id # NoFile /\ id \notin Live(files_)
    <3>1. id >= next_file_id_
      BY <2>1 DEF Ids
    <3> QED
      BY <1>0, <2>1, <3>1, Unused, Zeros DEF Names1
  <2>4. \A m \in Names : files_'[m] = IF m = n THEN id ELSE files_[m]
    BY <1>0, <2>1 DEF Types
  <2>5. \A m \in Names : files_[m] # id
    BY <2>1, <2>3 DEF Live
  <2>6. ASSUME NEW f \in Ids
        PROVE  \/ Kept(f)
               \/ f = id /\ logged'[f].name = n
               \/ f \in Live(files_) /\ logged'[f].name = NameOf(files_, f)
               \/ f \notin Live(files_) /\ Erased(f)
    <3>1. Updated(f, id, n, files_)
      BY <1>0, <2>1, UpdateEffect
    <3> QED
      BY <3>1 DEF Updated, Written
  <2>7. ASSUME NEW f \in Ids, logged'[f].name # NoFile PROVE files_'[logged'[f].name] = f
    <3>1. CASE Kept(f)
      <4>1. logged'[f].name = logged[f].name /\ files_[logged[f].name] = f
        BY <1>0, <2>7, <3>1 DEF Kept, Names1
      <4>2. logged[f].name \in Names
        BY <1>0, <2>7, <4>1 DEF Types, Record
      <4> QED
        BY <2>1, <2>4, <4>1, <4>2, Zeros
    <3>2. CASE f = id /\ logged'[f].name = n
      BY <2>4, <3>2
    <3>3. CASE f \in Live(files_) /\ logged'[f].name = NameOf(files_, f)
      BY <1>0, <2>1, <2>4, <3>3, LiveFile, Zeros
    <3>4. CASE Erased(f)
      BY <2>7, <3>4 DEF Erased, NoRecord
    <3> QED
      BY <2>6, <3>1, <3>2, <3>3, <3>4
  <2>8. ASSUME NEW f \in Ids, is_deleted_[f] PROVE logged'[f] = NoRecord
    BY <1>0, <2>3, <2>6, <2>8, LiveFile DEF Names1, Fresh, Kept, Erased
  <2>9. ASSUME NEW f \in Ids, f >= id + 1
        PROVE  Fresh(f)'
    <3>1. f >= id /\ f # id
      BY <2>1, <2>9 DEF Ids
    <3>2. Fresh(f) /\ f \notin Live(files_) /\ f # gc.id /\ f # writer.id
      BY <1>0, <3>1, Unused DEF Names1
    <3>3. Kept(f) \/ Erased(f)
      BY <2>6, <3>1, <3>2
    <3>4. open_for_wr_'[f] = open_for_wr_[f]
      BY <1>0, <2>1, <3>1 DEF Types
    <3> QED
      BY <2>1, <2>2, <3>2, <3>3, <3>4 DEF Fresh, Kept, Erased
  <2>10. ASSUME NEW m \in Names, files_'[m] # NoFile
         PROVE  /\ ~is_deleted_'[files_'[m]] /\ files_'[m] < next_file_id_'
                /\ \A k \in Names : files_'[k] = files_'[m] => k = m
    <3>1. CASE m = n
      BY <2>1, <2>3, <2>4, <2>5, <3>1 DEF Fresh, Ids
    <3>2. CASE m # n
      <4>1. files_'[m] = files_[m] /\ files_[m] \in Ids /\ files_[m] < id
            /\ ~is_deleted_[files_[m]]
        BY <1>0, <2>4, <2>10, <3>2 DEF Names1, Types
      <4>2. files_[m] < id + 1
        BY <2>1, <4>1 DEF Ids
      <4> QED
        BY <1>0, <2>1, <2>4, <2>5, <2>10, <3>2, <4>1, <4>2 DEF Names1
    <3> QED
      BY <3>1, <3>2
  <2>11. \A f \in Ids : is_deleted_[f] => extents_[f] = <<>> \/ gc.id = f
    BY <1>0 DEF Names1
  <2> QED
    BY <2>1, <2>7, <2>8, <2>9, <2>10, <2>11 DEF Names1
<1>2. ASSUME NEW n \in Names, ReopenWritableFile(n) PROVE Names1'
  <2>1. /\ files_[n] \in Ids /\ open_for_wr_' = [open_for_wr_ EXCEPT ![files_[n]] = TRUE]
        /\ UNCHANGED <<files_, next_file_id_, logged, extents_, nr_synced_extents_, file_size_,
                       is_deleted_, extent_start_, misjudged, gc>>
    BY <1>0, <1>2 DEF ReopenWritableFile, namespace, lists, Types
  <2>2. \A f \in Ids : f >= next_file_id_ => open_for_wr_'[f] = open_for_wr_[f]
    <3>1. files_[n] \in Live(files_)
      BY <2>1 DEF Live
    <3>2. \A f \in Ids : f >= next_file_id_ => f # files_[n]
      BY <1>0, <3>1, Unused
    <3> QED
      BY <1>0, <2>1, <3>2 DEF Types
  <2> QED
    BY <1>0, <2>1, <2>2 DEF Names1, Fresh
<1>3. ASSUME NEW n \in Names, DeleteFile(n) PROVE Names1'
  <2> DEFINE id == files_[n]
             files == [files_ EXCEPT ![n] = NoFile]
  <2>1. /\ id \in Ids /\ PersistDeletion("user", id, files) /\ files_' = files
        /\ is_deleted_' = [is_deleted_ EXCEPT ![id] = TRUE]
        /\ UNCHANGED <<nr_synced_extents_, next_file_id_, file_size_, extent_start_, open_for_wr_, gc>>
    BY <1>0, <1>3 DEF DeleteFile, locks, Types
  <2>2. id \in Live(files_) /\ id # NoFile
    BY <2>1, Zeros DEF Live
  <2>3. \A m \in Names : files[m] = IF m = n THEN NoFile ELSE files_[m]
    BY <1>0 DEF Types
  <2>4. id \notin Live(files)
    BY <1>0, <2>2, <2>3 DEF Live, Names1
  <2>5. /\ misjudged' \subseteq misjudged \cup {gc.id, writer.id} /\ Erased(id)
        /\ \A f \in Ids : \/ Kept(f)
                          \/ f \in Live(files) /\ logged'[f].name = NameOf(files, f)
                          \/ f \notin Live(files) /\ Erased(f)
    BY <1>0, <2>1, <2>4, DeletionEffect DEF Written
  <2>6. \A f \in Ids : f # id => extents_'[f] = extents_[f] /\ is_deleted_'[f] = is_deleted_[f]
    BY <1>0, <1>3 DEF DeleteFile, Types
  <2>7. extents_'[id] = <<>> \/ gc.id = id
    BY <1>0, <1>3, <2>1 DEF DeleteFile, Types, Held
  <2>8. ASSUME NEW f \in Live(files)
        PROVE  f \in Live(files_) /\ f # id /\ NameOf(files, f) \in Names
               /\ files[NameOf(files, f)] = f
    <3>1. NameOf(files, f) \in Names /\ files[NameOf(files, f)] = f
      BY NameOfLive
    <3>2. f \in Ids /\ f # NoFile /\ f # id
      BY <2>4, Zeros DEF Live
    <3>3. files_[NameOf(files, f)] = f
      BY <2>3, <3>1, <3>2
    <3> QED
      BY <3>1, <3>2, <3>3 DEF Live
  <2> HIDE DEF files
  <2>9. ASSUME NEW f \in Ids, logged'[f].name # NoFile PROVE files[logged'[f].name] = f
    <3>1. f # id
      BY <2>5, <2>9 DEF Erased, NoRecord
    <3>2. CASE Kept(f)
      <4>1. logged'[f].name = logged[f].name /\ files_[logged[f].name] = f
        BY <1>0, <2>9, <3>2 DEF Kept, Names1
      <4>2. logged[f].name \in Names
        BY <1>0, <2>9, <4>1 DEF Types, Record
      <4> QED
        BY <2>3, <3>1, <4>1, <4>2
    <3>3. CASE f \in Live(files) /\ logged'[f].name = NameOf(files, f)
      BY <2>8, <3>3
    <3>4. CASE Erased(f)
      BY <2>9, <3>4 DEF Erased, NoRecord
    <3> QED
      BY <2>5, <3>2, <3>3, <3>4
  <2>10. ASSUME NEW f \in Ids, is_deleted_'[f]
         PROVE  logged'[f] = NoRecord /\ (extents_'[f] = <<>> \/ gc.id = f)
    <3>1. CASE f = id
      BY <2>5, <2>7, <3>1 DEF Erased
    <3>2. CASE f # id
      <4>1. is_deleted_[f] /\ extents_'[f] = extents_[f]
        BY <2>6, <2>10, <3>2
      <4>2. f \notin Live(files_) /\ logged[f] = NoRecord
        BY <1>0, <4>1, LiveFile DEF Names1
      <4> QED
        BY <1>0, <2>5, <2>8, <4>1, <4>2 DEF Names1, Kept, Erased
    <3> QED
      BY <3>1, <3>2
  <2>11. ASSUME NEW f \in Ids, f >= next_file_id_ PROVE Fresh(f)'
    <3>1. Fresh(f) /\ f # id /\ f \notin Live(files_) /\ f # gc.id /\ f # writer.id
      BY <1>0, <2>2, <2>11, Unused DEF Names1
    <3>2. Kept(f) \/ Erased(f)
      BY <2>5, <2>8, <3>1
    <3> QED
      BY <2>1, <2>5, <2>6, <3>1, <3>2 DEF Fresh, Kept, Erased
  <2>12. ASSUME NEW m \in Names, files[m] # NoFile
         PROVE  /\ ~is_deleted_'[files[m]] /\ files[m] < next_file_id_
                /\ \A k \in Names : files[k] = files[m] => k = m
    <3>1. m # n /\ files[m] = files_[m]
      BY <2>3, <2>12
    <3>2. files_[m] # id /\ files_[m] \in Ids
      BY <1>0, <2>2, <2>12, <3>1 DEF Names1, Types
    <3> QED
      BY <1>0, <2>3, <2>6, <2>12, <3>1, <3>2 DEF Names1
  <2> QED
    BY <2>1, <2>9, <2>10, <2>11, <2>12 DEF Names1
<1>4. CASE (\E z \in Zones : AllocateNewZone(z)) \/ CloseWR
  <2> DEFINE id == writer.id
  <2>1. /\ id # NoFile /\ PersistUpdate("writer", id, NameOf(files_, id), files_)
        /\ UNCHANGED <<nr_synced_extents_, files_, next_file_id_, extents_, file_size_, is_deleted_, gc>>
    BY <1>4 DEF AllocateNewZone, CloseWR, namespace
  <2>2. id \in Live(files_) /\ id \in Ids
    BY <1>w, <2>1 DEF Live
  <2>3. \A f \in Ids : f # id => /\ extent_start_'[f] = extent_start_[f]
                                 /\ open_for_wr_'[f] = open_for_wr_[f]
    BY <1>0, <1>4 DEF AllocateNewZone, CloseWR, locks, Types
  <2>4. /\ \A f \in Ids : is_deleted_[f] => logged'[f] = NoRecord
        /\ \A f \in Ids : f >= next_file_id_ =>
              logged'[f] = NoRecord /\ nr_synced_extents_'[f] = 0 /\ f \notin misjudged'
    BY <2>1, <2>2, NamesUpdate
  <2>5. ASSUME NEW f \in Ids
        PROVE  \/ Kept(f) \/ Erased(f)
               \/ f \in Live(files_) /\ logged'[f].name = NameOf(files_, f)
    <3>1. Updated(f, id, NameOf(files_, id), files_)
      BY <1>0, <2>1, <2>2, UpdateEffect
    <3> QED
      BY <3>1, <2>2 DEF Updated, Written
  <2>6. ASSUME NEW f \in Ids, logged'[f].name # NoFile PROVE files_[logged'[f].name] = f
    BY <1>0, <2>5, <2>6, LiveFile DEF Names1, Kept, Erased, NoRecord
  <2>7. \A f \in Ids : f >= next_file_id_ => f # id
    BY <1>0, <2>2, Unused
  <2> QED
    BY <1>0, <2>1, <2>3, <2>4, <2>6, <2>7 DEF Names1, Fresh
<1>5. ASSUME NEW length \in Lengths, BufferedAppend(length) PROVE Names1'
  <2> DEFINE id == writer.id
  <2>1. /\ id # NoFile /\ misjudged' \subseteq misjudged \cup {id}
        /\ UNCHANGED <<files_, next_file_id_, logged, nr_synced_extents_, is_deleted_,
                       file_size_, extent_start_, open_for_wr_, gc>>
    BY <1>5 DEF BufferedAppend, namespace, locks, Race
  <2>2. id \in Live(files_) /\ id \in Ids
    BY <1>w, <2>1 DEF Live
  <2>3. \A f \in Ids : f # id => extents_'[f] = extents_[f]
    BY <1>0, <1>5 DEF BufferedAppend, Types
  <2>4. \A f \in Ids : is_deleted_[f] \/ f >= next_file_id_ => f # id
    BY <1>0, <2>2, Unused, LiveFile
  <2>5. \A f \in Ids : f >= next_file_id_ => Fresh(f)'
    BY <1>0, <2>1, <2>3, <2>4 DEF Names1, Fresh
  <2>6. \A f \in Ids : is_deleted_[f] => extents_'[f] = extents_[f]
    BY <2>3, <2>4
  <2> QED
    BY <1>0, <2>1, <2>5, <2>6 DEF Names1
<1>8. CASE BufferedAppendDone
  <2> DEFINE id == writer.id
  <2>1. /\ id # NoFile
        /\ UNCHANGED <<files_, next_file_id_, logged, nr_synced_extents_, is_deleted_,
                       extents_, open_for_wr_, gc, misjudged>>
    BY <1>8 DEF BufferedAppendDone, namespace, locks, Control, Active
  <2>2. id \in Live(files_) /\ id \in Ids
    BY <1>w, <2>1 DEF Live
  <2>3. \A f \in Ids : f # id => /\ file_size_'[f] = file_size_[f]
                                 /\ extent_start_'[f] = extent_start_[f]
    BY <1>0, <1>8 DEF BufferedAppendDone, Types
  <2>4. \A f \in Ids : f >= next_file_id_ => f # id
    BY <1>0, <2>2, Unused
  <2>5. \A f \in Ids : f >= next_file_id_ => Fresh(f)'
    BY <1>0, <2>1, <2>3, <2>4 DEF Names1, Fresh
  <2> QED
    BY <1>0, <2>1, <2>5 DEF Names1
<1>9. CASE MetadataSynced
  <2>1. UNCHANGED <<files_, next_file_id_, logged, is_deleted_, extents_, file_size_,
                    extent_start_, open_for_wr_, gc>>
        /\ misjudged' \subseteq misjudged \cup {gc.id}
    BY <1>9 DEF MetadataSynced, namespace, locks, Unmarked
  <2>2. \A f \in Ids : f >= next_file_id_ => f \notin files_mtx_.ids /\ f # gc.id
    BY <1>0, Unused DEF Control, Mutex
  <2>3. \A f \in Ids : f \notin files_mtx_.ids => nr_synced_extents_'[f] = nr_synced_extents_[f]
    BY <1>9 DEF MetadataSynced
  <2>4. \A f \in Ids : f >= next_file_id_ => Fresh(f)'
    BY <1>0, <2>1, <2>2, <2>3 DEF Names1, Fresh
  <2> QED
    BY <1>0, <2>1, <2>4 DEF Names1
<1>10. CASE CloseWRDone
  <2> DEFINE id == writer.id
  <2>1. /\ id # NoFile /\ open_for_wr_' = [open_for_wr_ EXCEPT ![id] = FALSE]
        /\ UNCHANGED <<files_, next_file_id_, logged, nr_synced_extents_, is_deleted_, file_size_,
                       extent_start_, extents_, gc, misjudged>>
    BY <1>10 DEF CloseWRDone, namespace, lists
  <2>2. \A f \in Ids : ~open_for_wr_[f] => ~open_for_wr_'[f]
    BY <1>0, <2>1 DEF Types
  <2> QED
    BY <1>0, <2>1, <2>2 DEF Names1, Fresh
<1>6. CASE CloseActiveZone \/ ResetUnused
  BY <1>6, NamesFrame DEF CloseActiveZone, ResetUnused, locks
<1>7. ASSUME NEW src \in Names, NEW dst \in Names, RenameFile(src, dst) PROVE Names1'
  <2> DEFINE id == files_[src]
             files == [files_ EXCEPT ![src] = NoFile, ![dst] = id]
  <2>1. /\ id \in Ids /\ files_[dst] = NoFile /\ files_' = files
        /\ PersistUpdate("user", id, dst, files)
        /\ UNCHANGED <<nr_synced_extents_, next_file_id_, extents_, file_size_, is_deleted_, extent_start_,
                       open_for_wr_, gc>>
    BY <1>0, <1>7 DEF RenameFile, locks, Types
  <2>2. id \in Live(files_) /\ id # NoFile /\ src # dst
    BY <2>1, Zeros DEF Live
  <2>3. \A m \in Names : files[m] = IF m = dst THEN id ELSE IF m = src THEN NoFile ELSE files_[m]
    BY <1>0 DEF Types
  <2>4. \A m \in Names : files_[m] = id => m = src
    BY <1>0, <2>2 DEF Names1
  <2> HIDE DEF files
  <2>5. ASSUME NEW f \in Live(files)
        PROVE  f \in Live(files_) /\ NameOf(files, f) \in Names /\ files[NameOf(files, f)] = f
    BY <2>3, <2>2, NameOfLive, Zeros DEF Live
  <2>6. /\ \A f \in Ids : is_deleted_[f] => logged'[f] = NoRecord
        /\ \A f \in Ids : f >= next_file_id_ =>
              logged'[f] = NoRecord /\ nr_synced_extents_'[f] = 0 /\ f \notin misjudged'
    BY <2>1, <2>2, <2>5, NamesUpdate
  <2>7. ASSUME NEW f \in Ids
        PROVE  \/ f # id /\ Kept(f)
               \/ Erased(f)
               \/ f = id /\ logged'[f].name = dst
               \/ f \in Live(files) /\ logged'[f].name = NameOf(files, f)
    <3>1. Updated(f, id, dst, files)
      BY <1>0, <2>1, UpdateEffect
    <3> QED
      BY <3>1 DEF Updated, Written
  <2>8. ASSUME NEW f \in Ids, logged'[f].name # NoFile PROVE files[logged'[f].name] = f
    <3>1. CASE f # id /\ Kept(f)
      <4>1. logged'[f].name = logged[f].name /\ files_[logged[f].name] = f
        BY <1>0, <2>8, <3>1 DEF Kept, Names1
      <4>2. logged[f].name \in Names
        BY <1>0, <2>8, <4>1 DEF Types, Record
      <4> QED
        BY <2>1, <2>3, <3>1, <4>1, <4>2, Zeros
    <3>2. CASE Erased(f)
      BY <2>8, <3>2 DEF Erased, NoRecord
    <3>3. CASE f = id /\ logged'[f].name = dst
      BY <2>3, <3>3
    <3>4. CASE f \in Live(files) /\ logged'[f].name = NameOf(files, f)
      BY <2>5, <3>4
    <3> QED
      BY <2>7, <3>1, <3>2, <3>3, <3>4
  <2>9. ASSUME NEW m \in Names, files[m] # NoFile
        PROVE  /\ ~is_deleted_[files[m]] /\ files[m] < next_file_id_
               /\ \A k \in Names : files[k] = files[m] => k = m
    BY <1>0, <2>2, <2>3, <2>4, <2>9 DEF Names1
  <2> QED
    BY <1>0, <2>1, <2>6, <2>8, <2>9 DEF Names1, Fresh
<1> QED
  BY <1>1, <1>2, <1>3, <1>4, <1>5, <1>6, <1>7, <1>8, <1>9, <1>10

\* Readers change no name.
LEMMA NamesReader ==
  ASSUME Control, NEW r \in Readers,
         GoOnReading(r) \/ \E n \in Names : PositionedRead(r, n)
  PROVE  Names1'
<1>1. UNCHANGED <<namespace, logged, lists, open_for_wr_, misjudged, gc>>
  BY Zenon DEF GoOnReading, ReadLock, ReadNextExtent, ReadDevice, PositionedRead, locks, metadata
<1> QED
  BY <1>1, NamesFrame

\* A mount gives every record its name back.
LEMMA NamesCrash ==
  ASSUME Control, Crash
  PROVE  Names1'
<1>0. Types /\ Names1 /\ WRLocks
  BY DEF Control
<1>1. Mount /\ gc' = NoGC /\ UNCHANGED <<next_file_id_, misjudged>>
  BY DEF Crash
<1>2. ASSUME NEW id \in Ids
      PROVE  /\ Recover(logged[id]) \in Record /\ Recover(logged[id]).name = logged[id].name
             /\ logged[id] = NoRecord => Recover(logged[id]) = NoRecord
  <2>1. logged[id] \in Record
    BY <1>0 DEF Types
  <2>2. Recover(logged[id]).name = logged[id].name
    BY <2>1 DEF Recover, Record
  <2>3. Recover(NoRecord) = NoRecord
    BY DEF Recover, NoRecord, NO_EXTENT
  <2> QED
    BY <1>0, <2>2, <2>3, RecoverType
<1>3. ASSUME NEW id \in Ids
      PROVE  /\ logged'[id] = [Recover(logged[id]) EXCEPT !.start = NO_EXTENT]
             /\ logged'[id].name = logged[id].name
             /\ logged[id] = NoRecord => logged'[id] = NoRecord
  <2>1. logged'[id] = [Recover(logged[id]) EXCEPT !.start = NO_EXTENT]
    BY <1>1 DEF Mount
  <2>2. [NoRecord EXCEPT !.start = NO_EXTENT] = NoRecord
    BY DEF NoRecord
  <2> QED
    BY <1>2, <2>1, <2>2 DEF Record
<1>4. \A n \in Names : files_'[n] = IF \E id \in Ids : logged[id].name = n
                                    THEN CHOOSE id \in Ids : logged[id].name = n ELSE NoFile
  BY <1>1 DEF Mount
<1>5. ASSUME NEW n \in Names, files_'[n] # NoFile
      PROVE  files_'[n] \in Ids /\ logged[files_'[n]].name = n /\ files_[n] = files_'[n]
  BY <1>0, <1>4, <1>5, Zeros DEF Names1
<1>6. ASSUME NEW id \in Ids, logged[id].name # NoFile PROVE files_'[logged[id].name] = id
  <2>1. logged[id].name \in Names
    BY <1>0, <1>6 DEF Types, Record
  <2>2. files_'[logged[id].name] # NoFile
    BY <1>4, <2>1, Zeros
  <2> QED
    BY <1>0, <1>5, <1>6, <2>1, <2>2 DEF Names1
<1>7. \A id \in Ids : ~is_deleted_'[id]
  BY <1>1 DEF Mount
<1>8. ASSUME NEW id \in Ids, id >= next_file_id_ PROVE Fresh(id)'
  <2>1. Fresh(id)
    BY <1>0, <1>8 DEF Names1
  <2>2. Recover(logged[id]) = NoRecord /\ logged'[id] = NoRecord
    BY <1>2, <1>3, <2>1 DEF Fresh
  <2>3. extents_'[id] = <<>> /\ file_size_'[id] = 0
    BY <1>1, <2>2 DEF Mount, NoRecord
  <2>4. nr_synced_extents_'[id] = Len(extents_'[id])
    BY <1>1 DEF Mount
  <2>5. extent_start_'[id] = NO_EXTENT /\ ~open_for_wr_'[id]
    BY <1>1 DEF Mount
  <2> QED
    BY <1>1, <1>7, <2>1, <2>2, <2>3, <2>4, <2>5 DEF Fresh
<1>9. ASSUME NEW n \in Names, files_'[n] # NoFile
      PROVE  files_'[n] < next_file_id_' /\ \A m \in Names : files_'[m] = files_'[n] => m = n
  BY <1>0, <1>1, <1>5, <1>9 DEF Names1
<1> QED
  BY <1>1, <1>3, <1>5, <1>6, <1>7, <1>8, <1>9 DEF Names1

-----------------------------------------------------------------------------
(***************************************************************************)
(* The owners of WR locks and of busy zones                                *)
(***************************************************************************)

\* The collector takes the WR lock of a file nobody writes, and a target nobody writes to.
LEMMA WRLocksCollect ==
  ASSUME Control, Collect
  PROVE  WRLocks'
<1> USE DEF device, namespace, lists, locks, faults, metadata, Holding, Locking
<1>0. Types /\ gc \in Collector /\ Names1 /\ WRLocks
  BY DEF Control, Types
<1>s. ASSUME NEW fname, gc' = Skip(fname) PROVE gc'.pc = "reset" /\ gc'.id = NoFile
  BY <1>0, <1>s, SkipType
<1>1. CASE GCWorker \/ GetZenFSSnapshot
  <2>1. gc'.id = NoFile /\ gc'.pc \in {"idle", "files", "next"}
    <3>1. gc.id = NoFile
      BY <1>1, Between DEF GCWorker, GetZenFSSnapshot
    <3>2. CASE GCWorker
      BY <1>0, <3>1, <3>2 DEF GCWorker, Collector
    <3>3. CASE GetZenFSSnapshot
      <4>1. gc' = NoGC \/ \E todo : gc' = [NoGC EXCEPT !.pc = "next", !.todo = todo]
        BY Zenon, <3>3 DEF GetZenFSSnapshot
      <4>2. ASSUME NEW todo, gc' = [NoGC EXCEPT !.pc = "next", !.todo = todo]
            PROVE  gc'.id = NoFile /\ gc'.pc = "next"
        BY <4>2 DEF NoGC
      <4>3. CASE gc' = NoGC
        BY <4>3 DEF NoGC
      <4> QED
        BY Zenon, <4>1, <4>2, <4>3
    <3> QED
      BY <1>1, <3>2, <3>3
  <2>2. UNCHANGED <<files_, next_file_id_, is_deleted_, writer, busy_, open_for_wr_>>
    BY <1>1 DEF GCWorker, GetZenFSSnapshot
  <2> QED
    BY <1>0, <2>1, <2>2 DEF WRLocks
<1>2. CASE TryAcquireWRLock
  <2>1. gc.id \in Ids
    BY <1>0, <1>2, HeldFile DEF TryAcquireWRLock
  <2>2. UNCHANGED <<files_, next_file_id_, is_deleted_, writer, busy_>>
    BY <1>2 DEF TryAcquireWRLock
  <2>3. CASE gc' = Skip(gc.fname) /\ UNCHANGED open_for_wr_
    BY <1>0, <1>s, <2>2, <2>3 DEF WRLocks
  <2>4. CASE /\ ~open_for_wr_[gc.id] /\ open_for_wr_' = [open_for_wr_ EXCEPT ![gc.id] = TRUE]
             /\ gc' = [gc EXCEPT !.pc = "extent", !.list = extents_[gc.id], !.i = 1]
    <3>1. gc'.pc = "extent" /\ gc'.id = gc.id
      BY <1>0, <2>4 DEF Collector
    <3>2. open_for_wr_'[gc.id] /\ gc.id # writer.id
      BY <1>0, <2>1, <2>4, Zeros DEF WRLocks, Types
    <3>3. writer.id # NoFile => open_for_wr_'[writer.id]
      BY <1>0, <2>4 DEF WRLocks, Types
    <3> QED
      BY <1>0, <2>1, <2>2, <3>1, <3>2, <3>3, Zeros DEF WRLocks
  <2> QED
    BY <1>2, <2>3, <2>4 DEF TryAcquireWRLock
<1>3. ASSUME NEW n \in Names, MigrateGetFile(n) PROVE WRLocks'
  <2>1. UNCHANGED <<files_, next_file_id_, is_deleted_, writer, busy_, open_for_wr_>>
    BY <1>3 DEF MigrateGetFile
  <2>2. CASE gc' = Skip(n)
    BY <1>0, <1>s, <2>1, <2>2 DEF WRLocks
  <2>3. CASE files_[n] # NoFile
             /\ gc' = [gc EXCEPT !.pc = "wrlock", !.fname = n, !.id = files_[n]]
    <3>1. gc'.pc = "wrlock" /\ gc'.id = files_[n]
      BY <1>0, <2>3 DEF Collector
    <3>2. files_[n] \in Live(files_) /\ files_[n] < next_file_id_
      BY <1>0, <2>3 DEF Live, Names1, Types
    <3> QED
      BY <1>0, <2>1, <2>3, <3>1, <3>2 DEF WRLocks
  <2> QED
    BY <1>3, <2>2, <2>3 DEF MigrateGetFile
<1>4. ASSUME NEW z \in Zones, TakeMigrateZone(z) PROVE WRLocks'
  <2>1. /\ UNCHANGED <<files_, next_file_id_, is_deleted_, writer, open_for_wr_>>
        /\ gc.pc = "extent" /\ ~busy_[z] /\ busy_' = [busy_ EXCEPT ![z] = TRUE]
    BY <1>4 DEF TakeMigrateZone, TargetZones
  <2>2. gc'.pc = "copy" /\ gc'.target = z /\ gc'.id = gc.id
    BY <1>0, <1>4 DEF TakeMigrateZone, Collector
  <2>3. writer.zone # z
    BY <1>0, <2>1, Zeros DEF WRLocks
  <2>4. busy_'[z] /\ (writer.zone # NoZone => busy_'[writer.zone])
    BY <1>0, <2>1 DEF WRLocks, Types
  <2> QED
    BY <1>0, <2>1, <2>2, <2>3, <2>4 DEF WRLocks
<1>5. CASE LeaveExtent \/ MigrateData \/ MigrateDataError \/ WriteLock \/ ReplaceExtentList \/ MetadataUnsynced
            \/ SyncFileExtentsDone
  <2>1. /\ gc.pc \in Locking /\ gc'.pc \in Locking /\ gc'.id = gc.id
        /\ gc'.pc \in {"copy", "check"} => gc.pc \in {"copy", "check"} /\ gc'.target = gc.target
    BY <1>0, <1>5 DEF LeaveExtent, MigrateData, MigrateDataError, WriteLock, ReplaceExtentList, MetadataUnsynced,
                      SyncFileExtentsDone, Collector
  <2>2. UNCHANGED <<files_, next_file_id_, is_deleted_, writer, busy_, open_for_wr_>>
    BY <1>5 DEF LeaveExtent, MigrateData, MigrateDataError, WriteLock, ReplaceExtentList, MetadataUnsynced,
                SyncFileExtentsDone
  <2> QED
    BY <1>0, <2>1, <2>2 DEF WRLocks
<1>6. CASE ExtentMigrated \/ FileGone
  <2>1. /\ UNCHANGED <<files_, next_file_id_, is_deleted_, writer, open_for_wr_>>
        /\ gc.pc = "check" /\ busy_' = [busy_ EXCEPT ![gc.target] = FALSE]
    BY <1>6 DEF ExtentMigrated, FileGone, ReleaseMigrateZone
  <2>2. gc'.pc = "extent" /\ gc'.id = gc.id
    BY <1>0, <1>6 DEF ExtentMigrated, FileGone, Collector
  <2>3. writer.zone # NoZone => busy_'[writer.zone]
    BY <1>0, <2>1 DEF WRLocks, Types
  <2> QED
    BY <1>0, <2>1, <2>2, <2>3 DEF WRLocks
<1>7. CASE SyncFileMetadata
  <2>1. gc.id \in Ids /\ gc.pc = "sync"
    BY <1>0, <1>7, HeldFile DEF SyncFileMetadata
  <2>2. gc'.id = gc.id /\ gc'.pc \in {"clear", "release"}
    BY <1>0, <1>7, <2>1, SyncEffect
  <2>3. UNCHANGED <<files_, next_file_id_, is_deleted_, writer, open_for_wr_, busy_>>
    BY <1>7 DEF SyncFileMetadata
  <2> QED
    BY <1>0, <2>1, <2>2, <2>3 DEF WRLocks
<1>8. CASE ReleaseWRLock
  <2>1. gc.id \in Ids /\ gc.pc = "release"
    BY <1>0, <1>8, HeldFile DEF ReleaseWRLock
  <2>2. UNCHANGED <<files_, next_file_id_, is_deleted_, writer, busy_>>
        /\ open_for_wr_' = [open_for_wr_ EXCEPT ![gc.id] = FALSE]
    BY <1>8 DEF ReleaseWRLock
  <2>3. gc'.pc = "reset" /\ gc'.id = NoFile
    BY <1>8, <1>s DEF ReleaseWRLock
  <2>4. writer.id # NoFile => open_for_wr_'[writer.id]
    BY <1>0, <2>1, <2>2 DEF WRLocks, Types
  <2> QED
    BY <1>0, <2>2, <2>3, <2>4 DEF WRLocks
<1>9. CASE MigrateResets
  BY <1>0, <1>9 DEF MigrateResets, NoGC, WRLocks, Live, Collector
<1> QED
  BY <1>1, <1>2, <1>3, <1>4, <1>5, <1>6, <1>7, <1>8, <1>9 DEF Collect

\* The WR lock keeps one owner, and so does a busy zone.
LEMMA WRLocksNext ==
  ASSUME Control, Types', Next
  PROVE  WRLocks'
<1> USE DEF device, namespace, lists, locks, faults, metadata, Holding, Locking
<1>0. Types /\ gc \in Collector /\ Names1 /\ WRLocks
  BY DEF Control, Types
<1>l. gc.pc \in Locking => gc.id \in Ids /\ open_for_wr_[gc.id]
  BY <1>0, HeldFile DEF WRLocks
<1>1. ASSUME NEW n \in Names, OpenWritableFile(n) PROVE WRLocks'
  <2> DEFINE id == next_file_id_
  <2>1. /\ id \in Ids /\ files_[n] = NoFile /\ next_file_id_' = id + 1
        /\ files_' = [files_ EXCEPT ![n] = id] /\ writer = NoWriter
        /\ open_for_wr_' = [open_for_wr_ EXCEPT ![id] = TRUE]
        /\ writer' = [NoWriter EXCEPT !.id = id]
        /\ UNCHANGED <<busy_, is_deleted_, gc>>
    BY <1>1 DEF OpenWritableFile
  <2>2. writer'.id = id /\ writer'.zone = NoZone /\ writer.zone = NoZone
    BY <2>1 DEF NoWriter
  <2>3. \A f \in Live(files_) : f \in Live(files_')
    BY <1>0, <2>1, Zeros DEF Live, Types
  <2>4. id \in Live(files_') /\ open_for_wr_'[id]
    BY <1>0, <2>1 DEF Live, Types
  <2>5. gc.id # NoFile => gc.id # id /\ gc.id < id + 1
    <3>1. id >= next_file_id_
      BY <2>1 DEF Ids
    <3>2. gc.id # id
      BY <1>0, <2>1, <3>1, Unused
    <3>3. gc.id # NoFile => gc.id < id /\ gc.id \in Int /\ id \in Int
      BY <1>0, <2>1 DEF WRLocks, Collector, Ids
    <3> QED
      BY <3>2, <3>3
  <2>6. gc.pc \in Locking => open_for_wr_'[gc.id]
    BY <1>0, <1>l, <2>1 DEF Types
  <2>7. gc.pc \in {"copy", "check"} => gc.target # NoZone
    BY <1>0, Zeros DEF WRLocks
  <2> QED
    BY <1>0, <2>1, <2>2, <2>3, <2>4, <2>5, <2>6, <2>7 DEF WRLocks
<1>2. ASSUME NEW n \in Names, ReopenWritableFile(n) PROVE WRLocks'
  BY <1>0, <1>2, Zeros DEF ReopenWritableFile, NoWriter, Held, WRLocks, Live, Types
<1>3. ASSUME NEW n \in Names, DeleteFile(n) PROVE WRLocks'
  <2> DEFINE id == files_[n]
  <2>1. /\ id # NoFile /\ id # writer.id
        /\ files_' = [files_ EXCEPT ![n] = NoFile]
        /\ is_deleted_' = [is_deleted_ EXCEPT ![id] = TRUE]
        /\ UNCHANGED <<busy_, next_file_id_, open_for_wr_, writer, gc>>
    BY <1>3 DEF DeleteFile
  <2>2. ASSUME NEW f \in Live(files_), f # id PROVE f \in Live(files_')
    BY <1>0, <2>1, <2>2 DEF Live, Types
  <2>3. is_deleted_'[id] /\ \A f \in Ids : is_deleted_[f] => is_deleted_'[f]
    BY <1>0, <2>1 DEF Types
  <2>4. gc.id # NoFile => gc.id \in Ids
    BY <1>0 DEF Collector
  <2> QED
    BY <1>0, <2>1, <2>2, <2>3, <2>4 DEF WRLocks
<1>4. ASSUME NEW z \in Zones, AllocateNewZone(z) PROVE WRLocks'
  BY <1>0, <1>4, Zeros DEF AllocateNewZone, WRLocks, Types, Writer
<1>5. ASSUME NEW length \in Lengths, BufferedAppend(length) PROVE WRLocks'
  BY <1>0, <1>5, Zeros DEF BufferedAppend, WRLocks, Types, Writer
<1>11. CASE BufferedAppendDone
  <2>1. /\ busy_' = [busy_ EXCEPT ![writer.zone] = ~IsFull(writer.zone)]
        /\ writer' = [writer EXCEPT !.zone = IF IsFull(writer.zone) THEN NoZone ELSE writer.zone,
                                    !.added = 0]
        /\ UNCHANGED <<open_for_wr_, files_, next_file_id_, is_deleted_, gc>>
    BY <1>11 DEF BufferedAppendDone
  <2>2. writer'.id = writer.id
        /\ (writer'.zone # NoZone => writer'.zone = writer.zone /\ ~IsFull(writer.zone))
    BY <1>0, <2>1 DEF Types, Writer
  <2>3. writer'.zone # NoZone => busy_'[writer'.zone]
    BY <1>0, <2>1, <2>2 DEF Types, WRLocks, Writer
  <2>4. gc.pc \in {"copy", "check"} => busy_'[gc.target]
    BY <1>0, <2>1 DEF Types, WRLocks
  <2>5. gc.pc \in {"copy", "check"} => gc.target # writer'.zone
    BY <1>0, <2>2, Zeros DEF WRLocks
  <2> QED
    BY <1>0, <2>1, <2>2, <2>3, <2>4, <2>5 DEF WRLocks
<1>12. CASE CloseWR \/ MetadataSynced
  <2>1. UNCHANGED <<files_, next_file_id_, is_deleted_, open_for_wr_, busy_, writer, gc>>
    BY <1>12 DEF CloseWR, MetadataSynced
  <2> QED
    BY <1>0, <2>1 DEF WRLocks
<1>6. CASE CloseWRDone
  <2>1. /\ writer.id # NoFile /\ open_for_wr_' = [open_for_wr_ EXCEPT ![writer.id] = FALSE]
        /\ writer' = [writer EXCEPT !.id = NoFile]
        /\ UNCHANGED <<busy_, files_, next_file_id_, is_deleted_, gc>>
    BY <1>6 DEF CloseWRDone
  <2>2. writer'.id = NoFile /\ writer'.zone = writer.zone
    BY <1>0, <2>1 DEF Types, Writer
  <2>3. gc.pc \in Locking => open_for_wr_'[gc.id] /\ gc.id # NoFile
    BY <1>0, <1>l, <2>1, Zeros DEF WRLocks, Types
  <2> QED
    BY <1>0, <2>1, <2>2, <2>3 DEF WRLocks
<1>7. CASE CloseActiveZone \/ ResetUnused
  <2>1. CASE CloseActiveZone
    BY <1>0, <2>1, Zeros DEF CloseActiveZone, NoWriter, WRLocks, Types
  <2>2. CASE ResetUnused
    BY <1>0, <2>2 DEF ResetUnused, WRLocks
  <2> QED
    BY <1>7, <2>1, <2>2
<1>8. ASSUME NEW src \in TempNames, NEW dst \in Names \ TempNames, RenameFile(src, dst)
      PROVE  WRLocks'
  <2>1. /\ files_[src] # NoFile /\ files_[dst] = NoFile
        /\ files_' = [files_ EXCEPT ![src] = NoFile, ![dst] = files_[src]]
        /\ UNCHANGED <<busy_, next_file_id_, is_deleted_, open_for_wr_, writer, gc>>
    BY <1>8 DEF RenameFile
  <2>2. src \in Names /\ dst \in Names /\ src # dst
    BY NameAssumption
  <2>3. \A m \in Names : files_'[m] = IF m = dst THEN files_[src]
                                      ELSE IF m = src THEN NoFile ELSE files_[m]
    BY <1>0, <2>1, <2>2 DEF Types
  <2>4. ASSUME NEW f \in Live(files_) PROVE f \in Live(files_')
    <3>1. PICK m \in Names : files_[m] = f
      BY DEF Live
    <3>2. f # NoFile /\ f \in Ids
      BY Zeros DEF Live
    <3>3. CASE m = src
      BY <2>2, <2>3, <3>1, <3>2, <3>3 DEF Live
    <3>4. CASE m # src
      <4>1. m # dst
        BY <2>1, <3>1, <3>2
      <4>2. files_'[m] = f
        BY <2>3, <3>1, <3>4, <4>1
      <4> QED
        BY <3>2, <4>2 DEF Live
    <3> QED
      BY <3>3, <3>4
  <2> QED
    BY <1>0, <2>1, <2>4 DEF WRLocks
<1>9. ASSUME NEW r \in Readers, GoOnReading(r) \/ \E n \in Names : PositionedRead(r, n)
      PROVE  WRLocks'
  <2>1. UNCHANGED <<files_, next_file_id_, is_deleted_, open_for_wr_, busy_, writer, gc>>
    BY Zenon, <1>9 DEF GoOnReading, ReadLock, ReadNextExtent, ReadDevice, PositionedRead
  <2> QED
    BY <1>0, <2>1 DEF WRLocks
<1>10. CASE Crash
  BY <1>0, <1>10 DEF Crash, NoWriter, NoGC, WRLocks
<1> QED
  BY <1>1, <1>2, <1>3, <1>4, <1>5, <1>6, <1>7, <1>8, <1>9, <1>10, <1>11, <1>12,
     WRLocksCollect DEF Next

-----------------------------------------------------------------------------
(***************************************************************************)
(* Readers and the write lock on an extent list                            *)
(***************************************************************************)

\* The steps of others than readers
LEMMA RWLocksFrame ==
  ASSUME Control, UNCHANGED <<reader, readers_>>,
         \A id \in Ids : writer_mtx_'[id] <=> gc'.pc = "replace" /\ gc'.id = id,
         \A r \in Readers : reader[r].pc # "idle" =>
           /\ reader[r].id \in Live(files_') /\ reader[r].id # writer'.id
           /\ file_size_'[reader[r].id] = file_size_[reader[r].id]
  PROVE  RWLocks'
<1>1. \A id \in Ids : Reading(id)' = Reading(id)
  BY DEF Reading
<1> QED
  BY <1>1 DEF Control, RWLocks

\* WriteLock waits until no reader is in its critical section.
LEMMA RWLocksCollect ==
  ASSUME Control, Collect
  PROVE  RWLocks'
<1> USE DEF device, namespace, lists, locks, faults, metadata
<1>0. Types /\ gc \in Collector /\ WRLocks /\ RWLocks
  BY DEF Control, Types
<1>1. UNCHANGED <<reader, readers_, files_, writer, file_size_>>
  BY Zenon DEF Collect, GCWorker, GetZenFSSnapshot, TryAcquireWRLock, MigrateGetFile,
         TakeMigrateZone, LeaveExtent, MigrateData, MigrateDataError, ExtentMigrated, FileGone,
         WriteLock,
         ReplaceExtentList, MetadataUnsynced, SyncFileMetadata, SyncFileExtentsDone,
         ReleaseWRLock, MigrateResets
<1>2. CASE WriteLock
  <2>1. gc.id \in Ids /\ gc.pc # "replace"
    BY <1>0, <1>2, HeldFile DEF WriteLock, Holding
  <2>2. gc'.pc = "replace" /\ gc'.id = gc.id
    BY <1>0, <1>2 DEF WriteLock, Collector
  <2>3. writer_mtx_' = [writer_mtx_ EXCEPT ![gc.id] = TRUE]
    BY <1>2 DEF WriteLock
  <2>4. \A id \in Ids : writer_mtx_'[id] <=> gc'.pc = "replace" /\ gc'.id = id
    BY <1>0, <2>1, <2>2, <2>3 DEF RWLocks, Types
  <2> QED
    BY <1>0, <1>1, <2>4, RWLocksFrame DEF RWLocks
<1>3. CASE ReplaceExtentList
  <2>1. gc.id \in Ids
    BY <1>0, <1>3, HeldFile DEF ReplaceExtentList, Holding
  <2>2. gc'.pc = "unsync" /\ gc'.id = gc.id
    BY <1>0, <1>3 DEF ReplaceExtentList, Collector
  <2>3. writer_mtx_' = [writer_mtx_ EXCEPT ![gc.id] = FALSE]
    BY <1>3 DEF ReplaceExtentList
  <2>4. \A id \in Ids : writer_mtx_'[id] <=> gc'.pc = "replace" /\ gc'.id = id
    BY <1>0, <2>1, <2>2, <2>3 DEF RWLocks, Types
  <2> QED
    BY <1>0, <1>1, <2>4, RWLocksFrame DEF RWLocks
<1>4. CASE ~WriteLock /\ ~ReplaceExtentList
  <2>1. gc.pc # "replace" /\ UNCHANGED writer_mtx_
    BY Zenon, <1>4 DEF Collect, GCWorker, GetZenFSSnapshot, TryAcquireWRLock, MigrateGetFile,
         TakeMigrateZone, LeaveExtent, MigrateData, MigrateDataError, ExtentMigrated, FileGone,
         MetadataUnsynced,
         SyncFileMetadata, SyncFileExtentsDone, ReleaseWRLock, MigrateResets
  <2>2. gc'.pc # "replace"
    <3>1. CASE GCWorker \/ LeaveExtent \/ MigrateData \/ MigrateDataError \/ ExtentMigrated \/ FileGone
               \/ MetadataUnsynced \/ SyncFileExtentsDone \/ \E z \in Zones : TakeMigrateZone(z)
      BY Zenon, <1>0, <2>1, <3>1 DEF GCWorker, LeaveExtent, MigrateData, MigrateDataError,
           ExtentMigrated, FileGone, MetadataUnsynced, SyncFileExtentsDone, TakeMigrateZone, Collector
    <3>2. CASE GetZenFSSnapshot
      <4>1. gc' = NoGC \/ \E todo : gc' = [NoGC EXCEPT !.pc = "next", !.todo = todo]
        BY Zenon, <3>2 DEF GetZenFSSnapshot
      <4>2. ASSUME NEW todo, gc' = [NoGC EXCEPT !.pc = "next", !.todo = todo]
            PROVE  gc'.pc = "next"
        BY <4>2 DEF NoGC
      <4>3. CASE gc' = NoGC
        BY <4>3 DEF NoGC
      <4> QED
        BY Zenon, <4>1, <4>2, <4>3
    <3>3. ASSUME NEW fname, gc' = Skip(fname) PROVE gc'.pc # "replace"
      BY <1>0, <3>3, SkipType
    <3>4. CASE TryAcquireWRLock
      BY <1>0, <3>3, <3>4 DEF TryAcquireWRLock, Collector
    <3>5. ASSUME NEW n \in Names, MigrateGetFile(n) PROVE gc'.pc # "replace"
      BY <1>0, <3>3, <3>5 DEF MigrateGetFile, Collector
    <3>6. CASE SyncFileMetadata
      BY <1>0, <3>6 DEF SyncFileMetadata, Collector
    <3>7. CASE ReleaseWRLock
      BY <3>3, <3>7 DEF ReleaseWRLock
    <3>8. CASE MigrateResets
      BY <1>0, <3>8 DEF MigrateResets, NoGC, Collector
    <3> QED
      BY <1>4, <3>1, <3>2, <3>4, <3>5, <3>6, <3>7, <3>8 DEF Collect
  <2>3. \A id \in Ids : writer_mtx_'[id] <=> gc'.pc = "replace" /\ gc'.id = id
    BY <1>0, <2>1, <2>2 DEF RWLocks
  <2> QED
    BY <1>0, <1>1, <2>3, RWLocksFrame DEF RWLocks
<1> QED
  BY <1>2, <1>3, <1>4

\* No user takes a file from its readers.
LEMMA RWLocksUser ==
  ASSUME Control, Types', Names1',
         \/ \E n \in Names : OpenWritableFile(n) \/ ReopenWritableFile(n) \/ DeleteFile(n)
         \/ \E z \in Zones : AllocateNewZone(z)
         \/ \E length \in Lengths : BufferedAppend(length)
         \/ MetadataSynced \/ BufferedAppendDone
         \/ CloseWR \/ CloseWRDone \/ CloseActiveZone \/ ResetUnused
         \/ \E src \in Names, dst \in Names : RenameFile(src, dst)
  PROVE  RWLocks'
<1> USE DEF device, namespace, lists, locks, faults, metadata
<1>0. Types /\ WRLocks /\ RWLocks /\ Names1
  BY DEF Control, Types
<1>1. UNCHANGED <<reader, readers_, gc, writer_mtx_>>
  BY DEF OpenWritableFile, ReopenWritableFile, DeleteFile, AllocateNewZone, BufferedAppend,
         BufferedAppendDone, MetadataSynced, CloseWR, CloseWRDone, CloseActiveZone, ResetUnused,
         RenameFile
<1>2. ASSUME NEW r \in Readers, reader[r].pc # "idle"
      PROVE  /\ reader[r].id \in Live(files_') /\ reader[r].id # writer'.id
             /\ file_size_'[reader[r].id] = file_size_[reader[r].id]
  <2> DEFINE f == reader[r].id
  <2>1. f \in Live(files_) /\ f # writer.id /\ f \in Ids /\ f # NoFile
    BY <1>0, <1>2, Zeros DEF RWLocks, Live
  <2>2. ASSUME NEW n \in Names, OpenWritableFile(n)
        PROVE  f \in Live(files_') /\ f # writer'.id /\ file_size_'[f] = file_size_[f]
    <3>1. /\ files_[n] = NoFile /\ files_' = [files_ EXCEPT ![n] = next_file_id_]
          /\ writer' = [NoWriter EXCEPT !.id = next_file_id_] /\ UNCHANGED file_size_
          /\ next_file_id_ \in Ids
      BY <2>2 DEF OpenWritableFile
    <3>2. f # next_file_id_
      BY <1>0, <2>1, <3>1, LiveFile DEF Ids
    <3>3. f \in Live(files_')
      BY <1>0, <2>1, <3>1 DEF Live, Types
    <3> QED
      BY <3>1, <3>2, <3>3 DEF NoWriter
  <2>3. ASSUME NEW n \in Names, ReopenWritableFile(n)
        PROVE  f \in Live(files_') /\ f # writer'.id /\ file_size_'[f] = file_size_[f]
    BY <2>1, <2>3 DEF ReopenWritableFile, Read, NoWriter
  <2>4. ASSUME NEW n \in Names, DeleteFile(n)
        PROVE  f \in Live(files_') /\ f # writer'.id /\ file_size_'[f] = file_size_[f]
    BY <1>0, <2>1, <2>4 DEF DeleteFile, Read, Live, Types
  <2>5. CASE (\E z \in Zones : AllocateNewZone(z)) \/ MetadataSynced \/ CloseWR \/ CloseWRDone
             \/ CloseActiveZone \/ ResetUnused
    <3>1. writer'.id \in {writer.id, NoFile}
      <4>1. \/ writer' = writer \/ writer' = NoWriter \/ writer' = [writer EXCEPT !.id = NoFile]
            \/ \E z \in Zones : writer' = [writer EXCEPT !.zone = z]
        BY <2>5 DEF AllocateNewZone, MetadataSynced, CloseWR, CloseWRDone, CloseActiveZone,
                    ResetUnused
      <4>2. writer \in Writer
        BY <1>0 DEF Types
      <4>3. NoWriter.id = NoFile /\ [writer EXCEPT !.id = NoFile].id = NoFile
            /\ \A z \in Zones : [writer EXCEPT !.zone = z].id = writer.id
        BY <4>2 DEF NoWriter, Writer
      <4> QED
        BY <4>1, <4>3
    <3>2. UNCHANGED <<files_, file_size_>>
      BY <2>5 DEF AllocateNewZone, MetadataSynced, CloseWR, CloseWRDone, CloseActiveZone,
                  ResetUnused
    <3> QED
      BY <2>1, <3>1, <3>2
  <2>6. ASSUME NEW length \in Lengths, BufferedAppend(length)
        PROVE  f \in Live(files_') /\ f # writer'.id /\ file_size_'[f] = file_size_[f]
    BY <1>0, <2>1, <2>6 DEF BufferedAppend, Types, Writer
  <2>8. CASE BufferedAppendDone
    <3>1. /\ file_size_' = [file_size_ EXCEPT ![writer.id] = @ + writer.added]
          /\ writer' = [writer EXCEPT !.zone = IF IsFull(writer.zone) THEN NoZone ELSE writer.zone,
                                      !.added = 0]
          /\ UNCHANGED files_
      BY <2>8 DEF BufferedAppendDone
    <3>2. writer'.id = writer.id
      BY <1>0, <3>1 DEF Types, Writer
    <3> QED
      BY <1>0, <2>1, <3>1, <3>2 DEF Types
  <2>7. ASSUME NEW src \in Names, NEW dst \in Names, RenameFile(src, dst)
        PROVE  f \in Live(files_') /\ f # writer'.id /\ file_size_'[f] = file_size_[f]
    <3>1. /\ files_[dst] = NoFile /\ files_[src] # NoFile /\ UNCHANGED <<writer, file_size_>>
          /\ files_' = [files_ EXCEPT ![src] = NoFile, ![dst] = files_[src]]
      BY <2>7 DEF RenameFile
    <3>2. files_'[dst] = files_[src]
          /\ \A m \in Names : m # src /\ m # dst => files_'[m] = files_[m]
      BY <1>0, <3>1 DEF Types
    <3>3. f \in Live(files_')
      BY <2>1, <3>1, <3>2 DEF Live
    <3> QED
      BY <2>1, <3>1, <3>3
  <2> QED
    BY <2>2, <2>3, <2>4, <2>5, <2>6, <2>7, <2>8
<1> QED
  BY <1>0, <1>1, <1>2, RWLocksFrame DEF RWLocks

\* A reader counts itself in and out.
LEMMA RWLocksReader ==
  ASSUME Control, Types', NEW r \in Readers,
         GoOnReading(r) \/ \E n \in Names : PositionedRead(r, n)
  PROVE  RWLocks'
<1> USE DEF device, namespace, lists, locks, faults, metadata
<1>0. Types /\ reader \in [Readers -> Reader] /\ reader[r] \in Reader /\ RWLocks
  BY DEF Control, Types
<1>1. UNCHANGED <<files_, writer, file_size_, gc, writer_mtx_>>
  BY Zenon DEF GoOnReading, ReadLock, ReadNextExtent, ReadDevice, PositionedRead
<1>2. \A id \in Ids : IsFiniteSet(Reading(id)) /\ Reading(id) \subseteq Readers
  BY ReaderAssumption, FS_Subset DEF Reading
<1>3. ASSUME NEW new, reader' = [reader EXCEPT ![r] = new]
      PROVE  /\ reader'[r] = new /\ \A q \in Readers \ {r} : reader'[q] = reader[q]
  BY <1>0, <1>3
<1>4. ASSUME NEW new, reader' = [reader EXCEPT ![r] = new], new.id = reader[r].id,
             reader[r].pc \in {"extent", "read"}, new.pc \in {"extent", "read"}
      PROVE  \A id \in Ids : Reading(id)' = Reading(id)
  BY <1>3, <1>4 DEF Reading
<1>5. ASSUME NEW n \in Names, PositionedRead(r, n) PROVE RWLocks'
  <2> DEFINE f == files_[n]
             new == [NoReader EXCEPT !.pc = "lock", !.id = f, !.size = file_size_[f]]
  <2>1. /\ reader[r] = NoReader /\ reader' = [reader EXCEPT ![r] = new]
        /\ f # NoFile /\ f # writer.id /\ UNCHANGED readers_
    BY Zenon, <1>5 DEF PositionedRead
  <2>2. f \in Live(files_)
    BY <1>0, <2>1 DEF Live, Types
  <2>3. new.pc = "lock" /\ new.id = f /\ new.size = file_size_[f]
    BY DEF NoReader
  <2> HIDE DEF new
  <2>4. \A id \in Ids : Reading(id)' = Reading(id)
    BY <1>3, <2>1, <2>3 DEF Reading, NoReader
  <2> QED
    BY <1>0, <1>1, <1>3, <2>1, <2>2, <2>3, <2>4 DEF RWLocks
<1>6. CASE ReadLock(r)
  <2> DEFINE new == [reader[r] EXCEPT !.pc = "extent"]
  <2>0. PICK f \in Ids : f = reader[r].id
    BY <1>0, <1>6 DEF ReadLock, RWLocks, Live
  <2>1. /\ reader[r].pc = "lock" /\ reader' = [reader EXCEPT ![r] = new]
        /\ readers_' = [readers_ EXCEPT ![f] = readers_[f] + 1]
    BY <1>6, <2>0 DEF ReadLock
  <2>2. f \in Live(files_) /\ f # writer.id /\ reader[r].size = file_size_[f]
    BY <1>0, <2>0, <2>1 DEF RWLocks
  <2>3. new.pc = "extent" /\ new.id = f /\ new.size = reader[r].size
    BY <1>0, <2>0 DEF Reader
  <2> HIDE DEF new
  <2>4. Reading(f)' = Reading(f) \cup {r} /\ r \notin Reading(f)
    <3>1. reader'[r] = new /\ \A q \in Readers \ {r} : reader'[q] = reader[q]
      BY <1>3, <2>1
    <3>2. \A q \in Readers : q \in Reading(f)' <=> q \in Reading(f) \/ q = r
      BY <2>3, <3>1 DEF Reading
    <3>3. Reading(f)' \subseteq Readers /\ Reading(f) \subseteq Readers
      BY DEF Reading
    <3> QED
      BY <2>1, <3>2, <3>3 DEF Reading
  <2>5. Cardinality(Reading(f)') = Cardinality(Reading(f)) + 1
    BY <1>2, <2>2, <2>4, FS_AddElement
  <2>6. \A id \in Ids \ {f} : Reading(id)' = Reading(id)
    BY <1>3, <2>1, <2>3 DEF Reading
  <2>7. ASSUME NEW id \in Ids PROVE readers_'[id] = Cardinality(Reading(id))'
    <3>1. CASE id = f
      BY <1>0, <2>1, <2>2, <2>5, <3>1 DEF RWLocks, Types
    <3>2. CASE id # f
      BY <1>0, <2>1, <2>6, <3>2 DEF RWLocks, Types
    <3> QED
      BY <3>1, <3>2
  <2> QED
    BY <1>0, <1>1, <1>3, <2>1, <2>2, <2>3, <2>7 DEF RWLocks
<1>7. CASE ReadNextExtent(r)
  <2>0. PICK f \in Ids : f = reader[r].id
    BY <1>0, <1>7 DEF ReadNextExtent, RWLocks, Live
  <2>1. reader[r].pc = "extent" /\ f \in Live(files_) /\ f # writer.id
        /\ reader[r].size = file_size_[f]
    BY <1>0, <1>7, <2>0 DEF ReadNextExtent, RWLocks
  <2>2. ASSUME NEW e \in NextExtent(r), UNCHANGED readers_,
               reader' = [reader EXCEPT ![r].pc = "read", ![r].ext = e]
        PROVE  RWLocks'
    <3> DEFINE new == [reader[r] EXCEPT !.pc = "read", !.ext = e]
    <3>1. reader' = [reader EXCEPT ![r] = new]
      BY <1>0, <2>2
    <3>2. new.pc = "read" /\ new.id = f /\ new.size = reader[r].size /\ new.ext = e
      BY <1>0, <2>0 DEF Reader
    <3>3. e \in Extent
      <4>1. e \in GetExtent(extents_[f], Len(reader[r].got))
        BY <2>0, <2>2 DEF NextExtent
      <4>2. extents_[f] \in Seq(Extent)
        BY <1>0, <2>1 DEF Types
      <4> QED
        BY <4>1, <4>2 DEF GetExtent
    <3> HIDE DEF new
    <3>4. \A id \in Ids : Reading(id)' = Reading(id)
      BY <1>4, <2>0, <2>1, <3>1, <3>2
    <3> QED
      BY <1>0, <1>1, <1>3, <2>1, <2>2, <3>1, <3>2, <3>3, <3>4 DEF RWLocks
  <2>3. CASE /\ reader' = [reader EXCEPT ![r] = NoReader]
             /\ readers_' = [readers_ EXCEPT ![f] = readers_[f] - 1]
    <3>1. NoReader.pc = "idle"
      BY DEF NoReader
    <3>2. Reading(f)' = Reading(f) \ {r} /\ r \in Reading(f)
      <4>1. reader'[r] = NoReader /\ \A q \in Readers \ {r} : reader'[q] = reader[q]
        BY <1>3, <2>3
      <4>2. \A q \in Readers : q \in Reading(f)' <=> q \in Reading(f) /\ q # r
        BY <3>1, <4>1 DEF Reading
      <4>3. Reading(f)' \subseteq Readers /\ Reading(f) \subseteq Readers
        BY DEF Reading
      <4>4. r \in Reading(f)
        BY <2>0, <2>1 DEF Reading
      <4> QED
        BY <4>2, <4>3, <4>4
    <3>3. Cardinality(Reading(f)') = Cardinality(Reading(f)) - 1
      <4>1. IsFiniteSet(Reading(f))
        BY <1>2, <2>1
      <4>2. Cardinality(Reading(f) \ {r}) = Cardinality(Reading(f)) - 1
        BY <3>2, <4>1, FS_RemoveElement
      <4> QED
        BY <3>2, <4>2
    <3>4. \A id \in Ids \ {f} : Reading(id)' = Reading(id)
      BY <1>3, <2>0, <2>1, <2>3, <3>1 DEF Reading
    <3>5. ASSUME NEW id \in Ids PROVE readers_'[id] = Cardinality(Reading(id))'
      <4>1. CASE id = f
        BY <1>0, <2>1, <2>3, <3>3, <4>1 DEF RWLocks, Types
      <4>2. CASE id # f
        BY <1>0, <2>3, <3>4, <4>2 DEF RWLocks, Types
      <4> QED
        BY <4>1, <4>2
    <3> QED
      BY <1>0, <1>1, <1>3, <2>3, <3>1, <3>5 DEF RWLocks
  <2> QED
    BY <1>7, <2>0, <2>2, <2>3 DEF ReadNextExtent
<1>8. CASE ReadDevice(r)
  <2> DEFINE new == [reader[r] EXCEPT !.pc = "extent", !.ext = <<>>,
                                      !.got = reader[r].got \o Content(reader[r].ext)]
  <2>1. reader[r].pc = "read" /\ reader' = [reader EXCEPT ![r] = new] /\ UNCHANGED readers_
    BY <1>0, <1>8 DEF ReadDevice
  <2>2. new.pc = "extent" /\ new.id = reader[r].id /\ new.size = reader[r].size
    BY <1>0 DEF Reader
  <2> HIDE DEF new
  <2>3. \A id \in Ids : Reading(id)' = Reading(id)
    BY <1>4, <2>1, <2>2
  <2> QED
    BY <1>0, <1>1, <1>3, <2>1, <2>2, <2>3 DEF RWLocks
<1> QED
  BY <1>5, <1>6, <1>7, <1>8 DEF GoOnReading

\* Behind a crash there is no reader.
LEMMA RWLocksCrash ==
  ASSUME Control, Crash
  PROVE  RWLocks'
<1>1. /\ \A r \in Readers : reader'[r] = NoReader
      /\ \A id \in Ids : readers_'[id] = 0 /\ ~writer_mtx_'[id]
      /\ gc'.pc = "idle"
  BY DEF Crash, Mount, NoGC
<1>2. \A id \in Ids : Reading(id)' = {}
  BY <1>1 DEF Reading, NoReader
<1>3. \A id \in Ids : Cardinality(Reading(id))' = 0
  BY <1>2, FS_EmptySet
<1> QED
  BY <1>1, <1>2, <1>3 DEF RWLocks, NoReader

-----------------------------------------------------------------------------
(***************************************************************************)
(* The lists at work                                                       *)
(***************************************************************************)

SyncedInList == \A id \in Ids : nr_synced_extents_[id] <= Len(extents_[id]) \/ is_deleted_[id]

\* A record marks no more extents than there are.
LEMMA SyncedFrame ==
  ASSUME Control,
         \A f \in Ids :
           \/ is_deleted_'[f]
           \/ /\ extents_'[f] = extents_[f] /\ (is_deleted_[f] => is_deleted_'[f])
              /\ \/ nr_synced_extents_'[f] = nr_synced_extents_[f]
                 \/ nr_synced_extents_'[f] = Len(extents_[f])
  PROVE  SyncedInList'
<1>1. \A f \in Ids : Len(extents_[f]) \in Int
  BY DEF Control, Types
<1> QED
  BY <1>1 DEF Control, Lists, SyncedInList

\* The steps of others than the collector
LEMMA ListsFrame ==
  ASSUME Control, UNCHANGED <<gc, uncopied>>, SyncedInList',
         gc.pc \in Moving \cup Swapped => extents_'[gc.id] = extents_[gc.id],
         gc.pc \in {"copy", "check"} => data'[gc.target] = data[gc.target]
  PROVE  Lists'
<1>1. gc'.pc = gc.pc /\ gc'.id = gc.id /\ gc'.list = gc.list /\ gc'.old = gc.old /\ gc'.i = gc.i
      /\ gc'.target = gc.target /\ gc'.start = gc.start
  OBVIOUS
<1> QED
  BY <1>1 DEF Control, Lists, SyncedInList, SameLengths, Moving, Swapped, capacity_

\* A busy zone is not reset.
LEMMA TargetKept ==
  ASSUME Control, ResetUnusedIOZones, gc.pc \in {"copy", "check"}
  PROVE  data'[gc.target] = data[gc.target]
BY DEF Control, WRLocks, ResetUnusedIOZones

\* Neither is the one that is written.
LEMMA WriterZoneKept ==
  ASSUME Control, ResetUnusedIOZones, writer.zone # NoZone
  PROVE  data'[writer.zone] = data[writer.zone]
<1>1. writer.zone \in Zones /\ busy_[writer.zone]
  BY DEF Control, WRLocks, Types, Writer
<1> QED
  BY <1>1 DEF ResetUnusedIOZones

\* Users change no list the collector works on.
LEMMA ListsUser ==
  ASSUME Control, Types',
         \/ \E n \in Names : OpenWritableFile(n) \/ ReopenWritableFile(n) \/ DeleteFile(n)
         \/ \E z \in Zones : AllocateNewZone(z)
         \/ \E length \in Lengths : BufferedAppend(length)
         \/ MetadataSynced \/ BufferedAppendDone
         \/ CloseWR \/ CloseWRDone \/ CloseActiveZone \/ ResetUnused
         \/ \E src \in Names, dst \in Names : RenameFile(src, dst)
  PROVE  Lists'
<1> USE DEF device, namespace, lists, locks, faults, metadata
<1>0. Types /\ WRLocks /\ Lists /\ Names1
  BY DEF Control, Types
<1>g. gc.pc \in Moving \cup Swapped => gc.id \in Ids /\ gc.id # writer.id
  BY <1>0, HeldFile DEF WRLocks, Moving, Swapped, Locking, Holding
<1>w. writer.id # NoFile => writer.id \in Ids /\ ~is_deleted_[writer.id]
  BY <1>0, LiveFile DEF WRLocks
<1>1. CASE \/ \E n \in Names : OpenWritableFile(n) \/ ReopenWritableFile(n)
           \/ \E z \in Zones : AllocateNewZone(z)
           \/ BufferedAppendDone \/ CloseWR \/ CloseWRDone \/ CloseActiveZone
           \/ \E src \in Names, dst \in Names : RenameFile(src, dst)
  <2>1. UNCHANGED <<gc, data, extents_, is_deleted_, nr_synced_extents_, uncopied>>
    BY <1>1 DEF OpenWritableFile, ReopenWritableFile, AllocateNewZone, BufferedAppendDone, CloseWR,
                CloseWRDone, CloseActiveZone, RenameFile
  <2> QED
    BY <2>1, SyncedFrame, ListsFrame
<1>2. CASE MetadataSynced
  <2>1. UNCHANGED <<gc, data, extents_, is_deleted_, uncopied>>
    BY <1>2 DEF MetadataSynced
  <2>2. \A f \in Ids : \/ nr_synced_extents_'[f] = nr_synced_extents_[f]
                       \/ nr_synced_extents_'[f] = Len(extents_[f])
    BY <1>2 DEF MetadataSynced
  <2> QED
    BY <2>1, <2>2, SyncedFrame, ListsFrame
<1>3. ASSUME NEW n \in Names, DeleteFile(n) PROVE Lists'
  <2> DEFINE id == files_[n]
  <2>1. /\ id \in Ids /\ UNCHANGED <<gc, data, nr_synced_extents_, uncopied>>
        /\ is_deleted_' = [is_deleted_ EXCEPT ![id] = TRUE]
    BY <1>0, <1>3 DEF DeleteFile, Types
  <2>4. \A f \in Ids : (f # id => extents_'[f] = extents_[f])
                       /\ is_deleted_'[id] /\ (is_deleted_[f] => is_deleted_'[f])
    BY <1>0, <1>3, <2>1 DEF DeleteFile, Types
  <2>5. gc.id = id => extents_' = extents_
    BY <1>3 DEF DeleteFile, Held
  <2> QED
    BY <1>g, <2>1, <2>4, <2>5, SyncedFrame, ListsFrame
<1>5. ASSUME NEW length \in Lengths, BufferedAppend(length) PROVE Lists'
  <2> DEFINE id == writer.id
             e == [zone |-> writer.zone, start |-> extent_start_[id].start, length |-> length]
  <2>1. /\ id \in Ids /\ ~is_deleted_[id]
        /\ extents_' = [extents_ EXCEPT ![id] = Append(extents_[id], e)]
        /\ UNCHANGED <<gc, is_deleted_, nr_synced_extents_, uncopied>>
    <3>1. /\ id # NoFile /\ extents_' = [extents_ EXCEPT ![id] = Append(@, e)]
          /\ UNCHANGED <<gc, is_deleted_, nr_synced_extents_, uncopied>>
      BY Zenon, <1>5 DEF BufferedAppend
    <3> QED
      BY <1>w, <3>1
  <2>2. \A z \in Zones \ {writer.zone} : data'[z] = data[z]
    BY <1>0, <1>5 DEF BufferedAppend, Types
  <2>3. gc.pc \in {"copy", "check"} => data'[gc.target] = data[gc.target]
    BY <1>0, <2>2 DEF WRLocks
  <2> HIDE DEF e
  <2>4. \A f \in Ids \ {id} : extents_'[f] = extents_[f]
    BY <1>0, <2>1 DEF Types
  <2>5. SyncedInList'
    <3>1. Len(extents_'[id]) = Len(extents_[id]) + 1 /\ Len(extents_[id]) \in Nat
      <4>1. extents_[id] \in Seq(Extent) /\ extents_'[id] = Append(extents_[id], e)
        BY <1>0, <2>1 DEF Types
      <4> QED
        BY <4>1
    <3>2. nr_synced_extents_[id] \in Nat
      BY <1>0, <2>1 DEF Types
    <3>3. nr_synced_extents_[id] <= Len(extents_'[id])
      BY <1>0, <2>1, <3>1, <3>2 DEF Lists
    <3> QED
      BY <1>0, <2>1, <2>4, <3>3 DEF Lists, SyncedInList
  <2> QED
    BY <1>g, <2>1, <2>3, <2>4, <2>5, ListsFrame
<1>6. CASE ResetUnused
  <2>1. ResetUnusedIOZones /\ UNCHANGED <<gc, extents_, is_deleted_, nr_synced_extents_, uncopied>>
    BY <1>6 DEF ResetUnused
  <2> QED
    BY <2>1, TargetKept, SyncedFrame, ListsFrame
<1> QED
  BY <1>1, <1>2, <1>3, <1>5, <1>6

\* Lists of the same lengths, one extent of one of them replaced by another as long
LEMMA SameLengthsReplaced ==
  ASSUME NEW one \in Seq(Extent), NEW other \in Seq(Extent), SameLengths(one, other),
         NEW i \in DOMAIN one, NEW e \in Extent, e.length = one[i].length
  PROVE  SameLengths([one EXCEPT ![i] = e], other)
<1> DEFINE new == [one EXCEPT ![i] = e]
<1>1. new \in Seq(Extent) /\ Len(new) = Len(one) /\ DOMAIN new = DOMAIN one
  OBVIOUS
<1>2. \A j \in DOMAIN new : new[j] = IF j = i THEN e ELSE one[j]
  BY <1>1
<1> HIDE DEF new
<1>3. SameLengths(new, other)
  BY <1>1, <1>2 DEF SameLengths
<1> QED
  BY <1>3 DEF new

\* Until the swap the collector changes places, never lengths.
LEMMA ListsCollect ==
  ASSUME Control, Types', Collect
  PROVE  Lists'
<1> USE DEF device, namespace, locks, faults, metadata, Moving, Swapped
<1>0. Types /\ gc \in Collector /\ WRLocks /\ Lists /\ Names1
  BY DEF Control, Types
<1>g. ASSUME gc.pc \in Holding PROVE gc.id \in Ids /\ extents_[gc.id] \in Seq(Extent)
  BY <1>0, <1>g, HeldFile DEF Types
<1>s. ASSUME NEW fname, gc' = Skip(fname) PROVE gc'.pc = "reset"
  BY <1>0, <1>s, SkipType
<1>1. CASE GCWorker \/ GetZenFSSnapshot \/ (\E n \in Names : MigrateGetFile(n)) \/ MigrateResets
            \/ SyncFileExtentsDone
  <2>1. gc'.pc \in {"idle", "files", "next", "reset", "wrlock", "release"}
    <3>1. CASE GCWorker \/ SyncFileExtentsDone
      BY <1>0, <3>1 DEF GCWorker, SyncFileExtentsDone, Collector
    <3>2. CASE GetZenFSSnapshot
      <4>1. gc' = NoGC \/ \E todo : gc' = [NoGC EXCEPT !.pc = "next", !.todo = todo]
        BY Zenon, <3>2 DEF GetZenFSSnapshot
      <4>2. ASSUME NEW todo, gc' = [NoGC EXCEPT !.pc = "next", !.todo = todo]
            PROVE  gc'.pc = "next"
        BY <4>2 DEF NoGC
      <4>3. CASE gc' = NoGC
        BY <4>3 DEF NoGC
      <4> QED
        BY Zenon, <4>1, <4>2, <4>3
    <3>3. ASSUME NEW n \in Names, MigrateGetFile(n) PROVE gc'.pc \in {"reset", "wrlock"}
      BY <1>0, <1>s, <3>3 DEF MigrateGetFile, Collector
    <3>4. CASE MigrateResets
      BY <1>0, <3>4 DEF MigrateResets, NoGC, Collector
    <3> QED
      BY <1>1, <3>1, <3>2, <3>3, <3>4
  <2>2. UNCHANGED lists
    BY Zenon, <1>1 DEF GCWorker, GetZenFSSnapshot, MigrateGetFile, MigrateResets, SyncFileExtentsDone
  <2>3. SyncedInList'
    BY <2>2, SyncedFrame DEF lists
  <2> QED
    BY <2>1, <2>3 DEF Lists, SyncedInList
<1>2. CASE TryAcquireWRLock \/ ReleaseWRLock
  <2>1. UNCHANGED <<nr_synced_extents_, is_deleted_>> /\ gc.pc \in Holding
    BY <1>2 DEF TryAcquireWRLock, ReleaseWRLock, Holding
  <2>2. gc.id \in Ids /\ extents_[gc.id] \in Seq(Extent)
    BY <1>g, <2>1
  <2>3. \A f \in Ids : ~is_deleted_[f] => extents_'[f] = extents_[f]
    <3>1. extents_' = extents_ \/ (is_deleted_[gc.id] /\ extents_' = [extents_ EXCEPT ![gc.id] = <<>>])
      BY <1>2 DEF TryAcquireWRLock, ReleaseWRLock, Drop
    <3> QED
      BY <1>0, <2>2, <3>1 DEF Types
  <2>4. SyncedInList'
    BY <2>1, <2>3, SyncedFrame
  <2>5. CASE gc' = Skip(gc.fname)
    BY <1>s, <2>4, <2>5 DEF Lists, SyncedInList
  <2>6. CASE gc' = [gc EXCEPT !.pc = "extent", !.list = extents_[gc.id], !.i = 1]
             /\ UNCHANGED extents_
    <3>1. gc'.pc = "extent" /\ gc'.id = gc.id /\ gc'.list = extents_[gc.id] /\ gc'.i = 1
      BY <1>0, <2>6 DEF Collector
    <3>2. SameLengths(extents_[gc.id], extents_[gc.id])
      BY DEF SameLengths
    <3> QED
      BY <2>4, <2>6, <3>1, <3>2 DEF Lists, SyncedInList, SameLengths
  <2> QED
    BY <1>2, <2>5, <2>6 DEF TryAcquireWRLock, ReleaseWRLock
<1>3. ASSUME NEW z \in Zones, TakeMigrateZone(z) PROVE Lists'
  <2>1. /\ UNCHANGED <<data, lists>> /\ gc.pc = "extent" /\ gc.i \in DOMAIN gc.list
        /\ capacity_(z) >= gc.list[gc.i].length
    BY <1>3 DEF TakeMigrateZone, TargetZones
  <2>2. gc'.pc = "copy" /\ gc'.id = gc.id /\ gc'.list = gc.list /\ gc'.i = gc.i /\ gc'.target = z
        /\ gc'.start = Len(data[z])
    BY <1>0, <1>3 DEF TakeMigrateZone, Collector
  <2>3. SyncedInList' /\ extents_' = extents_
    BY <2>1, SyncedFrame DEF lists
  <2> QED
    BY <1>0, <2>1, <2>2, <2>3 DEF Lists, SyncedInList, SameLengths, capacity_
<1>4. CASE LeaveExtent
  <2>1. UNCHANGED <<data, lists>> /\ gc.pc = "extent"
    BY <1>4 DEF LeaveExtent
  <2>2. gc'.pc = "extent" /\ gc'.id = gc.id /\ gc'.list = gc.list /\ gc'.i = gc.i + 1
    BY <1>0, <1>4 DEF LeaveExtent, Collector
  <2>3. SyncedInList' /\ extents_' = extents_
    BY <2>1, SyncedFrame DEF lists
  <2>4. gc.i \in Nat /\ gc.i >= 1 /\ DOMAIN gc.list = 1..Len(gc.list)
    BY <1>0, <2>1 DEF Collector, Lists
  <2>5. \A i \in DOMAIN gc.list : i >= gc.i + 1 => i >= gc.i
    BY <2>4
  <2>6. gc.i + 1 >= 1
    BY <2>4
  <2> QED
    BY <1>0, <2>1, <2>2, <2>3, <2>5, <2>6 DEF Lists, SyncedInList, SameLengths
<1>5. CASE MigrateData
  <2>1. UNCHANGED lists /\ gc.pc = "copy"
        /\ data' = [data EXCEPT ![gc.target] = @ \o Content(gc.list[gc.i])]
    BY <1>5 DEF MigrateData
  <2>2. gc'.pc = "check" /\ gc'.id = gc.id /\ gc'.list = gc.list /\ gc'.i = gc.i
        /\ gc'.target = gc.target /\ gc'.start = gc.start
    BY <1>0, <1>5 DEF MigrateData, Collector
  <2>3. SyncedInList' /\ extents_' = extents_
    BY <2>1, SyncedFrame DEF lists
  <2>4. gc.target \in Zones /\ gc.list[gc.i] \in Extent
    BY <1>0, <2>1 DEF WRLocks, Lists, Collector
  <2>5. gc.start + gc.list[gc.i].length = Len(data'[gc.target])
    <3> DEFINE d == data[gc.target]
               c == Content(gc.list[gc.i])
    <3>1. d \in Seq(Datum) /\ c \in Seq(Datum) /\ Len(c) = gc.list[gc.i].length
      BY <1>0, <2>4, ContentType DEF Types
    <3>2. data'[gc.target] = d \o c
      BY <1>0, <2>1, <2>4 DEF Types
    <3>3. gc.list[gc.i].length \in Nat
      BY <2>4 DEF Extent
    <3>5. gc.start = Len(d)
      BY <1>0, <2>1 DEF Lists
    <3> HIDE DEF d, c
    <3>4. Len(d \o c) = Len(d) + Len(c) /\ Len(d) \in Nat
      BY <3>1
    <3> QED
      BY <3>1, <3>2, <3>3, <3>4, <3>5
  <2> QED
    BY <1>0, <2>1, <2>2, <2>3, <2>5 DEF Lists, SyncedInList, SameLengths
<1>6. CASE ExtentMigrated
  <2> DEFINE e == gc.list[gc.i]
             f == [e EXCEPT !.zone = gc.target, !.start = gc.start]
             new == [gc.list EXCEPT ![gc.i] = f]
  <2>1. UNCHANGED lists /\ gc.pc = "check"
    BY <1>6 DEF ExtentMigrated
  <2>2. gc.i \in DOMAIN gc.list /\ gc.list \in Seq(Extent) /\ e \in Extent /\ gc.target \in Zones
        /\ gc.i \in Nat /\ gc.start \in 0..ZoneCap
    BY <1>0, <2>1 DEF Lists, Collector, WRLocks
  <2>3. f \in Extent /\ f.length = e.length
    BY <2>2 DEF Extent
  <2>4. gc'.pc = "extent" /\ gc'.id = gc.id /\ gc'.list = new /\ gc'.i = gc.i + 1
    BY <1>0, <1>6 DEF ExtentMigrated, Collector
  <2>5. SyncedInList' /\ extents_' = extents_
    BY <2>1, SyncedFrame DEF lists
  <2> HIDE DEF e, f
  <2>6. gc.id \in Ids /\ extents_[gc.id] \in Seq(Extent)
    BY <1>g, <2>1 DEF Holding
  <2>7. SameLengths(new, extents_[gc.id])
    BY <1>0, <2>1, <2>2, <2>3, <2>6, SameLengthsReplaced DEF Lists, e
  <2>8. \A i \in DOMAIN new : i >= gc.i + 1 => new[i] = extents_[gc.id][i]
    <3>1. \A i \in DOMAIN new : i \in DOMAIN gc.list /\ i \in Nat
                                /\ new[i] = IF i = gc.i THEN f ELSE gc.list[i]
      BY <2>2
    <3> HIDE DEF new
    <3> QED
      BY <1>0, <2>1, <2>2, <3>1 DEF Lists
  <2>9. gc.i + 1 >= 1
    BY <2>2
  <2> HIDE DEF new
  <2> QED
    BY <2>4, <2>5, <2>7, <2>8, <2>9 DEF Lists, SyncedInList
<1>7. CASE FileGone
  <2>1. UNCHANGED lists /\ gc.pc = "check"
    BY <1>7 DEF FileGone
  <2>2. gc'.pc = "extent" /\ gc'.id = gc.id /\ gc'.list = gc.list /\ gc'.i = Len(gc.list) + 1
    BY <1>0, <1>7 DEF FileGone, Collector
  <2>3. SyncedInList' /\ extents_' = extents_
    BY <2>1, SyncedFrame DEF lists
  <2>4. Len(gc.list) \in Nat /\ DOMAIN gc.list = 1..Len(gc.list)
    BY <1>0 DEF Collector
  <2>5. Len(gc.list) + 1 >= 1 /\ \A i \in DOMAIN gc.list : ~(i >= Len(gc.list) + 1)
    BY <2>4
  <2> QED
    BY <1>0, <2>1, <2>2, <2>3, <2>5 DEF Lists, SyncedInList, SameLengths
<1>8. CASE WriteLock
  <2>1. UNCHANGED lists /\ gc.pc = "extent"
    BY <1>8 DEF WriteLock
  <2>2. gc'.pc = "replace" /\ gc'.id = gc.id /\ gc'.list = gc.list
    BY <1>0, <1>8 DEF WriteLock, Collector
  <2>3. SyncedInList' /\ extents_' = extents_
    BY <2>1, SyncedFrame DEF lists
  <2> QED
    BY <1>0, <2>1, <2>2, <2>3 DEF Lists, SyncedInList, SameLengths
<1>9. CASE ReplaceExtentList
  <2>1. /\ gc.pc = "replace" /\ extents_' = [extents_ EXCEPT ![gc.id] = gc.list]
        /\ UNCHANGED <<nr_synced_extents_, is_deleted_>>
    BY <1>9 DEF ReplaceExtentList
  <2>2. gc'.pc = "unsync" /\ gc'.id = gc.id /\ gc'.list = gc.list /\ gc'.old = extents_[gc.id]
    BY <1>0, <1>9 DEF ReplaceExtentList, Collector
  <2>3. gc.id \in Ids /\ extents_'[gc.id] = gc.list
    BY <1>0, <1>g, <2>1 DEF Types, Holding
  <2>4. SameLengths(gc.list, extents_[gc.id]) /\ SameLengths(extents_[gc.id], gc.list)
    <3>1. SameLengths(gc.list, extents_[gc.id])
      BY <1>0, <2>1 DEF Lists
    <3>2. gc.list \in Seq(Extent) /\ extents_[gc.id] \in Seq(Extent)
      BY <1>0, <2>3 DEF Collector, Types
    <3> QED
      BY <3>1, <3>2 DEF SameLengths
  <2>5. SyncedInList'
    <3>1. \A f \in Ids \ {gc.id} : extents_'[f] = extents_[f]
      BY <1>0, <2>1 DEF Types
    <3>2. Len(gc.list) = Len(extents_[gc.id])
      BY <2>4 DEF SameLengths
    <3> QED
      BY <1>0, <2>1, <2>3, <3>1, <3>2 DEF Lists, SyncedInList
  <2> QED
    BY <2>2, <2>3, <2>4, <2>5 DEF Lists, SyncedInList
<1>10. CASE MetadataUnsynced
  <2>1. /\ gc.pc = "unsync" /\ nr_synced_extents_' = [nr_synced_extents_ EXCEPT ![gc.id] = 0]
        /\ UNCHANGED <<extents_, is_deleted_>>
    BY <1>10 DEF MetadataUnsynced
  <2>2. gc'.pc = "sync" /\ gc'.id = gc.id /\ gc'.list = gc.list /\ gc'.old = gc.old
    BY <1>0, <1>10 DEF MetadataUnsynced, Collector
  <2>3. gc.id \in Ids
    BY <1>g, <2>1 DEF Holding
  <2>4. SyncedInList'
    <3>1. 0 <= Len(extents_[gc.id])
      BY <1>0, <2>3 DEF Types
    <3>2. \A f \in Ids : nr_synced_extents_'[f] = IF f = gc.id THEN 0 ELSE nr_synced_extents_[f]
      BY <1>0, <2>1 DEF Types
    <3> QED
      BY <1>0, <2>1, <3>1, <3>2 DEF Lists, SyncedInList
  <2> QED
    BY <1>0, <2>1, <2>2, <2>4 DEF Lists, SyncedInList
<1>11. CASE SyncFileMetadata
  <2>1. gc.pc = "sync" /\ UNCHANGED <<extents_, is_deleted_>>
    BY <1>11 DEF SyncFileMetadata
  <2>2. gc.id \in Ids
    BY <1>g, <2>1 DEF Holding
  <2>3. gc'.pc \in {"clear", "release"} /\ gc'.id = gc.id /\ gc'.list = gc.list /\ gc'.old = gc.old
    BY <1>0, <1>11, <2>2, SyncEffect
  <2>4. UNCHANGED nr_synced_extents_
    BY <1>11 DEF SyncFileMetadata
  <2>5. SyncedInList'
    BY <2>1, <2>4, SyncedFrame
  <2> QED
    BY <1>0, <2>1, <2>3, <2>5 DEF Lists, SyncedInList
<1>12. CASE MigrateDataError
  <2>1. UNCHANGED lists /\ gc.pc = "copy" /\ uncopied' = uncopied \cup {gc.id}
    BY <1>12 DEF MigrateDataError
  <2>2. gc'.pc = "check" /\ gc'.id = gc.id /\ gc'.list = gc.list /\ gc'.i = gc.i
    BY <1>0, <1>12 DEF MigrateDataError, Collector
  <2>3. SyncedInList' /\ extents_' = extents_
    BY <2>1, SyncedFrame DEF lists
  <2>4. gc'.id \in uncopied'
    BY <2>1, <2>2
  <2> QED
    BY <1>0, <2>1, <2>2, <2>3, <2>4 DEF Lists, SyncedInList, SameLengths
<1> QED
  BY <1>1, <1>2, <1>3, <1>4, <1>5, <1>6, <1>7, <1>8, <1>9, <1>10, <1>11, <1>12 DEF Collect

\* The lists keep their lengths in all steps.
LEMMA ListsNext ==
  ASSUME Control, Types', Next
  PROVE  Lists'
<1> USE DEF device, namespace, lists, locks, faults, metadata
<1>0. Types
  BY DEF Control
<1>1. ASSUME NEW r \in Readers, GoOnReading(r) \/ \E n \in Names : PositionedRead(r, n)
      PROVE  Lists'
  <2>1. UNCHANGED <<gc, data, extents_, is_deleted_, nr_synced_extents_, uncopied>>
    BY Zenon, <1>1 DEF GoOnReading, ReadLock, ReadNextExtent, ReadDevice, PositionedRead
  <2> QED
    BY <2>1, SyncedFrame, ListsFrame
<1>2. CASE Crash
  <2>1. gc'.pc = "idle"
    BY <1>2 DEF Crash, NoGC
  <2>2. ASSUME NEW id \in Ids PROVE nr_synced_extents_'[id] <= Len(extents_'[id])
    <3>1. nr_synced_extents_'[id] = Len(extents_'[id])
      BY <1>2 DEF Crash, Mount
    <3>2. nr_synced_extents_'[id] \in Nat
      BY DEF Types
    <3> QED
      BY <3>1, <3>2
  <2> QED
    BY <2>1, <2>2 DEF Lists, Moving, Swapped
<1> QED
  BY <1>1, <1>2, ListsUser, ListsCollect, NameAssumption DEF Next

-----------------------------------------------------------------------------
(***************************************************************************)
(* The active extent                                                       *)
(***************************************************************************)

\* The steps that leave the active extent alone
LEMMA ActiveFrame ==
  ASSUME Control, UNCHANGED <<extent_start_, writer>>,
         \A f \in Ids : \/ logged'[f] = logged[f] \/ logged'[f] = NoRecord
                        \/ logged'[f].start = extent_start_'[f],
         writer.zone # NoZone => data'[writer.zone] = data[writer.zone]
  PROVE  Active'
<1>1. NoRecord.start.zone = NoZone
  BY DEF NoRecord, NO_EXTENT
<1> QED
  BY <1>1 DEF Control, Active, Closing

\* What is written is data.
LEMMA AppendedType ==
  ASSUME Types, NEW id \in Ids, NEW length \in Nat
  PROVE  LET c == [k \in 1..length |-> <<id, file_size_[id] + k>>]
         IN  c \in Seq(Datum) /\ Len(c) = length
<1> DEFINE c == [k \in 1..length |-> <<id, file_size_[id] + k>>]
<1>1. ASSUME NEW k \in 1..length PROVE <<id, file_size_[id] + k>> \in Datum
  <2>1. file_size_[id] \in Nat /\ k \in Nat
    BY DEF Types
  <2>2. file_size_[id] + k \in Nat /\ id \in 0..MaxId
    BY <2>1 DEF Ids
  <2> QED
    BY <2>2 DEF Datum
<1>2. c \in [1..length -> Datum]
  BY <1>1
<1> QED
  BY <1>2

\* The collector opens no extent.
LEMMA ActiveCollect ==
  ASSUME Control, Collect
  PROVE  Active'
<1> USE DEF device, namespace, lists, locks, faults, metadata
<1>0. Types /\ WRLocks
  BY DEF Control, Types
<1>1. UNCHANGED <<extent_start_, writer>>
  BY Zenon DEF Collect, GCWorker, GetZenFSSnapshot, TryAcquireWRLock, MigrateGetFile,
         TakeMigrateZone, LeaveExtent, MigrateData, MigrateDataError, ExtentMigrated, FileGone, WriteLock,
         ReplaceExtentList, MetadataUnsynced, SyncFileMetadata, SyncFileExtentsDone,
         ReleaseWRLock, MigrateResets
<1>2. \A f \in Ids : \/ logged'[f] = logged[f] \/ logged'[f] = NoRecord
                     \/ logged'[f].start = extent_start_'[f]
  <2>1. CASE SyncFileMetadata
    <3>1. gc.id \in Ids
      BY <1>0, <2>1, HeldFile DEF SyncFileMetadata, Holding
    <3> QED
      BY <1>0, <2>1, <3>1, SyncEffect DEF Kept, Erased, Written
  <2>2. CASE ~SyncFileMetadata
    <3>1. UNCHANGED logged
      BY Zenon, <2>2 DEF Collect, GCWorker, GetZenFSSnapshot, TryAcquireWRLock, MigrateGetFile,
         TakeMigrateZone, LeaveExtent, MigrateData, MigrateDataError, ExtentMigrated, FileGone, WriteLock,
         ReplaceExtentList, MetadataUnsynced, SyncFileExtentsDone, ReleaseWRLock, MigrateResets
    <3> QED
      BY <3>1
  <2> QED
    BY <2>1, <2>2
<1>3. writer.zone # NoZone => data'[writer.zone] = data[writer.zone]
  <2>1. CASE MigrateData
    BY <1>0, <2>1 DEF MigrateData, WRLocks, Types
  <2>2. CASE MigrateResets
    BY <2>2, WriterZoneKept DEF MigrateResets
  <2>4. CASE MigrateDataError
    <3>1. PICK part : data' = [data EXCEPT ![gc.target] = @ \o part]
      BY <2>4 DEF MigrateDataError
    <3>2. gc.pc = "copy"
      BY <2>4 DEF MigrateDataError
    <3> QED
      BY <1>0, <3>1, <3>2 DEF WRLocks, Types
  <2>3. CASE ~MigrateData /\ ~MigrateDataError /\ ~MigrateResets
    <3>1. UNCHANGED data
      BY Zenon, <2>3 DEF Collect, GCWorker, GetZenFSSnapshot, TryAcquireWRLock, MigrateGetFile,
         TakeMigrateZone, LeaveExtent, ExtentMigrated, FileGone, WriteLock,
         ReplaceExtentList, MetadataUnsynced, SyncFileMetadata, SyncFileExtentsDone,
         ReleaseWRLock
    <3> QED
      BY <3>1
  <2> QED
    BY <2>1, <2>2, <2>3, <2>4
<1> QED
  BY <1>1, <1>2, <1>3, ActiveFrame

\* Only the file that is being written has an active extent, after every step.
LEMMA ActiveNext ==
  ASSUME Control, Types', Next
  PROVE  Active'
<1> USE DEF device, namespace, lists, locks, faults, metadata
<1>0. Types /\ WRLocks /\ Active /\ Names1
  BY DEF Control, Types
<1>n. NoRecord.start.zone = NoZone /\ NO_EXTENT.zone = NoZone /\ NoWriter.id = NoFile
      /\ NoWriter.zone = NoZone /\ NoWriter.added = 0
  BY DEF NoRecord, NO_EXTENT, NoWriter
<1>w. writer.id # NoFile => writer.id \in Live(files_) /\ writer.id \in Ids
  BY <1>0 DEF WRLocks, Live
<1>1. ASSUME NEW n \in Names, OpenWritableFile(n) PROVE Active'
  <2>1. /\ next_file_id_ \in Ids /\ PersistUpdate("writer", next_file_id_, n, files_)
        /\ writer = NoWriter /\ writer' = [NoWriter EXCEPT !.id = next_file_id_]
        /\ UNCHANGED <<extent_start_, nr_synced_extents_>>
    BY <1>1 DEF OpenWritableFile
  <2>2. \A f \in Ids : extent_start_[f].zone = NoZone /\ logged[f].start.zone = NoZone
    BY <1>0, <1>n, <2>1, Zeros DEF Active
  <2>3. \A f \in Ids : \/ logged'[f] = logged[f] \/ logged'[f] = NoRecord
                       \/ logged'[f].start = extent_start_'[f]
    BY <1>0, <2>1, UpdateEffect DEF Updated, Kept, Erased, Written
  <2>4. writer'.zone = NoZone /\ writer'.added = 0
    BY <2>1 DEF NoWriter
  <2> QED
    BY <1>n, <2>1, <2>2, <2>3, <2>4 DEF Active
<1>2. ASSUME NEW n \in Names, ReopenWritableFile(n) PROVE Active'
  <2>1. /\ writer = NoWriter /\ writer' = [NoWriter EXCEPT !.id = files_[n]]
        /\ UNCHANGED <<extent_start_, logged>>
    BY <1>2 DEF ReopenWritableFile
  <2>2. \A f \in Ids : extent_start_[f].zone = NoZone /\ logged[f].start.zone = NoZone
    BY <1>0, <1>n, <2>1, Zeros DEF Active
  <2>3. writer'.zone = NoZone /\ writer'.added = 0
    BY <2>1 DEF NoWriter
  <2> QED
    BY <2>1, <2>2, <2>3 DEF Active
<1>3. ASSUME NEW n \in Names, DeleteFile(n) PROVE Active'
  <2> DEFINE id == files_[n]
             files == [files_ EXCEPT ![n] = NoFile]
  <2>1. /\ id \in Ids /\ PersistDeletion("user", id, files)
        /\ UNCHANGED <<data, writer, extent_start_, nr_synced_extents_>>
    BY <1>0, <1>3 DEF DeleteFile, Types
  <2>2. id \notin Live(files)
    BY <1>0, <2>1, Zeros DEF Live, Names1, Types
  <2>3. \A f \in Ids : \/ logged'[f] = logged[f] \/ logged'[f] = NoRecord
                       \/ logged'[f].start = extent_start_'[f]
    BY <1>0, <2>1, <2>2, DeletionEffect DEF Kept, Erased, Written
  <2> QED
    BY <2>1, <2>3, ActiveFrame
<1>4. ASSUME NEW z \in Zones, AllocateNewZone(z) PROVE Active'
  <2> DEFINE id == writer.id
             s == [zone |-> z, start |-> Len(data[z])]
  <2>1. /\ id \in Ids /\ extent_start_' = [extent_start_ EXCEPT ![id] = s]
        /\ writer' = [writer EXCEPT !.zone = z] /\ UNCHANGED <<data, nr_synced_extents_>>
        /\ writer.zone = NoZone /\ PersistUpdate("writer", id, NameOf(files_, id), files_)
    BY <1>4, <1>w DEF AllocateNewZone
  <2>2. \A f \in Ids : \/ f # id /\ logged'[f] = logged[f]
                       \/ logged'[f] = NoRecord
                       \/ logged'[f].start = extent_start_'[f]
    <3>1. \A f \in Ids : Updated(f, id, NameOf(files_, id), files_)
      BY <1>0, <2>1, UpdateEffect
    <3> QED
      BY <3>1 DEF Updated, Kept, Erased, Written
  <2>3. writer'.id = id /\ writer'.zone = z /\ writer'.added = 0
    <3>1. writer \in Writer /\ ~(writer.added > 0)
      BY <1>0, <2>1 DEF Types, Active
    <3> QED
      BY <2>1, <3>1 DEF Writer
  <2>4. extent_start_'[id] = s /\ \A f \in Ids \ {id} : extent_start_'[f] = extent_start_[f]
    BY <1>0, <2>1 DEF Types
  <2>5. \A f \in Ids : extent_start_'[f].zone # NoZone => f = id
    BY <1>0, <2>4 DEF Active
  <2>6. \A f \in Ids : logged'[f].start.zone # NoZone =>
          f = id /\ logged'[f].start.zone = extent_start_'[f].zone
    BY <1>0, <1>n, <2>2, <2>4, <2>5 DEF Active
  <2>7. Len(data[z]) + 0 = Len(data'[z]) /\ ~(0 > 0) /\ ~Closing'
    BY <1>0, <2>1, <2>3, <2>4, Zeros DEF Types, Closing
  <2> QED
    BY <2>1, <2>3, <2>4, <2>5, <2>6, <2>7 DEF Active
<1>5. ASSUME NEW length \in Lengths, BufferedAppend(length) PROVE Active'
  <2> DEFINE id == writer.id
             z == writer.zone
             c == [k \in 1..length |-> <<id, file_size_[id] + k>>]
  <2>1. /\ id # NoFile /\ z # NoZone /\ writer.added = 0 /\ extent_start_[id].zone # NoZone
        /\ data' = [data EXCEPT ![z] = @ \o c]
        /\ writer' = [writer EXCEPT !.added = length] /\ UNCHANGED <<logged, extent_start_>>
    BY <1>5 DEF BufferedAppend
  <2>2. id \in Ids /\ z \in Zones /\ length \in Nat
    <3>1. writer \in Writer /\ length \in 1..ZoneCap
      BY <1>0 DEF Types
    <3> QED
      BY <1>w, <2>1, <3>1 DEF Writer
  <2>3. extent_start_[id].zone = z /\ extent_start_[id].start = Len(data[z])
    <3>1. extent_start_[id].start + 0 = Len(data[z]) /\ extent_start_[id].zone = z
      BY <1>0, <2>1 DEF Active, Closing
    <3>2. extent_start_[id].start \in Int
      BY <1>0, <2>2 DEF Types, Start
    <3> QED
      BY <3>1, <3>2
  <2>4. Len(data'[z]) = Len(data[z]) + length
    <3> DEFINE d == data[z]
    <3>1. data'[z] = d \o c
      BY <1>0, <2>1, <2>2 DEF Types
    <3>2. d \in Seq(Datum)
      BY <1>0, <2>2 DEF Types
    <3>3. c \in Seq(Datum) /\ Len(c) = length
      BY <1>0, <2>2, AppendedType
    <3> HIDE DEF d, c
    <3>4. Len(d \o c) = Len(d) + Len(c)
      BY <3>2, <3>3
    <3> QED
      BY <3>1, <3>3, <3>4 DEF d
  <2> HIDE DEF c
  <2>5. writer'.id = id /\ writer'.zone = z /\ writer'.added = length
    BY <1>0, <2>1 DEF Types, Writer
  <2> QED
    BY <1>0, <2>1, <2>3, <2>4, <2>5 DEF Active, Closing
<1>6. CASE CloseWR
  <2> DEFINE id == writer.id
  <2>1. /\ id \in Ids /\ extent_start_' = [extent_start_ EXCEPT ![id] = NO_EXTENT]
        /\ writer.added = 0 /\ UNCHANGED <<writer, nr_synced_extents_>>
        /\ PersistUpdate("writer", id, NameOf(files_, id), files_)
    BY <1>6, <1>w DEF CloseWR
  <2>2. \A f \in Ids : \/ f # id /\ logged'[f] = logged[f]
                       \/ logged'[f] = NoRecord
                       \/ logged'[f].start = extent_start_'[f]
    <3>1. \A f \in Ids : Updated(f, id, NameOf(files_, id), files_)
      BY <1>0, <2>1, UpdateEffect
    <3> QED
      BY <3>1 DEF Updated, Kept, Erased, Written
  <2>3. \A f \in Ids : extent_start_'[f].zone = NoZone
    BY <1>0, <1>n, <2>1 DEF Types, Active
  <2>4. \A f \in Ids : logged'[f].start.zone = NoZone
    BY <1>0, <1>n, <2>2, <2>3 DEF Active
  <2>5. writer'.id # NoFile /\ writer'.zone # NoZone => Closing'
    BY <2>1, <2>3 DEF Closing
  <2>6. ~(writer'.added > 0)
    BY <2>1
  <2> QED
    BY <2>3, <2>4, <2>5, <2>6 DEF Active
<1>12. CASE BufferedAppendDone
  <2> DEFINE id == writer.id
             z == writer.zone
  <2>1. /\ writer.added > 0 /\ UNCHANGED <<data, logged>>
        /\ extent_start_' = [extent_start_ EXCEPT ![id].start = Len(data[z])]
        /\ writer' = [writer EXCEPT !.zone = IF IsFull(z) THEN NoZone ELSE z, !.added = 0]
    BY <1>12 DEF BufferedAppendDone
  <2>2. id \in Ids /\ z \in Zones /\ extent_start_[id].zone = z
    BY <1>0, <1>w, <2>1 DEF Active, Types, Writer
  <2>3. writer'.id = id /\ writer'.zone \in {z, NoZone} /\ writer'.added = 0
    BY <1>0, <2>1 DEF Types, Writer
  <2>4. extent_start_'[id].zone = z /\ extent_start_'[id].start = Len(data[z])
        /\ \A f \in Ids \ {id} : extent_start_'[f] = extent_start_[f]
    <3>1. extent_start_ \in [Ids -> Start] /\ extent_start_[id] \in Start
      BY <1>0, <2>2 DEF Types
    <3>2. extent_start_'[id] = [extent_start_[id] EXCEPT !.start = Len(data[z])]
          /\ \A f \in Ids \ {id} : extent_start_'[f] = extent_start_[f]
      BY <2>1, <2>2, <3>1
    <3> QED
      BY <2>2, <3>1, <3>2 DEF Start
  <2>5. Len(data[z]) + 0 = Len(data'[z]) /\ ~(0 > 0)
    BY <1>0, <2>1, <2>2 DEF Types
  <2>6. \A f \in Ids : extent_start_'[f].zone = extent_start_[f].zone
    BY <2>2, <2>4
  <2> QED
    BY <1>0, <2>1, <2>3, <2>4, <2>5, <2>6 DEF Active
<1>13. CASE MetadataSynced
  BY <1>13, ActiveFrame DEF MetadataSynced
<1>14. CASE CloseWRDone
  <2>1. /\ writer.id # NoFile /\ writer.zone # NoZone /\ extent_start_[writer.id].zone = NoZone
        /\ writer' = [writer EXCEPT !.id = NoFile] /\ UNCHANGED <<extent_start_, logged>>
    BY <1>14 DEF CloseWRDone
  <2>2. writer'.id = NoFile /\ writer'.added = writer.added
    BY <1>0, <2>1 DEF Types, Writer
  <2>3. ~(writer.added > 0)
    BY <1>0, <2>1 DEF Active, Closing
  <2>4. \A f \in Ids : extent_start_[f].zone = NoZone /\ logged[f].start.zone = NoZone
    BY <1>0, <2>1 DEF Active
  <2> QED
    BY <2>1, <2>2, <2>3, <2>4 DEF Active
<1>7. CASE CloseActiveZone
  <2>1. writer.id = NoFile /\ writer' = NoWriter /\ UNCHANGED <<extent_start_, logged>>
    BY <1>7 DEF CloseActiveZone
  <2>2. \A f \in Ids : extent_start_[f].zone = NoZone /\ logged[f].start.zone = NoZone
    BY <1>0, <2>1, Zeros DEF Active
  <2>3. writer'.id = NoFile /\ ~(writer'.added > 0)
    BY <1>n, <2>1
  <2> QED
    BY <2>1, <2>2, <2>3 DEF Active
<1>8. CASE ResetUnused
  <2>1. UNCHANGED <<extent_start_, writer, logged>>
    BY <1>8 DEF ResetUnused
  <2>2. writer.zone # NoZone => data'[writer.zone] = data[writer.zone]
    BY <1>8, WriterZoneKept DEF ResetUnused
  <2> QED
    BY <2>1, <2>2, ActiveFrame
<1>9. ASSUME NEW src \in TempNames, NEW dst \in Names \ TempNames, RenameFile(src, dst)
      PROVE  Active'
  <2> DEFINE files == [files_ EXCEPT ![src] = NoFile, ![dst] = files_[src]]
  <2>1. /\ files_[src] \in Ids /\ PersistUpdate("user", files_[src], dst, files)
        /\ UNCHANGED <<data, writer, extent_start_, nr_synced_extents_>>
    BY <1>0, <1>9, NameAssumption DEF RenameFile, Types
  <2> HIDE DEF files
  <2>2. \A f \in Ids : \/ logged'[f] = logged[f] \/ logged'[f] = NoRecord
                       \/ logged'[f].start = extent_start_'[f]
    BY <1>0, <2>1, UpdateEffect DEF Updated, Kept, Erased, Written
  <2> QED
    BY <2>1, <2>2, ActiveFrame
<1>10. ASSUME NEW r \in Readers, GoOnReading(r) \/ \E n \in Names : PositionedRead(r, n)
       PROVE  Active'
  <2>1. UNCHANGED <<extent_start_, writer, logged, data>>
    BY Zenon, <1>10 DEF GoOnReading, ReadLock, ReadNextExtent, ReadDevice, PositionedRead
  <2> QED
    BY <2>1, ActiveFrame
<1>11. CASE Crash
  <2>1. Mount /\ writer'.id = NoFile /\ ~(writer'.added > 0)
    BY <1>11, <1>n DEF Crash
  <2>2. \A f \in Ids : extent_start_'[f].zone = NoZone
    BY <1>n, <2>1 DEF Mount
  <2>3. ASSUME NEW f \in Ids PROVE logged'[f].start.zone = NoZone
    <3>1. logged'[f] = [Recover(logged[f]) EXCEPT !.start = NO_EXTENT]
      BY <2>1 DEF Mount
    <3>2. Recover(logged[f]) \in Record
      BY <1>0, RecoverType
    <3> QED
      BY <1>n, <3>1, <3>2 DEF Record
  <2> QED
    BY <2>1, <2>2, <2>3 DEF Active
<1> QED
  BY <1>1, <1>2, <1>3, <1>4, <1>5, <1>6, <1>7, <1>8, <1>9, <1>10, <1>11, <1>12, <1>13, <1>14,
     ActiveCollect DEF Next

-----------------------------------------------------------------------------
(***************************************************************************)
(* The mutex over a record and its marks                                   *)
(***************************************************************************)

\* The steps that leave the mutex alone
LEMMA MutexFrame ==
  ASSUME Control, UNCHANGED <<files_mtx_, uncopied, errors>>, misjudged \subseteq misjudged',
         files_mtx_.ids \subseteq Live(files_'),
         files_mtx_.by = "gc" => gc'.pc = gc.pc /\ gc'.id = gc.id,
         files_mtx_.by = "writer" => writer'.added = 0
  PROVE  Mutex'
BY DEF Control, Mutex

\* A call takes the mutex with the files it has written.
LEMMA MutexTaken ==
  ASSUME Control, UNCHANGED <<uncopied, errors>>, misjudged \subseteq misjudged',
         files_mtx_'.ids \subseteq Live(files_'), files_mtx_'.by \in {"none", "writer", "user"},
         files_mtx_'.by = "none" => files_mtx_'.ids = {},
         files_mtx_'.by = "writer" => writer'.added = 0
  PROVE  Mutex'
BY DEF Control, Mutex

\* The collector gives it back before it goes on from its record.
LEMMA MutexCollect ==
  ASSUME Control, Types', Collect
  PROVE  Mutex'
<1> USE DEF device, namespace, lists, locks, faults, metadata
<1>0. Types /\ WRLocks /\ Mutex /\ gc \in Collector
  BY DEF Control, Types
<1>1. CASE SyncFileMetadata
  <2>1. gc.id \in Ids /\ gc.pc = "sync" /\ UNCHANGED <<files_, uncopied, writer>>
    BY <1>0, <1>1, HeldFile DEF SyncFileMetadata, Holding
  <2>2. misjudged \subseteq misjudged' /\ Free /\ gc'.id = gc.id
    BY <1>0, <1>1, <2>1, SyncEffect
  <2>3. files_mtx_.by = "none" /\ files_mtx_.ids = {}
    BY <2>2 DEF Free, Unlocked
  <2>4. errors \in Nat /\ uncopied \subseteq misjudged' /\ (errors = 0 => uncopied = {})
    BY <1>0, <2>2 DEF Types, Mutex
  <2>5. CASE files_mtx_' = files_mtx_ /\ (errors' = errors + 1 \/ errors' = errors)
    BY <2>1, <2>3, <2>4, <2>5 DEF Mutex
  <2>6. CASE /\ gc'.pc = "clear" /\ UNCHANGED errors /\ ~is_deleted_[gc.id]
             /\ files_mtx_' = [by |-> "gc", ids |-> {gc.id}]
                \/ files_mtx_' = [by |-> "gc", ids |-> Live(files_)]
    <3>1. gc.id \in Live(files_)
      BY <1>0, <2>1, <2>6, Zeros DEF WRLocks
    <3>2. files_mtx_'.by = "gc" /\ files_mtx_'.ids \subseteq Live(files_) /\ gc.id \in files_mtx_'.ids
      BY <2>6, <3>1
    <3> QED
      BY <2>1, <2>2, <2>4, <2>6, <3>2 DEF Mutex
  <2> QED
    BY <1>0, <1>1, <2>1, <2>5, <2>6, SyncEffect
<1>2. CASE MigrateDataError
  <2>1. /\ gc.pc = "copy" /\ UNCHANGED <<files_, files_mtx_, writer>> /\ errors' = errors + 1
        /\ uncopied' = uncopied \cup {gc.id} /\ misjudged' = misjudged \cup {gc.id}
    BY <1>2 DEF MigrateDataError, Refused
  <2>2. errors' # 0 /\ files_mtx_.by # "gc"
    BY <1>0, <2>1 DEF Types, Mutex
  <2> QED
    BY <1>0, <2>1, <2>2 DEF Mutex
<1>3. CASE ~SyncFileMetadata /\ ~MigrateDataError
  <2>1. UNCHANGED <<files_mtx_, uncopied, errors, misjudged, files_, writer>>
    BY Zenon, <1>3 DEF Collect, GCWorker, GetZenFSSnapshot, TryAcquireWRLock, MigrateGetFile,
         TakeMigrateZone, LeaveExtent, MigrateData, ExtentMigrated, FileGone, WriteLock,
         ReplaceExtentList, MetadataUnsynced, SyncFileExtentsDone, ReleaseWRLock, MigrateResets
  <2>2. files_mtx_.by # "gc"
    <3>1. gc.pc # "clear" \/ files_mtx_.by # "gc"
      BY Zenon, <1>3 DEF Collect, GCWorker, GetZenFSSnapshot, TryAcquireWRLock, MigrateGetFile,
         TakeMigrateZone, LeaveExtent, MigrateData, ExtentMigrated, FileGone, WriteLock,
         ReplaceExtentList, MetadataUnsynced, SyncFileExtentsDone, ReleaseWRLock, MigrateResets
    <3> QED
      BY <1>0, <3>1 DEF Mutex
  <2>3. files_mtx_.ids \subseteq Live(files_')
    BY <1>0, <2>1 DEF Mutex
  <2>4. files_mtx_.by = "writer" => writer'.added = 0
    BY <1>0, <2>1 DEF Mutex
  <2> QED
    BY <2>1, <2>2, <2>3, <2>4, MutexFrame
<1> QED
  BY <1>1, <1>2, <1>3

\* The mutex is held with files of the namespace, after every step.
LEMMA MutexNext ==
  ASSUME Control, Types', Next
  PROVE  Mutex'
<1> USE DEF device, namespace, lists, locks, faults, metadata
<1>0. Types /\ WRLocks /\ Mutex /\ Active /\ Names1 /\ writer \in Writer
  BY DEF Control, Types
<1>w. writer.id # NoFile => writer.id \in Live(files_) /\ writer.id \in Ids
  BY <1>0 DEF WRLocks, Live
<1>1. ASSUME NEW n \in Names, OpenWritableFile(n) PROVE Mutex'
  <2> DEFINE id == next_file_id_
  <2>1. /\ id \in Ids /\ files_[n] = NoFile /\ files_' = [files_ EXCEPT ![n] = id]
        /\ PersistUpdate("writer", id, n, files_) /\ writer' = [NoWriter EXCEPT !.id = id]
        /\ UNCHANGED <<nr_synced_extents_, uncopied, errors>>
    BY <1>1 DEF OpenWritableFile
  <2>2. /\ misjudged \subseteq misjudged' /\ files_mtx_'.by = "writer"
        /\ files_mtx_'.ids \subseteq {id} \cup Live(files_)
    BY <1>0, <2>1, UpdateEffect
  <2>3. {id} \cup Live(files_) \subseteq Live(files_')
    BY <1>0, <2>1, Zeros DEF Live, Types
  <2>4. writer'.added = 0
    BY <2>1 DEF NoWriter
  <2> QED
    BY <2>1, <2>2, <2>3, <2>4, MutexTaken
<1>2. CASE \/ \E n \in Names : ReopenWritableFile(n)
           \/ CloseActiveZone \/ CloseWRDone \/ BufferedAppendDone \/ ResetUnused
           \/ \E length \in Lengths : BufferedAppend(length)
  <2>1. UNCHANGED <<files_mtx_, uncopied, errors, files_, gc>> /\ misjudged \subseteq misjudged'
    BY <1>2 DEF ReopenWritableFile, CloseActiveZone, CloseWRDone, BufferedAppendDone, ResetUnused,
                BufferedAppend, Race
  <2>2. files_mtx_.by = "writer" => writer'.added = 0
    <3>1. CASE (\E n \in Names : ReopenWritableFile(n)) \/ CloseActiveZone
      BY <3>1 DEF ReopenWritableFile, CloseActiveZone, NoWriter
    <3>2. CASE CloseWRDone \/ \E length \in Lengths : BufferedAppend(length)
      BY <3>2 DEF CloseWRDone, BufferedAppend
    <3>3. CASE BufferedAppendDone
      <4>1. writer' = [writer EXCEPT !.zone = IF IsFull(writer.zone) THEN NoZone ELSE writer.zone,
                                     !.added = 0]
        BY <3>3 DEF BufferedAppendDone
      <4> QED
        BY <1>0, <4>1 DEF Writer
    <3>4. CASE ResetUnused
      BY <1>0, <3>4 DEF ResetUnused, Mutex
    <3> QED
      BY <1>2, <3>1, <3>2, <3>3, <3>4
  <2> QED
    BY <1>0, <2>1, <2>2, MutexFrame DEF Mutex
<1>3. ASSUME NEW n \in Names, DeleteFile(n) PROVE Mutex'
  <2> DEFINE id == files_[n]
             files == [files_ EXCEPT ![n] = NoFile]
  <2>1. /\ id \in Ids /\ PersistDeletion("user", id, files) /\ files_' = files
        /\ UNCHANGED <<nr_synced_extents_, uncopied, errors>>
    BY <1>0, <1>3 DEF DeleteFile, Types
  <2>2. id \notin Live(files)
    BY <1>0, <2>1, Zeros DEF Live, Names1, Types
  <2> HIDE DEF files
  <2>3. /\ misjudged \subseteq misjudged' /\ files_mtx_'.by \in {"user", "none"}
        /\ files_mtx_'.ids \subseteq Live(files)
        /\ files_mtx_'.by = "none" => files_mtx_'.ids = {}
    BY <1>0, <2>1, <2>2, DeletionEffect
  <2> QED
    BY <2>1, <2>3, MutexTaken
<1>4. CASE (\E z \in Zones : AllocateNewZone(z)) \/ CloseWR
  <2>1. /\ writer.id # NoFile /\ PersistUpdate("writer", writer.id, NameOf(files_, writer.id), files_)
        /\ UNCHANGED <<nr_synced_extents_, uncopied, errors, files_>>
    BY <1>4 DEF AllocateNewZone, CloseWR
  <2>2. /\ misjudged \subseteq misjudged' /\ files_mtx_'.by = "writer"
        /\ files_mtx_'.ids \subseteq {writer.id} \cup Live(files_)
    BY <1>0, <1>w, <2>1, UpdateEffect
  <2>3. writer'.added = 0
    <3>1. writer.added = 0
      <4>1. writer.zone = NoZone \/ writer.added = 0
        BY <1>4 DEF AllocateNewZone, CloseWR
      <4> QED
        BY <1>0, <4>1 DEF Active, Writer
    <3>2. writer' = writer \/ \E z \in Zones : writer' = [writer EXCEPT !.zone = z]
      BY <1>4 DEF AllocateNewZone, CloseWR
    <3> QED
      BY <1>0, <3>1, <3>2 DEF Writer
  <2> QED
    BY <1>w, <2>1, <2>2, <2>3, MutexTaken
<1>5. CASE MetadataSynced
  <2>1. files_mtx_' = Unlocked /\ UNCHANGED <<uncopied, errors>> /\ misjudged \subseteq misjudged'
    BY <1>5 DEF MetadataSynced
  <2>2. files_mtx_'.by = "none" /\ files_mtx_'.ids = {}
    BY <2>1 DEF Unlocked
  <2> QED
    BY <2>1, <2>2, MutexTaken
<1>6. ASSUME NEW src \in TempNames, NEW dst \in Names \ TempNames, RenameFile(src, dst)
      PROVE  Mutex'
  <2> DEFINE files == [files_ EXCEPT ![src] = NoFile, ![dst] = files_[src]]
  <2>1. /\ files_[src] \in Ids /\ PersistUpdate("user", files_[src], dst, files)
        /\ files_' = files /\ UNCHANGED <<nr_synced_extents_, uncopied, errors>>
    BY <1>0, <1>6, NameAssumption DEF RenameFile, Types
  <2>2. files_[src] \in Live(files)
    BY <1>0, <2>1, NameAssumption DEF Live, Types
  <2> HIDE DEF files
  <2>3. /\ misjudged \subseteq misjudged' /\ files_mtx_'.by = "user"
        /\ files_mtx_'.ids \subseteq {files_[src]} \cup Live(files)
    BY <1>0, <2>1, UpdateEffect
  <2> QED
    BY <2>1, <2>2, <2>3, MutexTaken
<1>7. ASSUME NEW r \in Readers, GoOnReading(r) \/ \E n \in Names : PositionedRead(r, n)
      PROVE  Mutex'
  <2>1. UNCHANGED <<files_mtx_, uncopied, errors, misjudged, files_, gc, writer>>
    BY Zenon, <1>7 DEF GoOnReading, ReadLock, ReadNextExtent, ReadDevice, PositionedRead
  <2> QED
    BY <1>0, <2>1, MutexFrame DEF Mutex
<1>8. CASE Crash
  <2>1. files_mtx_' = Unlocked /\ UNCHANGED <<uncopied, errors, misjudged>>
    BY <1>8 DEF Crash
  <2>2. files_mtx_'.by = "none" /\ files_mtx_'.ids = {}
    BY <2>1 DEF Unlocked
  <2> QED
    BY <2>1, <2>2, MutexTaken
<1> QED
  BY <1>1, <1>2, <1>3, <1>4, <1>5, <1>6, <1>7, <1>8, MutexCollect DEF Next

\* Every step keeps the control state together.
LEMMA ControlNext ==
  ASSUME Control, [Next]_vars
  PROVE  Control'
<1>1. CASE Next
  <2>1. Types'
    BY <1>1, NextTypes
  <2>2. Names1'
    BY <1>1, <2>1, NamesCollect, NamesUser, NamesReader, NamesCrash, NameAssumption DEF Next
  <2>3. RWLocks'
    BY <1>1, <2>1, <2>2, RWLocksCollect, RWLocksUser, RWLocksReader, RWLocksCrash,
       NameAssumption DEF Next
  <2> QED
    BY <1>1, <2>1, <2>2, <2>3, WRLocksNext, ListsNext, ActiveNext, MutexNext DEF Control
<1>2. CASE UNCHANGED vars
  <2>1. /\ UNCHANGED <<data, used_capacity_, busy_, files_, next_file_id_, logged, extents_>>
        /\ UNCHANGED <<nr_synced_extents_, file_size_, is_deleted_, extent_start_>>
        /\ UNCHANGED <<open_for_wr_, readers_, writer_mtx_, writer, resetting, gc, reader>>
        /\ UNCHANGED <<crashes, errors, misjudged, uncopied, files_mtx_>>
    BY <1>2 DEF vars, device, namespace, lists, locks, faults, metadata
  <2>2. Types'
    BY <2>1 DEF Control, Types
  <2>5. Names1' /\ WRLocks' /\ Active' /\ Mutex'
    BY <2>1 DEF Control, Names1, Fresh, WRLocks, Active, Closing, Mutex
  <2>6. Lists'
    BY <2>1, SyncedFrame, ListsFrame
  <2>3. \A id \in Ids : Reading(id)' = Reading(id)
    BY <2>1 DEF Reading
  <2>4. RWLocks'
    BY <2>1, <2>3 DEF Control, RWLocks
  <2> QED
    BY <2>2, <2>4, <2>5, <2>6 DEF Control
<1> QED
  BY <1>1, <1>2

\* The empty file system has Control.
LEMMA ControlInit ==
  ASSUME Init
  PROVE  Control
<1>1. Types
  BY InitTypes
<1>2. gc.pc = "idle" /\ gc.id = NoFile /\ writer.id = NoFile /\ writer.zone = NoZone
      /\ writer.added = 0
      /\ \A r \in Readers : reader[r] = NoReader /\ reader[r].pc = "idle"
  BY DEF Init, NoGC, NoWriter, NoReader
<1>3. Names1
  BY Zeros DEF Init, Names1, Fresh, NoRecord
<1>4. WRLocks
  BY <1>2 DEF WRLocks, Holding, Locking
<1>5. RWLocks
  <2>1. \A id \in Ids : Reading(id) = {}
    BY <1>2 DEF Reading
  <2> QED
    BY <1>2, <2>1, FS_EmptySet DEF Init, RWLocks
<1>6. Lists
  BY <1>2 DEF Init, Lists, Moving, Swapped
<1>7. Active
  BY <1>2 DEF Init, Active, NoRecord, NO_EXTENT
<1>8. Mutex
  BY DEF Init, Mutex, Unlocked
<1> QED
  BY <1>1, <1>3, <1>4, <1>5, <1>6, <1>7, <1>8 DEF Control

\* The WR lock of a file has one owner, the thread that writes it or the collector;
\* readers_ counts the readers of a file, none is among them while ReplaceExtentList
\* swaps its list, and no zone has two writers; and no reader keeps a deleted file.
THEOREM MigrationControl == Spec => []Control
<1>1. Init => Control
  BY ControlInit
<1>2. Control /\ [Next]_vars => Control'
  BY ControlNext
<1> QED
  BY <1>1, <1>2, PTL DEF Spec
=============================================================================
