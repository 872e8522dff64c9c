--------------------------- MODULE MigrationProofs ---------------------------
(***************************************************************************)
(* Garbage collection beside the users of the file system.  For every      *)
(* number of files, zones, readers, crashes and refused records: the use   *)
(* of the zones is counted exactly, a mount finds the content of every     *)
(* file, and readers get it.                                               *)
(***************************************************************************)
EXTENDS MigrationControlProofs

USE NameAssumption, SizeAssumption

-----------------------------------------------------------------------------
(***************************************************************************)
(* The inductive invariant                                                 *)
(***************************************************************************)

\* No zone is used less than the lists say, and none more until a record is refused.
Capacity ==
  \A z \in Zones :
    /\ used_capacity_[z] + Uncounted(z) >= Used(z, extents_) + Cardinality(Counted(z))
    /\ errors = 0 => used_capacity_[z] + Uncounted(z) = Used(z, extents_) + Cardinality(Counted(z))

\* The next extent of the file that is being written starts at the write pointer of a
\* zone that nobody else writes to and nobody resets.
Added(id) == IF id = writer.id THEN writer.added ELSE 0
Size(id) == file_size_[id] + Added(id)
Reaches(list, z, n) == \E i \in DOMAIN list : list[i].zone = z /\ list[i].length >= n
Opened ==
  \A id \in Ids :
    LET z == extent_start_[id].zone
    IN  z # NoZone =>
          /\ extent_start_[id].start + Added(id) = Len(data[z])
          /\ \/ writer.zone = z /\ Added(id) = 0
             \/ /\ writer.zone = z \/ IsFull(z)
                /\ Reaches(extents_[id], z, Added(id))

\* Only a file with a name has anything in the log.
Unnamed == \A id \in Ids : logged[id].name = NoFile => logged[id] = NoRecord

\* Until a record is refused all extents lie below the write pointers, those of misjudged
\* files too.
Within(d, list) == \A i \in DOMAIN list : list[i].start + list[i].length <= Len(d[list[i].zone])
KnownExtents(id) ==
  ToSet(extents_[id]) \cup IF gc.id = id /\ gc.pc \in {"unsync", "sync"} THEN ToSet(gc.old) ELSE {}
Ranges ==
  errors = 0 =>
    /\ \A id \in Ids : Within(data, extents_[id])
    /\ gc.pc \in Moving \cup Swapped => Within(data, gc.list)
    /\ gc.pc \in Swapped => Within(data, gc.old)
    /\ gc.pc = "check" /\ gc.list[gc.i].zone = gc.target =>
         gc.list[gc.i].start + 2 * gc.list[gc.i].length <= Len(data[gc.target])
    /\ \A id \in Ids : ToSet(logged[id].ext) \subseteq KnownExtents(id)

\* Lists that may be read hold the data of their file.
Holds(d, id, list) ==
  \A i \in DOMAIN list : \A k \in 1..list[i].length :
    /\ list[i].start + k \in DOMAIN d[list[i].zone]
    /\ d[list[i].zone][list[i].start + k] = <<id, Before(list, i) + k>>
Good(id) == id \notin uncopied /\ (crashes = 0 \/ id \notin misjudged)
Contents ==
  /\ \A id \in Ids : Good(id) => /\ Holds(data, id, extents_[id])
                                 /\ is_deleted_[id] \/ Size(id) = Total(extents_[id])
  /\ gc.pc \in Moving /\ Good(gc.id) => Holds(data, gc.id, gc.list)
  /\ gc.pc \in Swapped /\ Good(gc.id) => Holds(data, gc.id, gc.old)
  /\ gc.pc = "check" /\ Good(gc.id) =>
       LET e == gc.list[gc.i]
       IN  \A k \in 1..e.length : data[gc.target][gc.start + k] = <<gc.id, Before(gc.list, gc.i) + k>>

\* The log has the extents that count as synced, or are about to; behind a swap it may have
\* the old ones.  nr_synced_extents_ lags behind while its file is written, and while the
\* collector is about to mark it.
Seen(id) == IF id \in files_mtx_.ids THEN Len(extents_[id]) ELSE nr_synced_extents_[id]
Lagging(id) ==
  \/ id = writer.id /\ (~Closing \/ files_mtx_.by = "writer")
  \/ id = gc.id /\ files_mtx_.by = "gc"
LoggedList(id) ==
  IF gc.id = id /\ gc.pc \in {"unsync", "sync"}
  THEN /\ logged[id].ext \in {gc.old, extents_[id]}
       /\ nr_synced_extents_[id] = IF gc.pc = "sync" THEN 0 ELSE Len(extents_[id])
  ELSE /\ logged[id].ext = SubSeq(extents_[id], 1, Seen(id))
       /\ id # writer.id \/ Closing => Seen(id) = Len(extents_[id])
       /\ ~Lagging(id) => nr_synced_extents_[id] = Len(extents_[id])

\* The active extent reaches from where the record says to the write pointer.
LoggedTail(id) ==
  LET z == logged[id].start.zone
      s == logged[id].start.start
  IN  z # NoZone =>
        /\ s <= Len(data[z]) /\ Size(id) = logged[id].size + Len(data[z]) - s
        /\ \A k \in 1..(Len(data[z]) - s) : data[z][s + k] = <<id, logged[id].size + k>>

Log ==
  \A id \in Ids \ misjudged : ~is_deleted_[id] =>
    LoggedList(id) /\ logged[id].size = Total(logged[id].ext) /\ LoggedTail(id)

\* A reader has got what comes in front of the extent it goes on with.
ReadsOf(r) ==
  LET id == reader[r].id
      got == reader[r].got
  IN  /\ \A k \in DOMAIN got : got[k] = <<id, k>>
      /\ reader[r].pc = "lock" => got = <<>>
      /\ reader[r].pc = "extent" =>
           \E j \in 1..(Len(extents_[id]) + 1) : Len(got) = Before(extents_[id], j)
      /\ reader[r].pc = "read" =>
           \E j \in DOMAIN extents_[id] :
             reader[r].ext = extents_[id][j] /\ Len(got) = Before(extents_[id], j)
Reads == \A r \in Readers : Good(reader[r].id) => ReadsOf(r)

Inv == Control /\ Capacity /\ Opened /\ Unnamed /\ Ranges /\ Contents /\ Log /\ Reads

-----------------------------------------------------------------------------
(***************************************************************************)
(* Counting slots                                                          *)
(***************************************************************************)

\* Two finite sets without common elements, and a set with one more coordinate
LEMMA CardUnion ==
  ASSUME NEW S, NEW T, IsFiniteSet(S), IsFiniteSet(T), S \cap T = {}
  PROVE  /\ IsFiniteSet(S \cup T) /\ Cardinality(S \cup T) = Cardinality(S) + Cardinality(T)
         /\ Cardinality(S) \in Nat /\ Cardinality(T) \in Nat
<1>1. Cardinality(S) \in Nat /\ Cardinality(T) \in Nat /\ Cardinality(S \cap T) = 0
  BY FS_CardinalityType, FS_EmptySet
<1>2. IsFiniteSet(S \cup T)
      /\ Cardinality(S \cup T) = Cardinality(S) + Cardinality(T) - Cardinality(S \cap T)
  BY FS_Union
<1> QED
  BY <1>1, <1>2

\* A set and its product with one element have as many elements.
LEMMA CardOne ==
  ASSUME NEW x, NEW S, IsFiniteSet(S)
  PROVE  IsFiniteSet({x} \X S) /\ Cardinality({x} \X S) = Cardinality(S)
<1>1. IsFiniteSet({x}) /\ Cardinality({x}) = 1 /\ Cardinality(S) \in Nat
  BY FS_Singleton, FS_CardinalityType
<1>2. IsFiniteSet({x} \X S) /\ Cardinality({x} \X S) = Cardinality({x}) * Cardinality(S)
  BY <1>1, FS_Product
<1> QED
  BY <1>1, <1>2

\* There are n numbers from 1 to n.
LEMMA CardInterval ==
  ASSUME NEW n \in Nat
  PROVE  IsFiniteSet(1..n) /\ Cardinality(1..n) = n
BY FS_Interval

\* The list of one file is exchanged.
Exchanged(ext, new, id) ==
  /\ ext \in [Ids -> Seq(Extent)] /\ new \in [Ids -> Seq(Extent)] /\ id \in Ids
  /\ \A f \in Ids \ {id} : new[f] = ext[f]

\* Then its slots are exchanged.
LEMMA UsedChange ==
  ASSUME NEW ext, NEW new, NEW id, NEW z, Exchanged(ext, new, id)
  PROVE  Used(z, new) = Used(z, ext) - LengthIn(z, ext[id]) + LengthIn(z, new[id])
<1> DEFINE Rest == UNION {{f} \X Slots(z, ext[f]) : f \in Ids \ {id}}
           Of(l) == {id} \X Slots(z, l)
<1> USE DEF Exchanged
<1>1. IsFiniteSet(Rest)
  BY UsedFinite
<1>2. ASSUME NEW l \in Seq(Extent)
      PROVE  /\ IsFiniteSet(Of(l)) /\ Cardinality(Of(l)) = LengthIn(z, l) /\ LengthIn(z, l) \in Nat
             /\ Rest \cap Of(l) = {}
  <2>1. IsFiniteSet(Slots(z, l)) /\ LengthIn(z, l) \in Nat
    BY SlotsFinite
  <2>2. Rest \cap Of(l) = {}
    OBVIOUS
  <2> QED
    BY <2>1, <2>2, CardOne DEF LengthIn
<1>3. UNION {{f} \X Slots(z, ext[f]) : f \in Ids} = Rest \cup Of(ext[id])
  OBVIOUS
<1>4. UNION {{f} \X Slots(z, new[f]) : f \in Ids} = Rest \cup Of(new[id])
  OBVIOUS
<1>5. ext[id] \in Seq(Extent) /\ new[id] \in Seq(Extent)
  OBVIOUS
<1> HIDE DEF Rest, Of
<1>6. ASSUME NEW l \in Seq(Extent)
      PROVE  Cardinality(Rest \cup Of(l)) = Cardinality(Rest) + LengthIn(z, l)
             /\ Cardinality(Rest) \in Nat /\ LengthIn(z, l) \in Nat
  BY <1>1, <1>2, CardUnion
<1>7. Used(z, ext) = Cardinality(Rest) + LengthIn(z, ext[id])
      /\ Used(z, new) = Cardinality(Rest) + LengthIn(z, new[id])
  BY <1>3, <1>4, <1>5, <1>6 DEF Used
<1>8. Cardinality(Rest) \in Nat /\ LengthIn(z, ext[id]) \in Nat /\ LengthIn(z, new[id]) \in Nat
  BY <1>5, <1>6
<1> QED
  BY <1>7, <1>8

\* What a step adds to the use of a zone, and takes from it
UsedStep(z, id) ==
  Used(z, extents_') = Used(z, extents_) - LengthIn(z, extents_[id]) + LengthIn(z, extents_'[id])

\* A step that exchanges one list does that.
LEMMA UsedChanges ==
  ASSUME NEW z, NEW id, Exchanged(extents_, extents_', id)
  PROVE  UsedStep(z, id)
BY UsedChange DEF UsedStep

\* The empty list uses nothing.
LEMMA EmptyLength == ASSUME NEW z PROVE LengthIn(z, <<>>) = 0
<1>1. Slots(z, <<>>) = {}
  BY DEF Slots
<1> QED
  BY <1>1, FS_EmptySet DEF LengthIn

\* A zone with an extent in it is in use.
LEMMA UsedPositive ==
  ASSUME NEW ext \in [Ids -> Seq(Extent)], NEW id \in Ids, NEW i \in DOMAIN ext[id]
  PROVE  Used(ext[id][i].zone, ext) > 0 /\ Used(ext[id][i].zone, ext) \in Nat
<1> DEFINE z == ext[id][i].zone
           all == UNION {{f} \X Slots(z, ext[f]) : f \in Ids}
<1>1. IsFiniteSet(all) /\ Used(z, ext) \in Nat /\ Used(z, ext) = Cardinality(all)
  BY UsedFinite DEF Used
<1>2. ext[id][i] \in Extent
  OBVIOUS
<1>3. <<i, 1>> \in Slots(z, ext[id])
  BY <1>2 DEF Slots, Extent
<1>4. <<id, <<i, 1>>>> \in all
  <2>1. <<id, <<i, 1>>>> \in {id} \X Slots(z, ext[id])
    BY <1>3
  <2> QED
    BY <2>1
<1> HIDE DEF z, all
<1>5. Cardinality(all) # 0
  BY <1>1, <1>4, FS_EmptySet
<1> QED
  BY <1>1, <1>5 DEF z

\* An extent is counted with all its slots.
LEMMA UsedReaches ==
  ASSUME NEW ext \in [Ids -> Seq(Extent)], NEW id \in Ids, NEW i \in DOMAIN ext[id]
  PROVE  Used(ext[id][i].zone, ext) >= ext[id][i].length
<1> DEFINE z == ext[id][i].zone
           n == ext[id][i].length
           all == UNION {{f} \X Slots(z, ext[f]) : f \in Ids}
           some == {id} \X ({i} \X (1..n))
<1>1. IsFiniteSet(all) /\ Used(z, ext) = Cardinality(all)
  BY UsedFinite DEF Used
<1>2. ext[id][i] \in Extent
  OBVIOUS
<1>3. n \in Nat /\ n <= ZoneCap
  BY <1>2 DEF Extent
<1>4. {i} \X (1..n) \subseteq Slots(z, ext[id])
  <2>1. 1..n \subseteq 1..ZoneCap /\ \A k \in 1..n : k <= n
    BY <1>3
  <2> QED
    BY <2>1 DEF Slots
<1>5. some \subseteq all
  BY <1>4
<1>6. Cardinality(some) = n
  <2>1. IsFiniteSet(1..n) /\ Cardinality(1..n) = n
    BY <1>3, CardInterval
  <2>2. IsFiniteSet({i} \X (1..n)) /\ Cardinality({i} \X (1..n)) = n
    BY <2>1, CardOne
  <2> HIDE DEF n
  <2> QED
    BY <2>2, CardOne
<1> HIDE DEF all, some
<1>7. Cardinality(some) <= Cardinality(all)
  BY <1>1, <1>5, FS_Subset
<1>8. Cardinality(all) \in Nat
  BY <1>1, FS_CardinalityType
<1> HIDE DEF z, n
<1>9. Used(z, ext) >= n
  BY <1>1, <1>3, <1>6, <1>7, <1>8
<1> QED
  BY <1>9 DEF z, n

\* A list uses more of the zone of the extent that is added, and no more of any other.
LEMMA AppendLength ==
  ASSUME NEW list \in Seq(Extent), NEW e \in Extent, NEW z
  PROVE  LengthIn(z, Append(list, e)) = LengthIn(z, list) + IF e.zone = z THEN e.length ELSE 0
<1> DEFINE new == Append(list, e)
           n == Len(list) + 1
           More == IF e.zone = z THEN {n} \X (1..e.length) ELSE {}
<1>1. /\ n \in Nat /\ n >= 1 /\ DOMAIN new = 1..n /\ DOMAIN list = 1..(n - 1) /\ new[n] = e
      /\ \A i \in 1..(n - 1) : new[i] = list[i]
  OBVIOUS
<1>2. e.length \in Nat /\ e.length <= ZoneCap
  BY DEF Extent
<1> HIDE DEF new, n
<1>3. Slots(z, new) = Slots(z, list) \cup More
  <2>1. \A s \in (1..n) \X (1..ZoneCap) :
          s \in Slots(z, new) <=> s \in Slots(z, list) \/ s \in More
    <3> SUFFICES ASSUME NEW i \in 1..n, NEW k \in 1..ZoneCap
                 PROVE  <<i, k>> \in Slots(z, new) <=>
                          <<i, k>> \in Slots(z, list) \/ <<i, k>> \in More
      OBVIOUS
    <3>1. <<i, k>> \in Slots(z, new) <=> new[i].zone = z /\ k <= new[i].length
      BY <1>1 DEF Slots
    <3>2. <<i, k>> \in Slots(z, list) <=> i \in 1..(n - 1) /\ list[i].zone = z /\ k <= list[i].length
      BY <1>1 DEF Slots
    <3>3. <<i, k>> \in More <=> e.zone = z /\ i = n /\ k <= e.length
      BY <1>2
    <3>4. i = n \/ i \in 1..(n - 1)
      BY <1>1
    <3>5. n \notin 1..(n - 1)
      BY <1>1
    <3> QED
      BY <1>1, <3>1, <3>2, <3>3, <3>4, <3>5
  <2>2. /\ Slots(z, new) \subseteq (1..n) \X (1..ZoneCap)
        /\ Slots(z, list) \subseteq (1..n) \X (1..ZoneCap)
    BY <1>1 DEF Slots
  <2>3. More \subseteq (1..n) \X (1..ZoneCap)
    <3>1. n \in 1..n /\ 1..e.length \subseteq 1..ZoneCap
      BY <1>1, <1>2
    <3> QED
      BY <3>1
  <2> HIDE DEF More
  <2> QED
    BY <2>1, <2>2, <2>3
<1>4. Slots(z, list) \cap More = {}
  <2>1. \A s \in Slots(z, list) : s[1] # n
    BY <1>1 DEF Slots
  <2>2. \A s \in More : s[1] = n
    OBVIOUS
  <2> QED
    BY <2>1, <2>2
<1>5. IsFiniteSet(More) /\ Cardinality(More) = IF e.zone = z THEN e.length ELSE 0
  <2>1. IsFiniteSet(1..e.length) /\ Cardinality(1..e.length) = e.length
    BY <1>2, CardInterval
  <2>2. IsFiniteSet({n} \X (1..e.length)) /\ Cardinality({n} \X (1..e.length)) = e.length
    BY <2>1, CardOne
  <2>3. CASE e.zone = z
    BY <2>2, <2>3
  <2>4. CASE ~(e.zone = z)
    BY <2>4, FS_EmptySet
  <2> QED
    BY <2>3, <2>4
<1> HIDE DEF More
<1>6. Cardinality(Slots(z, new)) = Cardinality(Slots(z, list)) + Cardinality(More)
  BY <1>3, <1>4, <1>5, SlotsFinite, CardUnion
<1> QED
  BY <1>5, <1>6 DEF LengthIn, new

\* Moved slots
LEMMA MovedFinite ==
  ASSUME NEW list \in Seq(Extent), NEW other, NEW z
  PROVE  IsFiniteSet(Moved(z, list, other)) /\ Cardinality(Moved(z, list, other)) \in Nat
<1>1. Moved(z, list, other) \in SUBSET Slots(z, list)
  BY DEF Moved
<1> QED
  BY <1>1, SlotsFinite, FS_Subset, FS_CardinalityType

\* Between a list and itself nothing has moved.
LEMMA MovedNone ==
  ASSUME NEW list, NEW z
  PROVE  Moved(z, list, list) = {} /\ Cardinality(Moved(z, list, list)) = 0
<1>1. Moved(z, list, list) = {}
  BY DEF Moved
<1> QED
  BY <1>1, FS_EmptySet

\* An extent takes a new place: its slots count, unless it is the place it had.
LEMMA MovedMore ==
  ASSUME NEW list \in Seq(Extent), NEW other, NEW i \in DOMAIN list, NEW f \in Extent,
         list[i] = other[i], NEW z
  PROVE  Cardinality(Moved(z, [list EXCEPT ![i] = f], other)) =
           Cardinality(Moved(z, list, other)) + IF f.zone = z /\ f # other[i] THEN f.length ELSE 0
<1> DEFINE new == [list EXCEPT ![i] = f]
           More == IF f.zone = z /\ f # other[i] THEN {i} \X (1..f.length) ELSE {}
<1>1. DOMAIN new = DOMAIN list /\ new[i] = f /\ \A j \in DOMAIN list \ {i} : new[j] = list[j]
  OBVIOUS
<1>2. f.length \in Nat /\ f.length <= ZoneCap
  BY DEF Extent
<1> HIDE DEF new
<1>3. Moved(z, new, other) = Moved(z, list, other) \cup More
  <2>1. \A s \in (DOMAIN list) \X (1..ZoneCap) :
          s \in Moved(z, new, other) <=> s \in Moved(z, list, other) \/ s \in More
    <3> SUFFICES ASSUME NEW j \in DOMAIN list, NEW k \in 1..ZoneCap
                 PROVE  <<j, k>> \in Moved(z, new, other) <=>
                          <<j, k>> \in Moved(z, list, other) \/ <<j, k>> \in More
      OBVIOUS
    <3>1. <<j, k>> \in Moved(z, new, other) <=>
            new[j].zone = z /\ k <= new[j].length /\ new[j] # other[j]
      BY <1>1 DEF Moved, Slots
    <3>2. <<j, k>> \in Moved(z, list, other) <=>
            list[j].zone = z /\ k <= list[j].length /\ list[j] # other[j]
      BY DEF Moved, Slots
    <3>3. <<j, k>> \in More <=> f.zone = z /\ f # other[i] /\ j = i /\ k <= f.length
      BY <1>2
    <3> QED
      BY <1>1, <3>1, <3>2, <3>3
  <2>2. /\ Moved(z, new, other) \subseteq (DOMAIN list) \X (1..ZoneCap)
        /\ Moved(z, list, other) \subseteq (DOMAIN list) \X (1..ZoneCap)
    BY <1>1 DEF Moved, Slots
  <2>3. More \subseteq (DOMAIN list) \X (1..ZoneCap)
    BY <1>2
  <2> HIDE DEF More
  <2> QED
    BY <2>1, <2>2, <2>3
<1>4. Moved(z, list, other) \cap More = {}
  <2>1. \A s \in Moved(z, list, other) : s[1] # i
    BY DEF Moved
  <2>2. \A s \in More : s[1] = i
    OBVIOUS
  <2> QED
    BY <2>1, <2>2
<1>5. IsFiniteSet(More)
      /\ Cardinality(More) = IF f.zone = z /\ f # other[i] THEN f.length ELSE 0
  <2>1. IsFiniteSet(1..f.length) /\ Cardinality(1..f.length) = f.length
    BY <1>2, CardInterval
  <2>2. IsFiniteSet({i} \X (1..f.length)) /\ Cardinality({i} \X (1..f.length)) = f.length
    BY <2>1, CardOne
  <2>3. CASE f.zone = z /\ f # other[i]
    BY <2>2, <2>3
  <2>4. CASE ~(f.zone = z /\ f # other[i])
    BY <2>4, FS_EmptySet
  <2> QED
    BY <2>3, <2>4
<1> HIDE DEF More
<1>6. Cardinality(Moved(z, new, other)) = Cardinality(Moved(z, list, other)) + Cardinality(More)
  BY <1>3, <1>4, <1>5, MovedFinite, CardUnion
<1> QED
  BY <1>5, <1>6 DEF new

\* When two lists change places, so do the slots that only one of them has.
LEMMA MovedSwap ==
  ASSUME NEW list \in Seq(Extent), NEW other \in Seq(Extent), Len(list) = Len(other), NEW z
  PROVE  LengthIn(z, list) + Cardinality(Moved(z, other, list))
           = LengthIn(z, other) + Cardinality(Moved(z, list, other))
<1> DEFINE Common == {s \in Slots(z, list) : list[s[1]] = other[s[1]]}
<1>1. DOMAIN list = DOMAIN other
  OBVIOUS
<1>2. Common = {s \in Slots(z, other) : list[s[1]] = other[s[1]]}
  BY <1>1 DEF Slots
<1>3. Slots(z, list) = Common \cup Moved(z, list, other) /\ Common \cap Moved(z, list, other) = {}
  BY DEF Moved
<1>4. Slots(z, other) = Common \cup Moved(z, other, list) /\ Common \cap Moved(z, other, list) = {}
  BY <1>2 DEF Moved
<1>5. IsFiniteSet(Common)
  BY SlotsFinite, FS_Subset
<1> HIDE DEF Common
<1>6. LengthIn(z, list) = Cardinality(Common) + Cardinality(Moved(z, list, other))
      /\ LengthIn(z, other) = Cardinality(Common) + Cardinality(Moved(z, other, list))
      /\ Cardinality(Common) \in Nat
  <2>1. IsFiniteSet(Moved(z, list, other)) /\ IsFiniteSet(Moved(z, other, list))
    BY MovedFinite
  <2>2. LengthIn(z, list) = Cardinality(Common) + Cardinality(Moved(z, list, other))
        /\ Cardinality(Common) \in Nat
    BY <1>3, <1>5, <2>1, CardUnion DEF LengthIn
  <2>3. LengthIn(z, other) = Cardinality(Common) + Cardinality(Moved(z, other, list))
    BY <1>4, <1>5, <2>1, CardUnion DEF LengthIn
  <2> QED
    BY <2>2, <2>3
<1> QED
  BY <1>6, MovedFinite

-----------------------------------------------------------------------------
(***************************************************************************)
(* The capacity in use                                                     *)
(***************************************************************************)

Sum1(z) == Used(z, extents_) + Cardinality(Counted(z))
Use1(z) == used_capacity_[z] + Uncounted(z)
Uncounting == \A z \in Zones : Uncounted(z)' = Uncounted(z)

\* What is counted beside the lists, in numbers
LEMMA CountedFinite ==
  ASSUME Control, NEW z
  PROVE  /\ IsFiniteSet(Counted(z)) /\ Cardinality(Counted(z)) \in Nat
         /\ Used(z, extents_) \in Nat /\ Sum1(z) \in Nat
<1>1. gc.list \in Seq(Extent) /\ gc.old \in Seq(Extent) /\ extents_ \in [Ids -> Seq(Extent)]
  BY DEF Control, Types, Collector
<1>2. IsFiniteSet(Counted(z))
  BY <1>1, MovedFinite, FS_EmptySet DEF Counted
<1>3. Used(z, extents_) \in Nat
  BY <1>1, UsedFinite
<1> QED
  BY <1>2, <1>3, FS_CardinalityType DEF Sum1

SumsAreNat == \A z \in Zones : Sum1(z) \in Nat

\* What a zone should count is a number.
LEMMA SumType == Control => SumsAreNat
BY CountedFinite DEF SumsAreNat

\* It is one in the next state too.
LEMMA SumTypeNext == Control' => SumsAreNat'
BY SumType, PTL

UsesAreInt ==
  \A z \in Zones : used_capacity_[z] \in Int /\ Uncounted(z) \in Nat /\ Use1(z) \in Int

\* So is what it counts.
LEMMA UseType == Control => UsesAreInt
<1> SUFFICES ASSUME Control, NEW z \in Zones
             PROVE  used_capacity_[z] \in Int /\ Uncounted(z) \in Nat /\ Use1(z) \in Int
  BY DEF UsesAreInt
<1>1. writer \in Writer /\ used_capacity_[z] \in Int
  BY DEF Control, Types
<1>2. writer.added \in Nat
  BY <1>1 DEF Writer
<1>3. Uncounted(z) \in Nat
  BY <1>2 DEF Uncounted
<1> QED
  BY <1>1, <1>3 DEF Use1

\* In the next state too.
LEMMA UseTypeNext == Control' => UsesAreInt'
BY UseType, PTL

\* The extent that is not counted yet stays one, or there is none.
LEMMA UncountedKept ==
  ASSUME writer.added' = writer.added, writer.added = 0 \/ writer.zone' = writer.zone
  PROVE  Uncounting
BY DEF Uncounted, Uncounting

\* A step that changes the count by what it changes in the lists
LEMMA CapacityKept ==
  ASSUME Control, Control', Capacity, errors' = errors,
         \A z \in Zones : Use1(z)' - Use1(z) = Sum1(z)' - Sum1(z)
  PROVE  Capacity'
<1> SUFFICES ASSUME NEW z \in Zones
             PROVE  Use1(z)' >= Sum1(z)' /\ (errors' = 0 => Use1(z)' = Sum1(z)')
  BY DEF Capacity, Sum1, Use1
<1>1. Use1(z) \in Int /\ Use1(z)' \in Int /\ Sum1(z) \in Nat
  BY CountedFinite, UseType, UseTypeNext DEF UsesAreInt
<1>2. Sum1(z)' \in Nat
  BY SumTypeNext DEF SumsAreNat
<1>3. Use1(z) >= Sum1(z) /\ (errors = 0 => Use1(z) = Sum1(z))
  BY DEF Capacity, Sum1, Use1
<1> QED
  BY <1>1, <1>2, <1>3

\* The same where what is not counted yet stays
LEMMA CapacityMoved ==
  ASSUME Control, Control', Capacity, errors' = errors, Uncounting,
         \A z \in Zones : used_capacity_'[z] - used_capacity_[z] = Sum1(z)' - Sum1(z)
  PROVE  Capacity'
<1>1. ASSUME NEW z \in Zones PROVE Use1(z)' - Use1(z) = Sum1(z)' - Sum1(z)
  <2>1. used_capacity_[z] \in Int /\ used_capacity_'[z] \in Int /\ Uncounted(z) \in Nat
    BY UseType, UseTypeNext DEF UsesAreInt
  <2>2. Use1(z) = used_capacity_[z] + Uncounted(z) /\ Use1(z)' = used_capacity_'[z] + Uncounted(z)
    BY DEF Use1, Uncounting
  <2>3. used_capacity_'[z] - used_capacity_[z] = Sum1(z)' - Sum1(z)
    OBVIOUS
  <2> QED
    BY <2>1, <2>2, <2>3
<1> QED
  BY <1>1, CapacityKept

\* The steps that leave the lists and the count alone
LEMMA CapacityFrame ==
  ASSUME Control, Control', Capacity, errors' = errors, UNCHANGED <<used_capacity_, extents_>>,
         \A z \in Zones : Counted(z)' = Counted(z), Uncounting
  PROVE  Capacity'
<1>1. \A z \in Zones : Sum1(z)' = Sum1(z) /\ used_capacity_'[z] = used_capacity_[z]
  BY DEF Sum1
<1>2. \A z \in Zones : Sum1(z) \in Int /\ used_capacity_[z] \in Int
  BY CountedFinite DEF Control, Types
<1> QED
  BY <1>1, <1>2, CapacityMoved

\* What is counted beside the lists, at the places of the collector
LEMMA CountedAt ==
  ASSUME NEW z
  PROVE  /\ gc.pc \in Moving => Counted(z) = Moved(z, gc.list, extents_[gc.id])
         /\ gc.pc \in Swapped => Counted(z) = Moved(z, gc.old, gc.list)
         /\ gc.pc \notin Moving \cup Swapped => Counted(z) = {}
BY DEF Counted, Moving, Swapped

\* The same for the next state.
LEMMA CountedThen ==
  ASSUME NEW z
  PROVE  /\ gc'.pc \in Moving => Counted(z)' = Moved(z, gc'.list, extents_'[gc'.id])
         /\ gc'.pc \in Swapped => Counted(z)' = Moved(z, gc'.old, gc'.list)
         /\ gc'.pc \notin Moving \cup Swapped => Counted(z)' = {}
BY DEF Counted, Moving, Swapped

\* The list of a file is emptied and its slots are taken from the count.
LEMMA CapacityClear ==
  ASSUME Control, Control', Capacity, errors' = errors, NEW id \in Ids, ClearExtents(id),
         extents_' = [extents_ EXCEPT ![id] = <<>>],
         \A z \in Zones : Counted(z)' = Counted(z), Uncounting
  PROVE  Capacity'
<1>1. extents_ \in [Ids -> Seq(Extent)] /\ <<>> \in Seq(Extent)
  BY DEF Control, Types
<1>n. extents_'[id] = <<>> /\ Exchanged(extents_, extents_', id)
  BY <1>1 DEF Exchanged
<1>2. ASSUME NEW z \in Zones
      PROVE  used_capacity_'[z] - used_capacity_[z] = Sum1(z)' - Sum1(z)
  <2>1. Used(z, extents_') = Used(z, extents_) - LengthIn(z, extents_[id]) + LengthIn(z, <<>>)
    <3>1. UsedStep(z, id)
      BY <1>n, UsedChanges
    <3> QED
      BY <1>n, <3>1 DEF UsedStep
  <2>2. LengthIn(z, <<>>) = 0 /\ LengthIn(z, extents_[id]) \in Nat
    BY <1>1, EmptyLength, SlotsFinite
  <2>3. used_capacity_'[z] = used_capacity_[z] - LengthIn(z, extents_[id])
    BY DEF ClearExtents
  <2>4. used_capacity_[z] \in Int /\ Used(z, extents_) \in Nat /\ Cardinality(Counted(z)) \in Nat
    BY CountedFinite DEF Control, Types
  <2>5. Sum1(z)' = Used(z, extents_') + Cardinality(Counted(z))
    BY DEF Sum1
  <2>6. Sum1(z) = Used(z, extents_) + Cardinality(Counted(z))
    BY DEF Sum1
  <2> QED
    BY <2>1, <2>2, <2>3, <2>4, <2>5, <2>6
<1> QED
  BY <1>2, CapacityMoved

\* The collector counts what it copies, and takes back what it gives up.
LEMMA CapacityCollect ==
  ASSUME Control, Control', Capacity, Ranges, Collect
  PROVE  Capacity'
<1> USE DEF device, namespace, metadata, lists, locks, faults
<1>0. Types /\ gc \in Collector /\ WRLocks /\ Lists
  BY DEF Control, Types
<1>w. UNCHANGED writer
  BY Zenon DEF Collect, GCWorker, GetZenFSSnapshot, TryAcquireWRLock, MigrateGetFile,
       TakeMigrateZone, LeaveExtent, MigrateData, MigrateDataError, ExtentMigrated, FileGone,
       WriteLock, ReplaceExtentList, MetadataUnsynced, SyncFileMetadata, SyncFileExtentsDone,
       ReleaseWRLock, MigrateResets
<1>u. Uncounting
  BY <1>w, UncountedKept
<1>e. extents_ \in [Ids -> Seq(Extent)] /\ gc.list \in Seq(Extent) /\ gc.old \in Seq(Extent)
  BY <1>0 DEF Types, Collector
<1>f. ASSUME NEW z \in Zones
      PROVE  /\ used_capacity_[z] \in Int /\ Sum1(z) \in Nat /\ Cardinality(Counted(z)) \in Nat
             /\ Used(z, extents_) \in Nat
  BY <1>0, CountedFinite DEF Types
<1>s. ASSUME NEW fname, gc' = Skip(fname) PROVE gc'.pc = "reset"
  BY <1>0, <1>s, SkipType
<1>1. CASE GCWorker \/ GetZenFSSnapshot \/ (\E n \in Names : MigrateGetFile(n)) \/ MigrateResets
  <2>1. gc.pc \notin Moving \cup Swapped
    BY Zenon, <1>1 DEF GCWorker, GetZenFSSnapshot, MigrateGetFile, MigrateResets, Moving, Swapped
  <2>2. gc'.pc \in {"idle", "files", "next", "reset", "wrlock"}
    <3>1. CASE GCWorker
      BY <1>0, <3>1 DEF GCWorker, Collector
    <3>2. CASE GetZenFSSnapshot
      <4>1. gc' = NoGC \/ \E todo : gc' = [NoGC EXCEPT !.pc = "next", !.todo = todo]
        BY Zenon, <3>2 DEF GetZenFSSnapshot
      <4>2. ASSUME NEW todo, gc' = [NoGC EXCEPT !.pc = "next", !.todo = todo]
            PROVE  gc'.pc = "next"
        BY <4>2 DEF NoGC
      <4>3. CASE gc' = NoGC
        BY <4>3 DEF NoGC
      <4> QED
        BY Zenon, <4>1, <4>2, <4>3
    <3>3. ASSUME NEW n \in Names, MigrateGetFile(n) PROVE gc'.pc \in {"reset", "wrlock"}
      BY <1>0, <1>s, <3>3 DEF MigrateGetFile, Collector
    <3>4. CASE MigrateResets
      BY <1>0, <3>4 DEF MigrateResets, NoGC, Collector
    <3> QED
      BY <1>1, <3>1, <3>2, <3>3, <3>4
  <2>3. UNCHANGED <<used_capacity_, extents_, errors>>
    BY Zenon, <1>1 DEF GCWorker, GetZenFSSnapshot, MigrateGetFile, MigrateResets
  <2>4. gc'.pc \notin Moving \cup Swapped
    BY <2>2 DEF Moving, Swapped
  <2>5. \A z \in Zones : Counted(z)' = Counted(z)
    BY <2>1, <2>4, CountedAt, CountedThen
  <2> QED
    BY <2>3, <2>5, <1>u, CapacityFrame
<1>2. CASE TryAcquireWRLock \/ ReleaseWRLock
  <2>1. /\ gc.pc \in {"wrlock", "release"} /\ UNCHANGED errors
        /\ \/ Drop(gc.id) /\ gc' = Skip(gc.fname)
           \/ /\ gc' = [gc EXCEPT !.pc = "extent", !.list = extents_[gc.id], !.i = 1]
              /\ UNCHANGED <<used_capacity_, extents_>>
    BY <1>2 DEF TryAcquireWRLock, ReleaseWRLock
  <2>2. gc.id \in Ids
    BY <1>0, <2>1, HeldFile DEF Holding
  <2>3. \A z \in Zones : Counted(z) = {}
    BY <2>1, CountedAt DEF Moving, Swapped
  <2>4. CASE Drop(gc.id) /\ gc' = Skip(gc.fname)
    <3>1. gc'.pc = "reset"
      BY <1>s, <2>4
    <3>2. \A z \in Zones : Counted(z)' = Counted(z)
      BY <2>3, <3>1, CountedThen DEF Moving, Swapped
    <3>3. CASE is_deleted_[gc.id]
      BY <2>1, <2>2, <2>4, <3>2, <3>3, <1>u, CapacityClear DEF Drop
    <3>4. CASE ~is_deleted_[gc.id]
      BY <2>1, <2>4, <3>2, <3>4, <1>u, CapacityFrame DEF Drop
    <3> QED
      BY <3>3, <3>4
  <2>5. CASE /\ gc' = [gc EXCEPT !.pc = "extent", !.list = extents_[gc.id], !.i = 1]
             /\ UNCHANGED <<used_capacity_, extents_>>
    <3>1. gc'.pc = "extent" /\ gc'.list = extents_[gc.id] /\ gc'.id = gc.id
      BY <1>0, <2>5 DEF Collector
    <3>2. \A z \in Zones : Counted(z)' = Moved(z, extents_[gc.id], extents_[gc.id])
      BY <2>5, <3>1, CountedThen DEF Moving
    <3>3. \A z \in Zones : Counted(z)' = Counted(z)
      BY <2>3, <3>2, MovedNone
    <3> QED
      BY <2>1, <2>5, <3>3, <1>u, CapacityFrame
  <2> QED
    BY <2>1, <2>4, <2>5
<1>3. CASE (\E z \in Zones : TakeMigrateZone(z)) \/ LeaveExtent \/ MigrateData \/ FileGone
            \/ WriteLock
  <2>1. /\ gc.pc \in Moving /\ gc'.pc \in Moving /\ gc'.list = gc.list /\ gc'.id = gc.id
    <3>1. ASSUME NEW z \in Zones, TakeMigrateZone(z)
          PROVE  gc.pc = "extent" /\ gc' = [gc EXCEPT !.pc = "copy", !.target = z, !.start = Len(data[z])]
      BY <3>1 DEF TakeMigrateZone
    <3>2. CASE LeaveExtent
      BY <1>0, <3>2 DEF LeaveExtent, Moving, Collector
    <3>3. CASE MigrateData
      BY <1>0, <3>3 DEF MigrateData, Moving, Collector
    <3>4. CASE FileGone
      BY <1>0, <3>4 DEF FileGone, Moving, Collector
    <3>5. CASE WriteLock
      BY <1>0, <3>5 DEF WriteLock, Moving, Collector
    <3>6. ASSUME NEW z \in Zones, TakeMigrateZone(z)
          PROVE  gc.pc \in Moving /\ gc'.pc \in Moving /\ gc'.list = gc.list /\ gc'.id = gc.id
      BY Zenon, <1>0, <3>1, <3>6 DEF Moving, Collector
    <3> QED
      BY <1>3, <3>2, <3>3, <3>4, <3>5, <3>6
  <2>2. UNCHANGED <<used_capacity_, extents_, errors>>
    BY Zenon, <1>3 DEF TakeMigrateZone, LeaveExtent, MigrateData, FileGone, WriteLock
  <2>3. \A z \in Zones : Counted(z)' = Counted(z)
    BY <2>1, <2>2, CountedAt, CountedThen
  <2> QED
    BY <2>2, <2>3, <1>u, CapacityFrame
<1>4. CASE ExtentMigrated
  <2> DEFINE e == gc.list[gc.i]
             f == [e EXCEPT !.zone = gc.target, !.start = gc.start]
             old == extents_[gc.id]
  <2>1. /\ gc.pc = "check" /\ UNCHANGED <<extents_, errors>>
        /\ used_capacity_' = [used_capacity_ EXCEPT ![gc.target] = @ + e.length]
    BY <1>4 DEF ExtentMigrated
  <2>2. gc.i \in DOMAIN gc.list /\ e \in Extent /\ gc.target \in Zones /\ gc.id \in Ids
        /\ e = old[gc.i]
    <3>1. gc.i \in DOMAIN gc.list /\ gc.target \in Zones /\ gc.id \in Ids
      BY <1>0, <2>1, HeldFile DEF Lists, WRLocks, Holding
    <3>2. gc.i >= gc.i
      BY <1>0 DEF Collector
    <3> QED
      BY <1>0, <1>e, <2>1, <3>1, <3>2 DEF Lists
  <2>3. Len(data[gc.target]) \in Nat /\ Len(data[gc.target]) <= ZoneCap /\ e.length \in Nat
        /\ e.length >= 1 /\ e.start \in Nat
    <3>1. Len(data[gc.target]) \in Nat /\ Len(data[gc.target]) <= ZoneCap
      BY <1>0, <2>2 DEF Types
    <3>2. e.length \in Nat /\ e.length >= 1 /\ e.start \in Nat
      BY <2>2 DEF Extent
    <3> QED
      BY <3>1, <3>2
  <2>4. f \in Extent /\ f.length = e.length /\ f.zone = gc.target
        /\ f.start = gc.start
    <3>1. gc.start \in 0..ZoneCap
      BY <1>0 DEF Collector
    <3> QED
      BY <2>2, <3>1 DEF Extent
  <2>5. gc'.pc = "extent" /\ gc'.id = gc.id /\ gc'.list = [gc.list EXCEPT ![gc.i] = f]
    BY <1>0, <1>4 DEF ExtentMigrated, Collector
  <2>6. errors = 0 => f # e
    <3>1. CASE errors = 0 /\ e.zone = gc.target
      <4>1. e.start + 2 * e.length <= Len(data[gc.target])
        BY <2>1, <3>1 DEF Ranges
      <4>2. e.start # gc.start
        <5> DEFINE n == Len(data[gc.target])
                   m == e.length
                   s == e.start
                   t == gc.start
        <5>1. n \in Nat /\ m \in Nat /\ m >= 1 /\ s \in Nat /\ s + 2 * m <= n
          BY <2>3, <4>1
        <5>2. t \in Nat
          BY <1>0 DEF Collector
        <5>3. gc.id \notin uncopied
          BY <3>1 DEF Control, Mutex
        <5>4. t + m = n
          BY <1>0, <2>1, <5>3 DEF Lists
        <5> HIDE DEF n, m, s, t
        <5>5. s # t
          BY <5>1, <5>2, <5>4
        <5> QED
          BY <5>5 DEF s, t
      <4> QED
        BY <2>4, <4>2
    <3>2. CASE e.zone # gc.target
      BY <2>4, <3>2
    <3> QED
      BY <3>1, <3>2
  <2> HIDE DEF e, f, old
  <2>7. ASSUME NEW z \in Zones
        PROVE  /\ Sum1(z)' = Sum1(z) + IF z = gc.target /\ f # e THEN e.length ELSE 0
               /\ used_capacity_'[z] = used_capacity_[z] + IF z = gc.target THEN e.length ELSE 0
    <3>1. Counted(z) = Moved(z, gc.list, old)
      BY <2>1, CountedAt DEF Moving, old
    <3>2. Counted(z)' = Moved(z, [gc.list EXCEPT ![gc.i] = f], old)
      BY <2>1, <2>5, CountedThen DEF Moving, old
    <3>3. Cardinality(Moved(z, [gc.list EXCEPT ![gc.i] = f], old)) =
            Cardinality(Moved(z, gc.list, old)) + IF f.zone = z /\ f # old[gc.i] THEN f.length ELSE 0
      <4>1. gc.list[gc.i] = old[gc.i]
        BY <2>2 DEF e
      <4> DEFINE list == gc.list
                 i == gc.i
      <4>2. list \in Seq(Extent) /\ i \in DOMAIN list /\ f \in Extent /\ list[i] = old[i]
        BY <1>e, <2>2, <2>4, <4>1
      <4> HIDE DEF list, i
      <4>3. Cardinality(Moved(z, [list EXCEPT ![i] = f], old)) =
              Cardinality(Moved(z, list, old)) + IF f.zone = z /\ f # old[i] THEN f.length ELSE 0
        BY <4>2, MovedMore
      <4> QED
        BY <4>3 DEF list, i
    <3>4. Cardinality(Counted(z)') =
            Cardinality(Counted(z)) + IF z = gc.target /\ f # e THEN e.length ELSE 0
      BY <2>2, <2>4, <3>1, <3>2, <3>3
    <3>5. Sum1(z)' = Used(z, extents_) + Cardinality(Counted(z)')
          /\ Sum1(z) = Used(z, extents_) + Cardinality(Counted(z))
      BY <2>1 DEF Sum1
    <3>6. used_capacity_'[z] = used_capacity_[z] + IF z = gc.target THEN e.length ELSE 0
      BY <1>0, <1>f, <2>1 DEF Types
    <3> QED
      BY <1>f, <2>3, <3>4, <3>5, <3>6
  <2> QED
    <3> SUFFICES ASSUME NEW z \in Zones
                 PROVE  /\ Use1(z)' >= Sum1(z)'
                        /\ errors' = 0 => Use1(z)' = Sum1(z)'
      BY DEF Capacity, Sum1, Use1
    <3>1. Use1(z) >= Sum1(z) /\ (errors = 0 => Use1(z) = Sum1(z))
      BY DEF Capacity, Sum1, Use1
    <3>2. used_capacity_[z] \in Int /\ Sum1(z) \in Int /\ Uncounted(z) \in Nat
      BY <1>f, UseType DEF UsesAreInt
    <3>3. errors' = errors
      BY <2>1
    <3>4. Use1(z) = used_capacity_[z] + Uncounted(z) /\ Use1(z)' = used_capacity_'[z] + Uncounted(z)
      BY <1>u DEF Use1, Uncounting
    <3> QED
      BY <2>3, <2>6, <2>7, <3>1, <3>2, <3>3, <3>4
<1>5. CASE ReplaceExtentList
  <2> DEFINE old == extents_[gc.id]
  <2>1. /\ gc.pc = "replace" /\ extents_' = [extents_ EXCEPT ![gc.id] = gc.list]
        /\ UNCHANGED <<used_capacity_, errors>>
    BY <1>5 DEF ReplaceExtentList
  <2>2. gc.id \in Ids /\ Len(gc.list) = Len(old) /\ old \in Seq(Extent)
    BY <1>0, <1>e, <2>1, HeldFile DEF Lists, Moving, SameLengths, Holding
  <2>3. gc'.pc = "unsync" /\ gc'.list = gc.list /\ gc'.old = old
    BY <1>0, <1>5 DEF ReplaceExtentList, Collector
  <2> HIDE DEF old
  <2>4. ASSUME NEW z \in Zones
        PROVE  used_capacity_'[z] - used_capacity_[z] = Sum1(z)' - Sum1(z)
    <3>1. Counted(z) = Moved(z, gc.list, old)
      BY <2>1, CountedAt DEF Moving, old
    <3>2. Counted(z)' = Moved(z, old, gc.list)
      BY <2>3, CountedThen DEF Swapped
    <3>3. LengthIn(z, gc.list) + Cardinality(Moved(z, old, gc.list))
            = LengthIn(z, old) + Cardinality(Moved(z, gc.list, old))
      BY <1>e, <2>2, MovedSwap
    <3>4. Used(z, extents_') = Used(z, extents_) - LengthIn(z, old) + LengthIn(z, gc.list)
      <4>1. extents_'[gc.id] = gc.list /\ Exchanged(extents_, extents_', gc.id)
        BY <1>e, <2>1, <2>2 DEF Exchanged
      <4>2. UsedStep(z, gc.id)
        BY <4>1, UsedChanges
      <4> QED
        BY <4>1, <4>2 DEF old, UsedStep
    <3>5. /\ LengthIn(z, old) \in Nat /\ LengthIn(z, gc.list) \in Nat
          /\ Cardinality(Moved(z, old, gc.list)) \in Nat
          /\ Cardinality(Moved(z, gc.list, old)) \in Nat
      BY <1>e, <2>2, SlotsFinite, MovedFinite
    <3>6. Sum1(z)' = Used(z, extents_') + Cardinality(Moved(z, old, gc.list))
      BY <3>2 DEF Sum1
    <3>7. Sum1(z) = Used(z, extents_) + Cardinality(Moved(z, gc.list, old))
      BY <3>1 DEF Sum1
    <3>8. used_capacity_'[z] = used_capacity_[z] /\ used_capacity_[z] \in Int
          /\ Used(z, extents_) \in Nat
      BY <1>f, <2>1
    <3> QED
      BY <3>3, <3>4, <3>5, <3>6, <3>7, <3>8
  <2> QED
    BY <2>1, <2>4, <1>u, CapacityMoved
<1>6. CASE MetadataUnsynced
  <2>1. gc.pc \in Swapped /\ gc'.pc \in Swapped /\ gc'.list = gc.list /\ gc'.old = gc.old
    BY <1>0, <1>6 DEF MetadataUnsynced, Swapped, Collector
  <2>2. UNCHANGED <<used_capacity_, extents_, errors>>
    BY <1>6 DEF MetadataUnsynced
  <2>3. \A z \in Zones : Counted(z)' = Counted(z)
    BY <2>1, <2>2, CountedAt, CountedThen
  <2> QED
    BY <2>2, <2>3, <1>u, CapacityFrame
<1>7. CASE SyncFileMetadata
  <2>1. gc.pc = "sync" /\ UNCHANGED <<used_capacity_, extents_>>
    BY <1>7 DEF SyncFileMetadata
  <2>2. gc.id \in Ids
    BY <1>0, <2>1, HeldFile DEF Holding
  <2>3. \A z \in Zones : Counted(z) = Moved(z, gc.old, gc.list)
    BY <2>1, CountedAt DEF Swapped
  <2>4. CASE gc'.pc = "clear" /\ UNCHANGED errors
    <3>1. gc'.list = gc.list /\ gc'.old = gc.old
      BY <1>0, <1>7, <2>2, SyncEffect
    <3>2. \A z \in Zones : Counted(z)' = Counted(z)
      BY <2>3, <2>4, <3>1, CountedThen DEF Swapped
    <3> QED
      BY <2>1, <2>4, <3>2, <1>u, CapacityFrame
  <2>5. CASE gc'.pc = "release" /\ errors' = errors + 1
    <3> SUFFICES ASSUME NEW z \in Zones
                 PROVE  /\ Use1(z)' >= Sum1(z)'
                        /\ errors' = 0 => Use1(z)' = Sum1(z)'
      BY DEF Capacity, Sum1, Use1
    <3>1. Counted(z)' = {}
      BY <2>5, CountedThen DEF Moving, Swapped
    <3>2. Sum1(z)' = Used(z, extents_) + 0
      BY <2>1, <3>1, FS_EmptySet DEF Sum1
    <3>3. Sum1(z) = Used(z, extents_) + Cardinality(Counted(z))
      BY DEF Sum1
    <3>4. Use1(z) >= Sum1(z) /\ Use1(z) \in Int
      BY UseType DEF Capacity, Sum1, Use1, UsesAreInt
    <3>5. errors \in Nat
      BY <1>0 DEF Types
    <3>6. Use1(z)' = Use1(z)
      BY <1>u, <2>1 DEF Use1, Uncounting
    <3> QED
      BY <1>f, <2>5, <3>2, <3>3, <3>4, <3>5, <3>6
  <2> QED
    BY <1>0, <1>7, <2>2, <2>4, <2>5, SyncEffect
<1>8. CASE SyncFileExtentsDone
  <2>1. /\ gc.pc = "clear" /\ UNCHANGED <<extents_, errors>>
        /\ \A z \in Zones : used_capacity_'[z] =
             used_capacity_[z] - Cardinality(Moved(z, gc.old, gc.list))
    BY <1>8 DEF SyncFileExtentsDone
  <2>2. gc'.pc = "release"
    BY <1>0, <1>8 DEF SyncFileExtentsDone, Collector
  <2>3. ASSUME NEW z \in Zones
        PROVE  used_capacity_'[z] - used_capacity_[z] = Sum1(z)' - Sum1(z)
    <3>1. Counted(z) = Moved(z, gc.old, gc.list) /\ Counted(z)' = {}
      BY <2>1, <2>2, CountedAt, CountedThen DEF Moving, Swapped
    <3>2. Sum1(z)' = Used(z, extents_) + 0
      BY <2>1, <3>1, FS_EmptySet DEF Sum1
    <3>3. Sum1(z) = Used(z, extents_) + Cardinality(Counted(z))
      BY DEF Sum1
    <3>4. used_capacity_'[z] = used_capacity_[z] - Cardinality(Counted(z))
      BY <2>1, <3>1
    <3> QED
      BY <1>f, <3>2, <3>3, <3>4
  <2> QED
    BY <2>1, <2>3, <1>u, CapacityMoved
<1>9. CASE MigrateDataError
  <2>1. /\ gc.pc \in Moving /\ gc'.pc \in Moving /\ gc'.list = gc.list /\ gc'.id = gc.id
    BY <1>0, <1>9 DEF MigrateDataError, Moving, Collector
  <2>2. UNCHANGED <<used_capacity_, extents_>> /\ errors' = errors + 1
    BY <1>9 DEF MigrateDataError, Refused
  <2>3. \A z \in Zones : Counted(z)' = Counted(z)
    BY <2>1, <2>2, CountedAt, CountedThen
  <2> SUFFICES ASSUME NEW z \in Zones
               PROVE  /\ Use1(z)' >= Sum1(z)'
                      /\ errors' = 0 => Use1(z)' = Sum1(z)'
    BY DEF Capacity, Sum1, Use1
  <2>4. Use1(z)' = Use1(z) /\ Sum1(z)' = Sum1(z)
    BY <1>u, <2>2, <2>3 DEF Use1, Sum1, Uncounting
  <2>5. Use1(z) >= Sum1(z)
    BY DEF Capacity, Sum1, Use1
  <2>6. errors \in Nat
    BY <1>0 DEF Types
  <2> QED
    BY <2>2, <2>4, <2>5, <2>6
<1> QED
  BY <1>1, <1>2, <1>3, <1>4, <1>5, <1>6, <1>7, <1>8, <1>9 DEF Collect

\* The zones are counted as the lists and the collector's work say.
LEMMA CapacityNext ==
  ASSUME Control, Control', Capacity, Ranges, Next
  PROVE  Capacity'
<1> USE DEF device, namespace, metadata, lists, locks, faults
<1>0. Types /\ WRLocks
  BY DEF Control, Types
<1>e. extents_ \in [Ids -> Seq(Extent)]
  BY <1>0 DEF Types
<1>g. gc.pc \in Moving \cup Swapped => gc.id \in Ids /\ gc.id # writer.id
  BY <1>0, HeldFile DEF WRLocks, Moving, Swapped, Locking, Holding
<1>w. writer \in Writer /\ Active
  BY DEF Control, Types
<1>c. ASSUME UNCHANGED gc, gc.pc \in Moving \cup Swapped => extents_'[gc.id] = extents_[gc.id]
      PROVE  \A z \in Zones : Counted(z)' = Counted(z)
  BY <1>c, CountedAt, CountedThen
<1>1. CASE \/ \E n \in Names : OpenWritableFile(n) \/ ReopenWritableFile(n)
           \/ \E z \in Zones : AllocateNewZone(z)
           \/ MetadataSynced \/ CloseWR \/ CloseWRDone \/ CloseActiveZone \/ ResetUnused
           \/ \E src \in TempNames, dst \in Names \ TempNames : RenameFile(src, dst)
           \/ \E r \in Readers, n \in Names : PositionedRead(r, n)
           \/ \E r \in Readers : GoOnReading(r)
  <2>1. UNCHANGED <<used_capacity_, extents_, gc, errors>>
    BY Zenon, <1>1 DEF OpenWritableFile, ReopenWritableFile, AllocateNewZone, MetadataSynced,
         CloseWR, CloseWRDone, CloseActiveZone, ResetUnused, RenameFile, PositionedRead, GoOnReading, ReadLock,
         ReadNextExtent, ReadDevice
  <2>2. Uncounting
    <3>1. CASE \E n \in Names : OpenWritableFile(n) \/ ReopenWritableFile(n)
      BY <3>1, UncountedKept DEF OpenWritableFile, ReopenWritableFile, NoWriter
    <3>2. CASE \E z \in Zones : AllocateNewZone(z)
      <4>1. writer.zone = NoZone /\ writer'.added = writer.added
        BY <1>w, <3>2 DEF AllocateNewZone, Writer
      <4>2. writer.added = 0
        BY <1>w, <4>1 DEF Active, Writer
      <4> QED
        BY <4>1, <4>2, UncountedKept
    <3>3. CASE CloseWRDone
      BY <1>w, <3>3, UncountedKept DEF CloseWRDone, Writer
    <3>4. CASE CloseActiveZone
      <4>1. writer.id = NoFile /\ writer'.added = 0
        BY <3>4 DEF CloseActiveZone, NoWriter
      <4>2. writer.added = 0
        BY <1>w, <4>1 DEF Active, Writer
      <4> QED
        BY <4>1, <4>2, UncountedKept
    <3>5. CASE UNCHANGED writer
      BY <3>5, UncountedKept
    <3> QED
      BY Zenon, <1>1, <3>1, <3>2, <3>3, <3>4, <3>5 DEF MetadataSynced, CloseWR, ResetUnused,
           RenameFile, PositionedRead, GoOnReading, ReadLock, ReadNextExtent, ReadDevice
  <2> QED
    BY <1>c, <2>1, <2>2, CapacityFrame
<1>2. ASSUME NEW n \in Names, DeleteFile(n) PROVE Capacity'
  <2> DEFINE id == files_[n]
  <2>1. id \in Ids /\ UNCHANGED <<gc, errors, writer>>
    BY <1>0, <1>2 DEF DeleteFile, Types
  <2>u. Uncounting
    BY <2>1, UncountedKept
  <2>2. CASE Held(id)
    <3>1. UNCHANGED <<used_capacity_, extents_>>
      BY <1>2, <2>2 DEF DeleteFile
    <3> QED
      BY <1>c, <2>1, <2>u, <3>1, CapacityFrame
  <2>3. CASE ~Held(id)
    <3>1. ClearExtents(id) /\ extents_' = [extents_ EXCEPT ![id] = <<>>]
      BY <1>2, <2>3 DEF DeleteFile
    <3>2. gc.pc \in Moving \cup Swapped => extents_'[gc.id] = extents_[gc.id]
      BY <1>e, <1>g, <2>3, <3>1 DEF Held
    <3> QED
      BY <1>c, <2>1, <2>u, <3>1, <3>2, CapacityClear
  <2> QED
    BY <2>2, <2>3
<1>3. ASSUME NEW length \in Lengths, BufferedAppend(length) PROVE Capacity'
  <2> DEFINE id == writer.id
             y == writer.zone
             e == [zone |-> y, start |-> extent_start_[id].start, length |-> length]
  <2>1. /\ id \in Ids /\ y \in Zones /\ length \in 1..ZoneCap
        /\ extents_' = [extents_ EXCEPT ![id] = Append(extents_[id], e)]
        /\ UNCHANGED <<gc, errors, used_capacity_>>
    BY <1>0, <1>3, <1>w DEF BufferedAppend, Writer
  <2>w. writer.added = 0 /\ writer'.added = length /\ writer'.zone = y
    BY <1>3, <1>w DEF BufferedAppend, Writer
  <2>2. e \in Extent /\ e.zone = y /\ e.length = length
    <3>1. extent_start_[id] \in Start
      BY <1>0, <2>1 DEF Types
    <3>2. extent_start_[id].start \in 0..ZoneCap
      BY <3>1 DEF Start
    <3> QED
      BY <2>1, <3>2 DEF Extent
  <2> HIDE DEF e
  <2>3. Append(extents_[id], e) \in Seq(Extent)
    BY <1>e, <2>1, <2>2
  <2>4. \A z \in Zones : Counted(z)' = Counted(z)
    BY <1>c, <1>e, <1>g, <2>1
  <2>5. ASSUME NEW z \in Zones
        PROVE  Use1(z)' - Use1(z) = Sum1(z)' - Sum1(z)
    <3>1. Used(z, extents_') = Used(z, extents_) - LengthIn(z, extents_[id])
                                 + LengthIn(z, Append(extents_[id], e))
      <4>1. extents_'[id] = Append(extents_[id], e) /\ Exchanged(extents_, extents_', id)
        BY <1>e, <2>1, <2>3 DEF Exchanged
      <4>2. UsedStep(z, id)
        BY <4>1, UsedChanges
      <4> QED
        BY <4>1, <4>2 DEF UsedStep
    <3>2. LengthIn(z, Append(extents_[id], e)) =
            LengthIn(z, extents_[id]) + IF y = z THEN length ELSE 0
      BY <1>e, <2>1, <2>2, AppendLength
    <3>3. LengthIn(z, extents_[id]) \in Nat /\ Used(z, extents_) \in Nat
          /\ Cardinality(Counted(z)) \in Nat
      BY <1>e, <2>1, SlotsFinite, CountedFinite
    <3>4. used_capacity_[z] \in Int /\ length \in Nat
          /\ Use1(z) = used_capacity_[z]
          /\ Use1(z)' = used_capacity_[z] + IF y = z THEN length ELSE 0
      <4>1. used_capacity_[z] \in Int /\ length \in Nat
        BY <1>0, <2>1 DEF Types
      <4>2. Uncounted(z) = 0 /\ Uncounted(z)' = IF y = z THEN length ELSE 0
        BY <2>w DEF Uncounted
      <4> QED
        BY <2>1, <4>1, <4>2 DEF Use1
    <3>5. Sum1(z) = Used(z, extents_) + Cardinality(Counted(z))
      BY DEF Sum1
    <3>6. Sum1(z)' = Used(z, extents_') + Cardinality(Counted(z))
      BY <2>4 DEF Sum1
    <3> QED
      BY <3>1, <3>2, <3>3, <3>4, <3>5, <3>6
  <2> QED
    BY <2>1, <2>5, CapacityKept
<1>4. CASE Crash
  <2>1. /\ \A z \in Zones : used_capacity_'[z] = Used(z, extents_')
        /\ gc'.pc = "idle" /\ writer'.added = 0
    BY <1>4 DEF Crash, Mount, NoGC, NoWriter
  <2>2. \A z \in Zones : Cardinality(Counted(z))' = 0
    BY <2>1, CountedThen, FS_EmptySet DEF Moving, Swapped
  <2>3. \A z \in Zones : used_capacity_'[z] \in Int
    BY DEF Control, Types
  <2>4. \A z \in Zones : Uncounted(z)' = 0
    BY <2>1 DEF Uncounted
  <2> QED
    BY <2>1, <2>2, <2>3, <2>4 DEF Capacity
<1>5. CASE BufferedAppendDone
  <2> DEFINE y == writer.zone
             n == writer.added
  <2>1. /\ used_capacity_' = [used_capacity_ EXCEPT ![y] = @ + n] /\ n > 0
        /\ UNCHANGED <<gc, errors, extents_>> /\ writer'.added = 0
    BY <1>5, <1>w DEF BufferedAppendDone, Writer
  <2>2. n \in Nat /\ y \in Zones
    BY <1>w, <2>1 DEF Active, Writer
  <2> HIDE DEF n, y
  <2>3. \A z \in Zones : Counted(z)' = Counted(z)
    BY <1>c, <2>1
  <2>4. ASSUME NEW z \in Zones
        PROVE  Use1(z)' - Use1(z) = Sum1(z)' - Sum1(z)
    <3>1. Sum1(z)' = Sum1(z) /\ Sum1(z) \in Nat
      BY <2>1, <2>3, CountedFinite DEF Sum1
    <3>2. used_capacity_[z] \in Int
          /\ used_capacity_'[z] = used_capacity_[z] + IF z = y THEN n ELSE 0
      BY <1>0, <2>1, <2>2 DEF Types
    <3>3. Uncounted(z) = (IF z = y THEN n ELSE 0) /\ Uncounted(z)' = 0
      BY <2>1 DEF Uncounted, n, y
    <3>4. Use1(z)' = Use1(z) /\ Use1(z) \in Int
      BY <2>2, <3>2, <3>3 DEF Use1
    <3> QED
      BY <3>1, <3>4
  <2> QED
    BY <2>1, <2>4, CapacityKept
<1> QED
  BY <1>1, <1>2, <1>3, <1>4, <1>5, CapacityCollect DEF Next

-----------------------------------------------------------------------------
(***************************************************************************)
(* The slots of a list in front of an extent                               *)
(***************************************************************************)

InFront(list, i) == {s \in (1..(i - 1)) \X (1..ZoneCap) : s[2] <= list[s[1]].length}

\* The offset of an extent is the number of the bytes in front of it.
LEMMA InFrontFinite ==
  ASSUME NEW list, NEW i \in Nat
  PROVE  /\ IsFiniteSet(InFront(list, i)) /\ Before(list, i) = Cardinality(InFront(list, i))
         /\ Before(list, i) \in Nat
<1>1. IsFiniteSet(1..(i - 1)) /\ IsFiniteSet(1..ZoneCap)
  BY FS_Interval
<1>2. IsFiniteSet((1..(i - 1)) \X (1..ZoneCap))
  BY <1>1, FS_Product
<1>3. InFront(list, i) \in SUBSET ((1..(i - 1)) \X (1..ZoneCap))
  BY DEF InFront
<1>4. IsFiniteSet(InFront(list, i))
  BY <1>2, <1>3, FS_Subset
<1> QED
  BY <1>4, FS_CardinalityType DEF Before, InFront

\* Offsets depend on the lengths alone.
LEMMA BeforeSame ==
  ASSUME NEW one, NEW other, NEW i \in Nat, \A j \in 1..(i - 1) : one[j].length = other[j].length
  PROVE  Before(one, i) = Before(other, i)
<1>1. InFront(one, i) = InFront(other, i)
  BY DEF InFront
<1> QED
  BY <1>1, InFrontFinite

\* The first extent is at offset 0.
LEMMA BeforeFirst == ASSUME NEW list PROVE Before(list, 1) = 0
<1>1. InFront(list, 1) = {}
  <2>1. 1..(1 - 1) = {}
    OBVIOUS
  <2> QED
    BY <2>1 DEF InFront
<1> QED
  BY <1>1, InFrontFinite, FS_EmptySet

\* Offsets grow along the list.
LEMMA BeforeMonotone ==
  ASSUME NEW list, NEW i \in Nat, NEW j \in Nat, i <= j
  PROVE  Before(list, i) <= Before(list, j)
<1>1. InFront(list, i) \in SUBSET InFront(list, j)
  <2>1. 1..(i - 1) \subseteq 1..(j - 1)
    OBVIOUS
  <2> QED
    BY <2>1 DEF InFront
<1> QED
  BY <1>1, InFrontFinite, FS_Subset

\* An extent ends where the next one begins.
LEMMA BeforeStep ==
  ASSUME NEW list \in Seq(Extent), NEW j \in DOMAIN list
  PROVE  Before(list, j + 1) = Before(list, j) + list[j].length
<1> DEFINE n == list[j].length
           More == {j} \X (1..n)
<1>1. j \in Nat /\ j >= 1 /\ n \in Nat /\ n <= ZoneCap
  <2>1. list[j] \in Extent /\ j \in Nat /\ j >= 1
    OBVIOUS
  <2> QED
    BY <2>1 DEF Extent
<1> HIDE DEF n
<1>2. InFront(list, j + 1) = InFront(list, j) \cup More
  <2>1. \A i \in 1..j, k \in 1..ZoneCap :
          <<i, k>> \in InFront(list, j + 1) <=> <<i, k>> \in InFront(list, j) \/ <<i, k>> \in More
    <3> SUFFICES ASSUME NEW i \in 1..j, NEW k \in 1..ZoneCap
                 PROVE  <<i, k>> \in InFront(list, j + 1) <=>
                          <<i, k>> \in InFront(list, j) \/ <<i, k>> \in More
      BY Zenon
    <3>0. (j + 1) - 1 = j
      BY <1>1
    <3>1. <<i, k>> \in InFront(list, j + 1) <=> k <= list[i].length
      BY <3>0 DEF InFront
    <3>2. <<i, k>> \in InFront(list, j) <=> i \in 1..(j - 1) /\ k <= list[i].length
      BY DEF InFront
    <3>3. <<i, k>> \in More <=> i = j /\ k <= n
      BY <1>1
    <3>4. i = j \/ i \in 1..(j - 1)
      BY <1>1
    <3>5. j \notin 1..(j - 1)
      BY <1>1
    <3> QED
      BY <3>1, <3>2, <3>3, <3>4, <3>5 DEF n
  <2>2. InFront(list, j + 1) \subseteq (1..j) \X (1..ZoneCap)
    <3>1. (j + 1) - 1 = j
      BY <1>1
    <3> QED
      BY <3>1 DEF InFront
  <2>3. InFront(list, j) \subseteq (1..j) \X (1..ZoneCap)
    <3>1. 1..(j - 1) \subseteq 1..j
      BY <1>1
    <3> QED
      BY <3>1 DEF InFront
  <2>4. More \subseteq (1..j) \X (1..ZoneCap)
    <3>1. j \in 1..j /\ 1..n \subseteq 1..ZoneCap
      BY <1>1
    <3> QED
      BY <3>1
  <2> HIDE DEF More
  <2> QED
    BY <2>1, <2>2, <2>3, <2>4
<1>3. InFront(list, j) \cap More = {}
  <2>1. \A s \in InFront(list, j) : s[1] \in 1..(j - 1)
    BY DEF InFront
  <2>2. \A s \in More : s[1] = j
    OBVIOUS
  <2>3. j \notin 1..(j - 1)
    BY <1>1
  <2> QED
    BY <2>1, <2>2, <2>3
<1>4. IsFiniteSet(More) /\ Cardinality(More) = n
  BY <1>1, CardInterval, CardOne
<1> HIDE DEF More
<1>5. IsFiniteSet(InFront(list, j)) /\ Before(list, j) = Cardinality(InFront(list, j))
      /\ Before(list, j + 1) = Cardinality(InFront(list, j + 1))
  BY <1>1, InFrontFinite
<1>6. Cardinality(InFront(list, j + 1)) = Cardinality(InFront(list, j)) + Cardinality(More)
  BY <1>2, <1>3, <1>4, <1>5, CardUnion
<1> QED
  BY <1>4, <1>5, <1>6 DEF n

\* An empty list has length 0.
LEMMA TotalEmpty == Total(<<>>) = 0
BY BeforeFirst DEF Total

\* An extent at the end adds its length and moves no other.
LEMMA TotalAppend ==
  ASSUME NEW list \in Seq(Extent), NEW e \in Extent
  PROVE  /\ Total(Append(list, e)) = Total(list) + e.length
         /\ \A i \in 1..(Len(list) + 1) : Before(Append(list, e), i) = Before(list, i)
         /\ Total(list) \in Nat
<1> DEFINE new == Append(list, e)
           n == Len(list) + 1
<1>1. n \in Nat /\ n \in DOMAIN new /\ new[n] = e /\ Len(new) = n /\ new \in Seq(Extent)
  OBVIOUS
<1>2. ASSUME NEW i \in 1..n PROVE Before(new, i) = Before(list, i)
  <2>1. \A j \in 1..(i - 1) : new[j].length = list[j].length
    OBVIOUS
  <2>2. i \in Nat
    OBVIOUS
  <2> HIDE DEF new
  <2> QED
    BY <2>1, <2>2, BeforeSame
<1> HIDE DEF new
<1>3. Before(new, n + 1) = Before(new, n) + new[n].length
  BY <1>1, BeforeStep
<1>4. Before(new, n) = Before(list, n) /\ Before(list, n) \in Nat
  BY <1>1, <1>2, InFrontFinite
<1> QED
  BY <1>1, <1>2, <1>3, <1>4 DEF Total, new

\* Lists with the same lengths have the same offsets.
LEMMA TotalSame ==
  ASSUME NEW one \in Seq(Extent), NEW other \in Seq(Extent), SameLengths(one, other)
  PROVE  /\ Total(one) = Total(other)
         /\ \A i \in 1..(Len(one) + 1) : Before(one, i) = Before(other, i)
<1>1. ASSUME NEW i \in 1..(Len(one) + 1) PROVE Before(one, i) = Before(other, i)
  <2>1. i \in Nat /\ \A j \in 1..(i - 1) : j \in DOMAIN one
    OBVIOUS
  <2>2. \A j \in 1..(i - 1) : one[j].length = other[j].length
    BY <2>1 DEF SameLengths
  <2> QED
    BY <2>1, <2>2, BeforeSame
<1>2. Len(one) = Len(other) /\ Len(one) + 1 \in 1..(Len(one) + 1)
  BY DEF SameLengths
<1> QED
  BY <1>1, <1>2 DEF Total

-----------------------------------------------------------------------------
(***************************************************************************)
(* Lists that hold the data of a file                                      *)
(***************************************************************************)

\* A zone that is written on, or left alone
Longer(one, other) == \A k \in DOMAIN one : k \in DOMAIN other /\ other[k] = one[k]

\* A list keeps what it holds while its zones only grow.
LEMMA HoldsLonger ==
  ASSUME NEW d, NEW e, NEW id, NEW list, Holds(d, id, list),
         \A i \in DOMAIN list : Longer(d[list[i].zone], e[list[i].zone])
  PROVE  Holds(e, id, list)
BY DEF Holds, Longer

\* The empty list holds the data of an empty file.
LEMMA HoldsNothing == ASSUME NEW d, NEW id PROVE Holds(d, id, <<>>)
BY DEF Holds

\* A list holds what is appended behind its end.
LEMMA HoldsAppend ==
  ASSUME NEW d, NEW id, NEW list \in Seq(Extent), NEW e \in Extent, Holds(d, id, list),
         \A k \in 1..e.length : /\ e.start + k \in DOMAIN d[e.zone]
                                /\ d[e.zone][e.start + k] = <<id, Total(list) + k>>
  PROVE  Holds(d, id, Append(list, e))
<1> DEFINE new == Append(list, e)
           n == Len(list) + 1
<1>1. /\ DOMAIN new = DOMAIN list \cup {n} /\ new[n] = e /\ n \in 1..n
      /\ \A i \in DOMAIN list : new[i] = list[i] /\ i \in 1..n
  OBVIOUS
<1>2. \A i \in 1..n : Before(new, i) = Before(list, i)
  BY TotalAppend
<1> HIDE DEF new
<1>3. Before(new, n) = Total(list)
  BY <1>1, <1>2 DEF Total
<1> HIDE DEF n
<1>4. Holds(d, id, new)
  <2> SUFFICES ASSUME NEW i \in DOMAIN new, NEW k \in 1..new[i].length
               PROVE  /\ new[i].start + k \in DOMAIN d[new[i].zone]
                      /\ d[new[i].zone][new[i].start + k] = <<id, Before(new, i) + k>>
    BY DEF Holds
  <2>1. CASE i = n
    BY <1>1, <1>3, <2>1
  <2>2. CASE i \in DOMAIN list
    BY <1>1, <1>2, <2>2 DEF Holds
  <2> QED
    BY <1>1, <2>1, <2>2
<1> QED
  BY <1>4 DEF new

\* An extent may be exchanged for one with the same data.
LEMMA HoldsReplaced ==
  ASSUME NEW d, NEW id, NEW list \in Seq(Extent), NEW i \in DOMAIN list, NEW e \in Extent,
         e.length = list[i].length, Holds(d, id, list),
         \A k \in 1..e.length : /\ e.start + k \in DOMAIN d[e.zone]
                                /\ d[e.zone][e.start + k] = <<id, Before(list, i) + k>>
  PROVE  Holds(d, id, [list EXCEPT ![i] = e])
<1> DEFINE new == [list EXCEPT ![i] = e]
<1>1. /\ new \in Seq(Extent) /\ Len(new) = Len(list) /\ DOMAIN new = DOMAIN list /\ new[i] = e
      /\ \A j \in DOMAIN list : j # i => new[j] = list[j]
      /\ \A j \in DOMAIN list : j \in 1..(Len(new) + 1)
  OBVIOUS
<1> HIDE DEF new
<1>2. SameLengths(new, list)
  BY <1>1 DEF SameLengths
<1>3. \A j \in DOMAIN list : Before(new, j) = Before(list, j)
  BY <1>1, <1>2, TotalSame
<1>4. Holds(d, id, new)
  <2> SUFFICES ASSUME NEW j \in DOMAIN list, NEW k \in 1..new[j].length
               PROVE  /\ new[j].start + k \in DOMAIN d[new[j].zone]
                      /\ d[new[j].zone][new[j].start + k] = <<id, Before(new, j) + k>>
    BY <1>1 DEF Holds
  <2>1. CASE i = j
    BY <1>1, <1>3, <2>1
  <2>2. CASE i # j
    BY <1>1, <1>3, <2>2 DEF Holds
  <2> QED
    BY <2>1, <2>2
<1> QED
  BY <1>4 DEF new

\* A part of a list from the front holds the front of the file.
LEMMA HoldsPrefix ==
  ASSUME NEW d, NEW id, NEW list \in Seq(Extent), NEW n \in Nat, n <= Len(list),
         Holds(d, id, list)
  PROVE  Holds(d, id, SubSeq(list, 1, n))
<1> DEFINE new == SubSeq(list, 1, n)
<1>1. /\ DOMAIN new = 1..n /\ \A j \in 1..n : new[j] = list[j] /\ j \in DOMAIN list /\ j \in Nat
      /\ \A j \in 1..n : \A i \in 1..(j - 1) : i \in 1..n
  OBVIOUS
<1> HIDE DEF new
<1>2. \A j \in 1..n : Before(new, j) = Before(list, j)
  BY <1>1, BeforeSame
<1>3. Holds(d, id, new)
  BY <1>1, <1>2 DEF Holds
<1> QED
  BY <1>3 DEF new

-----------------------------------------------------------------------------
(***************************************************************************)
(* The zones in use                                                        *)
(***************************************************************************)

\* A zone that no scan resets
InUse(z) == used_capacity_[z] > 0 \/ busy_[z]

\* A zone that one of the lists points into is in use.
LEMMA ZoneInUse ==
  ASSUME Control, Capacity
  PROVE  /\ \A id \in Ids : \A i \in DOMAIN extents_[id] :
              extents_[id][i].zone \in Zones /\ InUse(extents_[id][i].zone)
         /\ gc.pc \in Moving => \A i \in DOMAIN gc.list :
              gc.list[i].zone \in Zones /\ InUse(gc.list[i].zone)
         /\ gc.pc \in Swapped => \A i \in DOMAIN gc.old :
              gc.old[i].zone \in Zones /\ InUse(gc.old[i].zone)
<1>1. /\ gc.list \in Seq(Extent) /\ gc.old \in Seq(Extent)
      /\ extents_ \in [Ids -> Seq(Extent)] /\ used_capacity_ \in [Zones -> Int]
  BY DEF Control, Types, Collector
<1>2. ASSUME NEW z \in Zones
      PROVE  /\ Use1(z) >= Used(z, extents_) + Cardinality(Counted(z))
             /\ Use1(z) \in Int /\ Used(z, extents_) \in Nat
             /\ IsFiniteSet(Counted(z)) /\ Cardinality(Counted(z)) \in Nat
  BY <1>1, CountedFinite, UseType DEF Capacity, Use1, UsesAreInt
<1>u. ASSUME NEW z \in Zones, Use1(z) > 0 PROVE InUse(z)
  <2>1. CASE Uncounted(z) = 0
    BY <1>1, <1>u, <2>1 DEF Use1, InUse
  <2>2. CASE Uncounted(z) # 0
    <3>1. writer.zone = z /\ busy_[writer.zone]
      BY <2>2, Zeros DEF Uncounted, Control, WRLocks
    <3> QED
      BY <3>1 DEF InUse
  <2> QED
    BY <2>1, <2>2
<1>3. ASSUME NEW list \in Seq(Extent), NEW i \in DOMAIN list
      PROVE  /\ list[i] \in Extent /\ list[i].zone \in Zones
             /\ <<i, 1>> \in Slots(list[i].zone, list)
  <2>1. list[i] \in Extent
    OBVIOUS
  <2> QED
    BY <2>1 DEF Extent, Slots
<1>4. ASSUME NEW id \in Ids, NEW i \in DOMAIN extents_[id]
      PROVE  extents_[id][i].zone \in Zones /\ InUse(extents_[id][i].zone)
  <2>1. extents_[id][i].zone \in Zones
    BY <1>1, <1>3
  <2>2. Used(extents_[id][i].zone, extents_) > 0
    BY <1>1, UsedPositive
  <2> QED
    BY <1>2, <1>u, <2>1, <2>2
<1>5. ASSUME NEW z \in Zones, Counted(z) # {}
      PROVE  InUse(z)
  <2>1. Cardinality(Counted(z)) # 0
    BY <1>2, <1>5, FS_EmptySet
  <2> QED
    BY <1>2, <1>u, <2>1
<1>6. ASSUME gc.pc \in Moving, NEW i \in DOMAIN gc.list
      PROVE  gc.list[i].zone \in Zones /\ InUse(gc.list[i].zone)
  <2>1. gc.id \in Ids /\ Len(gc.list) = Len(extents_[gc.id])
    <3>1. gc.pc \in Holding
      BY <1>6 DEF Moving, Holding
    <3> QED
      BY <1>6, <3>1, HeldFile DEF Control, Lists, SameLengths
  <2>2. DOMAIN gc.list = DOMAIN extents_[gc.id]
    BY <1>1, <2>1
  <2>3. CASE gc.list[i] = extents_[gc.id][i]
    BY <1>4, <2>1, <2>2, <2>3
  <2>4. CASE gc.list[i] # extents_[gc.id][i]
    <3>1. <<i, 1>> \in Slots(gc.list[i].zone, gc.list) /\ gc.list[i].zone \in Zones
      BY <1>1, <1>3
    <3>2. <<i, 1>> \in Moved(gc.list[i].zone, gc.list, extents_[gc.id])
      BY <2>4, <3>1 DEF Moved
    <3>3. <<i, 1>> \in Counted(gc.list[i].zone)
      BY <1>6, <3>2, CountedAt
    <3> QED
      BY <1>5, <3>1, <3>3
  <2> QED
    BY <2>3, <2>4
<1>7. ASSUME gc.pc \in Swapped, NEW i \in DOMAIN gc.old
      PROVE  gc.old[i].zone \in Zones /\ InUse(gc.old[i].zone)
  <2>1. gc.id \in Ids /\ Len(gc.list) = Len(gc.old) /\ gc.list = extents_[gc.id]
    <3>1. gc.pc \in Holding
      BY <1>7 DEF Swapped, Holding
    <3> QED
      BY <1>7, <3>1, HeldFile DEF Control, Lists, SameLengths
  <2>2. DOMAIN gc.old = DOMAIN gc.list
    BY <1>1, <2>1
  <2>3. CASE gc.old[i] = gc.list[i]
    BY <1>4, <2>1, <2>2, <2>3
  <2>4. CASE gc.old[i] # gc.list[i]
    <3>1. <<i, 1>> \in Slots(gc.old[i].zone, gc.old) /\ gc.old[i].zone \in Zones
      BY <1>1, <1>3
    <3>2. <<i, 1>> \in Moved(gc.old[i].zone, gc.old, gc.list)
      BY <2>4, <3>1 DEF Moved
    <3>3. <<i, 1>> \in Counted(gc.old[i].zone)
      BY <1>7, <3>2, CountedAt
    <3> QED
      BY <1>5, <3>1, <3>3
  <2> QED
    BY <2>3, <2>4
<1> QED
  BY <1>4, <1>6, <1>7

\* What a step does to a zone
LEMMA DataSteps ==
  ASSUME Control, Next, NEW z \in Zones
  PROVE  \/ data'[z] = data[z]
         \/ ~InUse(z) /\ data'[z] = <<>> /\ UNCHANGED <<extents_, writer>>
         \/ z = writer.zone /\ \E length \in Lengths : BufferedAppend(length)
         \/ z = gc.target /\ gc.pc = "copy" /\ (MigrateData \/ MigrateDataError)
         \/ Crash
<1> USE DEF device, namespace, metadata, lists, locks, faults
<1>0. data \in [Zones -> Seq(Datum)] /\ used_capacity_ \in [Zones -> Int]
  BY DEF Control, Types
<1>r. ASSUME ResetUnusedIOZones
      PROVE  data'[z] = data[z] \/ (~InUse(z) /\ data'[z] = <<>>)
  BY <1>0, <1>r DEF ResetUnusedIOZones, InUse
<1>1. CASE Collect
  <2>1. CASE MigrateData
    BY Zenon, <1>0, <2>1 DEF MigrateData
  <2>4. CASE MigrateDataError
    BY Zenon, <1>0, <2>4 DEF MigrateDataError
  <2>2. CASE MigrateResets
    BY <1>r, <2>2 DEF MigrateResets
  <2>3. CASE ~MigrateData /\ ~MigrateDataError /\ ~MigrateResets
    <3>1. data' = data
      BY Zenon, <1>1, <2>3 DEF Collect, GCWorker, GetZenFSSnapshot, TryAcquireWRLock, MigrateGetFile,
         TakeMigrateZone, LeaveExtent, ExtentMigrated, FileGone, WriteLock, ReplaceExtentList,
         MetadataUnsynced, SyncFileMetadata, SyncFileExtentsDone, ReleaseWRLock
    <3> QED
      BY <3>1
  <2> QED
    BY <2>1, <2>2, <2>3, <2>4
<1>2. CASE \E length \in Lengths : BufferedAppend(length)
  BY Zenon, <1>0, <1>2 DEF BufferedAppend
<1>3. CASE ResetUnused
  BY <1>r, <1>3 DEF ResetUnused
<1>4. CASE \E r \in Readers : GoOnReading(r) \/ \E n \in Names : PositionedRead(r, n)
  BY Zenon, <1>4 DEF GoOnReading, ReadLock, ReadNextExtent, ReadDevice, PositionedRead
<1>5. CASE \/ \E n \in Names : OpenWritableFile(n) \/ ReopenWritableFile(n) \/ DeleteFile(n)
           \/ \E y \in Zones : AllocateNewZone(y)
           \/ MetadataSynced \/ BufferedAppendDone \/ CloseWR \/ CloseWRDone \/ CloseActiveZone
           \/ \E src \in TempNames, dst \in Names \ TempNames : RenameFile(src, dst)
  BY <1>5 DEF OpenWritableFile, ReopenWritableFile, DeleteFile, AllocateNewZone, MetadataSynced,
              BufferedAppendDone, CloseWR, CloseWRDone, CloseActiveZone, RenameFile
<1> QED
  BY <1>1, <1>2, <1>3, <1>4, <1>5 DEF Next

\* Length and elements of two sequences put together
Concatenated(one, other) ==
  /\ Len(one \o other) = Len(one) + Len(other)
  /\ DOMAIN (one \o other) = 1..(Len(one) + Len(other))
  /\ \A k \in 1..Len(one) : (one \o other)[k] = one[k]
  /\ \A k \in 1..Len(other) : (one \o other)[Len(one) + k] = other[k]

\* Sequences have them.
LEMMA Concatenation ==
  ASSUME NEW one \in Seq(Datum), NEW other \in Seq(Datum)
  PROVE  Concatenated(one, other) /\ one \o other \in Seq(Datum) /\ Len(one) \in Nat
BY DEF Concatenated

\* The file that is being written, its zone, and what an append writes
LEMMA Appending ==
  ASSUME Control, NEW length \in Lengths, BufferedAppend(length)
  PROVE  /\ writer.id \in Ids /\ writer.zone \in Zones /\ length \in 1..ZoneCap
         /\ writer.id \in Live(files_) /\ ~is_deleted_[writer.id]
         /\ gc.pc \in Locking => gc.id # writer.id
         /\ extent_start_[writer.id] = [zone |-> writer.zone, start |-> Len(data[writer.zone])]
         /\ writer.added = 0
         /\ Len(data[writer.zone]) \in Nat /\ Len(data[writer.zone]) + length <= ZoneCap
         /\ Len(data'[writer.zone]) = Len(data[writer.zone]) + length
         /\ DOMAIN data'[writer.zone] = 1..(Len(data[writer.zone]) + length)
         /\ \A k \in 1..Len(data[writer.zone]) : data'[writer.zone][k] = data[writer.zone][k]
         /\ \A k \in 1..length : data'[writer.zone][Len(data[writer.zone]) + k]
                                   = <<writer.id, file_size_[writer.id] + k>>
         /\ \A z \in Zones : z # writer.zone => data'[z] = data[z]
<1> DEFINE z == writer.zone
           id == writer.id
           c == [k \in 1..length |-> <<id, file_size_[id] + k>>]
<1>0. Types /\ WRLocks /\ Names1
  BY DEF Control
<1>1. id \in Ids /\ z \in Zones /\ length \in 1..ZoneCap /\ length \in Nat
  <2>1. writer \in Writer
    BY <1>0 DEF Types
  <2> QED
    BY <2>1, Zeros DEF BufferedAppend, Writer
<1>2. id \in Live(files_) /\ ~is_deleted_[id] /\ (gc.pc \in Locking => gc.id # id)
  BY <1>0, <1>1, Zeros, LiveFile DEF WRLocks
<1>3. data[z] \in Seq(Datum) /\ Len(data[z]) <= ZoneCap
  BY <1>0, <1>1 DEF Types
<1>4. Len(data[z]) \in Nat /\ Len(data[z]) + length <= ZoneCap
  BY <1>1, <1>3 DEF BufferedAppend, capacity_
<1>5. c \in Seq(Datum) /\ Len(c) = length /\ \A k \in 1..length : c[k] = <<id, file_size_[id] + k>>
  BY <1>0, <1>1, AppendedType
<1>6. data'[z] = data[z] \o c /\ \A y \in Zones : y # z => data'[y] = data[y]
  BY <1>0, <1>1 DEF BufferedAppend, Types
<1>8. extent_start_[id] = [zone |-> z, start |-> Len(data[z])] /\ writer.added = 0
  <2>1. extent_start_[id] \in Start /\ extent_start_[id].zone # NoZone /\ writer.added = 0
        /\ id # NoFile /\ z # NoZone
    BY <1>0, <1>1 DEF BufferedAppend, Types
  <2>2. extent_start_[id].zone = z /\ extent_start_[id].start + writer.added = Len(data[z])
    BY <2>1 DEF Control, Active, Closing
  <2>3. extent_start_[id].start = Len(data[z])
    BY <2>1, <2>2 DEF Start
  <2> QED
    BY <2>1, <2>2, <2>3 DEF Start
<1> HIDE DEF c
<1>7. /\ Len(data[z] \o c) = Len(data[z]) + length
      /\ DOMAIN (data[z] \o c) = 1..(Len(data[z]) + length)
      /\ \A k \in 1..Len(data[z]) : (data[z] \o c)[k] = data[z][k]
      /\ \A k \in 1..length : (data[z] \o c)[Len(data[z]) + k] = c[k]
  <2>1. Concatenated(data[z], c)
    BY <1>3, <1>5, Concatenation
  <2> QED
    BY <1>5, <2>1 DEF Concatenated
<1> QED
  BY <1>1, <1>2, <1>4, <1>5, <1>6, <1>7, <1>8

\* What the migration of an extent writes
LEMMA Copying ==
  ASSUME Control, MigrateData
  PROVE  LET e == gc.list[gc.i]
             t == gc.target
         IN  /\ gc.id \in Ids /\ gc.i \in DOMAIN gc.list /\ e \in Extent /\ t \in Zones
             /\ t # writer.zone /\ busy_[t]
             /\ Len(data[t]) \in Nat /\ Len(data[t]) + e.length <= ZoneCap
             /\ Len(data'[t]) = Len(data[t]) + e.length
             /\ DOMAIN data'[t] = 1..(Len(data[t]) + e.length)
             /\ \A k \in 1..Len(data[t]) : data'[t][k] = data[t][k]
             /\ \A k \in 1..e.length : data'[t][Len(data[t]) + k] = Content(e)[k]
             /\ \A z \in Zones : z # t => data'[z] = data[z]
<1> DEFINE t == gc.target
           e == gc.list[gc.i]
           c == Content(e)
<1>0. Types /\ WRLocks /\ Lists /\ gc \in Collector /\ gc.pc = "copy"
  BY DEF Control, Types, MigrateData
<1>1. gc.id \in Ids /\ t \in Zones /\ busy_[t] /\ t # writer.zone /\ gc.i \in DOMAIN gc.list
      /\ capacity_(t) >= e.length
  BY <1>0, HeldFile DEF WRLocks, Lists, Holding
<1>2. e \in Extent
  BY <1>0, <1>1 DEF Collector
<1>3. data[t] \in Seq(Datum) /\ Len(data[t]) <= ZoneCap /\ e.length \in Nat
  BY <1>0, <1>1, <1>2 DEF Types, Extent
<1>4. Len(data[t]) \in Nat /\ Len(data[t]) + e.length <= ZoneCap
  BY <1>1, <1>3 DEF capacity_
<1>5. c \in Seq(Datum) /\ Len(c) = e.length
  BY <1>0, <1>2, ContentType
<1>6. data'[t] = data[t] \o c /\ \A z \in Zones : z # t => data'[z] = data[z]
  BY <1>0, <1>1 DEF MigrateData, Types
<1> HIDE DEF c, e, t
<1>7. /\ Len(data[t] \o c) = Len(data[t]) + e.length
      /\ DOMAIN (data[t] \o c) = 1..(Len(data[t]) + e.length)
      /\ \A k \in 1..Len(data[t]) : (data[t] \o c)[k] = data[t][k]
      /\ \A k \in 1..e.length : (data[t] \o c)[Len(data[t]) + k] = c[k]
  <2>1. Concatenated(data[t], c)
    BY <1>3, <1>5, Concatenation
  <2> QED
    BY <1>5, <2>1 DEF Concatenated
<1> QED
  BY <1>1, <1>2, <1>4, <1>5, <1>6, <1>7 DEF e, t, c

\* What a copy that fails writes
LEMMA PartCopying ==
  ASSUME Control, MigrateDataError
  PROVE  Longer(data[gc.target], data'[gc.target])
<1> DEFINE t == gc.target
           e == gc.list[gc.i]
<1>0. Types /\ WRLocks /\ Lists /\ gc \in Collector /\ gc.pc = "copy"
  BY DEF Control, Types, MigrateDataError
<1>1. t \in Zones /\ gc.i \in DOMAIN gc.list
  BY <1>0 DEF WRLocks, Lists
<1>2. e \in Extent
  BY <1>0, <1>1 DEF Collector
<1>3. data[t] \in Seq(Datum) /\ e.length \in Nat
  BY <1>0, <1>1, <1>2 DEF Types, Extent
<1>4. PICK n \in 0..(e.length - 1) : \E part \in [1..n -> ToSet(Content(e))] :
        data' = [data EXCEPT ![t] = @ \o part]
  BY DEF MigrateDataError
<1>5. PICK part \in [1..n -> ToSet(Content(e))] : data' = [data EXCEPT ![t] = @ \o part]
  BY <1>4
<1>6. part \in Seq(Datum)
  <2>1. n \in Nat
    BY <1>3
  <2>2. ToSet(Content(e)) \subseteq Datum
    BY <1>0, <1>2, ContentType DEF ToSet
  <2>3. part \in [1..n -> Datum]
    BY <1>5, <2>2
  <2> QED
    BY <2>1, <2>3
<1>7. Concatenated(data[t], part)
  BY <1>3, <1>6, Concatenation
<1>8. data'[t] = data[t] \o part
  BY <1>0, <1>1, <1>5 DEF Types
<1>9. Len(part) \in Nat /\ Len(data[t]) \in Nat /\ DOMAIN data[t] = 1..Len(data[t])
  BY <1>3, <1>6
<1> QED
  BY <1>7, <1>8, <1>9 DEF Concatenated, Longer

\* Between two mounts a zone in use keeps what it has.
Grows == \A z \in Zones : InUse(z) => Longer(data[z], data'[z])

\* Steps other than a mount reset no zone that is in use.
LEMMA GrowsNext ==
  ASSUME Control, Next
  PROVE  Grows \/ Crash
<1> SUFFICES ASSUME ~Crash, NEW z \in Zones, InUse(z)
             PROVE  Longer(data[z], data'[z])
  BY DEF Grows
<1>0. data[z] \in Seq(Datum)
  BY DEF Control, Types
<1>1. CASE data'[z] = data[z]
  BY <1>1 DEF Longer
<1>2. CASE z = writer.zone /\ \E length \in Lengths : BufferedAppend(length)
  <2>1. PICK length \in Lengths : BufferedAppend(length)
    BY <1>2
  <2>2. /\ DOMAIN data'[z] = 1..(Len(data[z]) + length) /\ Len(data[z]) \in Nat
        /\ \A k \in 1..Len(data[z]) : data'[z][k] = data[z][k]
        /\ length \in 1..ZoneCap
    BY <1>2, <2>1, Appending
  <2>3. DOMAIN data[z] = 1..Len(data[z])
    BY <1>0
  <2> QED
    BY <2>2, <2>3 DEF Longer
<1>3. CASE z = gc.target /\ gc.pc = "copy" /\ MigrateData
  <2> DEFINE n == gc.list[gc.i].length
  <2>1. /\ DOMAIN data'[z] = 1..(Len(data[z]) + n) /\ Len(data[z]) \in Nat
        /\ \A k \in 1..Len(data[z]) : data'[z][k] = data[z][k]
        /\ gc.list[gc.i] \in Extent
    BY <1>3, Copying
  <2>2. n \in Nat
    BY <2>1 DEF Extent
  <2>3. DOMAIN data[z] = 1..Len(data[z])
    BY <1>0
  <2> HIDE DEF n
  <2> QED
    BY <2>1, <2>2, <2>3 DEF Longer
<1>4. CASE z = gc.target /\ gc.pc = "copy" /\ MigrateDataError
  BY <1>4, PartCopying
<1> QED
  BY <1>1, <1>2, <1>3, <1>4, DataSteps

\* The zones of a list only grow in a step.
LongerIn(list) == \A i \in DOMAIN list : Longer(data[list[i].zone], data'[list[i].zone])

\* All lists go on to hold what they hold.
LEMMA ListsGrow ==
  ASSUME Control, Capacity, Grows
  PROVE  /\ \A id \in Ids : LongerIn(extents_[id])
         /\ gc.pc \in Moving \cup Swapped => LongerIn(gc.list)
         /\ gc.pc \in Swapped => LongerIn(gc.old)
<1>1. gc.pc \in Swapped => gc.id \in Ids /\ gc.list = extents_[gc.id]
  BY HeldFile DEF Control, Lists, Swapped, Holding
<1>2. \A id \in Ids : LongerIn(extents_[id])
  BY ZoneInUse DEF Grows, LongerIn
<1>3. gc.pc \in Moving => LongerIn(gc.list)
  BY ZoneInUse DEF Grows, LongerIn
<1>4. gc.pc \in Swapped => LongerIn(gc.old)
  BY ZoneInUse DEF Grows, LongerIn
<1> QED
  BY <1>1, <1>2, <1>3, <1>4

\* What a step does to the list of a file
LEMMA ListSteps ==
  ASSUME Control, Next, NEW f \in Ids
  PROVE  \/ extents_'[f] = extents_[f] /\ is_deleted_'[f] = is_deleted_[f]
         \/ /\ is_deleted_'[f] /\ extents_'[f] \in {extents_[f], <<>>} /\ f # writer.id
            /\ ~Read(f) /\ logged'[f] = NoRecord
         \/ f = writer.id /\ \E length \in Lengths : BufferedAppend(length)
         \/ f = gc.id /\ ReplaceExtentList
         \/ Crash
<1> USE DEF device, namespace, metadata, lists, locks, faults
<1>0. /\ Types /\ Names1 /\ WRLocks /\ RWLocks /\ extents_ \in [Ids -> Seq(Extent)]
      /\ is_deleted_ \in [Ids -> BOOLEAN] /\ logged \in [Ids -> Record]
  BY DEF Control, Types
<1>d. ASSUME Drop(gc.id), gc.id \in Ids, UNCHANGED <<is_deleted_, logged>>
      PROVE  \/ extents_'[f] = extents_[f] /\ is_deleted_'[f] = is_deleted_[f]
             \/ /\ is_deleted_'[f] /\ extents_'[f] \in {extents_[f], <<>>} /\ f # writer.id
                /\ ~Read(f) /\ logged'[f] = NoRecord
  <2>1. CASE is_deleted_[gc.id] /\ f = gc.id
    <3>1. extents_'[f] = <<>> /\ is_deleted_'[f] /\ logged'[f] = NoRecord
      BY <1>0, <1>d, <2>1 DEF Drop, Names1
    <3>2. f # writer.id
      BY <1>0, <2>1, Zeros, LiveFile DEF WRLocks
    <3>3. ~Read(f)
      BY <1>0, <2>1, Zeros, LiveFile DEF RWLocks, Read, NoReader
    <3> QED
      BY <3>1, <3>2, <3>3
  <2>2. CASE ~(is_deleted_[gc.id] /\ f = gc.id)
    BY <1>0, <1>d, <2>2 DEF Drop
  <2> QED
    BY <2>1, <2>2
<1>1. CASE Collect
  <2>1. CASE TryAcquireWRLock \/ ReleaseWRLock
    <3>1. gc.id \in Ids /\ UNCHANGED <<is_deleted_, logged>>
          /\ (Drop(gc.id) \/ UNCHANGED extents_)
      BY <1>0, <2>1, HeldFile DEF TryAcquireWRLock, ReleaseWRLock, Holding
    <3> QED
      BY <1>d, <3>1
  <2>2. CASE ReplaceExtentList
    <3>1. gc.id \in Ids
      BY <1>0, <2>2, HeldFile DEF ReplaceExtentList, Holding
    <3> QED
      BY <1>0, <2>2, <3>1 DEF ReplaceExtentList
  <2>3. CASE ~ReplaceExtentList /\ ~TryAcquireWRLock /\ ~ReleaseWRLock
    <3>1. extents_' = extents_ /\ is_deleted_' = is_deleted_
      BY Zenon, <1>1, <2>3 DEF Collect, GCWorker, GetZenFSSnapshot, MigrateGetFile,
         TakeMigrateZone, LeaveExtent, MigrateData, MigrateDataError, ExtentMigrated, FileGone, WriteLock,
         MetadataUnsynced, SyncFileMetadata, SyncFileExtentsDone, MigrateResets
    <3> QED
      BY <3>1
  <2> QED
    BY <2>1, <2>2, <2>3
<1>2. CASE \E length \in Lengths : BufferedAppend(length)
  BY <1>0, <1>2 DEF BufferedAppend
<1>3. ASSUME NEW n \in Names, DeleteFile(n)
      PROVE  \/ extents_'[f] = extents_[f] /\ is_deleted_'[f] = is_deleted_[f]
             \/ /\ is_deleted_'[f] /\ extents_'[f] \in {extents_[f], <<>>} /\ f # writer.id
                /\ ~Read(f) /\ logged'[f] = NoRecord
  <2> DEFINE id == files_[n]
             files == [files_ EXCEPT ![n] = NoFile]
  <2>1. id \in Ids /\ id # writer.id /\ ~Read(id) /\ PersistDeletion("user", id, files)
    BY <1>0, <1>3 DEF DeleteFile, Types
  <2>2. id \notin Live(files)
    <3>1. files_ \in [Names -> Ids \cup {NoFile}]
      BY <1>0 DEF Types
    <3>2. \A m \in Names : files[m] = (IF m = n THEN NoFile ELSE files_[m])
      BY <3>1
    <3>3. \A m \in Names : files[m] # id
      BY <1>0, <2>1, <3>2, Zeros DEF Names1
    <3> QED
      BY <3>3 DEF Live
  <2>n. UNCHANGED nr_synced_extents_
    BY <1>3 DEF DeleteFile
  <2>e. Erased(id)
    BY <1>0, <2>1, <2>2, <2>n, DeletionEffect
  <2>3. logged'[id] = NoRecord
    BY <2>e DEF Erased
  <2>4. /\ is_deleted_' = [is_deleted_ EXCEPT ![id] = TRUE]
        /\ extents_' = extents_ \/ extents_' = [extents_ EXCEPT ![id] = <<>>]
    BY <1>3 DEF DeleteFile
  <2> QED
    BY <1>0, <2>1, <2>3, <2>4
<1>4. CASE \E r \in Readers : GoOnReading(r) \/ \E n \in Names : PositionedRead(r, n)
  BY Zenon, <1>4 DEF GoOnReading, ReadLock, ReadNextExtent, ReadDevice, PositionedRead
<1>5. CASE \/ \E n \in Names : OpenWritableFile(n) \/ ReopenWritableFile(n)
           \/ \E y \in Zones : AllocateNewZone(y)
           \/ MetadataSynced \/ BufferedAppendDone
           \/ CloseWR \/ CloseWRDone \/ CloseActiveZone \/ ResetUnused
           \/ \E src \in TempNames, dst \in Names \ TempNames : RenameFile(src, dst)
  BY <1>5 DEF OpenWritableFile, ReopenWritableFile, AllocateNewZone, MetadataSynced,
              BufferedAppendDone, CloseWR, CloseWRDone, CloseActiveZone, ResetUnused, RenameFile
<1> QED
  BY <1>1, <1>2, <1>3, <1>4, <1>5 DEF Next

-----------------------------------------------------------------------------
(***************************************************************************)
(* The zone that is being written                                          *)
(***************************************************************************)

\* A step that leaves the active extent and its zone alone keeps Opened.
LEMMA OpenedFrame ==
  ASSUME Control, Capacity, Opened, Next, ~Crash, UNCHANGED <<extent_start_, writer>>,
         ~\E length \in Lengths : BufferedAppend(length)
  PROVE  Opened'
<1> SUFFICES ASSUME NEW id \in Ids, extent_start_[id].zone # NoZone
             PROVE  LET z == extent_start_[id].zone
                    IN  /\ extent_start_[id].start + Added(id) = Len(data'[z])
                        /\ \/ writer.zone = z /\ Added(id) = 0
                           \/ /\ writer.zone = z \/ capacity_(z)' = 0
                              /\ Reaches(extents_'[id], z, Added(id))
  <2>1. (\A id \in Ids : Added(id)' = Added(id)) /\ extent_start_' = extent_start_ /\ writer' = writer
    BY DEF Added
  <2> QED
    BY <2>1 DEF Opened, IsFull, Reaches
<1> DEFINE z == extent_start_[id].zone
<1>0. /\ Types /\ Active /\ WRLocks /\ Lists /\ z \in Zones /\ id = writer.id
      /\ extent_start_[id].start + Added(id) = Len(data[z])
      /\ \/ writer.zone = z /\ Added(id) = 0
         \/ /\ writer.zone = z \/ IsFull(z)
            /\ Reaches(extents_[id], z, Added(id))
  <2>1. Types /\ Active /\ WRLocks /\ Lists
    BY DEF Control
  <2>2. z \in Zones /\ id = writer.id
    BY <2>1 DEF Types, Active, Start
  <2> QED
    BY <2>1, <2>2 DEF Opened
<1>1. InUse(z) /\ ~(z = gc.target /\ gc.pc = "copy")
  <2>1. CASE writer.zone = z
    BY <1>0, <2>1 DEF WRLocks, InUse
  <2>2. CASE IsFull(z) /\ Reaches(extents_[id], z, Added(id))
    <3>1. InUse(z)
      BY <2>2, ZoneInUse DEF Reaches
    <3>2. ASSUME z = gc.target, gc.pc = "copy" PROVE FALSE
      <4>1. gc.i \in DOMAIN gc.list /\ capacity_(z) >= gc.list[gc.i].length
        BY <1>0, <3>2 DEF Lists
      <4>2. gc.list[gc.i] \in Extent
        BY <1>0, <4>1 DEF Types, Collector
      <4>3. gc.list[gc.i].length \in Nat /\ gc.list[gc.i].length >= 1
        BY <4>2 DEF Extent
      <4> QED
        BY <2>2, <4>1, <4>3 DEF IsFull
    <3> QED
      BY <3>1, <3>2
  <2> QED
    BY <1>0, <2>1, <2>2
<1>2. data'[z] = data[z]
  BY <1>0, <1>1, DataSteps
<1>3. extents_'[id] = extents_[id]
  <2>1. ~(id = gc.id /\ ReplaceExtentList)
    BY <1>0 DEF WRLocks, ReplaceExtentList, Locking, Holding
  <2> QED
    BY <1>0, <2>1, ListSteps
<1>4. IsFull(z) => capacity_(z)' = 0
  BY <1>2 DEF IsFull, capacity_
<1> QED
  BY <1>0, <1>2, <1>3, <1>4

\* No file is being written: none has an active extent.
LEMMA NoneOpened ==
  ASSUME Active, writer.id = NoFile, NEW id \in Ids
  PROVE  extent_start_[id].zone = NoZone
BY Zeros DEF Active

\* The active extent goes on to start at the write pointer of its zone.
LEMMA OpenedNext ==
  ASSUME Control, Control', Capacity, Opened, Next
  PROVE  Opened'
<1> USE DEF device, namespace, metadata, lists, locks, faults
<1>0. Types /\ Active /\ WRLocks /\ Active' /\ extent_start_ \in [Ids -> Start]
      /\ writer \in Writer
  BY DEF Control, Types
<1>1. CASE Crash
  BY <1>1 DEF Crash, Mount, Opened, NO_EXTENT
<1>2. CASE \E length \in Lengths : BufferedAppend(length)
  <2>1. PICK length \in Lengths : BufferedAppend(length)
    BY <1>2
  <2> DEFINE id == writer.id
             z == writer.zone
             e == [zone |-> z, start |-> extent_start_[id].start, length |-> length]
  <2>2. /\ id \in Ids /\ z \in Zones /\ Len(data'[z]) = Len(data[z]) + length
        /\ Len(data[z]) \in Nat /\ length \in 1..ZoneCap
        /\ extent_start_[id] = [zone |-> z, start |-> Len(data[z])]
    BY <2>1, Appending
  <2>3. writer'.id = id /\ writer'.zone = z /\ writer'.added = length /\ extent_start_' = extent_start_
    BY <1>0, <2>1 DEF BufferedAppend, Writer
  <2>4. extents_'[id] = Append(extents_[id], e) /\ extents_[id] \in Seq(Extent)
    BY <1>0, <2>1, <2>2 DEF BufferedAppend, Types
  <2>5. Reaches(extents_'[id], z, length)
    <3> HIDE DEF e
    <3>1. Len(extents_[id]) + 1 \in DOMAIN extents_'[id]
          /\ extents_'[id][Len(extents_[id]) + 1] = e
      BY <2>4
    <3>2. e.zone = z /\ e.length = length /\ length >= length
      BY <2>2 DEF e
    <3> QED
      BY <3>1, <3>2 DEF Reaches
  <2>6. \A f \in Ids : extent_start_'[f].zone # NoZone => f = id
    BY <1>0, <2>3 DEF Active
  <2>8. extent_start_'[id].zone = z /\ extent_start_'[id].start + length = Len(data'[z])
    BY <2>2, <2>3
  <2> HIDE DEF id, z
  <2> SUFFICES ASSUME NEW f \in Ids, extent_start_'[f].zone # NoZone
               PROVE  LET y == extent_start_'[f].zone
                      IN  /\ extent_start_'[f].start + Added(f)' = Len(data'[y])
                          /\ writer'.zone = y /\ Reaches(extents_'[f], y, Added(f)')
    BY DEF Opened, Reaches
  <2>9. f = id
    BY <2>6
  <2>10. Added(f)' = length /\ extent_start_'[f].zone = z
    BY <2>3, <2>8, <2>9 DEF Added
  <2>11. extent_start_'[f].start + Added(f)' = Len(data'[z])
    BY <2>8, <2>9, <2>10
  <2>12. Reaches(extents_'[f], z, Added(f)')
    BY <2>5, <2>9, <2>10
  <2> QED
    BY <2>3, <2>10, <2>11, <2>12
<1>3. ASSUME NEW z \in Zones, AllocateNewZone(z)
      PROVE  Opened'
  <2>1. writer.id \in Ids /\ UNCHANGED <<data, extents_>> /\ writer'.zone = z
        /\ writer'.added = writer.added /\ writer.zone = NoZone
        /\ extent_start_' = [extent_start_ EXCEPT ![writer.id] =
                               [zone |-> z, start |-> Len(data[z])]]
    BY <1>0, <1>3 DEF AllocateNewZone, Writer
  <2>2. \A f \in Ids : f # writer.id => extent_start_'[f].zone = NoZone
    BY <1>0, <2>1 DEF Active
  <2>3. extent_start_'[writer.id] = [zone |-> z, start |-> Len(data[z])]
    BY <1>0, <2>1
  <2>4. writer'.added = 0
    BY <1>0, <2>1 DEF Active, Writer
  <2>5. \A f \in Ids : Added(f)' = 0
    BY <2>4 DEF Added
  <2>6. Len(data[z]) \in Nat
    BY <1>0 DEF Types
  <2> QED
    BY <2>1, <2>2, <2>3, <2>5, <2>6 DEF Opened
<1>4. CASE \/ CloseWR \/ CloseWRDone \/ CloseActiveZone
           \/ \E n \in Names : OpenWritableFile(n) \/ ReopenWritableFile(n)
  <2>1. \A f \in Ids : extent_start_'[f].zone = NoZone
    <3>1. CASE CloseWR
      BY <1>0, <3>1 DEF CloseWR, Active, NO_EXTENT
    <3>2. CASE CloseWRDone
      BY <1>0, <3>2 DEF CloseWRDone, Active
    <3>3. CASE ~CloseWR /\ ~CloseWRDone
      <4>1. writer.id = NoFile /\ extent_start_' = extent_start_
        BY <1>4, <3>3 DEF CloseActiveZone, OpenWritableFile, ReopenWritableFile, NoWriter
      <4> QED
        BY <1>0, <4>1, NoneOpened
    <3> QED
      BY <3>1, <3>2, <3>3
  <2> QED
    BY <2>1 DEF Opened
<1>5. ASSUME \/ Collect \/ ResetUnused \/ MetadataSynced
             \/ \E r \in Readers : GoOnReading(r) \/ \E n \in Names : PositionedRead(r, n)
             \/ \E n \in Names : DeleteFile(n)
             \/ \E src \in TempNames, dst \in Names \ TempNames : RenameFile(src, dst)
      PROVE  UNCHANGED <<extent_start_, writer>>
  <2>1. CASE Collect
    BY Zenon, <2>1 DEF Collect, GCWorker, GetZenFSSnapshot, MigrateGetFile, TryAcquireWRLock,
         TakeMigrateZone, LeaveExtent, MigrateData, MigrateDataError, ExtentMigrated, FileGone,
         WriteLock, ReplaceExtentList, MetadataUnsynced, SyncFileMetadata, SyncFileExtentsDone,
         ReleaseWRLock, MigrateResets
  <2>2. CASE ~Collect
    BY Zenon, <1>5, <2>2 DEF ResetUnused, MetadataSynced, GoOnReading, ReadLock, ReadNextExtent,
         ReadDevice, PositionedRead, DeleteFile, RenameFile
  <2> QED
    BY <2>1, <2>2
<1>6. CASE ~Crash /\ UNCHANGED <<extent_start_, writer>> /\ ~\E length \in Lengths : BufferedAppend(length)
  BY <1>6, OpenedFrame
<1>7. CASE BufferedAppendDone
  <2> DEFINE id == writer.id
             z == writer.zone
  <2>1. /\ writer.added > 0 /\ UNCHANGED <<data, extents_>>
        /\ extent_start_' = [extent_start_ EXCEPT ![id].start = Len(data[z])]
        /\ writer'.zone = (IF IsFull(z) THEN NoZone ELSE z) /\ writer'.added = 0
    BY <1>0, <1>7 DEF BufferedAppendDone, Writer
  <2>2. id \in Ids /\ z \in Zones /\ id # NoFile /\ z # NoZone /\ ~Closing
    BY <1>0, <2>1, Zeros DEF Active, Writer
  <2>3. extent_start_[id].zone = z
    BY <1>0, <2>2 DEF Active
  <2>4. Added(id) # 0
    BY <1>0, <2>1 DEF Added, Writer
  <2>5. Reaches(extents_[id], z, 0)
    <3>1. PICK i \in DOMAIN extents_[id] : extents_[id][i].zone = z
      BY <2>2, <2>3, <2>4 DEF Opened, Reaches
    <3>2. extents_[id][i] \in Extent
      BY <1>0, <2>2, <3>1 DEF Types
    <3>3. extents_[id][i].length >= 0
      BY <3>2 DEF Extent
    <3> QED
      BY <3>1, <3>3 DEF Reaches
  <2>6. extent_start_'[id].zone = z /\ extent_start_'[id].start = Len(data[z])
    BY <1>0, <2>1, <2>2, <2>3 DEF Start
  <2>7. \A f \in Ids : f # id => extent_start_'[f].zone = NoZone
    BY <1>0, <2>1, <2>2 DEF Active
  <2>8. \A f \in Ids : Added(f)' = 0
    BY <2>1 DEF Added
  <2>9. Len(data[z]) \in Nat
    BY <1>0, <2>2 DEF Types
  <2>11. writer'.zone = z \/ ZoneCap - Len(data'[z]) = 0
    BY <2>1 DEF IsFull, capacity_
  <2> HIDE DEF id, z
  <2> SUFFICES ASSUME NEW f \in Ids, extent_start_'[f].zone # NoZone
               PROVE  LET y == extent_start_'[f].zone
                      IN  /\ extent_start_'[f].start + Added(f)' = Len(data'[y])
                          /\ writer'.zone = y \/ ZoneCap - Len(data'[y]) = 0
                          /\ Reaches(extents_'[f], y, Added(f)')
    BY DEF Opened, IsFull, capacity_, Reaches
  <2>10. f = id
    BY <2>7
  <2> QED
    BY <2>1, <2>2, <2>5, <2>6, <2>8, <2>9, <2>10, <2>11
<1> QED
  BY <1>1, <1>2, <1>3, <1>4, <1>5, <1>6, <1>7 DEF Next

-----------------------------------------------------------------------------
(***************************************************************************)
(* What a step does to the bounds, to the log, and to the collector        *)
(***************************************************************************)

\* Files stay misjudged, and only a crash counts as one.
LEMMA BoundSteps ==
  ASSUME Control, Next
  PROVE  /\ misjudged \subseteq misjudged' /\ uncopied \subseteq uncopied'
         /\ crashes' = crashes \/ (Crash /\ crashes' = crashes + 1)
         /\ errors' = errors \/ errors' = errors + 1
         /\ ~Crash => crashes' = crashes
<1> USE DEF device, namespace, metadata, lists, locks, faults
<1>1. CASE Collect
  BY Zenon, <1>1 DEF Collect, GCWorker, GetZenFSSnapshot, MigrateGetFile, TryAcquireWRLock,
       TakeMigrateZone, LeaveExtent, MigrateData, MigrateDataError, ExtentMigrated, FileGone, WriteLock,
       ReplaceExtentList, MetadataUnsynced, SyncFileMetadata, SyncFileExtentsDone,
       ReleaseWRLock, MigrateResets, Refused, AddRecord, RollMetaZone, Race
<1>2. CASE \E r \in Readers : GoOnReading(r) \/ \E n \in Names : PositionedRead(r, n)
  BY Zenon, <1>2 DEF GoOnReading, ReadLock, ReadNextExtent, ReadDevice, PositionedRead
<1>3. CASE Crash
  BY <1>3 DEF Crash
<1>4. CASE \/ \E n \in Names : OpenWritableFile(n) \/ ReopenWritableFile(n) \/ DeleteFile(n)
           \/ \E z \in Zones : AllocateNewZone(z)
           \/ \E length \in Lengths : BufferedAppend(length)
           \/ MetadataSynced \/ BufferedAppendDone
           \/ CloseWR \/ CloseWRDone \/ CloseActiveZone \/ ResetUnused
           \/ \E src \in TempNames, dst \in Names \ TempNames : RenameFile(src, dst)
  BY <1>4 DEF OpenWritableFile, ReopenWritableFile, DeleteFile, AllocateNewZone, BufferedAppend,
       MetadataSynced, BufferedAppendDone, CloseWR, CloseWRDone, CloseActiveZone, ResetUnused, RenameFile, PersistUpdate, PersistDeletion, Race
<1> QED
  BY <1>1, <1>2, <1>3, <1>4 DEF Next

\* A file that can be read after a step could be read before it.
LEMMA GoodBefore ==
  ASSUME Control, Next, NEW id, Good(id)'
  PROVE  Good(id)
<1>1. crashes \in Nat
  BY DEF Control, Types
<1> QED
  BY <1>1, BoundSteps DEF Good

\* The calls of the users that persist
Unpushed(f) == f \in misjudged' \/ (Added(f) = 0 /\ Added(f)' = 0)
Marked(f) ==
  /\ UNCHANGED <<data, gc, file_size_>> /\ extents_'[f] = extents_[f] /\ Judged(f)
  /\ Free /\ Unpushed(f)
  /\ f = writer.id => writer'.id = f /\ (files_mtx_'.by = "writer" \/ (Closing' => Closing))
  /\ \E name \in Names : \/ Written(f, name, extents_[f])
                         \/ Written(f, name, logged[f].ext \o Unsynced(f))
\* The record of the collector
Replaced(f) ==
  /\ SyncFileMetadata /\ gc'.pc = "clear" /\ gc.id \in Ids /\ ~is_deleted_[gc.id]
  /\ Unpushed(f)
  /\ \E name \in Names : \/ Written(f, name, extents_[f])
                         \/ f = gc.id /\ Written(f, name, Unsynced(f))
Untouched(f) ==
  /\ Kept(f) /\ (Free \/ files_mtx_' = files_mtx_)
  /\ f = writer.id => writer'.id = f /\ (Closing' => Closing)
Dropped(f) == Erased(f) /\ (f \notin Live(files_) \/ is_deleted_'[f]) /\ Free

\* What one step does to the record of a file
LEMMA LogSteps1 ==
  ASSUME Control, Next, NEW f \in Ids
  PROVE  \/ Untouched(f) \/ Dropped(f) \/ Marked(f) \/ Replaced(f)
         \/ MetadataUnsynced /\ f = gc.id
         \/ MetadataSynced
         \/ CloseWRDone /\ f = writer.id
         \/ Crash
<1> USE DEF device, namespace, metadata, lists, locks, faults
<1>0. Types /\ Names1 /\ WRLocks /\ nr_synced_extents_ \in [Ids -> Nat]
      /\ files_ \in [Names -> Ids \cup {NoFile}] /\ next_file_id_ \in Nat \ {0}
      /\ writer \in Writer /\ Active
  BY DEF Control, Types
<1>a. writer.added \in Nat
  BY <1>0 DEF Writer
<1>w. UNCHANGED <<writer, extent_start_>> => (Closing' => Closing)
  BY DEF Closing
<1>p. ASSUME UNCHANGED writer, JudgedPush(f) PROVE Unpushed(f)
  BY <1>a, <1>p DEF Unpushed, JudgedPush, Added
<1>f. ASSUME UNCHANGED <<logged, nr_synced_extents_, files_mtx_, writer, extent_start_>>
      PROVE  Untouched(f)
  BY <1>f, <1>w DEF Untouched, Kept, Waits
<1>1. CASE Collect
  <2>1. CASE SyncFileMetadata
    <3>1. gc.id \in Ids
      BY <1>0, <2>1, HeldFile DEF SyncFileMetadata, Holding
    <3>2. UNCHANGED <<writer, extent_start_>> /\ Free
      BY <2>1 DEF SyncFileMetadata
    <3>3. \/ Kept(f)
          \/ /\ gc'.pc = "clear" /\ ~is_deleted_[gc.id]
             /\ \/ f = gc.id /\ Written(f, NameOf(files_, f), Unsynced(f)) /\ JudgedPush(f)
                \/ f \in Live(files_) /\ Written(f, NameOf(files_, f), extents_[f]) /\ JudgedPush(f)
                \/ f \notin Live(files_) /\ Erased(f)
      BY <1>0, <2>1, <3>1, SyncEffect
    <3>4. ~is_deleted_[gc.id] => gc.id \in Live(files_)
      BY <1>0, <3>1, Zeros DEF WRLocks
    <3>5. f \in Live(files_) => NameOf(files_, f) \in Names
      BY NameOfLive
    <3>6. CASE Kept(f)
      BY <1>w, <3>2, <3>6 DEF Untouched
    <3>7. CASE f \notin Live(files_) /\ Erased(f)
      BY <3>2, <3>7 DEF Dropped
    <3> QED
      BY <1>p, <2>1, <3>1, <3>2, <3>3, <3>4, <3>5, <3>6, <3>7 DEF Replaced
  <2>2. CASE MetadataUnsynced
    <3>1. UNCHANGED <<logged, files_mtx_, writer, extent_start_>>
          /\ (f # gc.id => nr_synced_extents_'[f] = nr_synced_extents_[f])
      BY <1>0, <2>2 DEF MetadataUnsynced
    <3>2. f # gc.id => Kept(f)
      BY <3>1 DEF Kept, Waits
    <3> QED
      BY <1>w, <2>2, <3>1, <3>2 DEF Untouched
  <2>3. CASE ~SyncFileMetadata /\ ~MetadataUnsynced
    <3>1. UNCHANGED <<logged, nr_synced_extents_, files_mtx_, writer, extent_start_>>
      BY Zenon, <1>1, <2>3 DEF Collect, GCWorker, GetZenFSSnapshot, MigrateGetFile, TryAcquireWRLock,
       TakeMigrateZone, LeaveExtent, MigrateData, MigrateDataError, ExtentMigrated, FileGone,
       WriteLock, ReplaceExtentList, SyncFileExtentsDone, ReleaseWRLock, MigrateResets
    <3> QED
      BY <1>f, <3>1
  <2> QED
    BY <2>1, <2>2, <2>3
<1>u. ASSUME NEW by, NEW id \in Ids, NEW name \in Names, NEW files,
             PersistUpdate(by, id, name, files),
             UNCHANGED <<data, gc, file_size_, extents_, nr_synced_extents_>>,
             Live(files) = Live(files_),
             f = writer.id => writer'.id = f /\ ((f = id /\ by = "writer") \/ (Closing' => Closing)),
             Judged(f) => Unpushed(f)
      PROVE  Untouched(f) \/ Dropped(f) \/ Marked(f)
  <2>1. Updated(f, id, name, files)
    BY <1>0, <1>u, UpdateEffect
  <2>2. f \in Live(files) => NameOf(files, f) \in Names
    BY NameOfLive
  <2>3. Free /\ files_mtx_'.by = by
    BY <1>0, <1>u, UpdateEffect
  <2>4. CASE f # id /\ Kept(f)
    BY <1>u, <2>3, <2>4 DEF Untouched
  <2>5. CASE f \notin Live(files) /\ Erased(f)
    BY <1>u, <2>3, <2>5 DEF Dropped
  <2>6. CASE f = id /\ Written(f, name, logged[f].ext \o Unsynced(f)) /\ Judged(f)
    BY <1>u, <2>3, <2>6 DEF Marked
  <2>7. CASE f \in Live(files) /\ Written(f, NameOf(files, f), extents_[f]) /\ Judged(f)
    BY <1>u, <2>2, <2>3, <2>7 DEF Marked
  <2> QED
    BY <2>1, <2>4, <2>5, <2>6, <2>7 DEF Updated
<1>2. ASSUME NEW n \in Names, OpenWritableFile(n)
      PROVE  Untouched(f) \/ Dropped(f) \/ Marked(f)
  <2>1. /\ next_file_id_ \in Ids /\ PersistUpdate("writer", next_file_id_, n, files_)
        /\ writer = NoWriter /\ writer'.added = 0
        /\ UNCHANGED <<data, gc, file_size_, extents_, nr_synced_extents_>>
    BY <1>2 DEF OpenWritableFile, NoWriter
  <2>2. f # writer.id /\ Unpushed(f)
    BY <2>1, Zeros DEF NoWriter, Unpushed, Added
  <2> QED
    BY <1>u, <2>1, <2>2
<1>3. ASSUME NEW z \in Zones, AllocateNewZone(z)
      PROVE  Untouched(f) \/ Dropped(f) \/ Marked(f)
  <2>1. /\ writer.id \in Ids /\ PersistUpdate("writer", writer.id, NameOf(files_, writer.id), files_)
        /\ UNCHANGED <<data, gc, file_size_, extents_, nr_synced_extents_>>
        /\ writer.zone = NoZone /\ writer'.id = writer.id /\ writer'.added = writer.added
    BY <1>0, <1>3 DEF AllocateNewZone, Writer
  <2>2. NameOf(files_, writer.id) \in Names
    BY <1>0, <2>1, Zeros, LiveFile DEF WRLocks
  <2>3. writer.added = 0
    BY <1>0, <1>a, <2>1 DEF Active
  <2>4. Unpushed(f)
    BY <2>1, <2>3 DEF Unpushed, Added
  <2> QED
    BY <1>u, <2>1, <2>2, <2>4
<1>4. CASE CloseWR
  <2>1. /\ writer.id \in Ids /\ PersistUpdate("writer", writer.id, NameOf(files_, writer.id), files_)
        /\ UNCHANGED <<data, gc, file_size_, extents_, nr_synced_extents_, writer>>
        /\ writer.added = 0
    BY <1>0, <1>4 DEF CloseWR, Writer
  <2>2. NameOf(files_, writer.id) \in Names
    BY <1>0, <2>1, Zeros, LiveFile DEF WRLocks
  <2>4. Unpushed(f)
    BY <2>1 DEF Unpushed, Added
  <2> QED
    BY <1>u, <2>1, <2>2, <2>4
<1>5. ASSUME NEW src \in Names, NEW dst \in Names, RenameFile(src, dst)
      PROVE  Untouched(f) \/ Dropped(f) \/ Marked(f)
  <2> DEFINE id == files_[src]
             files == [files_ EXCEPT ![src] = NoFile, ![dst] = id]
  <2>1. /\ id \in Ids /\ files_[dst] = NoFile /\ PersistUpdate("user", id, dst, files)
        /\ UNCHANGED <<data, gc, file_size_, extents_, nr_synced_extents_, writer, extent_start_>>
    BY <1>0, <1>5 DEF RenameFile, Types
  <2>2. Live(files) = Live(files_)
    <3>1. \A m \in Names : files[m] = IF m = dst THEN id ELSE IF m = src THEN NoFile ELSE files_[m]
      BY <1>0
    <3>2. \A m \in Names : files_[m] = id => m = src
      BY <1>0, <2>1, Zeros DEF Names1
    <3> HIDE DEF files
    <3>3. ASSUME NEW g \in Ids, NEW m \in Names, files_[m] = g
          PROVE  \E q \in Names : files[q] = g
      <4>1. CASE m = src
        BY <3>1, <3>3, <4>1
      <4>2. CASE m # src
        BY <2>1, <3>1, <3>3, <4>2, Zeros
      <4> QED
        BY <4>1, <4>2
    <3>4. ASSUME NEW g \in Ids, NEW m \in Names, files[m] = g
          PROVE  \E q \in Names : files_[q] = g
      BY <3>1, <3>4, Zeros
    <3> QED
      BY <3>3, <3>4 DEF Live
  <2>3. Judged(f) => Unpushed(f)
    BY <1>p, <2>1 DEF Judged
  <2> HIDE DEF files, id
  <2> QED
    BY <1>u, <1>w, <2>1, <2>2, <2>3
<1>6. ASSUME NEW n \in Names, DeleteFile(n)
      PROVE  Untouched(f) \/ Dropped(f) \/ Marked(f)
  <2> DEFINE id == files_[n]
             files == [files_ EXCEPT ![n] = NoFile]
  <2>1. /\ id \in Ids /\ id # writer.id /\ PersistDeletion("user", id, files)
        /\ UNCHANGED <<data, gc, file_size_, nr_synced_extents_, writer, extent_start_>>
        /\ is_deleted_' = [is_deleted_ EXCEPT ![id] = TRUE]
        /\ extents_' = extents_ \/ extents_' = [extents_ EXCEPT ![id] = <<>>]
    BY <1>0, <1>6 DEF DeleteFile, Types
  <2>2. \A m \in Names : files[m] = (IF m = n THEN NoFile ELSE files_[m])
    BY <1>0
  <2>3. id \notin Live(files)
    BY <1>0, <2>1, <2>2, Zeros DEF Names1, Live
  <2>4. \A g \in Ids : g # id /\ g \in Live(files_) => g \in Live(files)
    BY <2>2 DEF Live
  <2>5. /\ Erased(id) /\ Free
        /\ \/ f # id /\ Kept(f)
           \/ f \in Live(files) /\ Written(f, NameOf(files, f), extents_[f]) /\ Judged(f)
           \/ f \notin Live(files) /\ Erased(f)
    <3> HIDE DEF id, files
    <3> QED
      BY <1>0, <2>1, <2>3, DeletionEffect
  <2>6. f \in Live(files) => NameOf(files, f) \in Names
    BY NameOfLive
  <2>7. f # id => extents_'[f] = extents_[f]
    BY <1>0, <2>1 DEF Types
  <2>8. f = id => is_deleted_'[f]
    BY <1>0, <2>1 DEF Types
  <2>p. Judged(f) => Unpushed(f)
    BY <1>p, <2>1 DEF Judged
  <2> HIDE DEF files, id
  <2>9. CASE f = id
    BY <2>5, <2>8, <2>9 DEF Dropped
  <2>10. CASE f # id
    BY <1>w, <2>1, <2>4, <2>5, <2>6, <2>7, <2>p, <2>10 DEF Dropped, Untouched, Marked
  <2> QED
    BY <2>9, <2>10
<1>7. CASE \E r \in Readers : GoOnReading(r) \/ \E n \in Names : PositionedRead(r, n)
  <2>1. UNCHANGED <<logged, nr_synced_extents_, files_mtx_, writer, extent_start_>>
    BY Zenon, <1>7 DEF GoOnReading, ReadLock, ReadNextExtent, ReadDevice, PositionedRead
  <2> QED
    BY <1>f, <2>1
<1>8. CASE \/ (\E n \in Names : ReopenWritableFile(n)) \/ CloseActiveZone \/ ResetUnused
           \/ (\E length \in Lengths : BufferedAppend(length)) \/ BufferedAppendDone
           \/ CloseWRDone /\ f # writer.id
  <2>1. UNCHANGED <<logged, nr_synced_extents_, files_mtx_>>
    BY <1>8 DEF ReopenWritableFile, CloseActiveZone, ResetUnused, BufferedAppend,
         BufferedAppendDone, CloseWRDone
  <2>2. f = writer.id => writer'.id = f /\ (Closing' => Closing)
    <3>1. CASE (\E n \in Names : ReopenWritableFile(n)) \/ CloseActiveZone
      <4>1. writer.id = NoFile
        BY <3>1 DEF ReopenWritableFile, CloseActiveZone, NoWriter
      <4> QED
        BY <4>1, Zeros
    <3>2. CASE \E length \in Lengths : BufferedAppend(length)
      BY <1>0, <3>2 DEF BufferedAppend, Writer, Closing
    <3>3. CASE ResetUnused
      BY <1>w, <3>3 DEF ResetUnused
    <3>4. CASE BufferedAppendDone
      <4>1. /\ writer'.id = writer.id
            /\ extent_start_' = [extent_start_ EXCEPT ![writer.id].start = Len(data[writer.zone])]
            /\ writer.added > 0
        BY <1>0, <3>4 DEF BufferedAppendDone, Writer
      <4>2. writer.id \in Ids /\ ~Closing /\ writer.id # NoFile /\ writer.zone # NoZone
        BY <1>0, <4>1 DEF Active, Writer
      <4>3. extent_start_[writer.id] \in Start /\ extent_start_[writer.id].zone # NoZone
        BY <1>0, <4>2 DEF Types, Closing
      <4>4. extent_start_'[writer.id].zone # NoZone
        BY <1>0, <4>1, <4>2, <4>3 DEF Types, Start
      <4> QED
        BY <4>1, <4>4 DEF Closing
    <3> QED
      BY <1>8, <3>1, <3>2, <3>3, <3>4
  <2> QED
    BY <2>1, <2>2 DEF Untouched, Kept, Waits
<1> QED
  BY <1>1, <1>2, <1>3, <1>4, <1>5, <1>6, <1>7, <1>8 DEF Next, NameAssumption

\* Between two mounts: where the lists of the collector come from
LEMMA CollectSteps ==
  ASSUME Control, Next, ~Crash, gc'.pc \in Moving \cup Swapped
  PROVE  /\ gc.id \in Ids /\ gc'.id = gc.id /\ gc.pc \in Holding
         /\ \/ gc'.list = gc.list /\ gc.pc \in Moving /\ gc'.pc \in Moving
            \/ gc'.list = gc.list /\ gc.pc \in Swapped /\ gc'.pc \in Swapped /\ gc'.old = gc.old
            \/ /\ TryAcquireWRLock /\ gc'.pc = "extent" /\ gc'.list = extents_[gc.id]
               /\ UNCHANGED <<data, extents_>>
            \/ ExtentMigrated /\ gc'.pc = "extent"
            \/ /\ ReplaceExtentList /\ gc'.pc = "unsync" /\ gc'.list = gc.list
               /\ gc'.old = extents_[gc.id]
         /\ gc'.pc = "check" => /\ gc.pc = "check" \/ MigrateData \/ MigrateDataError
                                /\ gc'.list = gc.list /\ gc'.i = gc.i /\ gc'.target = gc.target
                                /\ gc'.start = gc.start
         /\ gc.pc \in {"unsync", "sync"} /\ gc'.pc \notin {"unsync", "sync"} =>
              SyncFileMetadata /\ gc'.pc = "clear"
         /\ gc'.pc \in {"unsync", "sync"} =>
              \/ gc.pc = gc'.pc
              \/ gc.pc = "unsync" /\ MetadataUnsynced /\ gc'.pc = "sync"
              \/ gc.pc = "replace" /\ ReplaceExtentList /\ gc'.pc = "unsync"
<1> USE DEF device, namespace, metadata, lists, locks, faults
<1>0. gc \in Collector /\ Types /\ WRLocks /\ Lists
  BY DEF Control, Types
<1>h. gc.pc \in Holding => gc.id \in Ids
  BY <1>0, HeldFile
<1>1. CASE gc' = gc
  BY <1>h, <1>1 DEF Moving, Swapped, Holding
<1>2. CASE Collect
  <2>s. ASSUME NEW fname, gc' = Skip(fname) PROVE FALSE
    BY <1>0, <2>s, SkipType DEF Moving, Swapped
  <2>1. CASE GCWorker \/ GetZenFSSnapshot \/ (\E n \in Names : MigrateGetFile(n)) \/ MigrateResets
    <3>1. gc'.pc \in {"idle", "files", "next", "reset", "wrlock"}
      <4>1. CASE GCWorker
        BY <1>0, <4>1 DEF GCWorker, Collector
      <4>2. CASE GetZenFSSnapshot
        <5>1. gc' = NoGC \/ \E todo : gc' = [NoGC EXCEPT !.pc = "next", !.todo = todo]
          BY Zenon, <4>2 DEF GetZenFSSnapshot
        <5>2. ASSUME NEW todo, gc' = [NoGC EXCEPT !.pc = "next", !.todo = todo]
              PROVE  gc'.pc = "next"
          BY <5>2 DEF NoGC
        <5>3. CASE gc' = NoGC
          BY <5>3 DEF NoGC
        <5> QED
          BY Zenon, <5>1, <5>2, <5>3
      <4>3. CASE \E n \in Names : MigrateGetFile(n)
        BY <1>0, <2>s, <4>3 DEF MigrateGetFile, Collector
      <4>4. CASE MigrateResets
        BY <1>0, <4>4 DEF MigrateResets, NoGC, Collector
      <4> QED
        BY <2>1, <4>1, <4>2, <4>3, <4>4
    <3> QED
      BY <3>1 DEF Moving, Swapped
  <2>2. CASE TryAcquireWRLock
    <3>1. gc.pc = "wrlock" /\ gc' = [gc EXCEPT !.pc = "extent", !.list = extents_[gc.id], !.i = 1]
          /\ UNCHANGED <<data, extents_>>
      BY <2>s, <2>2 DEF TryAcquireWRLock
    <3>2. gc'.pc = "extent" /\ gc'.list = extents_[gc.id] /\ gc'.id = gc.id
      BY <1>0, <3>1 DEF Collector
    <3> QED
      BY <1>h, <2>2, <3>1, <3>2 DEF Holding
  <2>3. CASE ReleaseWRLock
    BY <2>s, <2>3 DEF ReleaseWRLock
  <2>4. CASE SyncFileExtentsDone
    <3>1. gc'.pc = "release"
      BY <1>0, <2>4 DEF SyncFileExtentsDone, Collector
    <3> QED
      BY <3>1 DEF Moving, Swapped
  <2>5. CASE ExtentMigrated
    <3>1. gc.pc = "check" /\ gc'.pc = "extent" /\ gc'.id = gc.id
      BY <1>0, <2>5 DEF ExtentMigrated, Collector
    <3> QED
      BY <1>h, <2>5, <3>1 DEF Holding
  <2>6. CASE ReplaceExtentList
    <3>1. gc.pc = "replace" /\ gc'.pc = "unsync" /\ gc'.id = gc.id /\ gc'.list = gc.list
          /\ gc'.old = extents_[gc.id]
      BY <1>0, <2>6 DEF ReplaceExtentList, Collector
    <3> QED
      BY <1>h, <2>6, <3>1 DEF Holding
  <2>7. CASE (\E z \in Zones : TakeMigrateZone(z)) \/ LeaveExtent \/ MigrateData \/ MigrateDataError
              \/ FileGone \/ WriteLock
    <3>1. /\ gc.pc \in {"extent", "copy", "check"} /\ gc'.pc \in {"extent", "copy", "check", "replace"}
          /\ gc'.id = gc.id /\ gc'.list = gc.list
          /\ gc'.pc = "check" => /\ MigrateData \/ MigrateDataError
                               /\ gc'.i = gc.i /\ gc'.target = gc.target /\ gc'.start = gc.start
      <4>1. ASSUME NEW z \in Zones, TakeMigrateZone(z)
            PROVE  /\ gc.pc = "extent" /\ gc'.pc = "copy" /\ gc'.id = gc.id /\ gc'.list = gc.list
        BY <1>0, <4>1 DEF TakeMigrateZone, Collector
      <4>2. CASE LeaveExtent
        BY <1>0, <4>2 DEF LeaveExtent, Collector
      <4>3. CASE MigrateData
        BY <1>0, <4>3 DEF MigrateData, Collector
      <4>6. CASE MigrateDataError
        BY <1>0, <4>6 DEF MigrateDataError, Collector
      <4>4. CASE FileGone
        BY <1>0, <4>4 DEF FileGone, Collector
      <4>5. CASE WriteLock
        BY <1>0, <4>5 DEF WriteLock, Collector
      <4> QED
        BY <2>7, <4>1, <4>2, <4>3, <4>4, <4>5, <4>6
    <3> QED
      BY <1>h, <3>1 DEF Moving, Swapped, Holding
  <2>8. CASE MetadataUnsynced
    <3>1. gc.pc = "unsync" /\ gc'.pc = "sync" /\ gc'.id = gc.id /\ gc'.list = gc.list
          /\ gc'.old = gc.old
      BY <1>0, <2>8 DEF MetadataUnsynced, Collector
    <3> QED
      BY <1>h, <2>8, <3>1 DEF Moving, Swapped, Holding
  <2>9. CASE SyncFileMetadata
    <3>1. gc.pc = "sync" /\ gc'.pc \in {"clear", "release"} /\ gc'.id = gc.id
          /\ gc'.list = gc.list /\ gc'.old = gc.old
      BY <1>0, <2>9 DEF SyncFileMetadata, Collector
    <3> QED
      BY <1>h, <2>9, <3>1 DEF Moving, Swapped, Holding
  <2> QED
    BY <1>2, <2>1, <2>2, <2>3, <2>4, <2>5, <2>6, <2>7, <2>8, <2>9 DEF Collect
<1>3. ~Collect => gc' = gc
  BY Zenon DEF Next, OpenWritableFile, ReopenWritableFile, DeleteFile, AllocateNewZone,
         BufferedAppend, MetadataSynced, BufferedAppendDone, CloseWR, CloseWRDone, CloseActiveZone, ResetUnused, RenameFile, GoOnReading,
         ReadLock, ReadNextExtent, ReadDevice, PositionedRead
<1> QED
  BY <1>1, <1>2, <1>3

-----------------------------------------------------------------------------
(***************************************************************************)
(* Files without a name                                                    *)
(***************************************************************************)

\* Nothing is recovered from an empty record.
LEMMA RecoverNothing ==
  /\ Recover(NoRecord) = NoRecord /\ [NoRecord EXCEPT !.start = NO_EXTENT] = NoRecord
BY DEF Recover, NoRecord, NO_EXTENT

\* What a mount makes of a record
LEMMA RecoverEffect ==
  ASSUME Types, NEW id \in Ids
  PROVE  LET r == Recover(logged[id])
             z == logged[id].start.zone
             s == logged[id].start.start
         IN  /\ r \in Record /\ r.name = logged[id].name
             /\ \/ r = logged[id]
                \/ /\ z \in Zones /\ s \in Nat /\ Len(data[z]) \in Nat /\ Len(data[z]) > s
                   /\ [zone |-> z, start |-> s, length |-> Len(data[z]) - s] \in Extent
                   /\ r.ext = Append(logged[id].ext, [zone |-> z, start |-> s,
                                                      length |-> Len(data[z]) - s])
                   /\ r.size = Total(logged[id].ext) + Len(data[z]) - s
                   /\ r.start = logged[id].start
             /\ z # NoZone /\ r = logged[id] => Len(data[z]) <= s
<1> DEFINE r == Recover(logged[id])
           z == logged[id].start.zone
           s == logged[id].start.start
           e == [zone |-> z, start |-> s, length |-> Len(data[z]) - s]
<1>1. logged[id] \in Record /\ r \in Record
  BY RecoverType DEF Types
<1>2. z \in Zones \cup {NoZone} /\ s \in Nat /\ s \in 0..ZoneCap
  BY <1>1 DEF Record, Start
<1>3. z # NoZone => data[z] \in Seq(Datum) /\ Len(data[z]) \in Nat /\ Len(data[z]) <= ZoneCap
  BY <1>2 DEF Types
<1>4. CASE z = NoZone \/ Len(data[z]) <= s
  <2>1. r = logged[id]
    BY <1>4 DEF Recover
  <2>2. z # NoZone => Len(data[z]) <= s
    BY <1>4
  <2> QED
    BY <1>1, <2>1, <2>2
<1>5. CASE z # NoZone /\ ~(Len(data[z]) <= s)
  <2>1. r = [logged[id] EXCEPT !.ext = Append(@, e),
                               !.size = Total(logged[id].ext) + Len(data[z]) - s]
    BY <1>5 DEF Recover
  <2>2. r.ext = Append(logged[id].ext, e) /\ r.size = Total(logged[id].ext) + Len(data[z]) - s
        /\ r.name = logged[id].name /\ r.start = logged[id].start
    BY <1>1, <2>1 DEF Record
  <2>3. z \in Zones /\ Len(data[z]) \in Nat /\ Len(data[z]) > s
        /\ Len(data[z]) - s \in 1..ZoneCap
    <3> DEFINE n == Len(data[z])
    <3>1. z \in Zones /\ n \in Nat /\ n <= ZoneCap /\ ~(n <= s) /\ s \in Nat
      BY <1>2, <1>3, <1>5
    <3> HIDE DEF n, s
    <3>2. n > s /\ n - s \in 1..ZoneCap
      BY <3>1
    <3> QED
      BY <3>1, <3>2 DEF n
  <2>4. e \in Extent
    BY <1>2, <2>3 DEF Extent
  <2>5. r # logged[id]
    <3>1. logged[id].ext \in Seq(Extent)
      BY <1>1 DEF Record
    <3>2. Append(logged[id].ext, e) # logged[id].ext
      <4> HIDE DEF e
      <4>1. Len(Append(logged[id].ext, e)) = Len(logged[id].ext) + 1 /\ Len(logged[id].ext) \in Nat
        BY <2>4, <3>1
      <4> QED
        BY <4>1
    <3> QED
      BY <2>2, <3>2
  <2> QED
    BY <1>1, <1>2, <2>2, <2>3, <2>4, <2>5
<1> QED
  BY <1>4, <1>5

\* What the mount leaves of a file
LEMMA CrashEffect ==
  ASSUME Control, Crash, NEW id \in Ids
  PROVE  LET r == Recover(logged[id])
         IN  /\ extents_'[id] = r.ext /\ file_size_'[id] = r.size
             /\ logged'[id].name = r.name /\ logged'[id].ext = r.ext /\ logged'[id].size = r.size
             /\ logged'[id].start = NO_EXTENT /\ nr_synced_extents_'[id] = Len(r.ext)
             /\ r = NoRecord => logged'[id] = NoRecord
             /\ ~is_deleted_'[id] /\ gc' = NoGC /\ writer' = NoWriter
             /\ extent_start_'[id] = NO_EXTENT
<1> DEFINE r == Recover(logged[id])
<1>1. r \in Record
  BY RecoverEffect DEF Control
<1>2. /\ logged'[id] = [r EXCEPT !.start = NO_EXTENT] /\ extents_'[id] = r.ext
      /\ file_size_'[id] = r.size /\ nr_synced_extents_'[id] = Len(r.ext)
      /\ ~is_deleted_'[id] /\ gc' = NoGC /\ writer' = NoWriter /\ extent_start_'[id] = NO_EXTENT
  BY DEF Crash, Mount
<1> HIDE DEF r
<1>3. /\ logged'[id].name = r.name /\ logged'[id].ext = r.ext /\ logged'[id].size = r.size
      /\ logged'[id].start = NO_EXTENT
  BY <1>1, <1>2 DEF Record
<1>4. r = NoRecord => logged'[id] = NoRecord
  BY <1>2, RecoverNothing
<1> QED
  BY <1>2, <1>3, <1>4 DEF r

\* Every step leaves files without a name out of the log.
LEMMA UnnamedNext ==
  ASSUME Control, Unnamed, Next
  PROVE  Unnamed'
<1> SUFFICES ASSUME NEW f \in Ids, logged'[f].name = NoFile
             PROVE  logged'[f] = NoRecord
  BY DEF Unnamed
<1>1. CASE Untouched(f) \/ (MetadataUnsynced /\ f = gc.id) \/ MetadataSynced \/ CloseWRDone
  BY <1>1 DEF Unnamed, Untouched, Kept, MetadataUnsynced, MetadataSynced, CloseWRDone, metadata
<1>2. CASE Dropped(f)
  BY <1>2 DEF Dropped, Erased
<1>3. CASE Marked(f) \/ Replaced(f)
  BY <1>3, Zeros DEF Marked, Replaced, Written
<1>4. CASE Crash
  <2>1. Recover(logged[f]).name = logged[f].name /\ logged'[f].name = Recover(logged[f]).name
    BY <1>4, CrashEffect, RecoverEffect DEF Control
  <2>2. logged[f] = NoRecord
    BY <2>1 DEF Unnamed
  <2> QED
    BY <1>4, <2>2, CrashEffect, RecoverNothing
<1> QED
  BY <1>1, <1>2, <1>3, <1>4, LogSteps1

\* A record that is dropped was none, or its file is deleted.
Gone(f) == is_deleted_'[f] /\ logged'[f] = NoRecord

\* What one step does to the record of a file, where files without a name have none
LEMMA LogSteps ==
  ASSUME Control, Unnamed, Next, NEW f \in Ids
  PROVE  \/ Untouched(f) \/ Gone(f) \/ Marked(f) \/ Replaced(f)
         \/ MetadataUnsynced /\ f = gc.id
         \/ MetadataSynced
         \/ CloseWRDone /\ f = writer.id
         \/ Crash
<1>1. ASSUME Dropped(f), f \notin Live(files_)
      PROVE  Untouched(f)
  <2>1. logged[f].name = NoFile
    <3>1. logged[f].name \in Names \cup {NoFile}
      BY DEF Control, Types, Record
    <3> QED
      BY <1>1, <3>1 DEF Control, Names1, Live
  <2>2. ~Waits(f) /\ f # writer.id
    BY <1>1, Zeros DEF Waits, Control, Mutex, WRLocks
  <2>3. Kept(f)
    BY <1>1, <2>1, <2>2 DEF Unnamed, Dropped, Erased, Kept
  <2> QED
    BY <1>1, <2>2, <2>3 DEF Dropped, Untouched
<1> QED
  BY <1>1, LogSteps1 DEF Dropped, Gone, Erased

\* Behind the swap, until the record is written
LEMMA SyncingSteps ==
  ASSUME Control, Next, ~Crash, gc.pc \in {"unsync", "sync"}
  PROVE  /\ gc'.id = gc.id /\ gc'.old = gc.old /\ gc'.list = gc.list /\ gc.id \in Ids
         /\ SyncFileMetadata \/ gc'.pc \in {"unsync", "sync"}
<1> USE DEF device, namespace, metadata, lists, locks, faults
<1>0. gc \in Collector /\ gc.id \in Ids
  BY HeldFile DEF Control, Types, Holding
<1>1. CASE Collect
  <2>1. MetadataUnsynced \/ SyncFileMetadata
    BY Zenon, <1>1 DEF Collect, GCWorker, GetZenFSSnapshot, MigrateGetFile, TryAcquireWRLock,
       TakeMigrateZone, LeaveExtent, MigrateData, MigrateDataError, ExtentMigrated, FileGone, WriteLock,
       ReplaceExtentList, SyncFileExtentsDone, ReleaseWRLock, MigrateResets
  <2>2. CASE MetadataUnsynced
    BY <1>0, <2>2 DEF MetadataUnsynced, Collector
  <2>3. CASE SyncFileMetadata
    BY Zenon, <1>0, <2>3 DEF SyncFileMetadata, Collector
  <2> QED
    BY <2>1, <2>2, <2>3
<1>2. ~Collect => gc' = gc
  BY Zenon DEF Next, OpenWritableFile, ReopenWritableFile, DeleteFile, AllocateNewZone,
         BufferedAppend, MetadataSynced, BufferedAppendDone, CloseWR, CloseWRDone, CloseActiveZone, ResetUnused, RenameFile, GoOnReading,
         ReadLock, ReadNextExtent, ReadDevice, PositionedRead
<1> QED
  BY <1>0, <1>1, <1>2

-----------------------------------------------------------------------------
(***************************************************************************)
(* Extents below the write pointers                                        *)
(***************************************************************************)

\* The extents of lists that are put together or cut
LEMMA SetOfParts ==
  /\ ToSet(<<>>) = {}
  /\ \A one, other \in Seq(Extent) : ToSet(one \o other) \subseteq ToSet(one) \cup ToSet(other)
  /\ \A list \in Seq(Extent), e \in Extent : ToSet(Append(list, e)) = ToSet(list) \cup {e}
  /\ \A list \in Seq(Extent), n \in Nat : ToSet(SubSeq(list, n + 1, Len(list))) \subseteq ToSet(list)
<1>1. \A one, other \in Seq(Extent) : ToSet(one \o other) \subseteq ToSet(one) \cup ToSet(other)
  <2> SUFFICES ASSUME NEW one \in Seq(Extent), NEW other \in Seq(Extent), NEW i \in DOMAIN (one \o other)
               PROVE  (one \o other)[i] \in ToSet(one) \cup ToSet(other)
    BY DEF ToSet
  <2>1. CASE i \in DOMAIN one
    BY <2>1 DEF ToSet
  <2>2. CASE i \notin DOMAIN one
    <3>1. i - Len(one) \in DOMAIN other /\ (one \o other)[i] = other[i - Len(one)]
      BY <2>2
    <3> QED
      BY <3>1 DEF ToSet
  <2> QED
    BY <2>1, <2>2
<1>2. \A list \in Seq(Extent), e \in Extent : ToSet(Append(list, e)) = ToSet(list) \cup {e}
  <2> SUFFICES ASSUME NEW list \in Seq(Extent), NEW e \in Extent
               PROVE  ToSet(Append(list, e)) = ToSet(list) \cup {e}
    OBVIOUS
  <2> DEFINE new == Append(list, e)
             n == Len(list) + 1
  <2>1. DOMAIN new = DOMAIN list \cup {n} /\ new[n] = e /\ \A i \in DOMAIN list : new[i] = list[i]
    OBVIOUS
  <2> HIDE DEF new, n
  <2>2. ToSet(new) = ToSet(list) \cup {e}
    BY <2>1 DEF ToSet
  <2> QED
    BY <2>2 DEF new
<1>3. \A list \in Seq(Extent), n \in Nat : ToSet(SubSeq(list, n + 1, Len(list))) \subseteq ToSet(list)
  <2> SUFFICES ASSUME NEW list \in Seq(Extent), NEW n \in Nat,
                      NEW i \in DOMAIN SubSeq(list, n + 1, Len(list))
               PROVE  SubSeq(list, n + 1, Len(list))[i] \in ToSet(list)
    BY DEF ToSet
  <2>1. n + i \in DOMAIN list /\ SubSeq(list, n + 1, Len(list))[i] = list[n + i]
    OBVIOUS
  <2> QED
    BY <2>1 DEF ToSet
<1>4. ToSet(<<>>) = {}
  BY DEF ToSet
<1> QED
  BY <1>1, <1>2, <1>3, <1>4

\* A list stays below write pointers that only grow.
LEMMA WithinLonger ==
  ASSUME NEW d \in [Zones -> Seq(Datum)], NEW e \in [Zones -> Seq(Datum)], NEW list \in Seq(Extent),
         Within(d, list), \A i \in DOMAIN list : Longer(d[list[i].zone], e[list[i].zone])
  PROVE  Within(e, list)
<1> SUFFICES ASSUME NEW i \in DOMAIN list
             PROVE  list[i].start + list[i].length <= Len(e[list[i].zone])
  BY DEF Within
<1> DEFINE z == list[i].zone
           a == d[z]
           b == e[z]
<1>1. list[i] \in Extent
  OBVIOUS
<1>2. z \in Zones /\ list[i].start \in Nat /\ list[i].length \in Nat
  BY <1>1 DEF Extent
<1>3. a \in Seq(Datum) /\ b \in Seq(Datum) /\ Longer(a, b) /\ list[i].start + list[i].length <= Len(a)
  BY <1>2 DEF Within
<1> HIDE DEF a, b
<1>4. Len(a) <= Len(b)
  <2>1. Len(a) \in Nat /\ Len(b) \in Nat /\ DOMAIN a = 1..Len(a) /\ DOMAIN b = 1..Len(b)
    BY <1>3
  <2>2. CASE Len(a) = 0
    BY <2>1, <2>2
  <2>3. CASE Len(a) # 0
    <3>1. Len(a) \in DOMAIN a
      BY <2>1, <2>3
    <3>2. Len(a) \in DOMAIN b
      BY <1>3, <3>1 DEF Longer
    <3> QED
      BY <2>1, <3>2
  <2> QED
    BY <2>2, <2>3
<1>5. Len(a) \in Nat /\ Len(b) \in Nat
  BY <1>3
<1>6. list[i].start + list[i].length <= Len(b)
  BY <1>2, <1>3, <1>4, <1>5
<1> QED
  BY <1>6 DEF b

\* So does a list with another extent that does.
LEMMA WithinAppend ==
  ASSUME NEW d, NEW list \in Seq(Extent), NEW e \in Extent, Within(d, list),
         e.start + e.length <= Len(d[e.zone])
  PROVE  Within(d, Append(list, e))
<1> DEFINE new == Append(list, e)
           n == Len(list) + 1
<1>1. DOMAIN new = DOMAIN list \cup {n} /\ new[n] = e /\ \A i \in DOMAIN list : new[i] = list[i]
  OBVIOUS
<1> HIDE DEF new, n
<1>2. Within(d, new)
  BY <1>1 DEF Within
<1> QED
  BY <1>2 DEF new

\* Until a record is refused the log knows no extents that the lists do not have.
LEMMA KnownNext ==
  ASSUME Control, Unnamed, Next, NEW f \in Ids, errors' = errors,
         ToSet(logged[f].ext) \subseteq KnownExtents(f)
  PROVE  ToSet(logged'[f].ext) \subseteq KnownExtents(f)'
<1> USE DEF device, namespace, metadata, lists, locks, faults
<1>0. Types /\ Names1 /\ WRLocks /\ extents_[f] \in Seq(Extent) /\ logged[f].ext \in Seq(Extent)
      /\ nr_synced_extents_[f] \in Nat /\ errors \in Nat
  BY DEF Control, Types, Record
<1>1. ToSet(Unsynced(f)) \subseteq ToSet(extents_[f]) /\ Unsynced(f) \in Seq(Extent)
  <2>1. ToSet(Unsynced(f)) \subseteq ToSet(extents_[f])
    BY <1>0, SetOfParts DEF Unsynced
  <2>2. Unsynced(f) \in Seq(Extent)
    BY <1>0 DEF Unsynced
  <2> QED
    BY <2>1, <2>2
<1>2. ToSet(logged[f].ext \o Unsynced(f)) \subseteq KnownExtents(f)
  <2>1. ToSet(logged[f].ext \o Unsynced(f)) \subseteq ToSet(logged[f].ext) \cup ToSet(Unsynced(f))
    BY <1>0, <1>1, SetOfParts
  <2> QED
    BY <1>1, <2>1 DEF KnownExtents
<1>c. CASE Crash
  BY <1>c, CrashEffect DEF KnownExtents
<1>g. CASE logged'[f] = NoRecord
  BY <1>g, SetOfParts DEF NoRecord
<1>s. CASE SyncFileMetadata /\ f = gc.id
  <2>1. /\ \/ errors' = errors + 1
           \/ is_deleted_[f] /\ Kept(f)
           \/ Kept(f) /\ f # gc.id
           \/ logged'[f].ext = Unsynced(f)
           \/ logged'[f].ext = extents_[f]
           \/ logged'[f] = NoRecord
    BY <1>0, <1>s, SyncEffect DEF Written, Erased
  <2>2. extents_' = extents_
    BY <1>s DEF SyncFileMetadata
  <2>3. ~(errors' = errors + 1)
    BY <1>0
  <2>4. is_deleted_[f] /\ Kept(f) => logged'[f] = NoRecord
    BY <1>0 DEF Names1, Kept
  <2> QED
    BY <1>1, <1>g, <1>s, <2>1, <2>2, <2>3, <2>4 DEF KnownExtents
<1>m. CASE Marked(f)
  <2>1. KnownExtents(f)' = KnownExtents(f) /\ ToSet(extents_[f]) \subseteq KnownExtents(f)
    BY <1>m DEF Marked, KnownExtents
  <2>2. logged'[f].ext = extents_[f] \/ logged'[f].ext = logged[f].ext \o Unsynced(f)
    BY <1>m DEF Marked, Written
  <2> QED
    BY <1>2, <2>1, <2>2
<1>r. CASE Replaced(f) /\ f # gc.id
  <2>1. logged'[f].ext = extents_[f] /\ extents_' = extents_
    BY <1>r DEF Replaced, Written, SyncFileMetadata
  <2> QED
    BY <2>1 DEF KnownExtents
<1>k. CASE /\ ~Crash /\ ~(SyncFileMetadata /\ f = gc.id)
           /\ Untouched(f) \/ (MetadataUnsynced /\ f = gc.id) \/ MetadataSynced \/ CloseWRDone
  <2>1. logged'[f] = logged[f]
    BY <1>k DEF Untouched, Kept, MetadataUnsynced, MetadataSynced, CloseWRDone
  <2>2. gc.id = f /\ gc.pc \in {"unsync", "sync"} =>
          gc'.id = f /\ gc'.pc \in {"unsync", "sync"} /\ gc'.old = gc.old
    BY <1>k, SyncingSteps
  <2>3. CASE extents_'[f] = extents_[f]
    BY <2>1, <2>2, <2>3 DEF KnownExtents
  <2>4. CASE f = writer.id /\ \E length \in Lengths : BufferedAppend(length)
    <3>1. PICK length \in Lengths : BufferedAppend(length)
      BY <2>4
    <3> DEFINE e == [zone |-> writer.zone, start |-> Len(data[writer.zone]), length |-> length]
    <3>2. writer.zone \in Zones /\ length \in 1..ZoneCap
          /\ Len(data[writer.zone]) \in Nat /\ Len(data[writer.zone]) + length <= ZoneCap
      BY <3>1, Appending
    <3>3. Len(data[writer.zone]) \in 0..ZoneCap
      BY <3>2
    <3>4. e \in Extent
      BY <3>2, <3>3 DEF Extent
    <3>5. extents_'[f] = Append(extents_[f], e) /\ gc' = gc
      <4>1. extent_start_[f].start = Len(data[writer.zone])
        BY <2>4, <3>1, Appending
      <4>2. gc' = gc /\ extents_'[f] = Append(extents_[f], [zone |-> writer.zone,
                                           start |-> extent_start_[f].start, length |-> length])
        BY <1>0, <2>4, <3>1 DEF BufferedAppend, Types
      <4> QED
        BY <4>1, <4>2
    <3> HIDE DEF e
    <3>6. ToSet(extents_[f]) \subseteq ToSet(extents_'[f])
      BY <1>0, <3>4, <3>5, SetOfParts
    <3> QED
      BY <2>1, <3>5, <3>6 DEF KnownExtents
  <2>5. CASE f = gc.id /\ ReplaceExtentList
    <3>1. gc.pc = "replace" /\ gc'.pc = "unsync" /\ gc'.id = gc.id /\ gc'.old = extents_[gc.id]
      BY <1>0, <2>5 DEF ReplaceExtentList, Types, Collector
    <3> QED
      BY <2>1, <2>5, <3>1 DEF KnownExtents
  <2> QED
    BY <1>g, <1>k, <2>3, <2>4, <2>5, ListSteps
<1> QED
  BY <1>c, <1>g, <1>s, <1>m, <1>r, <1>k, LogSteps DEF Gone, Replaced

\* The extent an append adds
NewExtent(length) ==
  [zone |-> writer.zone, start |-> Len(data[writer.zone]), length |-> length]

\* An append adds that extent to its file.
LEMMA AppendedExtent ==
  ASSUME Control, NEW length \in Lengths, BufferedAppend(length)
  PROVE  /\ NewExtent(length) \in Extent
         /\ NewExtent(length).zone = writer.zone /\ NewExtent(length).length = length
         /\ NewExtent(length).start = Len(data[writer.zone])
         /\ extents_'[writer.id] = Append(extents_[writer.id], NewExtent(length))
         /\ \A f \in Ids : f # writer.id => extents_'[f] = extents_[f]
         /\ file_size_' = file_size_ /\ writer.added = 0 /\ writer'.added = length
         /\ gc' = gc /\ writer'.id = writer.id /\ is_deleted_' = is_deleted_
<1>1. writer.zone \in Zones /\ length \in 1..ZoneCap /\ writer.id \in Ids
      /\ Len(data[writer.zone]) \in Nat /\ Len(data[writer.zone]) + length <= ZoneCap
  BY Appending
<1>2. Len(data[writer.zone]) \in 0..ZoneCap
  BY <1>1
<1>3. NewExtent(length) \in Extent
  BY <1>1, <1>2 DEF Extent, NewExtent
<1>4. extents_ \in [Ids -> Seq(Extent)] /\ writer \in Writer
  BY DEF Control, Types
<1>5. extent_start_[writer.id].start = Len(data[writer.zone]) /\ writer.added = 0
  BY Appending
<1>6. /\ extents_' = [extents_ EXCEPT ![writer.id] =
                        Append(@, [zone |-> writer.zone, start |-> extent_start_[writer.id].start,
                                   length |-> length])]
      /\ writer' = [writer EXCEPT !.added = length] /\ file_size_' = file_size_ /\ gc' = gc
      /\ is_deleted_' = is_deleted_
  BY DEF BufferedAppend
<1>7. writer'.id = writer.id /\ writer'.added = length
  BY <1>4, <1>6 DEF Writer
<1> QED
  BY <1>1, <1>3, <1>4, <1>5, <1>6, <1>7 DEF NewExtent

\* The extent the collector puts in the place of another
MigratedExtent ==
  LET e == gc.list[gc.i]
  IN  [e EXCEPT !.zone = gc.target, !.start = gc.start]

\* The extent is replaced by one at the copy.
LEMMA Migrated ==
  ASSUME Control, ExtentMigrated
  PROVE  /\ gc.i \in DOMAIN gc.list /\ gc.list[gc.i] \in Extent /\ gc.target \in Zones
         /\ gc.pc = "check" /\ gc.id \in Ids /\ gc.list \in Seq(Extent)
         /\ Len(data[gc.target]) \in Nat /\ gc.start \in Nat
         /\ gc.id \notin uncopied => gc.start + gc.list[gc.i].length = Len(data[gc.target])
         /\ MigratedExtent \in Extent /\ MigratedExtent.zone = gc.target
         /\ MigratedExtent.length = gc.list[gc.i].length
         /\ MigratedExtent.start = gc.start
         /\ gc'.list = [gc.list EXCEPT ![gc.i] = MigratedExtent]
         /\ gc'.pc = "extent" /\ gc'.id = gc.id /\ data' = data /\ extents_' = extents_
<1> USE DEF device, namespace, metadata, lists, locks, faults
<1> DEFINE e == gc.list[gc.i]
           n == Len(data[gc.target])
<1>0. Types /\ WRLocks /\ Lists /\ gc \in Collector /\ gc.pc = "check"
  BY DEF Control, Types, ExtentMigrated
<1>1. /\ gc.id \in Ids /\ gc.target \in Zones /\ gc.i \in DOMAIN gc.list
      /\ gc.id \notin uncopied => gc.start + e.length = n
  BY <1>0, HeldFile DEF WRLocks, Lists, Holding
<1>2. gc.list \in Seq(Extent) /\ e \in Extent
  BY <1>0, <1>1 DEF Collector
<1>3. n \in Nat
  BY <1>0, <1>1 DEF Types
<1>4. gc.start \in 0..ZoneCap
  BY <1>0 DEF Collector
<1>5. MigratedExtent \in Extent /\ MigratedExtent.zone = gc.target
      /\ MigratedExtent.length = e.length /\ MigratedExtent.start = gc.start
  BY <1>1, <1>2, <1>4 DEF MigratedExtent, Extent
<1>6. gc'.list = [gc.list EXCEPT ![gc.i] = MigratedExtent]
      /\ gc'.pc = "extent" /\ gc'.id = gc.id /\ data' = data /\ extents_' = extents_
  BY <1>0 DEF ExtentMigrated, MigratedExtent, Collector
<1> QED
  BY <1>0, <1>1, <1>2, <1>3, <1>4, <1>5, <1>6

\* A mount resets no zone that a list points into.
LEMMA CrashKeeps ==
  ASSUME Control', Crash, NEW id \in Ids, NEW i \in DOMAIN extents_'[id]
  PROVE  data'[extents_'[id][i].zone] = data[extents_'[id][i].zone]
<1> DEFINE z == extents_'[id][i].zone
<1>0. extents_' \in [Ids -> Seq(Extent)]
  BY DEF Control, Types
<1>1. z \in Zones
  <2>1. extents_'[id][i] \in Extent
    BY <1>0
  <2> QED
    BY <2>1 DEF Extent
<1>2. Used(z, extents_') > 0 /\ Used(z, extents_') \in Nat
  BY <1>0, UsedPositive
<1>3. used_capacity_'[z] = Used(z, extents_')
  BY <1>1 DEF Crash, Mount
<1>4. data'[z] = IF used_capacity_'[z] = 0 THEN <<>> ELSE data[z]
  BY <1>1 DEF Crash, Mount
<1> QED
  BY <1>2, <1>3, <1>4

\* A mount adds an extent up to the write pointer, and none beyond.
LEMMA RangesCrash ==
  ASSUME Control, Control', Ranges, Crash
  PROVE  Ranges'
<1> SUFFICES ASSUME errors' = 0
             PROVE  \A id \in Ids : /\ Within(data', extents_'[id])
                                    /\ ToSet(logged'[id].ext) \subseteq ToSet(extents_'[id])
  BY DEF Ranges, Crash, NoGC, Moving, Swapped, KnownExtents
<1>1. errors = 0 /\ Types /\ gc.pc \in {"unsync", "sync"} => gc.old \in Seq(Extent)
  BY DEF Crash, Control, Types, Collector
<1> TAKE id \in Ids
<1>2. ToSet(logged'[id].ext) \subseteq ToSet(extents_'[id])
  BY CrashEffect
<1>3. data \in [Zones -> Seq(Datum)] /\ extents_' \in [Ids -> Seq(Extent)]
      /\ logged[id].ext \in Seq(Extent)
  BY DEF Control, Types, Record
<1>4. Within(data, logged[id].ext)
  <2> SUFFICES ASSUME NEW i \in DOMAIN logged[id].ext
               PROVE  logged[id].ext[i].start + logged[id].ext[i].length
                        <= Len(data[logged[id].ext[i].zone])
    BY DEF Within
  <2>1. errors = 0
    BY DEF Crash
  <2>2. logged[id].ext[i] \in KnownExtents(id)
    BY <2>1 DEF Ranges, ToSet
  <2>3. CASE logged[id].ext[i] \in ToSet(extents_[id])
    BY <2>1, <2>3 DEF Ranges, ToSet, Within
  <2>4. CASE gc.pc \in {"unsync", "sync"} /\ logged[id].ext[i] \in ToSet(gc.old)
    BY <2>1, <2>4 DEF Ranges, ToSet, Within, Swapped
  <2> QED
    BY <2>2, <2>3, <2>4 DEF KnownExtents
<1>5. Within(data, extents_'[id])
  <2> DEFINE z == logged[id].start.zone
             s == logged[id].start.start
             e == [zone |-> z, start |-> s, length |-> Len(data[z]) - s]
  <2>1. extents_'[id] = Recover(logged[id]).ext
    BY CrashEffect
  <2>2. \/ Recover(logged[id]) = logged[id]
        \/ /\ s \in Nat /\ Len(data[z]) \in Nat /\ e \in Extent
           /\ Recover(logged[id]).ext = Append(logged[id].ext, e)
    BY RecoverEffect DEF Control
  <2>3. CASE Recover(logged[id]) = logged[id]
    BY <1>4, <2>1, <2>3
  <2>4. CASE /\ s \in Nat /\ Len(data[z]) \in Nat /\ e \in Extent
             /\ Recover(logged[id]).ext = Append(logged[id].ext, e)
    <3>1. e.zone = z /\ e.start + e.length <= Len(data[z])
      BY <2>4
    <3> HIDE DEF e
    <3>2. Within(data, Append(logged[id].ext, e))
      BY <1>3, <1>4, <2>4, <3>1, WithinAppend
    <3> QED
      BY <2>1, <2>4, <3>2
  <2> QED
    BY <2>2, <2>3, <2>4
<1>6. ASSUME NEW i \in DOMAIN extents_'[id]
      PROVE  data'[extents_'[id][i].zone] = data[extents_'[id][i].zone]
  BY CrashKeeps
<1>7. Within(data', extents_'[id])
  BY <1>5, <1>6 DEF Within
<1> QED
  BY <1>2, <1>7

\* After every step the lists lie below the write pointers, until a record is refused.
LEMMA RangesNext ==
  ASSUME Control, Control', Capacity, Unnamed, Ranges, Next
  PROVE  Ranges'
<1> USE DEF device, namespace, metadata, lists, locks, faults
<1>c. CASE Crash
  BY <1>c, RangesCrash
<1> SUFFICES ASSUME errors' = 0, ~Crash
             PROVE  Ranges'
  BY <1>c DEF Ranges
<1>0. errors = 0 /\ errors' = errors
  <2>1. errors \in Nat
    BY DEF Control, Types
  <2> QED
    BY <2>1, BoundSteps
<1>1. /\ data \in [Zones -> Seq(Datum)] /\ data' \in [Zones -> Seq(Datum)]
      /\ extents_ \in [Ids -> Seq(Extent)] /\ gc.list \in Seq(Extent) /\ gc.old \in Seq(Extent)
  BY DEF Control, Types, Collector
<1>2. Grows
  BY GrowsNext
<1>3. \A id \in Ids : Within(data', extents_[id])
  BY <1>0, <1>1, <1>2, ListsGrow, WithinLonger DEF Ranges, LongerIn
<1>4. gc.pc \in Moving \cup Swapped => Within(data', gc.list)
  BY <1>0, <1>1, <1>2, ListsGrow, WithinLonger DEF Ranges, LongerIn
<1>5. gc.pc \in Swapped => Within(data', gc.old)
  BY <1>0, <1>1, <1>2, ListsGrow, WithinLonger DEF Ranges, LongerIn
<1>6. ASSUME NEW id \in Ids
      PROVE  Within(data', extents_'[id])
  <2>1. CASE extents_'[id] \in {extents_[id], <<>>}
    BY <1>3, <2>1 DEF Within
  <2>2. CASE id = writer.id /\ \E length \in Lengths : BufferedAppend(length)
    <3>1. PICK length \in Lengths : BufferedAppend(length)
      BY <2>2
    <3> DEFINE e == NewExtent(length)
    <3>2. e \in Extent /\ e.zone = writer.zone /\ e.length = length
          /\ e.start = Len(data[writer.zone]) /\ extents_'[id] = Append(extents_[id], e)
      BY <2>2, <3>1, AppendedExtent
    <3>3. Len(data'[writer.zone]) = Len(data[writer.zone]) + length /\ Len(data'[writer.zone]) \in Nat
      BY <3>1, Appending
    <3> HIDE DEF e
    <3>4. e.start + e.length <= Len(data'[e.zone])
      BY <3>2, <3>3
    <3> QED
      BY <1>1, <1>3, <3>2, <3>4, WithinAppend
  <2>3. CASE id = gc.id /\ ReplaceExtentList
    <3>1. extents_'[id] = gc.list /\ gc.pc = "replace"
      BY <1>1, <2>3 DEF ReplaceExtentList
    <3> QED
      BY <1>4, <3>1 DEF Moving
  <2> QED
    BY <2>1, <2>2, <2>3, ListSteps
<1>7. gc'.pc \in Moving \cup Swapped => Within(data', gc'.list)
  <2> SUFFICES ASSUME gc'.pc \in Moving \cup Swapped PROVE Within(data', gc'.list)
    OBVIOUS
  <2>1. CASE ExtentMigrated
    <3> DEFINE e == gc.list[gc.i]
               f == MigratedExtent
               list == gc.list
               i == gc.i
    <3>1. /\ i \in DOMAIN list /\ e \in Extent /\ f \in Extent /\ f.zone = gc.target
          /\ f.length = e.length /\ f.start + e.length = Len(data[gc.target])
          /\ gc'.list = [list EXCEPT ![i] = f] /\ data' = data /\ Len(data[gc.target]) \in Nat
      <4>1. gc.id \notin uncopied
        BY <1>0 DEF Control, Mutex
      <4> QED
        BY <2>1, <4>1, Migrated
    <3>2. e.length \in Nat
      BY <3>1 DEF Extent
    <3>3. Within(data, list)
      BY <1>0, <2>1 DEF Ranges, ExtentMigrated, Moving
    <3>4. f.start + f.length <= Len(data[f.zone])
      BY <3>1, <3>2
    <3> HIDE DEF f, e
    <3>5. \A j \in DOMAIN [list EXCEPT ![i] = f] :
            j \in DOMAIN list /\ [list EXCEPT ![i] = f][j] = IF j = i THEN f ELSE list[j]
      BY <1>1, <3>1
    <3> HIDE DEF list, i
    <3>6. Within(data, [list EXCEPT ![i] = f])
      BY <3>3, <3>4, <3>5 DEF Within
    <3> QED
      BY <3>1, <3>6
  <2>2. CASE gc'.list = gc.list /\ gc.pc \in Moving \cup Swapped
    BY <1>4, <2>2
  <2>3. CASE gc'.list = extents_[gc.id] /\ gc.id \in Ids
    BY <1>3, <2>3
  <2>4. ReplaceExtentList => gc.pc \in Moving
    BY DEF ReplaceExtentList, Moving
  <2> QED
    BY <2>1, <2>2, <2>3, <2>4, CollectSteps
<1>8. gc'.pc \in Swapped => Within(data', gc'.old)
  <2>1. gc'.pc \in Swapped => gc'.pc \notin Moving /\ gc'.pc # "extent"
    BY DEF Moving, Swapped
  <2> QED
    BY <1>3, <1>5, <2>1, CollectSteps
<1>9. gc'.pc = "check" /\ gc'.list[gc'.i].zone = gc'.target =>
        gc'.list[gc'.i].start + 2 * gc'.list[gc'.i].length <= Len(data'[gc'.target])
  <2> SUFFICES ASSUME gc'.pc = "check", gc'.list[gc'.i].zone = gc'.target
               PROVE  gc'.list[gc'.i].start + 2 * gc'.list[gc'.i].length <= Len(data'[gc'.target])
    OBVIOUS
  <2> DEFINE e == gc.list[gc.i]
             t == gc.target
  <2>1. /\ gc.pc = "check" \/ MigrateData
        /\ gc'.list = gc.list /\ gc'.i = gc.i /\ gc'.target = gc.target
    <3>1. ~MigrateDataError
      BY <1>0 DEF MigrateDataError, Refused
    <3> QED
      BY <3>1, CollectSteps DEF Moving
  <2>2. e.zone = t
    BY <2>1
  <2>3. CASE MigrateData
    <3>1. /\ gc.i \in DOMAIN gc.list /\ e \in Extent /\ Len(data[t]) \in Nat
          /\ Len(data'[t]) = Len(data[t]) + e.length /\ gc.pc = "copy"
      BY <2>3, Copying DEF MigrateData
    <3>2. e.start + e.length <= Len(data[t])
      BY <1>0, <2>2, <3>1 DEF Ranges, Within, Moving
    <3>3. e.start \in Nat /\ e.length \in Nat
      BY <3>1 DEF Extent
    <3> HIDE DEF e, t
    <3>4. e.start + 2 * e.length <= Len(data'[t])
      BY <3>1, <3>2, <3>3
    <3> QED
      BY <2>1, <3>4 DEF e, t
  <2>4. CASE gc.pc = "check"
    <3>1. t \in Zones /\ busy_[t] /\ t # writer.zone
      BY <2>4 DEF Control, WRLocks
    <3>2. data'[t] = data[t]
      BY <2>4, <3>1, DataSteps DEF InUse
    <3> QED
      BY <1>0, <2>1, <2>2, <2>4, <3>2 DEF Ranges
  <2> QED
    BY <2>1, <2>3, <2>4
<1>10. \A id \in Ids : ToSet(logged'[id].ext) \subseteq KnownExtents(id)'
  BY <1>0, KnownNext DEF Ranges
<1> QED
  BY <1>6, <1>7, <1>8, <1>9, <1>10 DEF Ranges

-----------------------------------------------------------------------------
(***************************************************************************)
(* What the lists hold                                                     *)
(***************************************************************************)

\* Only an append and a mount change the size of a file.
LEMMA SizeSteps ==
  ASSUME Control, Next, NEW f \in Ids
  PROVE  \/ Size(f)' = Size(f)
         \/ f = writer.id /\ \E length \in Lengths : BufferedAppend(length)
         \/ Crash
<1> USE DEF device, namespace, metadata, lists, locks, faults
<1>0. writer \in Writer /\ file_size_ \in [Ids -> Nat] /\ Active /\ f # NoFile
  BY Zeros DEF Control, Types
<1>n. writer.id \in Ids \cup {NoFile} /\ writer.added \in Nat
  BY <1>0 DEF Writer
<1>u. ASSUME UNCHANGED <<writer, file_size_>>
      PROVE  Size(f)' = Size(f)
  BY <1>u DEF Size, Added
<1>z. ASSUME Added(f) = 0, Added(f)' = 0, UNCHANGED file_size_
      PROVE  Size(f)' = Size(f)
  BY <1>z DEF Size
<1>1. CASE \E length \in Lengths : BufferedAppend(length)
  <2>1. PICK length \in Lengths : BufferedAppend(length)
    BY <1>1
  <2>2. file_size_' = file_size_ /\ writer'.id = writer.id
    BY <2>1, AppendedExtent
  <2>3. f # writer.id => Added(f) = 0 /\ Added(f)' = 0
    BY <2>2 DEF Added
  <2> QED
    BY <1>1, <1>z, <2>2, <2>3
<1>2. CASE Collect
  <2>1. UNCHANGED <<writer, file_size_>>
    BY Zenon, <1>2 DEF Collect, GCWorker, GetZenFSSnapshot, MigrateGetFile, TryAcquireWRLock,
       TakeMigrateZone, LeaveExtent, MigrateData, MigrateDataError, ExtentMigrated, FileGone,
       WriteLock, ReplaceExtentList, MetadataUnsynced, SyncFileMetadata, SyncFileExtentsDone,
       ReleaseWRLock, MigrateResets
  <2> QED
    BY <1>u, <2>1
<1>3. CASE \E r \in Readers : GoOnReading(r) \/ \E n \in Names : PositionedRead(r, n)
  <2>1. UNCHANGED <<writer, file_size_>>
    BY Zenon, <1>3 DEF GoOnReading, ReadLock, ReadNextExtent, ReadDevice, PositionedRead
  <2> QED
    BY <1>u, <2>1
<1>4. CASE \/ \E n \in Names : DeleteFile(n)
           \/ MetadataSynced \/ CloseWR \/ ResetUnused
           \/ \E src \in TempNames, dst \in Names \ TempNames : RenameFile(src, dst)
  <2>1. UNCHANGED <<writer, file_size_>>
    BY <1>4 DEF DeleteFile, MetadataSynced, CloseWR, ResetUnused, RenameFile
  <2> QED
    BY <1>u, <2>1
<1>5. CASE \E n \in Names : OpenWritableFile(n) \/ ReopenWritableFile(n)
  <2>1. writer = NoWriter /\ writer'.added = 0 /\ UNCHANGED file_size_
    BY <1>5 DEF OpenWritableFile, ReopenWritableFile, NoWriter
  <2>2. Added(f) = 0 /\ Added(f)' = 0
    BY <2>1 DEF Added, NoWriter
  <2> QED
    BY <1>z, <2>1, <2>2
<1>6. CASE \E z \in Zones : AllocateNewZone(z)
  <2>1. writer'.id = writer.id /\ writer'.added = writer.added /\ UNCHANGED file_size_
    BY <1>0, <1>6 DEF AllocateNewZone, Writer
  <2> QED
    BY <2>1 DEF Size, Added
<1>7. CASE BufferedAppendDone
  <2>1. writer'.id = writer.id /\ writer'.added = 0
        /\ file_size_' = [file_size_ EXCEPT ![writer.id] = @ + writer.added]
    BY <1>0, <1>7 DEF BufferedAppendDone, Writer
  <2>2. CASE f = writer.id
    <3>1. file_size_'[f] = file_size_[f] + writer.added /\ Added(f)' = 0 /\ Added(f) = writer.added
      BY <1>0, <2>1, <2>2 DEF Added
    <3> QED
      BY <1>0, <1>n, <3>1 DEF Size
  <2>3. CASE f # writer.id
    <3>1. file_size_'[f] = file_size_[f] /\ Added(f)' = 0 /\ Added(f) = 0
      BY <1>0, <2>1, <2>3 DEF Added
    <3> QED
      BY <3>1 DEF Size
  <2> QED
    BY <2>2, <2>3
<1>8. CASE CloseWRDone
  <2>1. writer'.id = NoFile /\ UNCHANGED file_size_ /\ Closing
    BY <1>0, <1>8 DEF CloseWRDone, Writer, Closing
  <2>2. writer.added = 0
    BY <1>0, <1>n, <2>1 DEF Active
  <2>3. Added(f) = 0 /\ Added(f)' = 0
    BY <1>0, <2>1, <2>2 DEF Added
  <2> QED
    BY <1>z, <2>1, <2>3
<1>9. CASE CloseActiveZone
  <2>1. writer.id = NoFile /\ writer'.id = NoFile /\ UNCHANGED file_size_
    BY <1>9 DEF CloseActiveZone, NoWriter
  <2>2. Added(f) = 0 /\ Added(f)' = 0
    BY <1>0, <2>1 DEF Added
  <2> QED
    BY <1>z, <2>1, <2>2
<1> QED
  BY <1>1, <1>2, <1>3, <1>4, <1>5, <1>6, <1>7, <1>8, <1>9 DEF Next

\* A prefix of a list and the whole of it
LEMMA WholeList == ASSUME NEW list \in Seq(Extent) PROVE SubSeq(list, 1, Len(list)) = list
OBVIOUS

\* What the log has of a file whose record can be trusted
LEMMA LogHolds ==
  ASSUME Control, Contents, Log, Unnamed, NEW id \in Ids \ misjudged
  PROVE  /\ Holds(data, id, logged[id].ext) /\ logged[id].size = Total(logged[id].ext)
         /\ LoggedTail(id) \/ logged[id] = NoRecord
<1>0. Types /\ Names1 /\ Lists /\ WRLocks /\ extents_[id] \in Seq(Extent)
      /\ nr_synced_extents_[id] \in Nat
  BY DEF Control, Types
<1>1. CASE is_deleted_[id]
  <2>1. logged[id] = NoRecord
    BY <1>0, <1>1 DEF Names1
  <2>2. logged[id].ext = <<>> /\ logged[id].size = 0
    BY <2>1 DEF NoRecord
  <2> QED
    BY <2>1, <2>2, HoldsNothing, TotalEmpty
<1>2. CASE ~is_deleted_[id]
  <2>1. LoggedList(id) /\ logged[id].size = Total(logged[id].ext) /\ LoggedTail(id)
    BY <1>2 DEF Log
  <2>2. Holds(data, id, extents_[id]) /\ Good(id)
    BY DEF Contents, Good, Control, Mutex
  <2>3. CASE gc.id = id /\ gc.pc \in {"unsync", "sync"}
    <3>1. Holds(data, id, gc.old)
      BY <2>2, <2>3 DEF Contents, Swapped
    <3> QED
      BY <2>1, <2>2, <2>3, <3>1 DEF LoggedList
  <2>4. CASE ~(gc.id = id /\ gc.pc \in {"unsync", "sync"})
    <3>1. logged[id].ext = SubSeq(extents_[id], 1, Seen(id))
      BY <2>1, <2>4 DEF LoggedList
    <3>2. nr_synced_extents_[id] <= Len(extents_[id]) /\ Len(extents_[id]) \in Nat
      BY <1>0, <1>2 DEF Lists
    <3>3. Seen(id) \in Nat /\ Seen(id) <= Len(extents_[id])
      BY <1>0, <3>2 DEF Seen
    <3> HIDE DEF Seen
    <3> QED
      BY <1>0, <2>1, <2>2, <3>1, <3>3, HoldsPrefix
  <2> QED
    BY <2>3, <2>4
<1> QED
  BY <1>1, <1>2

\* What a mount makes of it: with the active extent
LEMMA RecoverHolds ==
  ASSUME Control, Contents, Log, Unnamed, NEW id \in Ids \ misjudged
  PROVE  /\ Holds(data, id, Recover(logged[id]).ext)
         /\ Recover(logged[id]).size = Total(Recover(logged[id]).ext)
         /\ Recover(logged[id]).size >= logged[id].size
<1> DEFINE r == Recover(logged[id])
           z == logged[id].start.zone
           s == logged[id].start.start
           e == [zone |-> z, start |-> s, length |-> Len(data[z]) - s]
           old == logged[id].ext
<1>0. Types /\ old \in Seq(Extent) /\ logged[id].size \in Nat
  BY DEF Control, Types, Record
<1>1. Holds(data, id, old) /\ logged[id].size = Total(old)
      /\ (LoggedTail(id) \/ logged[id] = NoRecord)
  BY LogHolds
<1>2. \/ r = logged[id]
      \/ /\ z \in Zones /\ s \in Nat /\ Len(data[z]) \in Nat /\ Len(data[z]) > s
         /\ e \in Extent /\ r.ext = Append(old, e)
         /\ r.size = Total(old) + Len(data[z]) - s
  BY <1>0, RecoverEffect
<1>3. CASE r = logged[id]
  <2>1. logged[id].size >= logged[id].size
    BY <1>0
  <2> QED
    BY <1>1, <1>3, <2>1
<1>4. CASE /\ z \in Zones /\ s \in Nat /\ Len(data[z]) \in Nat /\ Len(data[z]) > s
           /\ e \in Extent /\ r.ext = Append(old, e)
           /\ r.size = Total(old) + Len(data[z]) - s
  <2>1. z # NoZone /\ logged[id] # NoRecord
    BY <1>4, Zeros DEF NoRecord, NO_EXTENT
  <2>2. \A k \in 1..(Len(data[z]) - s) : data[z][s + k] = <<id, logged[id].size + k>>
    BY Zenon, <1>1, <2>1 DEF LoggedTail
  <2>3. data[z] \in Seq(Datum)
    BY <1>0, <1>4 DEF Types
  <2>4. \A k \in 1..(Len(data[z]) - s) : s + k \in DOMAIN data[z]
    BY <1>4, <2>3
  <2>5. e.zone = z /\ e.start = s /\ e.length = Len(data[z]) - s
    OBVIOUS
  <2> HIDE DEF e, r
  <2>6. Holds(data, id, Append(old, e))
    BY <1>0, <1>1, <1>4, <2>2, <2>4, <2>5, HoldsAppend
  <2>7. Total(Append(old, e)) = Total(old) + e.length
    BY <1>0, <1>4, TotalAppend
  <2> QED
    BY <1>0, <1>1, <1>4, <2>5, <2>6, <2>7 DEF r
<1> QED
  BY <1>2, <1>3, <1>4

\* The lists a mount decodes hold the data of their files.
LEMMA ContentsCrash ==
  ASSUME Control, Control', Unnamed, Contents, Log, Crash
  PROVE  Contents'
<1>1. gc'.pc \notin Moving \cup Swapped /\ gc'.pc # "check"
  BY DEF Crash, NoGC, Moving, Swapped
<1>2. crashes' # 0 /\ misjudged' = misjudged
  BY DEF Crash, Control, Types
<1> SUFFICES ASSUME NEW id \in Ids, id \notin misjudged
             PROVE  /\ Holds(data', id, extents_'[id])
                    /\ is_deleted_'[id] \/ Size(id)' = Total(extents_'[id])
  BY <1>1, <1>2 DEF Contents, Good
<1>3. Holds(data, id, extents_'[id]) /\ Size(id)' = Total(extents_'[id])
  <2>1. Holds(data, id, extents_'[id]) /\ file_size_'[id] = Total(extents_'[id])
        /\ writer' = NoWriter
    BY RecoverHolds, CrashEffect
  <2>2. file_size_'[id] \in Nat
    BY DEF Control, Types
  <2>3. Size(id)' = file_size_'[id]
    BY <2>1, <2>2 DEF Size, Added, NoWriter
  <2> QED
    BY <2>1, <2>3
<1>4. ASSUME NEW i \in DOMAIN extents_'[id]
      PROVE  data'[extents_'[id][i].zone] = data[extents_'[id][i].zone]
  BY CrashKeeps
<1>5. Holds(data', id, extents_'[id])
  BY <1>3, <1>4 DEF Holds
<1> QED
  BY <1>3, <1>5

\* The lists of the files, between two mounts
LEMMA ContentsOfFiles ==
  ASSUME Control, Capacity, Contents, Next, ~Crash, NEW id \in Ids, Good(id)
  PROVE  /\ Holds(data', id, extents_'[id])
         /\ is_deleted_'[id] \/ Size(id)' = Total(extents_'[id])
<1>1. /\ data \in [Zones -> Seq(Datum)] /\ extents_ \in [Ids -> Seq(Extent)]
      /\ gc.list \in Seq(Extent) /\ file_size_ \in [Ids -> Nat]
  BY DEF Control, Types, Collector
<1>2. Grows
  BY GrowsNext
<1>3. Holds(data', id, extents_[id])
  BY <1>2, ListsGrow, HoldsLonger DEF Contents, LongerIn
<1>4. is_deleted_[id] \/ Size(id) = Total(extents_[id])
  BY DEF Contents
<1>5. CASE id = writer.id /\ \E length \in Lengths : BufferedAppend(length)
  <2>1. PICK length \in Lengths : BufferedAppend(length)
    BY <1>5
  <2> DEFINE e == NewExtent(length)
             z == writer.zone
             n == Len(data[z])
             list == extents_[id]
  <2>2. /\ e \in Extent /\ e.zone = z /\ e.length = length /\ e.start = n
        /\ extents_'[id] = Append(list, e) /\ file_size_' = file_size_
        /\ writer.added = 0 /\ writer'.added = length /\ writer'.id = id
    BY <1>5, <2>1, AppendedExtent
  <2>3. /\ ~is_deleted_[id] /\ n \in Nat /\ length \in 1..ZoneCap
        /\ DOMAIN data'[z] = 1..(n + length)
        /\ \A k \in 1..length : data'[z][n + k] = <<id, file_size_[id] + k>>
    BY <1>5, <2>1, Appending
  <2>4. file_size_[id] = Total(list)
    BY <1>1, <1>4, <1>5, <2>2, <2>3 DEF Size, Added
  <2>9. Size(id)' = file_size_[id] + length
    BY <2>2 DEF Size, Added
  <2>5. \A k \in 1..length : n + k \in DOMAIN data'[z]
    BY <2>3
  <2>6. list \in Seq(Extent)
    BY <1>1
  <2> HIDE DEF e, n
  <2>7. Holds(data', id, Append(list, e))
    BY <1>3, <2>2, <2>3, <2>4, <2>5, <2>6, HoldsAppend
  <2>8. Total(Append(list, e)) = Total(list) + e.length
    BY <2>2, <2>6, TotalAppend
  <2> QED
    BY <2>2, <2>4, <2>7, <2>8, <2>9
<1>6. CASE ~(id = writer.id /\ \E length \in Lengths : BufferedAppend(length))
  <2>1. Size(id)' = Size(id)
    BY <1>6, SizeSteps
  <2>2. CASE extents_'[id] = extents_[id] /\ is_deleted_'[id] = is_deleted_[id]
    BY <1>3, <1>4, <2>1, <2>2
  <2>3. CASE is_deleted_'[id] /\ extents_'[id] \in {extents_[id], <<>>}
    BY <1>3, <2>3, HoldsNothing
  <2>4. CASE id = gc.id /\ ReplaceExtentList
    <3>1. extents_'[id] = gc.list /\ gc.pc = "replace" /\ is_deleted_' = is_deleted_
      BY <1>1, <2>4 DEF ReplaceExtentList
    <3>2. Holds(data', id, gc.list)
      BY <1>2, <2>4, <3>1, ListsGrow, HoldsLonger DEF Contents, LongerIn, Moving
    <3>3. SameLengths(gc.list, extents_[id])
      BY <2>4, <3>1 DEF Control, Lists, Moving
    <3>4. Total(gc.list) = Total(extents_[id])
      BY <1>1, <3>3, TotalSame
    <3> QED
      BY <1>4, <2>1, <3>1, <3>2, <3>4
  <2> QED
    BY <1>6, <2>2, <2>3, <2>4, ListSteps
<1> QED
  BY <1>5, <1>6

\* Every step keeps the data of the files.
LEMMA ContentsNext ==
  ASSUME Control, Control', Capacity, Unnamed, Contents, Log, Next
  PROVE  Contents'
<1> USE DEF device, namespace, metadata, lists, locks, faults
<1>c. CASE Crash
  BY <1>c, ContentsCrash
<1> SUFFICES ASSUME ~Crash PROVE Contents'
  BY <1>c
<1>1. /\ data \in [Zones -> Seq(Datum)] /\ extents_ \in [Ids -> Seq(Extent)]
      /\ gc.list \in Seq(Extent) /\ gc.old \in Seq(Extent)
  BY DEF Control, Types, Collector
<1>2. Grows
  BY GrowsNext
<1>3. \A id \in Ids : Good(id)' => /\ Holds(data', id, extents_'[id])
                                   /\ is_deleted_'[id] \/ Size(id)' = Total(extents_'[id])
  BY GoodBefore, ContentsOfFiles
<1>g. ASSUME gc'.pc \in Moving \cup Swapped, Good(gc.id)'
      PROVE  Good(gc.id) /\ gc'.id = gc.id /\ gc.id \in Ids
  <2>1. gc'.id = gc.id /\ gc.id \in Ids
    BY <1>g, CollectSteps
  <2>2. (crashes' = 0 \/ gc.id \notin misjudged') /\ gc.id \notin uncopied'
    BY <1>g, <2>1 DEF Good
  <2>3. crashes \in Nat
    BY DEF Control, Types
  <2>4. (crashes = 0 \/ gc.id \notin misjudged) /\ gc.id \notin uncopied
    BY <2>2, <2>3, BoundSteps
  <2> QED
    BY <2>1, <2>4 DEF Good
<1>5. ASSUME gc'.pc \in Moving, Good(gc.id)'
      PROVE  Holds(data', gc'.id, gc'.list)
  <2>0. Good(gc.id) /\ gc'.id = gc.id /\ gc.id \in Ids
    BY <1>5, <1>g
  <2>1. CASE ExtentMigrated
    <3> DEFINE e == gc.list[gc.i]
               f == MigratedExtent
               list == gc.list
               i == gc.i
               t == gc.target
               n == Len(data[t])
               id == gc.id
    <3>1. /\ i \in DOMAIN list /\ e \in Extent /\ f \in Extent /\ f.zone = t
          /\ f.length = e.length /\ f.start = gc.start /\ t \in Zones
          /\ gc'.list = [list EXCEPT ![i] = f] /\ data' = data /\ n \in Nat
          /\ gc.start \in Nat /\ gc.start + e.length = n /\ gc.pc = "check"
      BY <2>0, <2>1, Migrated DEF Good
    <3>2. e.length \in Nat
      BY <3>1 DEF Extent
    <3>3. Holds(data, id, list)
      BY <2>0, <3>1 DEF Contents, Moving
    <3>4. \A k \in 1..e.length : data[t][gc.start + k] = <<id, Before(list, i) + k>>
      BY <2>0, <3>1 DEF Contents
    <3>5. \A k \in 1..e.length : gc.start + k \in DOMAIN data[t]
      <4>1. DOMAIN data[t] = 1..n
        BY <1>1, <3>1
      <4> HIDE DEF n, e
      <4> QED
        BY <3>1, <3>2, <4>1
    <3>6. list \in Seq(Extent) /\ e = list[i]
      BY <1>1
    <3> HIDE DEF f, e, n, list, i, t, id
    <3>7. Holds(data, id, [list EXCEPT ![i] = f])
      BY <3>1, <3>3, <3>4, <3>5, <3>6, HoldsReplaced
    <3> QED
      BY <2>0, <3>1, <3>7 DEF id
  <2>2. CASE gc'.list = gc.list /\ gc.pc \in Moving
    <3>1. Holds(data, gc.id, gc.list) /\ LongerIn(gc.list)
      BY <1>2, <2>0, <2>2, ListsGrow DEF Contents
    <3>2. Holds(data', gc.id, gc.list)
      BY <3>1, HoldsLonger DEF LongerIn
    <3> QED
      BY <2>0, <2>2, <3>2
  <2>3. CASE gc'.list = extents_[gc.id]
    <3>1. Holds(data, gc.id, extents_[gc.id]) /\ LongerIn(extents_[gc.id])
      BY <1>2, <2>0, ListsGrow DEF Contents
    <3>2. Holds(data', gc.id, extents_[gc.id])
      BY <3>1, HoldsLonger DEF LongerIn
    <3> QED
      BY <2>0, <2>3, <3>2
  <2>4. gc'.pc \notin Swapped /\ gc'.pc # "unsync"
    BY <1>5 DEF Moving, Swapped
  <2> QED
    BY <1>5, <2>1, <2>2, <2>3, <2>4, CollectSteps
<1>6. ASSUME gc'.pc \in Swapped, Good(gc.id)'
      PROVE  Holds(data', gc'.id, gc'.old)
  <2>0. Good(gc.id) /\ gc'.id = gc.id /\ gc.id \in Ids
    BY <1>6, <1>g
  <2>1. gc'.pc \notin Moving /\ gc'.pc # "extent"
    BY <1>6 DEF Moving, Swapped
  <2>2. \/ gc.pc \in Swapped /\ gc'.old = gc.old
        \/ gc'.old = extents_[gc.id]
    BY <1>6, <2>1, CollectSteps
  <2>3. CASE gc.pc \in Swapped /\ gc'.old = gc.old
    <3>1. Holds(data, gc.id, gc.old) /\ LongerIn(gc.old)
      BY <1>2, <2>0, <2>3, ListsGrow DEF Contents
    <3>2. Holds(data', gc.id, gc.old)
      BY <3>1, HoldsLonger DEF LongerIn
    <3> QED
      BY <2>0, <2>3, <3>2
  <2>4. CASE gc'.old = extents_[gc.id]
    <3>1. Holds(data, gc.id, extents_[gc.id]) /\ LongerIn(extents_[gc.id])
      BY <1>2, <2>0, ListsGrow DEF Contents
    <3>2. Holds(data', gc.id, extents_[gc.id])
      BY <3>1, HoldsLonger DEF LongerIn
    <3> QED
      BY <2>0, <2>4, <3>2
  <2> QED
    BY <2>2, <2>3, <2>4
<1>7. ASSUME gc'.pc = "check", Good(gc.id)', NEW k \in 1..gc'.list[gc'.i].length
      PROVE  data'[gc'.target][gc'.start + k] = <<gc'.id, Before(gc'.list, gc'.i) + k>>
  <2> DEFINE e == gc.list[gc.i]
             t == gc.target
             n == Len(data[t])
  <2>0. Good(gc.id) /\ gc'.id = gc.id /\ gc.id \in Ids
    BY <1>7, <1>g DEF Moving
  <2>1. /\ gc.pc = "check" \/ MigrateData
        /\ gc'.list = gc.list /\ gc'.i = gc.i /\ gc'.target = t /\ gc'.start = gc.start
    <3>1. gc.id \notin uncopied'
      BY <1>7, <2>0 DEF Good
    <3>2. ~MigrateDataError
      BY <3>1 DEF MigrateDataError
    <3> QED
      BY <1>7, <3>2, CollectSteps DEF Moving
  <2>2. CASE MigrateData
    <3>1. /\ gc.i \in DOMAIN gc.list /\ e \in Extent /\ n \in Nat /\ Len(data'[t]) = n + e.length
          /\ data'[t][n + k] = Content(e)[k] /\ gc.pc = "copy"
      BY <1>7, <2>1, <2>2, Copying DEF MigrateData
    <3>2. e.length \in Nat /\ k \in 1..e.length
      BY <1>7, <2>1, <3>1 DEF Extent
    <3>3. Content(e)[k] = <<gc.id, Before(gc.list, gc.i) + k>>
      <4>1. Holds(data, gc.id, gc.list)
        BY <2>0, <3>1 DEF Contents, Moving
      <4>2. e.start + k \in DOMAIN data[e.zone]
            /\ data[e.zone][e.start + k] = <<gc.id, Before(gc.list, gc.i) + k>>
        BY <3>1, <3>2, <4>1 DEF Holds
      <4> QED
        BY Zenon, <3>2, <4>2 DEF Content
    <3>4. gc.start = n
      BY <3>1 DEF Control, Lists
    <3> QED
      BY <2>0, <2>1, <3>1, <3>3, <3>4
  <2>3. CASE gc.pc = "check"
    <3>1. t \in Zones /\ busy_[t] /\ t # writer.zone
      BY <2>3 DEF Control, WRLocks
    <3>2. data'[t] = data[t]
      BY <2>3, <3>1, DataSteps DEF InUse
    <3>3. k \in 1..e.length
      BY <1>7, <2>1
    <3>4. data[t][gc.start + k] = <<gc.id, Before(gc.list, gc.i) + k>>
      BY <2>0, <2>3, <3>3 DEF Contents
    <3> QED
      BY <2>0, <2>1, <3>2, <3>4
  <2> QED
    BY <2>1, <2>2, <2>3
<1> QED
  BY <1>3, <1>5, <1>6, <1>7 DEF Contents

-----------------------------------------------------------------------------
(***************************************************************************)
(* What the log has                                                        *)
(***************************************************************************)

\* A deleted file is not in use again before a mount.
LEMMA StillDeleted ==
  ASSUME Control, Next, ~Crash, NEW f \in Ids, is_deleted_[f]
  PROVE  is_deleted_'[f]
<1> USE DEF device, namespace, metadata, lists, locks, faults
<1>1. CASE \E length \in Lengths : BufferedAppend(length)
  BY <1>1 DEF BufferedAppend
<1>2. CASE ReplaceExtentList
  BY <1>2 DEF ReplaceExtentList
<1> QED
  BY <1>1, <1>2, ListSteps

\* The active extent grows only by what is appended to its file.
LEMMA TailNext ==
  ASSUME Control, Capacity, Opened, Next, ~Crash, NEW f \in Ids, LoggedTail(f),
         logged'[f] = logged[f]
  PROVE  LoggedTail(f)'
<1> DEFINE z == logged[f].start.zone
           s == logged[f].start.start
           size == logged[f].size
<1> SUFFICES ASSUME z # NoZone
             PROVE  /\ s <= Len(data'[z]) /\ Size(f)' = size + Len(data'[z]) - s
                    /\ \A k \in 1..(Len(data'[z]) - s) : data'[z][s + k] = <<f, size + k>>
  BY DEF LoggedTail
<1>0. Types /\ Active /\ WRLocks /\ Lists /\ logged[f] \in Record /\ file_size_[f] \in Nat
  BY DEF Control, Types
<1>1. z \in Zones /\ s \in Nat /\ size \in Nat /\ f = writer.id /\ extent_start_[f].zone = z
  BY <1>0 DEF Active, Record, Start
<1>2. /\ s <= Len(data[z]) /\ Size(f) = size + Len(data[z]) - s
      /\ \A k \in 1..(Len(data[z]) - s) : data[z][s + k] = <<f, size + k>>
  BY DEF LoggedTail
<1>3. CASE z = writer.zone /\ \E length \in Lengths : BufferedAppend(length)
  <2>1. PICK length \in Lengths : BufferedAppend(length)
    BY <1>3
  <2> DEFINE n == Len(data[z])
  <2>2. /\ n \in Nat /\ length \in Nat /\ Len(data'[z]) = n + length
        /\ \A k \in 1..n : data'[z][k] = data[z][k]
        /\ \A k \in 1..length : data'[z][n + k] = <<f, file_size_[f] + k>>
        /\ Size(f) = file_size_[f] /\ Size(f)' = file_size_[f] + length
    <3>1. /\ n \in Nat /\ length \in 1..ZoneCap /\ Len(data'[z]) = n + length
          /\ \A k \in 1..n : data'[z][k] = data[z][k]
          /\ \A k \in 1..length : data'[z][n + k] = <<f, file_size_[f] + k>>
      BY <1>1, <1>3, <2>1, Appending
    <3>2. writer.added = 0 /\ writer'.added = length /\ writer'.id = f /\ file_size_' = file_size_
      BY <1>1, <2>1, AppendedExtent
    <3>3. length \in Nat
      BY <3>1
    <3>4. Size(f) = file_size_[f] /\ Size(f)' = file_size_[f] + length
      <4>1. Added(f) = 0 /\ Added(f)' = length /\ file_size_[f] \in Nat
        BY <1>0, <1>1, <3>2 DEF Added
      <4> QED
        BY <3>2, <4>1 DEF Size
    <3> QED
      BY <3>1, <3>3, <3>4
  <2>3. /\ s <= n /\ file_size_[f] = size + n - s
        /\ \A k \in 1..(n - s) : data[z][s + k] = <<f, size + k>>
    BY Zenon, <1>2, <2>2
  <2> HIDE DEF n, s, size, z
  <2>4. s <= n + length /\ Size(f)' = size + (n + length) - s
    BY <1>1, <2>2, <2>3
  <2>5. ASSUME NEW k \in 1..((n + length) - s)
        PROVE  data'[z][s + k] = <<f, size + k>>
    <3>1. CASE k <= n - s
      <4>1. k \in 1..(n - s) /\ s + k \in 1..n
        BY <1>1, <2>2, <2>3, <3>1
      <4> QED
        BY <2>2, <2>3, <4>1
    <3>2. CASE k > n - s
      <4> DEFINE j == k - (n - s)
      <4>1. j \in 1..length /\ n + j = s + k /\ file_size_[f] + j = size + k
        BY <1>1, <2>2, <2>3, <3>2
      <4> HIDE DEF j
      <4>2. data'[z][n + j] = <<f, file_size_[f] + j>>
        BY <2>2, <4>1
      <4> QED
        BY <4>1, <4>2
    <3> QED
      BY <1>1, <2>2, <2>3, <3>1, <3>2
  <2> QED
    BY <2>2, <2>4, <2>5
<1>4. CASE ~(z = writer.zone /\ \E length \in Lengths : BufferedAppend(length))
  <2>1. writer.zone = z \/ (IsFull(z) /\ InUse(z))
    <3>1. \/ writer.zone = z
          \/ IsFull(z) /\ \E i \in DOMAIN extents_[f] : extents_[f][i].zone = z
      BY <1>1, Zeros DEF Opened, Reaches
    <3> QED
      BY <3>1, ZoneInUse
  <2>2. ~(z = gc.target /\ gc.pc = "copy")
    <3> SUFFICES ASSUME z = gc.target, gc.pc = "copy" PROVE FALSE
      OBVIOUS
    <3>1. gc.i \in DOMAIN gc.list /\ capacity_(z) >= gc.list[gc.i].length /\ z # writer.zone
      BY <1>0 DEF Lists, WRLocks
    <3>2. gc.list[gc.i] \in Extent
      BY <1>0, <3>1 DEF Types, Collector
    <3>3. gc.list[gc.i].length \in Nat /\ gc.list[gc.i].length >= 1
      BY <3>2 DEF Extent
    <3> QED
      BY <2>1, <3>1, <3>3 DEF IsFull
  <2>3. InUse(z)
    BY <1>0, <1>1, <2>1, Zeros DEF WRLocks, InUse
  <2>4. data'[z] = data[z]
    BY <1>1, <1>4, <2>2, <2>3, DataSteps
  <2>5. Size(f)' = Size(f)
    <3>1. ~\E length \in Lengths : BufferedAppend(length)
      <4> SUFFICES ASSUME NEW length \in Lengths, BufferedAppend(length) PROVE FALSE
        OBVIOUS
      <4>1. writer.zone # NoZone /\ writer.id # NoFile
        BY DEF BufferedAppend
      <4>2. extent_start_[f].zone = writer.zone
        BY <1>1, Appending
      <4> QED
        BY <1>1, <1>4, <4>2
    <3> QED
      BY <3>1, SizeSteps
  <2> QED
    BY <1>2, <2>4, <2>5
<1> QED
  BY <1>3, <1>4

\* A record that was just written
LEMMA TailWritten ==
  ASSUME Control', Opened', NEW f \in Ids, NEW name, NEW ext, Written(f, name, ext),
         file_size_'[f] = file_size_[f], Added(f)' = 0
  PROVE  LoggedTail(f)'
<1> DEFINE z == logged'[f].start.zone
           s == logged'[f].start.start
           size == logged'[f].size
<1> SUFFICES ASSUME z # NoZone
             PROVE  /\ s <= Len(data'[z]) /\ Size(f)' = size + Len(data'[z]) - s
                    /\ \A k \in 1..(Len(data'[z]) - s) : data'[z][s + k] = <<f, size + k>>
  BY DEF LoggedTail
<1>1. logged'[f].start = extent_start_'[f] /\ size = file_size_'[f]
  BY DEF Written
<1>3. z \in Zones /\ data'[z] \in Seq(Datum) /\ file_size_'[f] \in Nat /\ s \in Nat
  <2>1. z \in Zones /\ s \in 0..ZoneCap
    BY <1>1 DEF Control, Types, Start
  <2> QED
    BY <2>1 DEF Control, Types
<1>2. s = Len(data'[z])
  <2>1. s + Added(f)' = Len(data'[z])
    BY <1>1 DEF Opened
  <2> QED
    BY <1>3, <2>1
<1>6. Size(f)' = size
  BY <1>1, <1>3 DEF Size
<1> HIDE DEF z, s, size
<1>5. s <= s /\ size = size + s - s /\ 1..(s - s) = {}
  BY <1>1, <1>3
<1> QED
  BY <1>1, <1>2, <1>5, <1>6

\* A mount finds all extents in the log, and they count as synced.
LEMMA LogCrash ==
  ASSUME Control, Control', Unnamed, Contents, Log, Crash
  PROVE  Log'
<1> SUFFICES ASSUME NEW f \in Ids, f \notin misjudged
             PROVE  LoggedList(f)' /\ logged'[f].size = Total(logged'[f].ext) /\ LoggedTail(f)'
  BY DEF Log, Crash
<1>1. /\ logged'[f].ext = extents_'[f] /\ nr_synced_extents_'[f] = Len(extents_'[f])
      /\ logged'[f].size = Recover(logged[f]).size /\ logged'[f].ext = Recover(logged[f]).ext
      /\ logged'[f].start = NO_EXTENT /\ gc' = NoGC
  BY CrashEffect
<1>2. extents_'[f] \in Seq(Extent)
  BY DEF Control, Types
<1>3. LoggedList(f)'
  <2>1. Seen(f)' = Len(extents_'[f])
    BY <1>1 DEF Seen, Crash, Unlocked
  <2>2. logged'[f].ext = SubSeq(extents_'[f], 1, Seen(f)')
    BY <1>1, <1>2, <2>1, WholeList
  <2>3. gc'.pc = "idle"
    BY <1>1 DEF NoGC
  <2> QED
    BY <1>1, <2>1, <2>2, <2>3 DEF LoggedList
<1>4. logged'[f].size = Total(logged'[f].ext)
  BY <1>1, RecoverHolds
<1>5. LoggedTail(f)'
  BY <1>1 DEF LoggedTail, NO_EXTENT
<1> QED
  BY <1>3, <1>4, <1>5

\* A list in two parts, and one that grows
LEMMA ListParts ==
  ASSUME NEW list \in Seq(Extent), NEW n \in Nat, n <= Len(list)
  PROVE  /\ SubSeq(list, 1, n) \o SubSeq(list, n + 1, Len(list)) = list
         /\ \A e \in Extent : SubSeq(Append(list, e), 1, n) = SubSeq(list, 1, n)
<1>1. SubSeq(list, 1, n) \o SubSeq(list, n + 1, Len(list)) = list
  <2> DEFINE a == SubSeq(list, 1, n)
             b == SubSeq(list, n + 1, Len(list))
             m == Len(list)
  <2>1. /\ a \in Seq(Extent) /\ b \in Seq(Extent) /\ Len(a) = n /\ Len(b) = m - n /\ m \in Nat
        /\ \A i \in 1..n : a[i] = list[i]
        /\ \A i \in 1..(m - n) : b[i] = list[n + i]
    OBVIOUS
  <2> HIDE DEF a, b
  <2>2. a \o b \in Seq(Extent) /\ Len(a \o b) = Len(a) + Len(b)
    <3>1. a \in Seq(Extent) /\ b \in Seq(Extent)
      BY <2>1
    <3>2. a \o b \in Seq(Extent)
      BY <3>1
    <3>3. Len(a \o b) = Len(a) + Len(b)
      BY <3>1
    <3> QED
      BY <3>2, <3>3
  <2>3. Len(a \o b) = m /\ \A i \in 1..m : i <= n \/ i > n
    BY <2>1, <2>2
  <2>4. ASSUME NEW i \in 1..m PROVE (a \o b)[i] = list[i]
    <3>1. CASE i <= n
      <4>1. i \in 1..n
        BY <3>1
      <4>2. (a \o b)[i] = a[i]
        BY <2>1, <4>1
      <4> QED
        BY <2>1, <4>1, <4>2
    <3>2. CASE i > n
      <4>1. i - n \in 1..(m - n) /\ n + (i - n) = i
        BY <2>1, <3>2
      <4>2. (a \o b)[i] = b[i - n]
        BY <2>1, <3>2
      <4> QED
        BY <2>1, <4>1, <4>2
    <3> QED
      BY <2>3, <3>1, <3>2
  <2> DEFINE c == a \o b
  <2>5. c \in Seq(Extent) /\ Len(c) = Len(list) /\ \A i \in 1..Len(list) : c[i] = list[i]
    BY <2>2, <2>3, <2>4
  <2> HIDE DEF c
  <2>6. c = list
    BY <2>5
  <2> QED
    BY <2>6 DEF a, b, c
<1>2. ASSUME NEW e \in Extent
      PROVE  SubSeq(Append(list, e), 1, n) = SubSeq(list, 1, n)
  <2> DEFINE new == Append(list, e)
  <2>1. new \in Seq(Extent) /\ Len(new) = Len(list) + 1 /\ \A i \in 1..n : new[i] = list[i]
    OBVIOUS
  <2> HIDE DEF new
  <2>2. SubSeq(new, 1, n) = SubSeq(list, 1, n)
    BY <2>1
  <2> QED
    BY <2>2 DEF new
<1> QED
  BY <1>1, <1>2

\* The whole list is written.
LEMMA LogWritten ==
  ASSUME Control, NEW f \in Ids, NEW name, Written(f, name, extents_[f]),
         extents_'[f] = extents_[f], file_size_[f] = Total(extents_[f]),
         ~(gc'.id = f /\ gc'.pc \in {"unsync", "sync"}),
         Lagging(f)' \/ nr_synced_extents_[f] = Len(extents_[f])
  PROVE  LoggedList(f)' /\ logged'[f].size = Total(logged'[f].ext)
<1>1. extents_[f] \in Seq(Extent)
  BY DEF Control, Types
<1>2. Seen(f)' = Len(extents_'[f])
  BY DEF Written, Waits, Seen
<1>3. SubSeq(extents_'[f], 1, Seen(f)') = extents_[f]
  BY <1>1, <1>2, WholeList
<1> QED
  BY <1>2, <1>3 DEF LoggedList, Written

\* Every step keeps the log and the number of synced extents together.
LEMMA LogNext ==
  ASSUME Control, Control', Capacity, Opened, Opened', Unnamed, Contents, Log, Next
  PROVE  Log'
<1> USE DEF device, namespace, metadata, lists, locks, faults
<1>c. CASE Crash
  BY <1>c, LogCrash
<1> SUFFICES ASSUME ~Crash, NEW f \in Ids, f \notin misjudged', ~is_deleted_'[f]
             PROVE  LoggedList(f)' /\ logged'[f].size = Total(logged'[f].ext) /\ LoggedTail(f)'
  BY <1>c DEF Log
<1> DEFINE Behind == gc.id = f /\ gc.pc \in {"unsync", "sync"}
           list == extents_[f]
           n == nr_synced_extents_[f]
<1>0. /\ Types /\ Names1 /\ WRLocks /\ Lists /\ list \in Seq(Extent) /\ n \in Nat
      /\ gc \in Collector /\ Mutex /\ Mutex' /\ file_size_[f] \in Nat
  BY DEF Control, Types
<1>1. f \notin misjudged /\ ~is_deleted_[f]
  BY BoundSteps, StillDeleted
<1>2. LoggedList(f) /\ logged[f].size = Total(logged[f].ext) /\ LoggedTail(f)
  BY <1>1 DEF Log
<1>3. Added(f) = 0 => file_size_[f] = Total(list)
  <2>1. Size(f) = Total(list)
    BY <1>0, <1>1 DEF Contents, Good, Mutex
  <2> QED
    BY <1>0, <2>1 DEF Size
<1>4. n <= Len(list)
  BY <1>0, <1>1 DEF Lists
<1>5. Behind => /\ logged[f].ext \in {gc.old, list}
                /\ n = IF gc.pc = "sync" THEN 0 ELSE Len(list)
  BY <1>2 DEF LoggedList
<1>6. ~Behind => /\ logged[f].ext = SubSeq(list, 1, Seen(f))
                 /\ f # writer.id \/ Closing => Seen(f) = Len(list)
                 /\ ~Lagging(f) => n = Len(list)
  BY <1>2 DEF LoggedList
<1>f. Free => Seen(f) = n /\ ~Waits(f)
  BY DEF Free, Unlocked, Seen, Waits
<1>7. Behind => f # writer.id /\ SameLengths(gc.old, list) /\ gc.old \in Seq(Extent)
  BY <1>0 DEF WRLocks, Lists, Locking, Holding, Swapped, Collector
<1>8. gc'.id = f /\ gc'.pc \in {"unsync", "sync"} =>
        \/ gc.pc = gc'.pc /\ Behind /\ gc'.old = gc.old
        \/ gc.pc = "unsync" /\ Behind /\ MetadataUnsynced
        \/ f = gc.id /\ ReplaceExtentList
  <2> SUFFICES ASSUME gc'.id = f, gc'.pc \in {"unsync", "sync"}, ~(f = gc.id /\ ReplaceExtentList)
               PROVE  \/ gc.pc = gc'.pc /\ Behind /\ gc'.old = gc.old
                      \/ gc.pc = "unsync" /\ Behind /\ MetadataUnsynced
    OBVIOUS
  <2>1. gc'.pc \in Moving \cup Swapped
    BY DEF Swapped
  <2>2. gc.id = f /\ (gc.pc = gc'.pc \/ (gc.pc = "unsync" /\ MetadataUnsynced))
    BY <2>1, CollectSteps
  <2>3. gc.pc \in {"unsync", "sync"}
    BY <2>2
  <2> QED
    BY <2>2, <2>3, SyncingSteps
<1>s. CASE SyncFileMetadata /\ f = gc.id
  <2>1. gc.pc = "sync" /\ extents_' = extents_ /\ file_size_' = file_size_
    BY <1>s DEF SyncFileMetadata
  <2>2. f \in Live(files_)
    BY <1>0, <1>1, <1>s, Zeros DEF WRLocks
  <2>3. /\ gc'.pc = "clear"
        /\ Written(f, NameOf(files_, f), Unsynced(f)) \/ Written(f, NameOf(files_, f), list)
    BY <1>0, <1>1, <1>s, <2>2, SyncEffect
  <2>4. Unsynced(f) = list
    <3>1. n = 0
      BY <1>5, <1>s, <2>1
    <3>2. SubSeq(list, 0 + 1, Len(list)) = list
      BY <1>0
    <3> QED
      BY <3>1, <3>2 DEF Unsynced
  <2>5. Written(f, NameOf(files_, f), list)
    BY <2>3, <2>4
  <2>8. Added(f) = 0 /\ Added(f)' = 0
    <3>1. f # writer.id /\ writer' = writer
      BY <1>0, <1>s, <2>1 DEF WRLocks, Locking, Holding, SyncFileMetadata
    <3> QED
      BY <3>1 DEF Added
  <2>9. Lagging(f)'
    <3>1. files_mtx_'.by = "gc" /\ gc'.id = gc.id
      BY <1>0, <1>1, <1>s, <2>3 DEF SyncFileMetadata, AddRecord, RollMetaZone, Collector
    <3> QED
      BY <1>s, <3>1 DEF Lagging
  <2>6. LoggedList(f)' /\ logged'[f].size = Total(logged'[f].ext)
    BY <1>3, <2>1, <2>3, <2>5, <2>8, <2>9, LogWritten
  <2>7. LoggedTail(f)'
    BY <2>1, <2>5, <2>8, TailWritten
  <2> QED
    BY <2>6, <2>7
<1>u. CASE MetadataUnsynced /\ f = gc.id
  <2>1. gc'.pc = "sync" /\ gc'.id = f /\ gc.pc = "unsync" /\ gc'.old = gc.old
    BY <1>0, <1>u DEF MetadataUnsynced, Collector
  <2>2. logged' = logged /\ extents_' = extents_ /\ nr_synced_extents_'[f] = 0
    BY <1>0, <1>u DEF MetadataUnsynced, Types
  <2>3. LoggedList(f)'
    BY <1>5, <1>u, <2>1, <2>2 DEF LoggedList
  <2>4. LoggedTail(f)'
    BY <1>2, <2>2, TailNext
  <2> QED
    BY <1>2, <2>2, <2>3, <2>4
<1>m. CASE Marked(f)
  <2>0. extents_'[f] = list /\ file_size_' = file_size_ /\ gc' = gc /\ Free
    BY <1>m DEF Marked
  <2>z. Added(f) = 0 /\ Added(f)' = 0
    BY <1>m DEF Marked, Unpushed
  <2>1. ~(gc.pc = "sync" /\ gc.id = f)
    BY <1>m DEF Marked, Judged
  <2>2. PICK name \in Names : \/ Written(f, name, list)
                              \/ Written(f, name, logged[f].ext \o Unsynced(f))
    BY <1>m DEF Marked
  <2>3. CASE ~Behind
    <3>0. logged[f].ext = SubSeq(list, 1, n)
      BY <1>6, <1>f, <2>0, <2>3
    <3>1. logged[f].ext \o Unsynced(f) = list
      BY <1>0, <1>4, <3>0, ListParts DEF Unsynced
    <3>2. Written(f, name, list)
      BY <2>2, <3>1
    <3>4. Lagging(f)' \/ n = Len(list)
      <4>1. files_mtx_.by = "none"
        BY <2>0 DEF Free, Unlocked
      <4>2. CASE f # writer.id
        <5>1. ~Lagging(f)
          BY <4>1, <4>2 DEF Lagging
        <5> QED
          BY <1>6, <2>3, <5>1
      <4>3. CASE f = writer.id
        <5>1. writer'.id = f /\ (files_mtx_'.by = "writer" \/ (Closing' => Closing))
          BY <1>m, <4>3 DEF Marked
        <5>2. Lagging(f)' \/ Closing
          BY <5>1 DEF Lagging
        <5>3. Closing => ~Lagging(f)
          BY <4>1 DEF Lagging
        <5> QED
          BY <1>6, <2>3, <5>2, <5>3
      <4> QED
        BY <4>2, <4>3
    <3>3. LoggedList(f)' /\ logged'[f].size = Total(logged'[f].ext)
      BY <1>3, <2>0, <2>3, <2>z, <3>2, <3>4, LogWritten
    <3> QED
      BY <2>0, <2>z, <3>2, <3>3, TailWritten
  <2>4. CASE Behind
    <3>1. gc.pc = "unsync" /\ n = Len(list)
      BY <1>5, <2>1, <2>4
    <3>2. logged[f].ext \o Unsynced(f) = logged[f].ext
      <4>1. SubSeq(list, Len(list) + 1, Len(list)) = <<>>
        BY <1>0
      <4> DEFINE ext == logged[f].ext
      <4>2. ext \in Seq(Extent)
        BY DEF Control, Types, Record
      <4> HIDE DEF ext
      <4>3. ext \o <<>> = ext
        BY <4>2
      <4>4. Unsynced(f) = <<>>
        BY <3>1, <4>1 DEF Unsynced
      <4> QED
        BY <4>3, <4>4 DEF ext
    <3>3. PICK ext \in {gc.old, list} : Written(f, name, ext)
      BY <1>5, <2>2, <2>4, <3>2
    <3>4. Total(ext) = Total(list)
      BY <1>0, <1>7, <2>4, TotalSame
    <3>5. LoggedList(f)'
      BY <2>0, <2>4, <3>1, <3>3 DEF LoggedList, Written
    <3>6. logged'[f].size = Total(logged'[f].ext)
      BY <1>3, <2>z, <3>3, <3>4 DEF Written
    <3> QED
      BY <2>0, <2>z, <3>3, <3>5, <3>6, TailWritten
  <2> QED
    BY <2>3, <2>4
<1>r. CASE Replaced(f) /\ f # gc.id
  <2>1. /\ extents_' = extents_ /\ file_size_' = file_size_ /\ gc'.pc = "clear" /\ Free
        /\ writer' = writer /\ extent_start_' = extent_start_
    BY <1>r DEF Replaced, SyncFileMetadata
  <2>2. PICK name \in Names : Written(f, name, list)
    BY <1>r DEF Replaced
  <2>4. Added(f) = 0 /\ Added(f)' = 0
    BY <1>r DEF Replaced, Unpushed
  <2>5. Lagging(f)' \/ n = Len(list)
    <3>1. files_mtx_.by = "none" /\ (Closing' <=> Closing)
      BY <2>1 DEF Free, Unlocked, Closing
    <3>2. Lagging(f)' \/ ~Lagging(f)
      BY <1>r, <2>1, <3>1 DEF Lagging
    <3> QED
      BY <1>6, <1>r, <3>2
  <2>3. LoggedList(f)' /\ logged'[f].size = Total(logged'[f].ext)
    BY <1>3, <2>1, <2>2, <2>4, <2>5, LogWritten
  <2> QED
    BY <2>1, <2>2, <2>3, <2>4, TailWritten
<1>y. CASE MetadataSynced
  <2>1. /\ logged' = logged /\ extents_' = extents_ /\ gc' = gc /\ writer' = writer
        /\ extent_start_' = extent_start_ /\ files_mtx_' = Unlocked
        /\ nr_synced_extents_'[f] = IF Waits(f) THEN Len(list) ELSE n
        /\ misjudged' = misjudged \cup (files_mtx_.ids \cap Unmarked)
    BY <1>0, <1>y DEF MetadataSynced, Waits
  <2>2. LoggedTail(f)' /\ logged'[f].size = Total(logged'[f].ext)
    BY <1>2, <2>1, TailNext
  <2>3. CASE Behind
    <3>1. gc.pc = "sync" => ~Waits(f)
      BY <2>1, <2>3 DEF Waits, Unmarked
    <3>2. LoggedList(f)'
      BY <1>5, <2>1, <2>3, <3>1 DEF LoggedList
    <3> QED
      BY <2>2, <3>2
  <2>4. CASE ~Behind
    <3>1. Seen(f)' = Seen(f) /\ nr_synced_extents_'[f] = Seen(f)
      BY <2>1 DEF Seen, Waits, Unlocked
    <3>2. Closing' <=> Closing
      BY <2>1 DEF Closing
    <3>3. Lagging(f)' \/ Seen(f) = Len(list)
      <4>1. f = writer.id /\ ~Closing => Lagging(f)'
        BY <2>1, <3>2 DEF Lagging
      <4> QED
        BY <1>6, <2>4, <4>1
    <3>4. LoggedList(f)'
      BY <1>6, <2>1, <2>4, <3>1, <3>2, <3>3 DEF LoggedList
    <3> QED
      BY <2>2, <3>4
  <2> QED
    BY <2>3, <2>4
<1>w. CASE CloseWRDone /\ f = writer.id
  <2>1. /\ logged' = logged /\ extents_' = extents_ /\ gc' = gc /\ writer'.id = NoFile
        /\ files_mtx_' = files_mtx_ /\ nr_synced_extents_' = nr_synced_extents_
        /\ files_mtx_.by # "writer" /\ Closing
    <3>1. writer \in Writer
      BY <1>0 DEF Types
    <3> QED
      BY <1>w, <3>1 DEF CloseWRDone, Writer, Closing
  <2>2. LoggedTail(f)' /\ logged'[f].size = Total(logged'[f].ext)
    BY <1>2, <2>1, TailNext
  <2>3. ~Behind /\ f # NoFile
    BY <1>7, <1>w, Zeros
  <2>4. Seen(f)' = Seen(f) /\ Seen(f) = Len(list)
    BY <1>6, <2>1, <2>3 DEF Seen
  <2>5. Lagging(f) => Lagging(f)'
    BY <2>1, <2>3 DEF Lagging
  <2>6. LoggedList(f)'
    BY <1>6, <2>1, <2>3, <2>4, <2>5 DEF LoggedList
  <2> QED
    BY <2>2, <2>6
<1>k. CASE /\ Untouched(f) /\ ~(SyncFileMetadata /\ f = gc.id)
           /\ ~(MetadataUnsynced /\ f = gc.id)
  <2>1. /\ logged'[f] = logged[f] /\ nr_synced_extents_'[f] = n
        /\ f = writer.id => writer'.id = f /\ (Closing' => Closing)
        /\ Free \/ files_mtx_' = files_mtx_
        /\ Waits(f)' <=> Waits(f)
    BY <1>k DEF Untouched, Kept
  <2>2. LoggedTail(f)' /\ logged'[f].size = Total(logged'[f].ext)
    BY <1>2, <2>1, TailNext
  <2>3. CASE f = writer.id /\ \E length \in Lengths : BufferedAppend(length)
    <3>1. PICK length \in Lengths : BufferedAppend(length)
      BY <2>3
    <3> DEFINE e == NewExtent(length)
    <3>2. e \in Extent /\ extents_'[f] = Append(list, e) /\ gc' = gc /\ writer'.id = writer.id
      BY <2>3, <3>1, AppendedExtent
    <3>3. ~Behind
      BY <1>7, <2>3
    <3> HIDE DEF e
    <3>4. SubSeq(extents_'[f], 1, n) = SubSeq(list, 1, n)
      BY <1>0, <1>4, <3>2, ListParts
    <3>6. ~Waits(f) /\ ~Closing'
      BY <2>3, <3>1, <3>2 DEF BufferedAppend, Race, Waits, Closing
    <3>7. Seen(f) = n /\ Seen(f)' = n
      BY <2>1, <3>6 DEF Seen, Waits
    <3>8. Lagging(f)'
      BY <2>3, <3>2, <3>6 DEF Lagging
    <3>5. LoggedList(f)'
      BY <1>6, <2>1, <2>3, <3>2, <3>3, <3>4, <3>6, <3>7, <3>8 DEF LoggedList
    <3> QED
      BY <2>2, <3>5
  <2>4. CASE f = gc.id /\ ReplaceExtentList
    <3>1. gc.pc = "replace" /\ gc'.pc = "unsync" /\ gc'.id = f /\ gc'.old = list
          /\ extents_'[f] = gc.list
      BY <1>0, <2>4 DEF ReplaceExtentList, Collector, Types
    <3>2. f # writer.id /\ Len(gc.list) = Len(list)
      BY <1>0, <2>4, <3>1 DEF WRLocks, Lists, SameLengths, Locking, Holding, Moving
    <3>3. logged[f].ext = list /\ n = Len(list)
      <4>1. ~Lagging(f)
        BY <1>0, <3>1, <3>2 DEF Lagging, Mutex
      <4> QED
        BY <1>0, <1>6, <3>1, <3>2, <4>1, WholeList
    <3>4. LoggedList(f)'
      BY <2>1, <3>1, <3>2, <3>3 DEF LoggedList
    <3> QED
      BY <2>2, <3>4
  <2>5. CASE extents_'[f] = list /\ ~(f = gc.id /\ ReplaceExtentList)
    <3>1. CASE Behind
      <4>1. gc'.id = f /\ gc'.old = gc.old /\ gc'.pc \in {"unsync", "sync"}
        BY <1>k, <3>1, SyncingSteps
      <4>2. gc'.pc = gc.pc
        BY <1>8, <1>k, <2>5, <3>1, <4>1
      <4> QED
        BY <1>5, <2>1, <2>2, <2>5, <3>1, <4>1, <4>2 DEF LoggedList
    <3>2. CASE ~Behind
      <4>1. ~(gc'.id = f /\ gc'.pc \in {"unsync", "sync"})
        BY <1>8, <2>5, <3>2
      <4>2. Seen(f)' = Seen(f)
        BY <2>1, <2>5 DEF Seen, Waits
      <4>3. Lagging(f) => Lagging(f)'
        <5>1. files_mtx_.by \in {"writer", "gc"} => files_mtx_' = files_mtx_
          BY <2>1 DEF Free, Unlocked
        <5>2. CASE f = writer.id /\ (~Closing \/ files_mtx_.by = "writer")
          BY <2>1, <5>1, <5>2 DEF Lagging
        <5>3. CASE f = gc.id /\ files_mtx_.by = "gc"
          <6>1. files_mtx_'.by = "gc" /\ gc'.pc = "clear"
            BY <1>0, <5>1, <5>3 DEF Mutex
          <6>2. gc'.id = gc.id
            BY <6>1, CollectSteps DEF Swapped
          <6> QED
            BY <5>3, <6>1, <6>2 DEF Lagging
        <5> QED
          BY <5>2, <5>3 DEF Lagging
      <4>4. f # writer'.id \/ Closing' => f # writer.id \/ Closing
        BY <2>1
      <4>5. LoggedList(f)'
        BY <1>6, <2>1, <2>5, <3>2, <4>1, <4>2, <4>3, <4>4 DEF LoggedList
      <4> QED
        BY <2>2, <4>5
    <3> QED
      BY <3>1, <3>2
  <2> QED
    BY <2>3, <2>4, <2>5, ListSteps
<1> QED
  BY <1>s, <1>u, <1>m, <1>r, <1>y, <1>w, <1>k, LogSteps DEF Gone, Replaced

-----------------------------------------------------------------------------
(***************************************************************************)
(* What readers get                                                        *)
(***************************************************************************)

\* The extent behind the first slots of a list that make up whole extents
LEMMA ExtentAt ==
  ASSUME NEW list \in Seq(Extent), NEW i \in 1..(Len(list) + 1)
  PROVE  /\ \A e \in GetExtent(list, Before(list, i)) : i \in DOMAIN list /\ e = list[i]
         /\ i \in DOMAIN list => list[i] \in GetExtent(list, Before(list, i))
         /\ Before(list, i) <= Total(list) /\ Total(list) \in Nat
         /\ i \notin DOMAIN list => Before(list, i) = Total(list)
<1>0. i \in Nat /\ DOMAIN list = 1..Len(list) /\ Len(list) \in Nat
  OBVIOUS
<1>1. ASSUME NEW j \in DOMAIN list
      PROVE  /\ Before(list, j + 1) = Before(list, j) + list[j].length
             /\ list[j].length \in Nat /\ list[j].length >= 1 /\ j \in Nat
  <2>1. list[j] \in Extent
    OBVIOUS
  <2>2. list[j].length \in Nat /\ list[j].length >= 1
    BY <2>1 DEF Extent
  <2> QED
    BY <2>2, BeforeStep
<1>2. \A j \in Nat : Before(list, j) \in Nat
  BY InFrontFinite
<1>3. ASSUME NEW j \in DOMAIN list, Before(list, j) <= Before(list, i),
             Before(list, i) < Before(list, j) + list[j].length
      PROVE  j = i
  <2>1. CASE j < i
    <3>1. j + 1 <= i /\ j + 1 \in Nat
      BY <1>0, <1>1, <2>1
    <3>2. Before(list, j + 1) <= Before(list, i)
      BY <1>0, <3>1, BeforeMonotone
    <3>3. Before(list, j + 1) = Before(list, j) + list[j].length /\ list[j].length \in Nat
      BY <1>1
    <3>4. Before(list, i) \in Nat /\ Before(list, j) \in Nat
      BY <1>0, <1>1, <1>2
    <3> QED
      BY <1>3, <3>2, <3>3, <3>4
  <2>2. CASE i < j
    <3>1. i \in DOMAIN list /\ i + 1 <= j /\ i + 1 \in Nat
      BY <1>0, <2>2
    <3>2. Before(list, i + 1) <= Before(list, j)
      BY <1>0, <1>1, <3>1, BeforeMonotone
    <3>3. Before(list, i + 1) = Before(list, i) + list[i].length /\ list[i].length \in Nat
          /\ list[i].length >= 1
      BY <1>1, <3>1
    <3>4. Before(list, i) \in Nat /\ Before(list, j) \in Nat
      BY <1>0, <1>1, <1>2
    <3> QED
      BY <1>3, <3>2, <3>3, <3>4
  <2> QED
    BY <1>0, <1>1, <2>1, <2>2
<1>4. \A e \in GetExtent(list, Before(list, i)) : i \in DOMAIN list /\ e = list[i]
  BY <1>3 DEF GetExtent
<1>5. i \in DOMAIN list => list[i] \in GetExtent(list, Before(list, i))
  <2> SUFFICES ASSUME i \in DOMAIN list PROVE list[i] \in GetExtent(list, Before(list, i))
    OBVIOUS
  <2>0. Before(list, i) \in Nat /\ list[i].length \in Nat /\ list[i].length >= 1
    BY <1>0, <1>1, <1>2
  <2>1. Before(list, i) <= Before(list, i) /\ Before(list, i) < Before(list, i) + list[i].length
    BY <2>0
  <2> QED
    BY <2>1 DEF GetExtent
<1>6. Before(list, i) <= Total(list) /\ Total(list) \in Nat
  <2>1. Len(list) + 1 \in Nat /\ i <= Len(list) + 1
    BY <1>0
  <2> QED
    BY <1>0, <1>2, <2>1, BeforeMonotone DEF Total
<1>7. i \notin DOMAIN list => Before(list, i) = Total(list)
  <2>1. i \notin DOMAIN list => i = Len(list) + 1
    BY <1>0
  <2> QED
    BY <2>1 DEF Total
<1> QED
  BY <1>4, <1>5, <1>6, <1>7

\* There are at most as many readers of a file as readers.
LEMMA ReadingFinite ==
  ASSUME NEW id
  PROVE  IsFiniteSet(Reading(id)) /\ Cardinality(Reading(id)) \in 0..Cardinality(Readers)
<1>1. Reading(id) \in SUBSET Readers
  BY DEF Reading
<1>2. IsFiniteSet(Readers)
  BY ReaderAssumption
<1>3. /\ IsFiniteSet(Reading(id)) /\ Cardinality(Reading(id)) <= Cardinality(Readers)
      /\ Cardinality(Readers) \in Nat
  BY <1>1, <1>2, FS_Subset, FS_CardinalityType
<1>4. Cardinality(Reading(id)) \in Nat
  BY <1>3, FS_CardinalityType
<1> QED
  BY <1>3, <1>4

\* The list of a file that is being read stays as it is.
LEMMA ReadList ==
  ASSUME Control, Next, ~Crash, NEW r \in Readers, reader[r].pc \in {"extent", "read"}
  PROVE  reader[r].id \in Ids /\ extents_'[reader[r].id] = extents_[reader[r].id]
<1> DEFINE id == reader[r].id
<1>1. id \in Ids /\ id # writer.id /\ Read(id) /\ readers_[id] = Cardinality(Reading(id))
  BY DEF Control, RWLocks, Live, Read
<1>2. readers_[id] # 0
  <2>1. r \in Reading(id)
    BY DEF Reading
  <2> QED
    BY <1>1, <2>1, ReadingFinite, FS_EmptySet
<1>3. ~(id = gc.id /\ ReplaceExtentList)
  BY <1>2 DEF ReplaceExtentList
<1> HIDE DEF id
<1>4. extents_'[id] = extents_[id]
  BY <1>1, <1>3, ListSteps
<1> QED
  BY <1>1, <1>4 DEF id

\* The step of a reader
LEMMA OwnStep ==
  ASSUME Control, Contents, NEW r \in Readers, ReadsOf(r), Good(reader[r].id), GoOnReading(r)
  PROVE  ReadsOf(r)'
<1> USE DEF device, namespace, metadata, lists, locks, faults
<1> DEFINE id == reader[r].id
           list == extents_[id]
           got == reader[r].got
<1>0. reader \in [Readers -> Reader] /\ RWLocks /\ extents_ \in [Ids -> Seq(Extent)]
  BY DEF Control, Types
<1>1. reader[r] \in Reader /\ reader[r].pc # "idle"
  BY <1>0 DEF GoOnReading, ReadLock, ReadNextExtent, ReadDevice
<1>2. id \in Ids /\ list \in Seq(Extent) /\ got \in Seq(Datum) /\ extents_' = extents_
  BY <1>0, <1>1 DEF RWLocks, Live, Reader, GoOnReading, ReadLock, ReadNextExtent, ReadDevice
<1>3. \A k \in DOMAIN got : got[k] = <<id, k>>
  BY DEF ReadsOf
<1>4. CASE ReadLock(r)
  <2>1. got = <<>> /\ reader'[r] = [reader[r] EXCEPT !.pc = "extent"]
    BY <1>0, <1>4 DEF ReadLock, ReadsOf
  <2>2. reader'[r].pc = "extent" /\ reader'[r].id = id /\ reader'[r].got = <<>>
    BY <1>1, <2>1 DEF Reader
  <2>3. Len(<<>>) = Before(list, 1) /\ 1 \in 1..(Len(list) + 1)
    BY <1>2, BeforeFirst
  <2> HIDE DEF list
  <2>4. \E j \in 1..(Len(list) + 1) : Len(<<>>) = Before(list, j)
    BY <2>3
  <2> QED
    BY <1>2, <2>2, <2>4 DEF ReadsOf, list
<1>5. CASE ReadNextExtent(r)
  <2>0. PICK i \in 1..(Len(list) + 1) : Len(got) = Before(list, i)
    BY <1>5 DEF ReadNextExtent, ReadsOf
  <2>1. CASE \E e \in NextExtent(r) : reader' = [reader EXCEPT ![r].pc = "read", ![r].ext = e]
    <3>1. PICK e \in NextExtent(r) : reader' = [reader EXCEPT ![r].pc = "read", ![r].ext = e]
      BY <2>1
    <3>2. reader'[r] = [reader[r] EXCEPT !.pc = "read", !.ext = e]
      BY <1>0, <3>1
    <3>3. reader'[r].pc = "read" /\ reader'[r].id = id /\ reader'[r].got = got
          /\ reader'[r].ext = e
      BY <1>1, <3>2 DEF Reader
    <3>4. e \in GetExtent(list, Before(list, i))
      BY <2>0, <3>1 DEF NextExtent
    <3>5. i \in DOMAIN list /\ e = list[i]
      BY <1>2, <3>4, ExtentAt
    <3> QED
      BY <1>2, <1>3, <2>0, <3>3, <3>5 DEF ReadsOf
  <2>2. CASE reader' = [reader EXCEPT ![r] = NoReader]
    <3>1. reader'[r].pc = "idle" /\ reader'[r].got = <<>>
      BY <1>0, <2>2 DEF NoReader
    <3> QED
      BY <3>1 DEF ReadsOf
  <2> QED
    BY <1>5, <2>1, <2>2 DEF ReadNextExtent
<1>6. CASE ReadDevice(r)
  <2> DEFINE e == reader[r].ext
             c == Content(e)
  <2>1. reader'[r] = [reader[r] EXCEPT !.pc = "extent", !.ext = <<>>, !.got = @ \o Content(e)]
    BY <1>0, <1>6 DEF ReadDevice
  <2>2. reader'[r].pc = "extent" /\ reader'[r].id = id /\ reader'[r].got = got \o c
    BY <1>1, <2>1 DEF Reader
  <2>3. PICK i \in DOMAIN list : e = list[i] /\ Len(got) = Before(list, i)
    BY <1>6 DEF ReadDevice, ReadsOf
  <2>4. e \in Extent
    BY <1>2, <2>3
  <2>5. e.length \in Nat
    BY <2>4 DEF Extent
  <2>6. c \in Seq(Datum) /\ Len(c) = e.length
    BY <2>4, ContentType DEF Control
  <2>7. \A k \in 1..e.length : c[k] = <<id, Before(list, i) + k>>
    <3>1. Holds(data, id, list)
      BY <1>2 DEF Contents
    <3> QED
      BY Zenon, <2>3, <3>1 DEF Holds, Content
  <2>8. Before(list, i + 1) = Before(list, i) + e.length
    BY <1>2, <2>3, BeforeStep
  <2>i. i + 1 \in 1..(Len(list) + 1)
    BY <1>2
  <2> HIDE DEF c, got, list, id, e
  <2>9. /\ got \o c \in Seq(Datum) /\ Len(got \o c) = Len(got) + e.length
        /\ Len(got) \in Nat
        /\ \A k \in 1..Len(got) : (got \o c)[k] = got[k]
        /\ \A k \in 1..e.length : (got \o c)[Len(got) + k] = c[k]
    <3>1. Concatenated(got, c) /\ got \o c \in Seq(Datum) /\ Len(got) \in Nat
      BY <1>2, <2>6, Concatenation
    <3> QED
      BY <2>6, <3>1 DEF Concatenated
  <2>10. ASSUME NEW k \in DOMAIN (got \o c)
         PROVE  (got \o c)[k] = <<id, k>>
    <3>0. k \in 1..(Len(got) + e.length)
      BY <2>9
    <3>1. CASE k <= Len(got)
      <4>1. k \in 1..Len(got) /\ k \in DOMAIN got
        BY <1>2, <2>9, <3>0, <3>1
      <4> QED
        BY <1>3, <2>9, <4>1
    <3>2. CASE k > Len(got)
      <4> DEFINE j == k - Len(got)
      <4>1. j \in 1..e.length /\ Len(got) + j = k
        BY <2>5, <2>9, <3>0, <3>2
      <4> HIDE DEF j
      <4>2. (got \o c)[Len(got) + j] = c[j] /\ c[j] = <<id, Before(list, i) + j>>
        BY <2>7, <2>9, <4>1
      <4> QED
        BY <2>3, <4>1, <4>2
    <3> QED
      BY <2>9, <3>0, <3>1, <3>2
  <2>11. \E j \in 1..(Len(list) + 1) : Len(got \o c) = Before(list, j)
    BY <2>3, <2>8, <2>9, <2>i
  <2> QED
    BY <1>2, <2>2, <2>10, <2>11 DEF ReadsOf, list, id
<1> QED
  BY <1>4, <1>5, <1>6 DEF GoOnReading

\* A reader keeps getting what it is due, across swaps of the list between two extents.
LEMMA ReadsNext ==
  ASSUME Control, Contents, Reads, Next
  PROVE  Reads'
<1> USE DEF device, namespace, metadata, lists, locks, faults
<1> SUFFICES ASSUME NEW r \in Readers, Good(reader[r].id)'
             PROVE  ReadsOf(r)'
  BY DEF Reads
<1>0. reader \in [Readers -> Reader] /\ RWLocks /\ crashes \in Nat
  BY DEF Control, Types
<1>1. CASE Crash
  BY <1>1 DEF Crash, ReadsOf, NoReader
<1>2. CASE reader'[r] = reader[r] /\ ~Crash
  <2>1. Good(reader[r].id)
    BY <1>0, <1>2, BoundSteps DEF Good
  <2>2. ReadsOf(r)
    BY <2>1 DEF Reads
  <2>3. CASE reader[r].pc \in {"extent", "read"}
    <3>1. extents_'[reader[r].id] = extents_[reader[r].id]
      BY <1>2, <2>3, ReadList
    <3> QED
      BY <1>2, <2>2, <3>1 DEF ReadsOf
  <2>4. CASE reader[r].pc \notin {"extent", "read"}
    BY <1>2, <2>2, <2>4 DEF ReadsOf
  <2> QED
    BY <2>3, <2>4
<1>3. CASE GoOnReading(r)
  <2>1. reader'[r] = NoReader \/ reader'[r].id = reader[r].id
    <3>1. reader[r] \in Reader
      BY <1>0
    <3>2. CASE ReadLock(r)
      BY <1>0, <3>1, <3>2 DEF ReadLock, Reader
    <3>3. CASE ReadNextExtent(r)
      <4>1. CASE \E e : reader' = [reader EXCEPT ![r].pc = "read", ![r].ext = e]
        <5>1. PICK e : reader' = [reader EXCEPT ![r].pc = "read", ![r].ext = e]
          BY <4>1
        <5>2. reader'[r] = [reader[r] EXCEPT !.pc = "read", !.ext = e]
          BY <1>0, <5>1
        <5> QED
          BY <3>1, <5>2 DEF Reader
      <4>2. CASE reader' = [reader EXCEPT ![r] = NoReader]
        BY <1>0, <4>2
      <4> QED
        BY <3>3, <4>1, <4>2 DEF ReadNextExtent
    <3>4. CASE ReadDevice(r)
      <4>1. reader'[r] = [reader[r] EXCEPT !.pc = "extent", !.ext = <<>>,
                                           !.got = @ \o Content(reader[r].ext)]
        BY <1>0, <3>4 DEF ReadDevice
      <4> QED
        BY <3>1, <4>1 DEF Reader
    <3> QED
      BY <1>3, <3>2, <3>3, <3>4 DEF GoOnReading
  <2>2. CASE reader'[r] = NoReader
    BY <2>2 DEF ReadsOf, NoReader
  <2>3. CASE reader'[r].id = reader[r].id
    <3>1. UNCHANGED <<crashes, misjudged, uncopied>>
      BY <1>3 DEF GoOnReading, ReadLock, ReadNextExtent, ReadDevice
    <3>2. Good(reader[r].id)
      BY <2>3, <3>1 DEF Good
    <3> QED
      BY <1>3, <3>2, OwnStep DEF Reads
  <2> QED
    BY <2>1, <2>2, <2>3
<1>4. CASE \E n \in Names : PositionedRead(r, n)
  <2>1. reader'[r].pc = "lock" /\ reader'[r].got = <<>>
    BY <1>0, <1>4 DEF PositionedRead, NoReader
  <2> QED
    BY <2>1 DEF ReadsOf
<1>5. ASSUME NEW q \in Readers, q # r, GoOnReading(q) \/ \E n \in Names : PositionedRead(q, n)
      PROVE  reader'[r] = reader[r]
  BY Zenon, <1>0, <1>5 DEF GoOnReading, ReadLock, ReadNextExtent, ReadDevice, PositionedRead
<1>6. CASE ~Crash /\ ~\E q \in Readers : GoOnReading(q) \/ \E n \in Names : PositionedRead(q, n)
  <2>1. reader' = reader
    BY Zenon, <1>6 DEF Next, Collect, GCWorker, GetZenFSSnapshot, MigrateGetFile, TryAcquireWRLock,
       TakeMigrateZone, LeaveExtent, MigrateData, MigrateDataError, ExtentMigrated, FileGone,
       WriteLock, ReplaceExtentList, MetadataUnsynced, SyncFileMetadata, SyncFileExtentsDone,
       ReleaseWRLock, MigrateResets, OpenWritableFile, ReopenWritableFile, DeleteFile,
       AllocateNewZone, BufferedAppend, MetadataSynced, BufferedAppendDone, CloseWR, CloseWRDone,
       CloseActiveZone, ResetUnused, RenameFile
  <2> QED
    BY <1>2, <1>6, <2>1
<1> QED
  BY <1>1, <1>2, <1>3, <1>4, <1>5, <1>6

-----------------------------------------------------------------------------
(***************************************************************************)
(* The theorems                                                            *)
(***************************************************************************)

\* The empty file system has the invariant.
LEMMA InvInit == ASSUME Init PROVE Inv
<1> USE DEF Init
<1>1. Control
  BY ControlInit
<1>0. \A id \in Ids : extents_[id] = <<>> /\ logged[id] = NoRecord /\ file_size_[id] = 0
                      /\ extent_start_[id] = NO_EXTENT /\ nr_synced_extents_[id] = 0
  OBVIOUS
<1>p. gc.pc = "idle" /\ gc.id = NoFile
  BY DEF NoGC
<1>q. /\ \A id \in Ids : Added(id) = 0 /\ Size(id) = 0
      /\ \A z \in Zones : Uncounted(z) = 0
  <2>1. writer.added = 0
    BY DEF NoWriter
  <2>2. \A id : Added(id) = 0
    BY <2>1 DEF Added
  <2>3. \A z : Uncounted(z) = 0
    BY <2>1 DEF Uncounted
  <2> QED
    BY <1>0, <2>2, <2>3 DEF Size
<1>2. Capacity
  <2> SUFFICES ASSUME NEW z \in Zones
               PROVE  used_capacity_[z] = Used(z, extents_) + Cardinality(Counted(z))
                      /\ used_capacity_[z] \in Nat
    BY <1>q DEF Capacity
  <2>1. Counted(z) = {}
    BY <1>p DEF Counted
  <2>2. \A id \in Ids : Slots(z, extents_[id]) = {}
    BY <1>0 DEF Slots
  <2>3. UNION {{id} \X Slots(z, extents_[id]) : id \in Ids} = {}
    BY <2>2
  <2>4. Used(z, extents_) = 0 /\ Cardinality(Counted(z)) = 0
    BY <2>1, <2>3, FS_EmptySet DEF Used
  <2> QED
    BY <2>4
<1>3. Opened
  BY <1>0 DEF Opened, NO_EXTENT
<1>4. Unnamed
  BY <1>0 DEF Unnamed
<1>5. Ranges
  BY <1>0, <1>p, SetOfParts DEF Ranges, Within, Moving, Swapped, NoRecord
<1>6. Contents
  BY <1>0, <1>p, <1>q, HoldsNothing, TotalEmpty DEF Contents, Moving, Swapped
<1>7. Log
  <2> SUFFICES ASSUME NEW id \in Ids
               PROVE  LoggedList(id) /\ logged[id].size = Total(logged[id].ext) /\ LoggedTail(id)
    BY DEF Log
  <2>1. logged[id].ext = <<>> /\ logged[id].size = 0 /\ logged[id].start.zone = NoZone
    BY <1>0 DEF NoRecord, NO_EXTENT
  <2>2. SubSeq(<<>>, 1, 0) = <<>> /\ Len(<<>>) = 0
    OBVIOUS
  <2>4. Seen(id) = 0
    BY <1>0 DEF Seen, Unlocked
  <2>3. LoggedList(id)
    BY <1>0, <1>p, <2>1, <2>2, <2>4 DEF LoggedList
  <2> QED
    BY <2>1, <2>3, TotalEmpty DEF LoggedTail
<1>8. Reads
  BY DEF Reads, ReadsOf, NoReader
<1> QED
  BY <1>1, <1>2, <1>3, <1>4, <1>5, <1>6, <1>7, <1>8 DEF Inv

\* Every step keeps it.
LEMMA InvNext == ASSUME Inv, [Next]_vars PROVE Inv'
<1>1. CASE Next
  <2>0. Control /\ Capacity /\ Opened /\ Unnamed /\ Ranges /\ Contents /\ Log /\ Reads
    BY DEF Inv
  <2>1. Control'
    BY <1>1, <2>0, ControlNext
  <2>2. Capacity'
    BY <1>1, <2>0, <2>1, CapacityNext
  <2>3. Opened'
    BY <1>1, <2>0, <2>1, OpenedNext
  <2>4. Unnamed'
    BY <1>1, <2>0, UnnamedNext
  <2>5. Ranges'
    BY <1>1, <2>0, <2>1, RangesNext
  <2>6. Contents'
    BY <1>1, <2>0, <2>1, ContentsNext
  <2>7. Log'
    BY <1>1, <2>0, <2>1, <2>3, LogNext
  <2>8. Reads'
    BY <1>1, <2>0, ReadsNext
  <2> QED
    BY <2>1, <2>2, <2>3, <2>4, <2>5, <2>6, <2>7, <2>8 DEF Inv
<1>2. CASE UNCHANGED vars
  <2> USE DEF vars, device, namespace, metadata, lists, locks, faults
  <2>1. Control'
    BY <1>2, ControlNext DEF Inv
  <2>2. Capacity' /\ Unnamed'
    BY <1>2 DEF Inv, Capacity, Unnamed, Counted, Uncounted
  <2>6. Opened'
    BY <1>2 DEF Inv, Opened, Added, Reaches, IsFull, capacity_
  <2>3. Ranges' /\ Contents'
    BY <1>2 DEF Inv, Ranges, KnownExtents, Contents, Good, Size, Added
  <2>4. Log'
    <3>1. ASSUME NEW id PROVE Size(id)' = Size(id) /\ Seen(id)' = Seen(id)
      BY <1>2 DEF Size, Added, Seen
    <3>2. Closing' <=> Closing
      BY <1>2 DEF Closing
    <3>3. ASSUME NEW id PROVE Lagging(id)' <=> Lagging(id)
      BY <1>2, <3>2 DEF Lagging
    <3>4. ASSUME NEW id PROVE LoggedList(id)' <=> LoggedList(id)
      BY <1>2, <3>1, <3>2, <3>3 DEF LoggedList
    <3>5. ASSUME NEW id PROVE LoggedTail(id)' <=> LoggedTail(id)
      BY <1>2, <3>1 DEF LoggedTail
    <3> QED
      BY <1>2, <3>4, <3>5 DEF Inv, Log
  <2>5. Reads'
    BY <1>2 DEF Inv, Reads, ReadsOf, Good
  <2> QED
    BY <2>1, <2>2, <2>3, <2>4, <2>5, <2>6 DEF Inv
<1> QED
  BY <1>1, <1>2

\* The inductive invariant holds in every behaviour.
THEOREM MigrationInv == Spec => []Inv
<1>1. Init => Inv
  BY InvInit
<1>2. Inv /\ [Next]_vars => Inv'
  BY InvNext
<1> QED
  BY <1>1, <1>2, PTL DEF Spec

\* It gives the type invariant.
LEMMA InvTypes == ASSUME Inv PROVE TypeOK
<1>0. Control /\ Types /\ RWLocks /\ Lists /\ Capacity /\ gc \in Collector
  BY DEF Inv, Control, Types
<1>1. used_capacity_ \in [Zones -> Nat]
  <2>1. ASSUME NEW z \in Zones PROVE used_capacity_[z] \in Nat
    <3>1. used_capacity_[z] \in Int /\ Used(z, extents_) \in Nat /\ Cardinality(Counted(z)) \in Nat
      BY <1>0, CountedFinite DEF Types
    <3>2. used_capacity_[z] + Uncounted(z) >= Used(z, extents_) + Cardinality(Counted(z))
      BY <1>0 DEF Capacity
    <3>3. CASE Uncounted(z) = 0
      BY <3>1, <3>2, <3>3
    <3>4. CASE Uncounted(z) # 0
      <4>0. writer \in Writer /\ Active /\ Opened /\ extents_ \in [Ids -> Seq(Extent)]
        BY <1>0 DEF Types, Control, Inv
      <4>1. z = writer.zone /\ Uncounted(z) = writer.added /\ writer.added > 0
            /\ writer.added \in Nat
        BY <3>4, <4>0 DEF Uncounted, Writer
      <4>2. writer.id \in Ids /\ extent_start_[writer.id].zone = z /\ z # NoZone
            /\ Added(writer.id) = writer.added
        <5>1. writer.id \in Ids \cup {NoFile}
          BY <4>0 DEF Writer
        <5> QED
          BY <4>0, <4>1, <5>1 DEF Active, Added
      <4>3. Reaches(extents_[writer.id], z, writer.added)
        BY <4>0, <4>1, <4>2 DEF Opened
      <4>4. PICK i \in DOMAIN extents_[writer.id] :
              extents_[writer.id][i].zone = z /\ extents_[writer.id][i].length >= writer.added
        BY <4>3 DEF Reaches
      <4>5. Used(z, extents_) >= extents_[writer.id][i].length
        BY <4>0, <4>2, <4>4, UsedReaches
      <4>6. extents_[writer.id][i].length \in Nat
        <5>1. extents_[writer.id][i] \in Extent
          BY <4>0, <4>2
        <5> QED
          BY <5>1 DEF Extent
      <4> QED
        BY <3>1, <3>2, <4>1, <4>4, <4>5, <4>6
    <3> QED
      BY <3>3, <3>4
  <2> QED
    BY <1>0, <2>1 DEF Types
<1>2. readers_ \in [Ids -> 0..Cardinality(Readers)]
  <2>1. ASSUME NEW id \in Ids PROVE readers_[id] \in 0..Cardinality(Readers)
    BY <1>0, ReadingFinite DEF RWLocks
  <2> QED
    BY <1>0, <2>1 DEF Types
<1>3. \A id \in Ids : nr_synced_extents_[id] \in 0..Len(extents_[id]) \/ is_deleted_[id]
  <2> SUFFICES ASSUME NEW id \in Ids, ~is_deleted_[id]
               PROVE  nr_synced_extents_[id] \in 0..Len(extents_[id])
    OBVIOUS
  <2>1. nr_synced_extents_[id] \in Nat /\ extents_[id] \in Seq(Extent)
        /\ nr_synced_extents_[id] <= Len(extents_[id])
    BY <1>0 DEF Types, Lists
  <2>2. Len(extents_[id]) \in Nat
    BY <2>1
  <2> QED
    BY <2>1, <2>2
<1>4. gc.pc = "replace" => Len(gc.list) = Len(extents_[gc.id])
  BY <1>0 DEF Lists, Moving, SameLengths
<1> QED
  BY <1>0, <1>1, <1>2, <1>3, <1>4 DEF TypeOK, Types

\* The variables keep their types, no zone is written past its capacity, used_capacity_
\* never falls below zero although files are deleted while they are migrated, and the
\* lists ReplaceExtentList swaps have the same number of extents.
THEOREM MigrationTypes == Spec => []TypeOK
<1>1. Inv => TypeOK
  BY InvTypes
<1> QED
  BY <1>1, MigrationInv, PTL

\* Until the device refuses a record, used_capacity_ of every zone is the sum of the
\* extents in it, whatever files are deleted, renamed, written or mounted in the middle
\* of a migration (MigrateFileExtents, SyncFileExtents, ClearExtents, MergeUpdate).
THEOREM MigrationCountsUse == Spec => []UsedCapacityExact
<1>1. Inv => UsedCapacityExact
  BY DEF Inv, Capacity, UsedCapacityExact
<1> QED
  BY <1>1, MigrationInv, PTL

\* A list that holds the data of a file is intact.
LEMMA HoldsIntact ==
  ASSUME Types, NEW id, NEW list \in Seq(Extent), Holds(data, id, list)
  PROVE  Intact(id, list, Total(list))
<1>1. Total(list) \in Nat
  BY InFrontFinite DEF Total
<1>2. ASSUME NEW i \in DOMAIN list, NEW k \in 1..list[i].length
      PROVE  Content(list[i])[k] = <<id, Before(list, i) + k>>
  BY DEF Holds, Content
<1> QED
  BY <1>1, <1>2 DEF Intact

\* A mount in any state with the invariant finds the content of the files.
LEMMA InvSurvives == ASSUME Inv PROVE ContentSurvives
<1> SUFFICES ASSUME NEW id \in Ids \ misjudged, logged[id].name # NoFile
             PROVE  LET r == Recover(logged[id])
                    IN  /\ Intact(id, r.ext, r.size) /\ r.size >= logged[id].size
                        /\ r.start.zone # NoZone => r.start.start <= Len(data[r.start.zone])
  BY DEF ContentSurvives, Survives
<1> DEFINE r == Recover(logged[id])
<1>0. Control /\ Types /\ Contents /\ Log /\ Unnamed
  BY DEF Inv, Control
<1>1. Holds(data, id, r.ext) /\ r.size = Total(r.ext) /\ r.size >= logged[id].size
  BY <1>0, RecoverHolds
<1>2. r \in Record /\ r.start = logged[id].start
  BY <1>0, RecoverEffect
<1>3. r.ext \in Seq(Extent)
  BY <1>2 DEF Record
<1>4. LoggedTail(id) \/ logged[id] = NoRecord
  BY <1>0, LogHolds
<1> HIDE DEF r
<1>5. Intact(id, r.ext, r.size)
  BY <1>0, <1>1, <1>3, HoldsIntact
<1>6. r.start.zone # NoZone => r.start.start <= Len(data[r.start.zone])
  <2> DEFINE z == logged[id].start.zone
  <2>1. LoggedTail(id) => (z # NoZone => logged[id].start.start <= Len(data[z]))
    BY DEF LoggedTail
  <2>2. logged[id] = NoRecord => z = NoZone
    BY DEF NoRecord, NO_EXTENT
  <2>3. z # NoZone => logged[id].start.start <= Len(data[z])
    BY <1>4, <2>1, <2>2
  <2> QED
    BY <1>2, <2>3
<1> QED
  BY <1>1, <1>5, <1>6 DEF r

\* A mount at any moment finds every file with extents that hold its data, up to the write
\* pointer if it was being written: ResetUnusedIOZones resets no zone that the log points
\* into, and SyncFileExtents logs no extent before its data is copied.  Left out are the
\* misjudged files: those whose record or mark as synced came between the push_back of an
\* extent and its counting, or whose mark came before the replace record (a roll, or an
\* update of the file), whose replace record was refused, or whose extents were not copied.
THEOREM MigrationKeepsContent == Spec => []ContentSurvives
<1>1. Inv => ContentSurvives
  BY InvSurvives
<1> QED
  BY <1>1, MigrationInv, PTL

\* A reader in any state with the invariant has got what the file has.
LEMMA InvReads == ASSUME Inv PROVE ReadsContent
<1> SUFFICES ASSUME NEW r \in Readers, Good(reader[r].id)
             PROVE  /\ \A k \in DOMAIN reader[r].got : reader[r].got[k] = <<reader[r].id, k>>
                    /\ ReadIsOver(r) => Len(reader[r].got) = reader[r].size
  BY DEF ReadsContent, Good
<1> DEFINE id == reader[r].id
           list == extents_[id]
           got == reader[r].got
           size == reader[r].size
<1>0. Control /\ Types /\ RWLocks /\ Names1 /\ Contents /\ Reads
  BY DEF Inv, Control
<1>1. ReadsOf(r)
  BY <1>0 DEF Reads
<1>2. ASSUME ReadIsOver(r)
      PROVE  Len(got) = size
  <2>1. reader[r].pc = "extent" /\ NextExtent(r) = {}
    BY <1>2 DEF ReadIsOver
  <2>2. id \in Live(files_) /\ size = file_size_[id]
    BY <1>0, <2>1 DEF RWLocks
  <2>3. id \in Ids /\ ~is_deleted_[id]
    BY <1>0, <2>2, LiveFile
  <2>9. id # writer.id /\ file_size_[id] \in Nat
    BY <1>0, <2>1, <2>3 DEF RWLocks, Types
  <2>10. Size(id) = size
    BY <2>2, <2>9 DEF Size, Added
  <2>4. size = Total(list) /\ list \in Seq(Extent)
    BY <1>0, <2>3, <2>10 DEF Contents, Types
  <2>5. PICK i \in 1..(Len(list) + 1) : Len(got) = Before(list, i)
    BY <1>1, <2>1 DEF ReadsOf
  <2>6. Len(got) < size => GetExtent(list, Len(got)) = {}
    BY <2>1 DEF NextExtent
  <2> HIDE DEF list, got, size
  <2>7. /\ i \in DOMAIN list => list[i] \in GetExtent(list, Len(got))
        /\ Len(got) <= size /\ size \in Nat
        /\ i \notin DOMAIN list => Len(got) = size
    BY <2>4, <2>5, ExtentAt
  <2>8. i \in Nat /\ Len(got) \in Nat
    <3>1. i \in Nat
      BY <2>4
    <3> QED
      BY <2>5, <3>1, InFrontFinite
  <2> QED
    BY <2>6, <2>7, <2>8
<1> QED
  BY <1>1, <1>2 DEF ReadsOf

\* A reader gets what was written to its file, all of it, although the file is migrated
\* and the zones it was in are reset while the read is under way (ReadLock and WriteLock,
\* ReplaceExtentList, ResetUnusedIOZones).  Left out are files with an extent that could
\* not be copied, and misjudged files that a mount may have read back wrong.
THEOREM MigrationReads == Spec => []ReadsContent
<1>1. Inv => ReadsContent
  BY InvReads
<1> QED
  BY <1>1, MigrationInv, PTL

=============================================================================
