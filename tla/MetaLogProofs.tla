---------------------------- MODULE MetaLogProofs ----------------------------
(***************************************************************************)
(* The namespace and its log, for every number of names, files and zones,  *)
(* every size of zones and every number of crashes and refused writes:     *)
(* whatever write a crash comes behind, a mount finds the namespace that   *)
(* the finished records amount to.                                         *)
(***************************************************************************)
EXTENDS MetaLog, FiniteSetTheorems, TLAPS

USE MetaAssumption

-----------------------------------------------------------------------------
(***************************************************************************)
(* The inductive invariant                                                 *)
(***************************************************************************)

File == [links : Seq(Names), ext : Seq(Nat)]
FileTables == UNION {[S -> File] : S \in SUBSET Ids}
Super == [tag : {"super"}, seq : Nat]
Update == [tag : {"update"}, id : Ids, links : Seq(Names), ext : Seq(Nat)]
Deletion == [tag : {"delete"}, id : Ids, name : Names]
Snapshot == [tag : {"snapshot"}, entries : Nat, files : FileTables]
Mark == [tag : {"end", "zeros", "torn"}]
LogRecord == Super \cup Update \cup Deletion \cup Snapshot \cup Mark

State ==
  [status : {"notfound", "ok", "corrupt"}, done : BOOLEAN, files : Namespace,
   links : [Ids -> Seq(Names)], ext : [Ids -> Seq(Nat)]]

\* The places of a call behind the change of memory: before the record or the snapshot
\* that takes its place is in the log, and behind that
Before == {"add", "alloc", "end", "finish", "super", "snapshot", "failed"}
After == {"marksynced", "reset", "synced"}
Persisting == Before \cup After
UserCall ==
  [name : {"open", "delete", "rename", "link", "sync"}, src : Names, dst : Names, id : Ids]

Types ==
  /\ log \in [Zones -> Seq(LogRecord)] /\ capacity_ \in [Zones -> 0..ZoneBlocks]
  /\ files_ \in Namespace /\ durable \in Namespace /\ goal \in Namespace
  /\ linkfiles_ \in [Ids -> Seq(Names)]
  /\ extents_ \in [Ids -> Seq(Nat)] /\ nr_synced_extents_ \in [Ids -> Nat]
  /\ meta_log_ \in Zones /\ old_meta_log \in Zones
  /\ next_file_id_ \in Nat \ {0} /\ sequence_ \in Nat /\ trusted \in BOOLEAN
  /\ pc \in Down \cup {"idle", "unlink", "main"} \cup Persisting

\* What is being persisted: the roll of a mount, a deletion or an update
Mounting == call = [NoCall EXCEPT !.name = "mount"] /\ record = [tag |-> "mount"]
Deleting ==
  /\ call \in UserCall /\ call.name \in {"open", "delete", "rename"}
  /\ record \in Deletion /\ record.name = call.dst
Updating ==
  /\ call \in UserCall /\ call.name \in {"open", "rename", "link", "sync"}
  /\ record \in Update /\ record.id = call.id

\* A call has its arguments, and memory is blank when there is none.
Blank ==
  /\ files_ = EmptyState.files /\ linkfiles_ = EmptyState.links
  /\ durable = EmptyState.files /\ goal = EmptyState.files
Calling ==
  /\ pc \in Down \cup {"idle"} => call = NoCall
  /\ pc = "blank" => Blank
  /\ pc = "unlink" =>
       call \in UserCall /\ call.name \in {"open", "delete", "rename"} /\ files_[call.dst] # NoFile
  /\ pc = "main" => call \in UserCall /\ call.name \in {"open", "rename", "link", "sync"}
  /\ pc \in Persisting => Deleting \/ Updating \/ (Mounting /\ pc # "add")

\* A number that has not been given out is nowhere; an open call takes the next one.
Unused(id) ==
  /\ linkfiles_[id] = <<>> /\ extents_[id] = <<>> /\ nr_synced_extents_[id] = 0
  /\ \A n \in Names : files_[n] # id
Opening == pc \in Persisting /\ Updating /\ call.name = "open"
Numbers ==
  /\ \A id \in Ids : id >= next_file_id_ => Unused(id)
  /\ call.name \in {"delete", "rename", "link", "sync"} => call.id < next_file_id_
  /\ call.name = "open" => IF Opening THEN call.id < next_file_id_ ELSE call.id = next_file_id_
  /\ pc \in Persisting /\ Deleting => record.id < next_file_id_

\* The zone a roll fills is another than the one it leaves, and how far it has got
Rolling ==
  /\ pc \in {"end", "finish", "super", "snapshot", "marksynced", "reset"} =>
       old_meta_log # meta_log_
  /\ pc \in {"end", "finish", "super"} =>
       log[meta_log_] = <<>> /\ capacity_[meta_log_] = ZoneBlocks
  /\ pc = "snapshot" => /\ log[meta_log_] = <<[tag |-> "super", seq |-> sequence_]>>
                        /\ capacity_[meta_log_] = ZoneBlocks - 1
  /\ pc \in {"marksynced", "reset"} => /\ log[meta_log_] # <<>>
                                       /\ Last(log[meta_log_]).tag = "snapshot"
  /\ pc = "finish" /\ trusted => capacity_[old_meta_log] = 0 \/ RecoverFrom(old_meta_log).done

\* What is decoded of a zone has its type, is a namespace only behind a snapshot, and
\* says nothing of files that no record is about.
Sound(records) ==
  LET st == Decoded(records)
  IN  /\ st \in State
      /\ st.status = "ok" => \E i \in DOMAIN records : records[i].tag = "snapshot"
      /\ \A id \in Ids \ IdsIn(records) : /\ st.links[id] = <<>> /\ st.ext[id] = <<>>
                                          /\ \A n \in Names : st.files[n] # id
Decodable == \A z \in Zones : Sound(log[z])

Control == Types /\ Calling /\ Numbers /\ Rolling /\ Decodable

\* A zone that a mount takes before all others, and that has the durable namespace
Newest(h) == Ready(h) /\ \A y \in Zones \ {h} : Ready(y) => Newer(h, y)
Home(h) ==
  /\ Newest(h)
  /\ RecoverFrom(h).status = "ok" /\ RecoverFrom(h).files = durable
  /\ LinksAgree(durable, RecoverFrom(h).links)
Current == IF HasSnapshot(meta_log_) THEN meta_log_ ELSE old_meta_log

\* Where a mounted file system is at home: a superblock it writes next is newer, and
\* records it adds are read.
AtHome ==
  /\ Home(Current)
  /\ log[Current][1].seq <= sequence_
  /\ pc = "snapshot" => log[Current][1].seq < sequence_
  /\ HasSnapshot(meta_log_) /\ pc # "alloc" => ~RecoverFrom(meta_log_).done

\* Names and links in memory agree, but for a file that is being created.
InMemory ==
  \A id \in Ids : ~(Opening /\ id = call.id) =>
    /\ IsInjective(linkfiles_[id])
    /\ \A n \in Names : n \in ToSet(linkfiles_[id]) <=> files_[n] = id

\* What a call that has not changed memory yet is about to do
Ahead ==
  /\ pc \in {"idle", "unlink", "main"} => durable = files_ /\ goal = files_
  /\ pc = "unlink" /\ call.name = "rename" => files_[call.src] = call.id
  /\ pc = "main" =>
       /\ call.name # "sync" => files_[call.dst] = NoFile
       /\ call.name = "rename" /\ call.src # call.dst => files_[call.src] = call.id
       /\ call.name = "link" => files_[call.src] = call.id
       /\ call.name = "sync" => files_[call.dst] = call.id

\* What memory has become, and what is durable of it before and behind the write
Changed ==
  \/ Mounting /\ goal = files_
  \/ /\ Deleting /\ goal = files_ /\ files_[call.dst] = NoFile
     /\ call.name = "rename" /\ call.src # call.dst => files_[call.src] = call.id
  \/ /\ Updating /\ record.links = linkfiles_[call.id]
     /\ \/ /\ call.name = "open" /\ goal = [files_ EXCEPT ![call.dst] = call.id]
           /\ files_[call.dst] = NoFile /\ \A n \in Names : files_[n] # call.id
           /\ linkfiles_[call.id] = <<call.dst>>
        \/ /\ call.name = "rename" /\ goal = files_ /\ call.src # call.dst
           /\ files_[call.src] = NoFile /\ files_[call.dst] = call.id
        \/ /\ call.name = "link" /\ goal = files_ /\ call.src # call.dst
           /\ files_[call.src] = call.id /\ files_[call.dst] = call.id
        \/ call.name = "sync" /\ goal = files_ /\ files_[call.dst] = call.id
Undone ==
  CASE Deleting -> [files_ EXCEPT ![call.dst] = record.id]
    [] Updating /\ call.name = "rename" ->
         [files_ EXCEPT ![call.dst] = NoFile, ![call.src] = call.id]
    [] Updating /\ call.name = "link" -> [files_ EXCEPT ![call.dst] = NoFile]
    [] OTHER -> files_
Underway ==
  /\ pc \in Persisting => Changed
  /\ pc \in Before => durable = Undone
  /\ pc \in {"marksynced", "reset"} => durable = files_
  /\ pc = "synced" => \/ durable = goal
                      \/ Opening /\ durable = files_ /\ Last(log[meta_log_]).tag = "snapshot"

Trust ==
  trusted /\ pc # "blank" =>
    IF pc \in Down THEN \E h \in Zones : Home(h)
    ELSE AtHome /\ InMemory /\ Ahead /\ Underway

\* Mount does not give up.
Placed == trusted => \A z \in Zones : ~Misplaced(z)

MetaInv == Control /\ Trust /\ Placed

\* The extents of a file that the log has, those in memory and those that count as synced
Found(id) == RecoverFrom(Current).ext[id]
IsDurable(id) == \E n \in Names : durable[n] = id
Sure(id) == IsDurable(id) /\ id \notin overtaken
ExtentsOf(id) ==
  /\ Len(Found(id)) <= Len(extents_[id])
  /\ \A i \in 1..Len(Found(id)) : Found(id)[i] = extents_[id][i]
  /\ nr_synced_extents_[id] <= Len(Found(id))
  /\ pc \notin {"marksynced", "synced"} => nr_synced_extents_[id] = Len(Found(id))
  /\ pc = "marksynced" => Len(Found(id)) = Len(extents_[id])
  /\ pc = "reset" /\ Updating /\ id = call.id => Len(Found(id)) = Len(extents_[id])
  /\ pc = "synced" => IF Updating /\ id = call.id THEN Len(Found(id)) = Len(extents_[id])
                      ELSE nr_synced_extents_[id] = Len(Found(id))
Extents ==
  trusted /\ pc \notin Down =>
    /\ \A id \in Ids : Sure(id) => ExtentsOf(id)
    /\ pc \in Before /\ Updating /\ call.id \notin overtaken =>
         record = EncodeUpdateTo(call.id, record.links)
    /\ Opening => extents_[call.id] = <<>> /\ nr_synced_extents_[call.id] = 0

-----------------------------------------------------------------------------
(***************************************************************************)
(* Decoding record by record                                               *)
(***************************************************************************)

\* A set of natural numbers that is not empty has a least element.
LEMMA Smallest ==
  ASSUME NEW T, T \subseteq Nat, T # {}
  PROVE  \E x \in T : \A y \in T : x <= y
<1> DEFINE I == {1..n : n \in T}
<1>1. IsWellFoundedOn(StrictSubsetOrdering(Nat), FiniteSubsetsOf(Nat))
  BY FS_StrictSubsetOrderingWellFounded
<1>2. I \subseteq FiniteSubsetsOf(Nat) /\ I # {}
  <2>1. ASSUME NEW n \in T PROVE IsFiniteSet(1..n) /\ 1..n \in SUBSET Nat
    BY FS_Interval
  <2>2. ASSUME NEW n \in T PROVE 1..n \in FiniteSubsetsOf(Nat)
    BY <2>1 DEF FiniteSubsetsOf
  <2> QED
    BY <2>2
<1> HIDE DEF I
<1>3. PICK s \in I : \A t \in I : <<t, s>> \notin StrictSubsetOrdering(Nat)
  <2>1. \E x \in I : \A y \in I : ~(<<y, x>> \in StrictSubsetOrdering(Nat))
    BY <1>1, <1>2, WFMin, Zenon
  <2> QED
    BY <2>1
<1>4. PICK n \in T : s = 1..n
  BY <1>3 DEF I
<1>5. ASSUME NEW m \in T, m < n PROVE FALSE
  <2>1. 1..m \in I
    BY DEF I
  <2>2. 1..m \subseteq 1..n /\ 1..m # 1..n /\ 1..m \subseteq Nat /\ 1..n \subseteq Nat
    <3>1. n \in 1..n /\ n \notin 1..m
      BY <1>5
    <3> QED
      BY <1>5, <3>1
  <2>3. <<1..m, 1..n>> \in StrictSubsetOrdering(Nat)
    BY <2>2 DEF StrictSubsetOrdering
  <2> QED
    BY <1>3, <1>4, <2>1, <2>3
<1> QED
  BY <1>5

\* Induction over the natural numbers, for a set in place of a predicate
LEMMA Induction ==
  ASSUME NEW S, 0 \in S, \A n \in Nat : n \in S => n + 1 \in S
  PROVE  Nat \subseteq S
<1> DEFINE T == Nat \ S
<1> SUFFICES ASSUME T # {} PROVE FALSE
  OBVIOUS
<1>1. PICK x \in T : \A y \in T : x <= y
  BY Smallest
<1>2. x \in Nat /\ x \notin S /\ x # 0
  BY <1>1
<1>3. x - 1 \in Nat /\ ~(x <= x - 1) /\ (x - 1) + 1 = x
  BY <1>2
<1>4. x - 1 \in S
  BY <1>1, <1>3
<1> QED
  BY <1>2, <1>3, <1>4

\* The states that decoding goes through
Steps(st, records) ==
  st = [i \in 0..Len(records) |->
          IF i = 0 THEN EmptyState ELSE DecodeRecord(st[i - 1], records[i])]

\* There is a sequence of decoding steps for all records (DecodeRecord, one by one).
LEMMA StepsExist ==
  ASSUME NEW R, NEW records \in Seq(R)
  PROVE  \E st : Steps(st, records)
<1> DEFINE P(f, m) == f = [i \in 0..m |-> IF i = 0 THEN EmptyState
                                          ELSE DecodeRecord(f[i - 1], records[i])]
           S == {m \in Nat : \E f : P(f, m)}
<1>1. 0 \in S
  <2> DEFINE g == [i \in 0..0 |-> EmptyState]
  <2>1. P(g, 0)
    OBVIOUS
  <2> QED
    BY <2>1
<1>2. ASSUME NEW m \in Nat, m \in S PROVE m + 1 \in S
  <2>1. PICK f : P(f, m)
    BY <1>2
  <2> DEFINE g == [i \in 0..(m+1) |-> IF i = m+1 THEN DecodeRecord(f[m], records[m+1]) ELSE f[i]]
  <2>2. \A i \in 0..m : f[i] = IF i = 0 THEN EmptyState ELSE DecodeRecord(f[i-1], records[i])
    BY <2>1
  <2>3. ASSUME NEW i \in 0..(m+1)
        PROVE  g[i] = IF i = 0 THEN EmptyState ELSE DecodeRecord(g[i-1], records[i])
    <3>1. CASE i = m + 1
      <4>1. i # 0 /\ i - 1 = m /\ m \in 0..(m+1) /\ m # m + 1
        BY <3>1
      <4>2. g[i - 1] = f[m]
        BY <4>1
      <4> QED
        BY <3>1, <4>1, <4>2
    <3>2. CASE i # m + 1
      <4>1. i \in 0..m /\ g[i] = f[i]
        BY <3>2
      <4>2. i # 0 => i - 1 \in 0..(m+1) /\ i - 1 # m + 1
        BY <4>1
      <4>3. i # 0 => g[i - 1] = f[i - 1]
        BY <4>2
      <4> HIDE DEF g
      <4> QED
        BY <4>1, <4>3, <2>2
    <3> QED
      BY <3>1, <3>2
  <2>4. P(g, m+1)
    BY <2>3, SMT
  <2> HIDE DEF P, g
  <2> QED
    BY <2>4
<1> HIDE DEF S
<1>3. Nat \subseteq S
  BY <1>1, <1>2, Induction
<1>4. Len(records) \in S
  BY <1>3
<1> QED
  BY <1>4 DEF S, Steps

\* One record more is one step more.
LEMMA StepsUnique ==
  ASSUME NEW R, NEW records \in Seq(R), NEW r \in R, NEW st, Steps(st, records),
         NEW tt, Steps(tt, Append(records, r))
  PROVE  /\ tt[Len(records)] = st[Len(records)]
         /\ tt[Len(records) + 1] = DecodeRecord(st[Len(records)], r)
<1> DEFINE n == Len(records)
           s == Append(records, r)
<1>0. n \in Nat /\ Len(s) = n + 1 /\ s[n + 1] = r /\ \A i \in 1..n : s[i] = records[i]
  OBVIOUS
<1>a. \A i \in 0..n : st[i] = IF i = 0 THEN EmptyState ELSE DecodeRecord(st[i-1], records[i])
  BY DEF Steps
<1>b. \A i \in 0..Len(s) : tt[i] = IF i = 0 THEN EmptyState ELSE DecodeRecord(tt[i-1], s[i])
  BY Zenon DEF Steps
<1> HIDE DEF n, s
<1> DEFINE S == {m \in Nat : m <= n => tt[m] = st[m]}
<1>1. 0 \in S
  BY <1>0, <1>a, <1>b
<1>2. ASSUME NEW m \in Nat, m \in S PROVE m + 1 \in S
  <2> SUFFICES ASSUME m + 1 <= n PROVE tt[m + 1] = st[m + 1]
    OBVIOUS
  <2>1. tt[m] = st[m] /\ m + 1 \in 1..n /\ m + 1 \in 0..n /\ m + 1 \in 0..Len(s) /\ m + 1 # 0 /\ (m + 1) - 1 = m
    <3>1. tt[m] = st[m]
      <4>1. m <= n
        BY <1>0
      <4> QED
        BY <1>2, <4>1
    <3> HIDE DEF S
    <3>2. m + 1 \in 1..n /\ m + 1 \in 0..n /\ m + 1 \in 0..Len(s) /\ m + 1 # 0 /\ (m + 1) - 1 = m
      BY <1>0
    <3> QED
      BY <3>1, <3>2
  <2> HIDE DEF S
  <2>2. tt[m + 1] = DecodeRecord(tt[m], s[m + 1])
    BY <2>1, <1>b
  <2>3. st[m + 1] = DecodeRecord(st[m], records[m + 1])
    BY <2>1, <1>a
  <2> QED
    BY <2>1, <2>2, <2>3, <1>0
<1> HIDE DEF S
<1>3. Nat \subseteq S
  BY <1>1, <1>2, Induction
<1>4. tt[n] = st[n]
  BY <1>3, <1>0 DEF S
<1>5. n + 1 \in 0..Len(s) /\ n + 1 # 0 /\ (n + 1) - 1 = n
  BY <1>0
<1>6. tt[n + 1] = DecodeRecord(st[n], r)
  BY <1>4, <1>5, <1>0, <1>b
<1> QED
  BY <1>4, <1>6 DEF n

\* What is decoded is the outcome of the last step.
LEMMA DecodedIs ==
  ASSUME NEW R, NEW records \in Seq(R)
  PROVE  \E st : Steps(st, records) /\ Decoded(records) = st[Len(records)]
<1> DEFINE ch == CHOOSE st : Steps(st, records)
<1>1. Steps(ch, records)
  BY StepsExist
<1>2. Decoded(records) = ch[Len(records)]
  BY DEF Decoded, Steps
<1> QED
  BY <1>1, <1>2

\* Nothing is found in an empty zone.
LEMMA DecodedEmpty == Decoded(<<>>) = EmptyState
<1>1. <<>> \in Seq({})
  OBVIOUS
<1>2. PICK st : Steps(st, <<>>) /\ Decoded(<<>>) = st[Len(<<>>)]
  BY <1>1, DecodedIs
<1>3. Len(<<>>) = 0
  OBVIOUS
<1>4. \A i \in 0..0 : st[i] = IF i = 0 THEN EmptyState ELSE DecodeRecord(st[i - 1], <<>>[i])
  BY <1>2, <1>3 DEF Steps
<1> QED
  BY <1>2, <1>3, <1>4

\* A record that is added is decoded behind those before it (RecoverFrom).
LEMMA DecodedAppend ==
  ASSUME NEW R, NEW records \in Seq(R), NEW r \in R
  PROVE  Decoded(Append(records, r)) = DecodeRecord(Decoded(records), r)
<1>1. PICK st : Steps(st, records) /\ Decoded(records) = st[Len(records)]
  BY DecodedIs
<1>2. Append(records, r) \in Seq(R) /\ Len(Append(records, r)) = Len(records) + 1
  OBVIOUS
<1>3. PICK tt : Steps(tt, Append(records, r)) /\ Decoded(Append(records, r)) = tt[Len(Append(records, r))]
  BY <1>2, DecodedIs
<1> QED
  BY <1>1, <1>2, <1>3, StepsUnique
-----------------------------------------------------------------------------
(***************************************************************************)
(* Orders and lists of links                                               *)
(***************************************************************************)

\* A finite set has an element that no other is above, in every strict order.
LEMMA Maximal ==
  ASSUME NEW S, IsFiniteSet(S), S # {}, NEW R,
         \A x \in S : <<x, x>> \notin R,
         \A x, y, z \in S : <<x, y>> \in R /\ <<y, z>> \in R => <<x, z>> \in R
  PROVE  \E x \in S : \A y \in S : <<y, x>> \notin R
<1> DEFINE Above(x) == {y \in S : <<y, x>> \in R}
           I == {Above(x) : x \in S}
<1>1. IsWellFoundedOn(StrictSubsetOrdering(S), FiniteSubsetsOf(S))
  BY FS_StrictSubsetOrderingWellFounded
<1>2. I \subseteq FiniteSubsetsOf(S) /\ I # {}
  <2>1. ASSUME NEW x \in S PROVE Above(x) \in FiniteSubsetsOf(S)
    BY FS_Subset DEF FiniteSubsetsOf
  <2> HIDE DEF Above
  <2> QED
    BY <2>1
<1> HIDE DEF I
<1>3. PICK s \in I : \A t \in I : <<t, s>> \notin StrictSubsetOrdering(S)
  <2>1. \E x \in I : \A y \in I : ~(<<y, x>> \in StrictSubsetOrdering(S))
    BY <1>1, <1>2, WFMin, Zenon
  <2> QED
    BY <2>1
<1>4. PICK x \in S : s = Above(x)
  BY <1>3 DEF I
<1>5. ASSUME NEW y \in S, <<y, x>> \in R PROVE FALSE
  <2>1. Above(y) \in I
    BY DEF I
  <2>2. Above(y) \subseteq Above(x) /\ y \in Above(x) /\ y \notin Above(y)
    BY <1>5
  <2>3. <<Above(y), Above(x)>> \in StrictSubsetOrdering(S)
    BY <2>2 DEF StrictSubsetOrdering
  <2> QED
    BY <1>3, <1>4, <2>1, <2>3
<1> QED
  BY <1>5

\* The largest ID seen, or 0 (Mount)
LEMMA MaxIs ==
  ASSUME NEW S \in SUBSET Ids
  PROVE  LET m == Max(S \cup {0}) IN m \in Nat /\ \A x \in S : x <= m
<1> DEFINE T == S \cup {0}
           R == {p \in Nat \X Nat : p[1] > p[2]}
<1>0. IsFiniteSet(0..MaxId)
  <2>1. 0 \in Int /\ MaxId \in Int
    OBVIOUS
  <2> QED
    BY <2>1, FS_Interval, Zenon
<1>1. IsFiniteSet(0..MaxId) /\ T \subseteq 0..MaxId /\ T \subseteq Nat /\ T # {}
  BY <1>0 DEF Ids
<1>2. IsFiniteSet(T)
  BY <1>1, FS_Subset
<1> HIDE DEF T
<1>3. \A x, y \in T : <<x, y>> \in R <=> x > y
  BY <1>1
<1> HIDE DEF R
<1>4. PICK x \in T : \A y \in T : <<y, x>> \notin R
  <2>1. \A a \in T : <<a, a>> \notin R
    BY <1>1, <1>3
  <2>2. \A a, b, c \in T : <<a, b>> \in R /\ <<b, c>> \in R => <<a, c>> \in R
    BY <1>1, <1>3
  <2> QED
    BY <1>1, <1>2, <2>1, <2>2, Maximal
<1>5. \E y \in T : \A z \in T : y >= z
  <2>1. ASSUME NEW z \in T PROVE x >= z
    <3>1. x \in Nat /\ z \in Nat /\ ~(z > x)
      BY <1>1, <1>3, <1>4
    <3> QED
      BY <3>1
  <2> QED
    BY <2>1
<1>6. Max(T) \in T /\ \A z \in T : Max(T) >= z
  BY <1>5 DEF Max
<1> QED
  BY <1>1, <1>6 DEF T

\* A list without its i-th element
LEMMA RemoveAtIs ==
  ASSUME NEW S, NEW s \in Seq(S), NEW i \in 1..Len(s)
  PROVE  LET t == RemoveAt(s, i)
         IN  /\ t \in Seq(S) /\ Len(t) = Len(s) - 1
             /\ \A j \in 1..Len(t) : t[j] = IF j < i THEN s[j] ELSE s[j + 1]
<1> DEFINE a == SubSeq(s, 1, i - 1)
           b == SubSeq(s, i + 1, Len(s))
<1>1. a \in Seq(S) /\ Len(a) = i - 1 /\ \A j \in 1..(i - 1) : a[j] = s[j]
  OBVIOUS
<1>2. b \in Seq(S) /\ Len(b) = Len(s) - i /\ \A j \in 1..(Len(s) - i) : b[j] = s[i + j]
  OBVIOUS
<1>3. RemoveAt(s, i) = a \o b
  BY DEF RemoveAt
<1>4. Len(s) \in Nat /\ i \in Nat
  OBVIOUS
<1> HIDE DEF a, b
<1>5. a \o b \in Seq(S) /\ Len(a \o b) = Len(a) + Len(b)
  <2>1. a \in Seq(S) /\ b \in Seq(S)
    BY <1>1, <1>2
  <2> QED
    BY <2>1
<1>6. ASSUME NEW j \in 1..Len(a \o b)
      PROVE  (a \o b)[j] = IF j < i THEN s[j] ELSE s[j + 1]
  <2>1. CASE j < i
    BY <1>1, <1>2, <1>4, <1>5, <2>1
  <2>2. CASE ~(j < i)
    <3>1. (a \o b)[j] = b[j - (i - 1)] /\ j - (i - 1) \in 1..(Len(s) - i)
      BY <1>1, <1>2, <1>4, <1>5, <2>2
    <3>2. i + (j - (i - 1)) = j + 1
      BY <1>4, <1>5
    <3> QED
      BY <1>2, <2>2, <3>1, <3>2
  <2> QED
    BY <2>1, <2>2
<1> QED
  BY <1>1, <1>2, <1>3, <1>4, <1>5, <1>6

\* What RemoveFirst takes out of a list that has the element
LEMMA RemoveFirstIs ==
  ASSUME NEW S, NEW s \in Seq(S), NEW e, e \in ToSet(s)
  PROVE  \E i \in 1..Len(s) : s[i] = e /\ RemoveFirst(s, e) = RemoveAt(s, i)
<1> DEFINE I == {i \in 1..Len(s) : s[i] = e}
<1>1. I \subseteq Nat /\ I # {}
  BY DEF ToSet
<1>2. \E x \in I : \A y \in I : x <= y
  BY <1>1, Smallest
<1>3. Min(I) \in I
  BY <1>2 DEF Min
<1>4. SelectInSeq(s, LAMBDA v : v = e) = Min(I)
  BY <1>1 DEF SelectInSeq
<1>5. RemoveFirst(s, e) = RemoveAt(s, Min(I))
  BY <1>1, <1>4 DEF RemoveFirst
<1> QED
  BY <1>3, <1>5

\* It takes nothing out of one that has not.
LEMMA RemoveFirstNot ==
  ASSUME NEW S, NEW s \in Seq(S), NEW e, e \notin ToSet(s)
  PROVE  RemoveFirst(s, e) = s
BY DEF RemoveFirst, ToSet

\* The elements of the shorter list are those of the list.
LEMMA RemoveType ==
  ASSUME NEW S, NEW s \in Seq(S), NEW e
  PROVE  RemoveFirst(s, e) \in Seq(S)
<1>1. CASE e \in ToSet(s)
  BY <1>1, RemoveFirstIs, RemoveAtIs
<1>2. CASE e \notin ToSet(s)
  BY <1>2, RemoveFirstNot
<1> QED
  BY <1>1, <1>2

\* A link name that is removed from a list without repetitions is not in it any more (RemoveLinkName).
LEMMA RemoveLink ==
  ASSUME NEW S, NEW s \in Seq(S), NEW e, IsInjective(s)
  PROVE  LET t == RemoveFirst(s, e)
         IN  IsInjective(t) /\ ToSet(t) = ToSet(s) \ {e}
<1>1. CASE e \in ToSet(s)
  <2>1. PICK i \in 1..Len(s) : s[i] = e /\ RemoveFirst(s, e) = RemoveAt(s, i)
    BY <1>1, RemoveFirstIs
  <2> DEFINE t == RemoveAt(s, i)
  <2>2. /\ t \in Seq(S) /\ Len(t) = Len(s) - 1
        /\ \A j \in 1..Len(t) : t[j] = IF j < i THEN s[j] ELSE s[j + 1]
    BY RemoveAtIs
  <2> HIDE DEF t
  <2>3. DOMAIN t = 1..Len(t) /\ DOMAIN s = 1..Len(s) /\ Len(s) \in Nat /\ Len(t) \in Nat
    BY <2>2
  <2>4. \A a, b \in 1..Len(s) : s[a] = s[b] => a = b
    BY <2>3 DEF IsInjective
  <2>5. IsInjective(t)
    <3> SUFFICES ASSUME NEW a \in 1..Len(t), NEW b \in 1..Len(t), t[a] = t[b] PROVE a = b
      BY <2>3 DEF IsInjective
    <3> DEFINE f(j) == IF j < i THEN j ELSE j + 1
    <3>0. a \in Nat /\ b \in Nat /\ i \in Nat
      BY <2>3
    <3>1. f(a) \in 1..Len(s) /\ f(b) \in 1..Len(s) /\ t[a] = s[f(a)] /\ t[b] = s[f(b)]
      <4>1. ASSUME NEW j \in 1..Len(t) PROVE f(j) \in 1..Len(s) /\ t[j] = s[f(j)]
        <5>1. CASE j < i
          BY <5>1, <2>2, <2>3
        <5>2. CASE ~(j < i)
          BY <5>2, <2>2, <2>3
        <5> QED
          BY <5>1, <5>2
      <4> HIDE DEF f
      <4> QED
        BY <4>1
    <3>2. f(a) = f(b)
      BY <3>1, <2>4
    <3> QED
      BY <3>0, <3>2
  <2>6. ASSUME NEW x \in ToSet(t) PROVE x \in ToSet(s) \ {e}
    <3>1. PICK j \in 1..Len(t) : x = t[j]
      BY <2>3 DEF ToSet
    <3> DEFINE k == IF j < i THEN j ELSE j + 1
    <3>2. k \in 1..Len(s) /\ x = s[k] /\ k # i
      BY <3>1, <2>2, <2>3
    <3>3. x # e
      BY <3>2, <2>1, <2>4
    <3> QED
      BY <3>2, <3>3, <2>3 DEF ToSet
  <2>7. ASSUME NEW x \in ToSet(s) \ {e} PROVE x \in ToSet(t)
    <3>1. PICK k \in 1..Len(s) : x = s[k]
      BY <2>3 DEF ToSet
    <3>2. k # i
      BY <3>1, <2>1
    <3> DEFINE j == IF k < i THEN k ELSE k - 1
    <3>3. j \in 1..Len(t) /\ t[j] = s[k]
      BY <3>1, <3>2, <2>2, <2>3
    <3> QED
      BY <3>1, <3>3, <2>3 DEF ToSet
  <2> QED
    BY <2>1, <2>5, <2>6, <2>7 DEF t
<1>2. CASE e \notin ToSet(s)
  BY <1>2, RemoveFirstNot
<1> QED
  BY <1>1, <1>2

\* A new link name at the end of such a list
LEMMA AppendLink ==
  ASSUME NEW S, NEW s \in Seq(S), NEW e \in S, IsInjective(s), e \notin ToSet(s)
  PROVE  LET t == Append(s, e)
         IN  t \in Seq(S) /\ IsInjective(t) /\ ToSet(t) = ToSet(s) \cup {e}
<1> DEFINE t == Append(s, e)
<1>1. /\ t \in Seq(S) /\ Len(t) = Len(s) + 1 /\ t[Len(s) + 1] = e /\ Len(s) \in Nat
      /\ \A i \in 1..Len(s) : t[i] = s[i]
      /\ DOMAIN t = 1..(Len(s) + 1) /\ DOMAIN s = 1..Len(s)
  OBVIOUS
<1> HIDE DEF t
<1>2. IsInjective(t)
  BY <1>1 DEF IsInjective, ToSet
<1>3. ToSet(t) = ToSet(s) \cup {e}
  BY <1>1 DEF ToSet
<1> QED
  BY <1>1, <1>2, <1>3 DEF t

\* No links
LEMMA EmptyLinks == IsInjective(<<>>) /\ ToSet(<<>>) = {}
BY DEF IsInjective, ToSet

\* A list without elements is empty.
LEMMA NoLinks ==
  ASSUME NEW S, NEW s \in Seq(S), ToSet(s) = {}
  PROVE  s = <<>>
<1>1. DOMAIN s = 1..Len(s) /\ Len(s) \in Nat
  OBVIOUS
<1>2. Len(s) = 0
  <2> SUFFICES ASSUME Len(s) # 0 PROVE FALSE
    OBVIOUS
  <2>1. 1 \in DOMAIN s
    BY <1>1
  <2> QED
    BY <2>1 DEF ToSet
<1> QED
  BY <1>2

\* A list without repetitions is as long as it has elements.
LEMMA CountLinks ==
  ASSUME NEW S, NEW s \in Seq(S), IsInjective(s)
  PROVE  Cardinality(ToSet(s)) = Len(s)
<1>1. DOMAIN s = 1..Len(s) /\ Len(s) \in Nat /\ s = [i \in 1..Len(s) |-> s[i]]
  OBVIOUS
<1>2. IsFiniteSet(1..Len(s)) /\ Cardinality(1..Len(s)) = Len(s)
  <2> DEFINE n == Len(s)
  <2>1. 1 \in Int /\ n \in Int /\ n \in Nat
    BY <1>1
  <2> HIDE DEF n
  <2>2. IsFiniteSet(1..n) /\ Cardinality(1..n) = IF 1 > n THEN 0 ELSE n - 1 + 1
    BY <2>1, FS_Interval, Zenon
  <2>3. (IF 1 > n THEN 0 ELSE n - 1 + 1) = n
    BY <2>1
  <2> QED
    BY <2>2, <2>3 DEF n
<1>3. s \in Bijection(1..Len(s), ToSet(s))
  BY <1>1 DEF Bijection, Injection, Surjection, IsInjective, ToSet
<1> QED
  BY <1>2, <1>3, FS_Bijection DEF ExistsBijection
-----------------------------------------------------------------------------
(***************************************************************************)
(* What is decoded of a zone                                               *)
(***************************************************************************)

\* The fields of the records in the log
LEMMA RecordFields ==
  /\ \A r \in Super : r.tag = "super" /\ r.seq \in Nat
  /\ \A r \in Update : /\ r.tag = "update" /\ r.id \in Ids /\ r.links \in Seq(Names)
                       /\ r.ext \in Seq(Nat)
  /\ \A r \in Deletion : r.tag = "delete" /\ r.id \in Ids /\ r.name \in Names
  /\ \A r \in Mark : r.tag \in {"end", "zeros", "torn"}
BY DEF Super, Update, Deletion, Mark

\* A snapshot has some of the files.
LEMMA SnapshotFields ==
  ASSUME NEW r \in Snapshot
  PROVE  /\ r.tag = "snapshot" /\ r.entries \in Nat /\ DOMAIN r.files \subseteq Ids
         /\ \A id \in DOMAIN r.files : /\ r.files[id].links \in Seq(Names)
                                       /\ r.files[id].ext \in Seq(Nat)
<1>1. r.tag = "snapshot" /\ r.entries \in Nat /\ r.files \in FileTables
  BY DEF Snapshot
<1>2. PICK S \in SUBSET Ids : r.files \in [S -> File]
  BY <1>1 DEF FileTables
<1>3. DOMAIN r.files = S /\ \A id \in S : r.files[id] \in File
  BY <1>2
<1>4. \A f \in File : f.links \in Seq(Names) /\ f.ext \in Seq(Nat)
  BY DEF File
<1> QED
  BY <1>1, <1>3, <1>4

\* The fields of a decoded state
LEMMA StateFields ==
  ASSUME NEW st \in State
  PROVE  /\ st.status \in {"notfound", "ok", "corrupt"} /\ st.done \in BOOLEAN
         /\ st.files \in [Names -> Ids \cup {NoFile}]
         /\ st.links \in [Ids -> Seq(Names)] /\ st.ext \in [Ids -> Seq(Nat)]
BY DEF State, Namespace

\* Nothing is found at first.
LEMMA EmptyStateType ==
  /\ EmptyState \in State /\ EmptyState.status = "notfound" /\ ~EmptyState.done
  /\ EmptyState.files = [n \in Names |-> NoFile]
  /\ EmptyState.links = [id \in Ids |-> <<>>] /\ EmptyState.ext = [id \in Ids |-> <<>>]
BY DEF EmptyState, State, Namespace

\* 0 is no file.
LEMMA NoFileIsNone == NoFile \notin Ids
BY DEF NoFile, Ids

\* The IDs of one record more
LEMMA IdsInAppend ==
  ASSUME NEW R, NEW records \in Seq(R), NEW r \in R
  PROVE  /\ IdsIn(records) \subseteq IdsIn(Append(records, r))
         /\ r.tag = "update" /\ r.id \in Ids => r.id \in IdsIn(Append(records, r))
         /\ r.tag = "snapshot" /\ DOMAIN r.files \subseteq Ids =>
              DOMAIN r.files \subseteq IdsIn(Append(records, r))
<1> DEFINE t == Append(records, r)
<1>1. \A x \in ToSet(records) : x \in ToSet(t)
  BY DEF ToSet
<1>2. r \in ToSet(t)
  <2>1. Len(t) \in DOMAIN t /\ t[Len(t)] = r
    OBVIOUS
  <2> HIDE DEF t
  <2> QED
    BY <2>1 DEF ToSet
<1> HIDE DEF t
<1> QED
  BY <1>1, <1>2 DEF IdsIn, t

\* A snapshot is decoded to a namespace of its files.
LEMMA SnapshotDecoded ==
  ASSUME NEW r \in Snapshot
  PROVE  LET st == DecodeSnapshotFrom(r)
         IN  /\ st \in State /\ st.status = "ok" /\ ~st.done
             /\ \A n \in Names : st.files[n] \in DOMAIN r.files \cup {NoFile}
             /\ \A id \in Ids \ DOMAIN r.files : st.links[id] = <<>> /\ st.ext[id] = <<>>
             /\ \A id \in DOMAIN r.files :
                  st.links[id] = r.files[id].links /\ st.ext[id] = r.files[id].ext
<1> DEFINE st == DecodeSnapshotFrom(r)
           Has(n) == {id \in DOMAIN r.files : \E i \in DOMAIN r.files[id].links :
                                                r.files[id].links[i] = n}
           F == [n \in Names |-> IF Has(n) = {} THEN NoFile ELSE CHOOSE id \in Has(n) : TRUE]
           L == [id \in Ids |-> IF id \in DOMAIN r.files THEN r.files[id].links ELSE <<>>]
           E == [id \in Ids |-> IF id \in DOMAIN r.files THEN r.files[id].ext ELSE <<>>]
<1>0. /\ DOMAIN r.files \subseteq Ids
      /\ \A id \in DOMAIN r.files : /\ r.files[id].links \in Seq(Names)
                                    /\ r.files[id].ext \in Seq(Nat)
  BY SnapshotFields
<1>1. st = [status |-> "ok", done |-> FALSE, files |-> F, links |-> L, ext |-> E]
  BY DEF DecodeSnapshotFrom
<1>2. \A n \in Names : F[n] \in DOMAIN r.files \cup {NoFile}
  <2> SUFFICES ASSUME NEW n \in Names PROVE F[n] \in DOMAIN r.files \cup {NoFile}
    OBVIOUS
  <2>1. Has(n) \subseteq DOMAIN r.files
    OBVIOUS
  <2>2. F[n] = IF Has(n) = {} THEN NoFile ELSE CHOOSE id \in Has(n) : TRUE
    OBVIOUS
  <2> HIDE DEF Has, F
  <2> QED
    BY <2>1, <2>2
<1>3. F \in Namespace
  BY <1>0, <1>2 DEF Namespace
<1>4. L \in [Ids -> Seq(Names)] /\ E \in [Ids -> Seq(Nat)]
  BY <1>0
<1>5. /\ \A id \in Ids \ DOMAIN r.files : L[id] = <<>> /\ E[id] = <<>>
      /\ \A id \in DOMAIN r.files : L[id] = r.files[id].links /\ E[id] = r.files[id].ext
  BY <1>0
<1> HIDE DEF F, L, E, st
<1> QED
  BY <1>1, <1>2, <1>3, <1>4, <1>5 DEF State, st

\* An update touches what the zone says of its own file and of names.
LEMMA UpdateDecoded ==
  ASSUME NEW st \in State, NEW r \in Update
  PROVE  LET to == DecodeFileUpdateFrom(st, r)
         IN  /\ to \in State
             /\ to.status = "ok" => st.status = "ok"
             /\ to.done = FALSE => st.done = FALSE
             /\ \A id \in Ids \ {r.id} : to.links[id] = st.links[id] /\ to.ext[id] = st.ext[id]
             /\ \A n \in Names : to.files[n] \in {st.files[n], r.id, NoFile}
<1>0. r.id \in Ids /\ r.links \in Seq(Names) /\ r.ext \in Seq(Nat)
  BY RecordFields
<1>00. /\ st.status \in {"notfound", "ok", "corrupt"} /\ st.done \in BOOLEAN
       /\ st.files \in [Names -> Ids \cup {NoFile}]
       /\ st.links \in [Ids -> Seq(Names)] /\ st.ext \in [Ids -> Seq(Nat)]
  BY StateFields
<1> DEFINE known == \E n \in Names : st.files[n] = r.id
           old == IF known THEN ToSet(st.links[r.id]) ELSE {}
           new == IF known THEN ToSet(r.links) ELSE {r.links[1]}
           F == [n \in Names |->
                   IF n \in new /\ (n \in old \/ st.files[n] = NoFile) THEN r.id
                   ELSE IF n \in old THEN NoFile ELSE st.files[n]]
           missing == \/ \E n \in old : st.files[n] = NoFile
                      \/ Cardinality(old) < Len(st.links[r.id])
           to == DecodeFileUpdateFrom(st, r)
<1>1. to = IF known
           THEN IF missing THEN Corrupt(st) ELSE [MergeUpdate(st, r) EXCEPT !.files = F]
           ELSE [st EXCEPT !.files = F, !.links[r.id] = r.links, !.ext[r.id] = r.ext]
  BY DEF DecodeFileUpdateFrom
<1>2. F \in [Names -> Ids \cup {NoFile}] /\ \A n \in Names : F[n] \in {st.files[n], r.id, NoFile}
  <2> HIDE DEF old, new
  <2> QED
    BY <1>0, <1>00
<1>3. st.ext[r.id] \o r.ext \in Seq(Nat)
  BY <1>0, <1>00
<1> HIDE DEF known, F, missing, to
<1>4. CASE known /\ missing
  <2>1. to = [st EXCEPT !.status = "corrupt", !.done = TRUE]
    BY <1>1, <1>4 DEF Corrupt
  <2> QED
    BY <2>1, <1>0, <1>00 DEF State, Namespace, to
<1>5. CASE known /\ ~missing
  <2> DEFINE L == [st.links EXCEPT ![r.id] = r.links]
             E == [st.ext EXCEPT ![r.id] = st.ext[r.id] \o r.ext]
  <2>1. to = [status |-> st.status, done |-> st.done, files |-> F, links |-> L, ext |-> E]
    <3>1. st = [status |-> st.status, done |-> st.done, files |-> st.files,
                links |-> st.links, ext |-> st.ext]
      BY DEF State
    <3> QED
      BY <1>1, <1>5, <3>1 DEF MergeUpdate
  <2>2. L \in [Ids -> Seq(Names)] /\ E \in [Ids -> Seq(Nat)]
    BY <1>0, <1>00, <1>3
  <2>3. \A id \in Ids \ {r.id} : L[id] = st.links[id] /\ E[id] = st.ext[id]
    BY <1>00
  <2> HIDE DEF L, E
  <2> QED
    BY <2>1, <2>2, <2>3, <1>00, <1>2 DEF State, Namespace, to
<1>6. CASE ~known
  <2> DEFINE L == [st.links EXCEPT ![r.id] = r.links]
             E == [st.ext EXCEPT ![r.id] = r.ext]
  <2>1. to = [status |-> st.status, done |-> st.done, files |-> F, links |-> L, ext |-> E]
    <3>1. st = [status |-> st.status, done |-> st.done, files |-> st.files,
                links |-> st.links, ext |-> st.ext]
      BY DEF State
    <3> QED
      BY <1>1, <1>6, <3>1
  <2>2. L \in [Ids -> Seq(Names)] /\ E \in [Ids -> Seq(Nat)]
    BY <1>0, <1>00
  <2>3. \A id \in Ids \ {r.id} : L[id] = st.links[id] /\ E[id] = st.ext[id]
    BY <1>00
  <2> HIDE DEF L, E
  <2> QED
    BY <2>1, <2>2, <2>3, <1>00, <1>2 DEF State, Namespace, to
<1> QED
  BY <1>4, <1>5, <1>6

\* So does a deletion; the file it is about is one that the zone has.
LEMMA DeletionDecoded ==
  ASSUME NEW st \in State, NEW r \in Deletion
  PROVE  LET to == DecodeFileDeletionFrom(st, r)
         IN  /\ to \in State
             /\ to.status = "ok" => st.status = "ok"
             /\ \A id \in Ids : \/ id = r.id /\ st.files[r.name] = id
                                \/ to.links[id] = st.links[id] /\ to.ext[id] = st.ext[id]
             /\ \A n \in Names : to.files[n] \in {st.files[n], NoFile}
<1>0. r.id \in Ids /\ r.name \in Names
  BY RecordFields
<1>00. /\ st.status \in {"notfound", "ok", "corrupt"} /\ st.done \in BOOLEAN
       /\ st.files \in [Names -> Ids \cup {NoFile}]
       /\ st.links \in [Ids -> Seq(Names)] /\ st.ext \in [Ids -> Seq(Nat)]
  BY StateFields
<1> DEFINE links == RemoveFirst(st.links[r.id], r.name)
           e == IF links = <<>> THEN <<>> ELSE st.ext[r.id]
           to == DecodeFileDeletionFrom(st, r)
<1>1. links \in Seq(Names)
  BY <1>0, <1>00, RemoveType
<1>2. e \in Seq(Nat)
  BY <1>0, <1>00
<1>3. to = IF st.files[r.name] # r.id THEN Corrupt(st)
           ELSE [st EXCEPT !.files[r.name] = NoFile, !.links[r.id] = links, !.ext[r.id] = e]
  BY <1>00 DEF DecodeFileDeletionFrom, State
<1> HIDE DEF links, e, to
<1>4. CASE st.files[r.name] # r.id
  <2>1. to = [st EXCEPT !.status = "corrupt", !.done = TRUE]
    BY <1>3, <1>4 DEF Corrupt
  <2> QED
    BY <2>1, <1>0, <1>00 DEF State, Namespace, to
<1>5. CASE st.files[r.name] = r.id
  <2> DEFINE F == [st.files EXCEPT ![r.name] = NoFile]
             L == [st.links EXCEPT ![r.id] = links]
             E == [st.ext EXCEPT ![r.id] = e]
  <2>1. to = [status |-> st.status, done |-> st.done, files |-> F, links |-> L, ext |-> E]
    <3>1. st = [status |-> st.status, done |-> st.done, files |-> st.files,
                links |-> st.links, ext |-> st.ext]
      BY DEF State
    <3> QED
      BY <1>3, <1>5, <3>1
  <2>2. /\ F \in [Names -> Ids \cup {NoFile}]
        /\ L \in [Ids -> Seq(Names)] /\ E \in [Ids -> Seq(Nat)]
    BY <1>0, <1>00, <1>1, <1>2
  <2>3. /\ \A id \in Ids \ {r.id} : L[id] = st.links[id] /\ E[id] = st.ext[id]
        /\ \A n \in Names : F[n] \in {st.files[n], NoFile}
    BY <1>00
  <2> HIDE DEF L, E, F
  <2> QED
    BY <2>1, <2>2, <2>3, <1>00, <1>5 DEF State, Namespace, to
<1> QED
  BY <1>4, <1>5

\* What is decoded behind one more record is sound (DecodeRecord).
LEMMA SoundAppend ==
  ASSUME NEW records \in Seq(LogRecord), Sound(records), NEW r \in LogRecord
  PROVE  Sound(Append(records, r))
<1> DEFINE st == Decoded(records)
           t == Append(records, r)
           to == Decoded(t)
<1>0. /\ st \in State
      /\ st.status = "ok" => \E i \in DOMAIN records : records[i].tag = "snapshot"
      /\ \A id \in Ids \ IdsIn(records) : /\ st.links[id] = <<>> /\ st.ext[id] = <<>>
                                          /\ \A n \in Names : st.files[n] # id
  BY DEF Sound
<1>1. to = DecodeRecord(st, r)
  BY DecodedAppend
<1>2. /\ DOMAIN records = 1..Len(records) /\ DOMAIN t = 1..(Len(records) + 1)
      /\ Len(records) \in Nat
      /\ t[Len(records) + 1] = r /\ \A i \in 1..Len(records) : t[i] = records[i]
  OBVIOUS
<1>3. (\E i \in DOMAIN records : records[i].tag = "snapshot")
        => \E i \in DOMAIN t : t[i].tag = "snapshot"
  BY <1>2
<1>4. /\ IdsIn(records) \subseteq IdsIn(t)
      /\ r.tag = "update" /\ r.id \in Ids => r.id \in IdsIn(t)
      /\ r.tag = "snapshot" /\ DOMAIN r.files \subseteq Ids => DOMAIN r.files \subseteq IdsIn(t)
  BY IdsInAppend
<1>5. st.files \in [Names -> Ids \cup {NoFile}] /\ NoFile \notin Ids
  BY <1>0, StateFields, NoFileIsNone
<1> SUFFICES
      /\ to \in State
      /\ to.status = "ok" => \E i \in DOMAIN t : t[i].tag = "snapshot"
      /\ \A id \in Ids \ IdsIn(t) : /\ to.links[id] = <<>> /\ to.ext[id] = <<>>
                                    /\ \A n \in Names : to.files[n] # id
  BY DEF Sound
<1> HIDE DEF st, t, to
<1>6. CASE to = st
  BY <1>0, <1>3, <1>4, <1>6
<1>7. CASE r \in Super
  BY <1>1, <1>6, <1>7, RecordFields DEF DecodeRecord
<1>8. CASE r \in Update /\ ~st.done
  <2>1. to = DecodeFileUpdateFrom(st, r)
    BY <1>1, <1>8, RecordFields DEF DecodeRecord
  <2>2. r.id \in IdsIn(t) /\ r.id \in Ids
    BY <1>4, <1>8, RecordFields
  <2>3. /\ to \in State
        /\ to.status = "ok" => st.status = "ok"
        /\ \A id \in Ids \ {r.id} : to.links[id] = st.links[id] /\ to.ext[id] = st.ext[id]
        /\ \A n \in Names : to.files[n] \in {st.files[n], r.id, NoFile}
    BY <1>0, <1>8, <2>1, UpdateDecoded
  <2> QED
    BY <2>2, <2>3, <1>0, <1>3, <1>4, <1>5
<1>9. CASE r \in Deletion /\ ~st.done
  <2>1. to = DecodeFileDeletionFrom(st, r)
    BY <1>1, <1>9, RecordFields DEF DecodeRecord
  <2>2. /\ to \in State
        /\ to.status = "ok" => st.status = "ok"
        /\ \A id \in Ids : \/ id = r.id /\ st.files[r.name] = id
                           \/ to.links[id] = st.links[id] /\ to.ext[id] = st.ext[id]
        /\ \A n \in Names : to.files[n] \in {st.files[n], NoFile}
    BY <1>0, <1>9, <2>1, DeletionDecoded
  <2>3. r.name \in Names
    BY <1>9, RecordFields
  <2> QED
    BY <2>2, <2>3, <1>0, <1>3, <1>4, <1>5
<1>10. CASE r \in Snapshot /\ ~st.done
  <2>0. r.tag = "snapshot" /\ DOMAIN r.files \subseteq Ids
    BY <1>10, SnapshotFields
  <2>1. to = DecodeSnapshotFrom(r)
    BY <1>1, <1>10, <2>0 DEF DecodeRecord
  <2>2. /\ to \in State
        /\ \A n \in Names : to.files[n] \in DOMAIN r.files \cup {NoFile}
        /\ \A id \in Ids \ DOMAIN r.files : to.links[id] = <<>> /\ to.ext[id] = <<>>
    BY <1>10, <2>1, SnapshotDecoded
  <2>3. \E i \in DOMAIN t : t[i].tag = "snapshot"
    BY <1>2, <2>0
  <2> QED
    BY <2>0, <2>2, <2>3, <1>4, <1>5
<1>11. CASE r \in Mark /\ ~st.done
  <2>1. r.tag \in {"end", "zeros", "torn"}
    BY <1>11, RecordFields
  <2>2. CASE r.tag = "end"
    <3>1. to = [st EXCEPT !.done = TRUE]
      BY <1>1, <1>11, <2>2 DEF DecodeRecord
    <3>2. /\ to \in State /\ to.status = st.status /\ to.links = st.links /\ to.ext = st.ext
          /\ to.files = st.files
      BY <3>1, <1>0 DEF State
    <3> QED
      BY <3>2, <1>0, <1>3, <1>4
  <2>3. CASE r.tag # "end"
    <3>1. to = [st EXCEPT !.status = "corrupt", !.done = TRUE]
      BY <1>1, <1>11, <2>1, <2>3 DEF DecodeRecord, Corrupt
    <3>2. /\ to \in State /\ to.status # "ok" /\ to.links = st.links /\ to.ext = st.ext
          /\ to.files = st.files
      BY <3>1, <1>0 DEF State
    <3> QED
      BY <3>2, <1>0, <1>3, <1>4
  <2> QED
    BY <2>2, <2>3
<1>12. st.done => to = st
  BY <1>1 DEF DecodeRecord
<1> QED
  BY <1>6, <1>7, <1>8, <1>9, <1>10, <1>11, <1>12 DEF LogRecord

\* An empty zone is sound.
LEMMA SoundEmpty == Sound(<<>>)
BY DecodedEmpty, EmptyStateType, NoFileIsNone DEF Sound
-----------------------------------------------------------------------------
(***************************************************************************)
(* Writes to the log                                                       *)
(***************************************************************************)

\* Decoding reads nothing but the zone, so a step that leaves the log alone leaves alone
\* what a mount finds.
LEMMA LogSame ==
  ASSUME UNCHANGED log
  PROVE  /\ Decodable => Decodable'
         /\ \A z \in Zones : RecoverFrom(z)' = RecoverFrom(z) /\ HasSnapshot(z)' = HasSnapshot(z)
         /\ \A z \in Zones : Ready(z)' = Ready(z)
         /\ \A y, z \in Zones : Newer(y, z)' = Newer(y, z)
         /\ \A h \in Zones : Newest(h)' = Newest(h)
BY DEF Decodable, RecoverFrom, HasSnapshot, Ready, HasSuperblock, Newer, Newest

\* What a write does to a zone, and to the others
Wrote(z, r, blocks) ==
  /\ log'[z] = Append(log[z], r) /\ \A y \in Zones \ {z} : log'[y] = log[y]
  /\ capacity_'[z] = capacity_[z] - blocks
  /\ \A y \in Zones \ {z} : capacity_'[y] = capacity_[y]

Emptied(z) ==
  /\ log'[z] = <<>> /\ \A y \in Zones \ {z} : log'[y] = log[y]
  /\ capacity_'[z] = ZoneBlocks /\ \A y \in Zones \ {z} : capacity_'[y] = capacity_[y]

DeviceTypes ==
  log \in [Zones -> Seq(LogRecord)] /\ capacity_ \in [Zones -> 0..ZoneBlocks] /\ Decodable

\* A record takes at least one block.
LEMMA PhysSizeType ==
  ASSUME NEW r \in LogRecord
  PROVE  PhysSize(r) \in Nat \ {0} /\ (r.tag # "snapshot" => PhysSize(r) = 1)
<1>1. CASE r \in Snapshot
  <2>1. r.tag = "snapshot" /\ r.entries \in Nat
    BY <1>1, SnapshotFields
  <2>2. r.entries \div FilesPerBlock \in Nat
    BY <2>1
  <2> QED
    BY <2>1, <2>2 DEF PhysSize
<1>2. CASE r \notin Snapshot
  BY <1>2, RecordFields DEF LogRecord, PhysSize
<1> QED
  BY <1>1, <1>2

\* A zone that gets one more record, of b blocks
LEMMA WriteKeeps ==
  ASSUME DeviceTypes, NEW z \in Zones, NEW r \in LogRecord, NEW b \in Nat, b <= capacity_[z],
         log' = [log EXCEPT ![z] = Append(@, r)],
         capacity_' = [capacity_ EXCEPT ![z] = @ - b]
  PROVE  DeviceTypes' /\ Wrote(z, r, b)
<1>1. log[z] \in Seq(LogRecord) /\ capacity_[z] \in 0..ZoneBlocks
  BY DEF DeviceTypes
<1>2. Append(log[z], r) \in Seq(LogRecord) /\ capacity_[z] - b \in 0..ZoneBlocks
  BY <1>1
<1>3. Wrote(z, r, b)
  BY DEF DeviceTypes, Wrote
<1>4. log' \in [Zones -> Seq(LogRecord)] /\ capacity_' \in [Zones -> 0..ZoneBlocks]
  BY <1>2 DEF DeviceTypes
<1>5. Sound(Append(log[z], r))
  BY <1>1, SoundAppend DEF DeviceTypes, Decodable
<1>6. Decodable'
  <2>1. \A y \in Zones : Sound(log'[y])
    BY <1>3, <1>5 DEF DeviceTypes, Decodable, Wrote
  <2> QED
    BY <2>1 DEF Decodable
<1> QED
  BY <1>3, <1>4, <1>6 DEF DeviceTypes

\* AddRecord writes its record.
LEMMA AddRecordWrites ==
  ASSUME DeviceTypes, NEW z \in Zones, NEW r \in LogRecord, AddRecord(z, r)
  PROVE  DeviceTypes' /\ Wrote(z, r, PhysSize(r))
<1>1. PhysSize(r) \in Nat
  BY PhysSizeType
<1> QED
  BY <1>1, WriteKeeps DEF AddRecord

\* Reset empties the zone.
LEMMA ResetEmpties ==
  ASSUME DeviceTypes, NEW z \in Zones, Reset(z)
  PROVE  DeviceTypes' /\ Emptied(z)
<1>1. Emptied(z)
  BY DEF Reset, Emptied, DeviceTypes
<1>2. log' \in [Zones -> Seq(LogRecord)] /\ capacity_' \in [Zones -> 0..ZoneBlocks]
  BY DEF Reset, DeviceTypes
<1>3. Decodable'
  <2>1. \A y \in Zones : Sound(log'[y])
    BY <1>1, SoundEmpty DEF DeviceTypes, Decodable, Emptied
  <2> QED
    BY <2>1 DEF Decodable
<1> QED
  BY <1>1, <1>2, <1>3 DEF DeviceTypes

\* An update has the file's links and the extents that are not synced yet
\* (EncodeUpdateTo).
LEMMA EncodeUpdateType ==
  ASSUME Types, NEW id \in Ids, NEW links \in Seq(Names)
  PROVE  /\ EncodeUpdateTo(id, links) \in Update
         /\ EncodeUpdateTo(id, links).id = id /\ EncodeUpdateTo(id, links).links = links
<1>1. extents_[id] \in Seq(Nat) /\ nr_synced_extents_[id] \in Nat
  BY DEF Types
<1> DEFINE e == SubSeq(extents_[id], nr_synced_extents_[id] + 1, Len(extents_[id]))
<1>2. e \in Seq(Nat)
  BY <1>1
<1>3. EncodeUpdateTo(id, links) = [tag |-> "update", id |-> id, links |-> links, ext |-> e]
  BY DEF EncodeUpdateTo
<1> HIDE DEF e
<1> QED
  BY <1>2, <1>3 DEF Update

\* A snapshot has the files in the namespace, at most as many entries as names.
LEMMA EncodeSnapshotType ==
  ASSUME files_ \in Namespace, linkfiles_ \in [Ids -> Seq(Names)], extents_ \in [Ids -> Seq(Nat)]
  PROVE  /\ EncodeSnapshotTo \in Snapshot /\ DOMAIN EncodeSnapshotTo.files = Live
         /\ \A id \in Live : /\ EncodeSnapshotTo.files[id].links = linkfiles_[id]
                             /\ EncodeSnapshotTo.files[id].ext = extents_[id]
         /\ EncodeSnapshotTo.entries <= Cardinality(Names)
<1> DEFINE S == {n \in Names : files_[n] # NoFile}
           f == [id \in Live |-> [links |-> linkfiles_[id], ext |-> extents_[id]]]
<1>1. S \subseteq Names /\ IsFiniteSet(Names)
  OBVIOUS
<1>2. IsFiniteSet(S) /\ Cardinality(S) <= Cardinality(Names)
  <2> HIDE DEF S
  <2> QED
    BY <1>1, FS_Subset
<1>3. Cardinality(S) \in Nat
  <2> HIDE DEF S
  <2> QED
    BY <1>2, FS_CardinalityType
<1>4. Live \subseteq Ids
  BY DEF Live
<1>5. \A id \in Live : [links |-> linkfiles_[id], ext |-> extents_[id]] \in File
  BY <1>4 DEF File
<1>6. f \in [Live -> File]
  BY <1>5
<1>7. f \in FileTables
  BY <1>4, <1>6 DEF FileTables
<1>8. EncodeSnapshotTo = [tag |-> "snapshot", entries |-> Cardinality(S), files |-> f]
  BY DEF EncodeSnapshotTo
<1>9. DOMAIN f = Live /\ \A id \in Live : f[id].links = linkfiles_[id] /\ f[id].ext = extents_[id]
  OBVIOUS
<1> HIDE DEF S, f
<1> QED
  BY <1>2, <1>3, <1>7, <1>8, <1>9 DEF Snapshot

\* Division by a block's files does not turn sizes round.
LEMMA DivMonotone ==
  ASSUME NEW x \in Nat, NEW y \in Nat, x <= y
  PROVE  /\ x \div FilesPerBlock \in Nat /\ y \div FilesPerBlock \in Nat
         /\ x \div FilesPerBlock <= y \div FilesPerBlock
<1> DEFINE d == FilesPerBlock
           p == x \div d
           q == y \div d
<1>0. d \in Nat \ {0}
  OBVIOUS
<1>1. p \in Nat /\ q \in Nat /\ p * d <= x /\ y < (q + 1) * d
  BY <1>0
<1> HIDE DEF d, p, q
<1>2. p * d < (q + 1) * d
  BY <1>0, <1>1
<1>3. p < q + 1
  <2> SUFFICES ASSUME p >= q + 1 PROVE FALSE
    BY <1>1
  <2>1. PICK k \in Nat : p = (q + 1) + k
    <3>1. p - (q + 1) \in Nat /\ p = (q + 1) + (p - (q + 1))
      BY <1>1
    <3> QED
      BY <3>1
  <2>2. p * d = (q + 1) * d + k * d /\ k * d \in Nat
    BY <1>0, <1>1, <2>1
  <2> QED
    BY <1>0, <1>1, <1>2, <2>2
<1> QED
  BY <1>1, <1>3 DEF p, q, d

\* A zone with a superblock has room for the snapshot.
LEMMA SnapshotFits ==
  ASSUME files_ \in Namespace, linkfiles_ \in [Ids -> Seq(Names)], extents_ \in [Ids -> Seq(Nat)]
  PROVE  PhysSize(EncodeSnapshotTo) \in Nat /\ PhysSize(EncodeSnapshotTo) <= ZoneBlocks - 1
<1>1. /\ EncodeSnapshotTo.tag = "snapshot" /\ EncodeSnapshotTo.entries \in Nat
      /\ EncodeSnapshotTo.entries <= Cardinality(Names)
  BY EncodeSnapshotType, SnapshotFields
<1>2. Cardinality(Names) \in Nat
  BY FS_CardinalityType
<1> DEFINE a == EncodeSnapshotTo.entries \div FilesPerBlock
           b == Cardinality(Names) \div FilesPerBlock
<1>3. a \in Nat /\ b \in Nat /\ a <= b
  BY <1>1, <1>2, DivMonotone
<1>4. PhysSize(EncodeSnapshotTo) = 1 + a /\ ZoneBlocks >= 2 + b /\ ZoneBlocks \in Nat
  BY <1>1 DEF PhysSize
<1> HIDE DEF a, b
<1> QED
  BY <1>3, <1>4
-----------------------------------------------------------------------------
(***************************************************************************)
(* Control: calls                                                          *)
(***************************************************************************)

MemoryTypes ==
  /\ files_ \in Namespace /\ linkfiles_ \in [Ids -> Seq(Names)]
  /\ extents_ \in [Ids -> Seq(Nat)] /\ nr_synced_extents_ \in [Ids -> Nat]
  /\ next_file_id_ \in Nat \ {0}
RollTypes == meta_log_ \in Zones /\ old_meta_log \in Zones /\ sequence_ \in Nat
HistoryTypes == durable \in Namespace /\ goal \in Namespace /\ trusted \in BOOLEAN
Places == Down \cup {"idle", "unlink", "main"} \cup Persisting

\* The types in parts
LEMMA TypeParts ==
  Types /\ Decodable <=>
    DeviceTypes /\ MemoryTypes /\ RollTypes /\ HistoryTypes /\ pc \in Places
BY DEF Types, DeviceTypes, MemoryTypes, RollTypes, HistoryTypes, Places

\* The types in parts, behind a step
LEMMA TypePartsNext ==
  (Types /\ Decodable)' <=>
    (DeviceTypes /\ MemoryTypes /\ RollTypes /\ HistoryTypes /\ pc \in Places)'
BY TypeParts, PTL

\* Parts that a step does not change keep their types.
LEMMA TypesSame ==
  /\ UNCHANGED device /\ DeviceTypes => DeviceTypes'
  /\ UNCHANGED memory /\ MemoryTypes => MemoryTypes'
  /\ UNCHANGED roll /\ RollTypes => RollTypes'
  /\ UNCHANGED history /\ HistoryTypes => HistoryTypes'
BY DEF device, memory, roll, history, DeviceTypes, MemoryTypes, RollTypes, HistoryTypes, Decodable

\* A step of the same call with the same record
LEMMA CallSame ==
  UNCHANGED <<call, record>> =>
    (Deleting' <=> Deleting) /\ (Updating' <=> Updating) /\ (Mounting' <=> Mounting)
BY DEF Deleting, Updating, Mounting

\* The fields of a call
LEMMA CallFields ==
  call \in UserCall =>
    /\ call.name \in {"open", "delete", "rename", "link", "sync"}
    /\ call.src \in Names /\ call.dst \in Names /\ call.id \in Ids
BY DEF UserCall

\* The three kinds of records exclude each other.
LEMMA Kinds ==
  /\ Deleting => record.tag = "delete" /\ record.id \in Ids /\ record.name \in Names
  /\ Updating => /\ record.tag = "update" /\ record.links \in Seq(Names)
                 /\ record.ext \in Seq(Nat)
  /\ Mounting => record.tag = "mount" /\ call.name = "mount"
BY RecordFields DEF Deleting, Updating, Mounting, NoCall

\* A file in the namespace has a number that has been given out.
LEMMA GivenOut ==
  ASSUME Control, NEW n \in Names, files_[n] # NoFile
  PROVE  files_[n] \in Ids /\ files_[n] < next_file_id_
<1>1. files_[n] \in Ids /\ next_file_id_ \in Nat
  BY DEF Control, Types, Namespace
<1>2. ~(files_[n] >= next_file_id_)
  BY <1>1 DEF Control, Numbers, Unused
<1> QED
  BY <1>1, <1>2 DEF Ids

\* The beginning of a call
LEMMA BeginControl ==
  ASSUME Control, NEW name \in {"open", "delete", "rename", "link", "sync"},
         NEW src \in Names, NEW dst \in Names, NEW id \in Ids, NEW next \in {"unlink", "main"},
         Begin(name, src, dst, id, next),
         next = "unlink" => name \in {"open", "delete", "rename"} /\ files_[dst] # NoFile,
         next = "main" => name # "delete",
         IF name = "open" THEN id = next_file_id_ ELSE id < next_file_id_
  PROVE  Control'
<1>1. /\ call' = [name |-> name, src |-> src, dst |-> dst, id |-> id] /\ pc' = next
      /\ UNCHANGED <<device, memory, roll, record, crashes, errors, history>>
  BY DEF Begin
<1>2. DeviceTypes' /\ MemoryTypes' /\ RollTypes' /\ HistoryTypes' /\ pc' \in Places
  BY <1>1, TypeParts, TypesSame DEF Control, Places
<1>3. Types' /\ Decodable'
  BY <1>2, TypePartsNext
<1>4. /\ call' \in UserCall /\ call'.name = name /\ call'.dst = dst /\ call'.id = id
      /\ pc' \notin Persisting \cup Down
  BY <1>1 DEF UserCall, Persisting, Before, After, Down
<1>5. Calling'
  BY <1>1, <1>4 DEF Calling, Down, memory
<1>6. Numbers'
  BY <1>1, <1>4 DEF Control, Numbers, Unused, Opening, memory
<1>7. Rolling'
  BY <1>1 DEF Rolling
<1> QED
  BY <1>3, <1>5, <1>6, <1>7 DEF Control

\* All calls begin like that.
LEMMA CallControl ==
  ASSUME Control, CallSome
  PROVE  Control'
<1>1. ASSUME NEW n \in Names, OpenWritableFile(n) PROVE Control'
  <2> DEFINE next == IF files_[n] # NoFile THEN "unlink" ELSE "main"
  <2>1. next_file_id_ \in Ids /\ Begin("open", n, n, next_file_id_, next)
    BY <1>1 DEF OpenWritableFile
  <2>2. next \in {"unlink", "main"} /\ (next = "unlink" => files_[n] # NoFile)
    OBVIOUS
  <2> HIDE DEF next
  <2> QED
    BY <2>1, <2>2, BeginControl
<1>2. ASSUME NEW n \in Names, DeleteFile(n) PROVE Control'
  BY <1>2, GivenOut, BeginControl DEF DeleteFile
<1>3. ASSUME NEW n \in Names, SyncFileMetadata(n) PROVE Control'
  BY <1>3, GivenOut, BeginControl DEF SyncFileMetadata
<1>4. ASSUME NEW src \in Names, NEW dst \in Names, RenameFile(src, dst) PROVE Control'
  <2> DEFINE next == IF files_[dst] # NoFile THEN "unlink" ELSE "main"
  <2>1. files_[src] # NoFile /\ Begin("rename", src, dst, files_[src], next)
    BY <1>4 DEF RenameFile
  <2>2. next \in {"unlink", "main"} /\ (next = "unlink" => files_[dst] # NoFile)
    OBVIOUS
  <2> HIDE DEF next
  <2> QED
    BY <2>1, <2>2, GivenOut, BeginControl
<1>5. ASSUME NEW src \in Names, NEW dst \in Names, LinkFile(src, dst) PROVE Control'
  BY <1>5, GivenOut, BeginControl DEF LinkFile
<1> QED
  BY <1>1, <1>2, <1>3, <1>4, <1>5 DEF CallSome

\* A writer adds an extent to a file in the namespace.
LEMMA PushControl ==
  ASSUME Control, NEW id \in Ids, PushExtent(id)
  PROVE  Control'
<1>1. /\ extents_' = [extents_ EXCEPT ![id] = Append(@, IF @ = <<>> THEN 1 ELSE Last(@) + 1)]
      /\ UNCHANGED <<device, files_, next_file_id_, linkfiles_, nr_synced_extents_, roll,
                     pc, call, record, crashes, errors, durable, goal, trusted>>
      /\ id \in Live
  BY DEF PushExtent
<1>2. extents_ \in [Ids -> Seq(Nat)] /\ extents_[id] \in Seq(Nat)
  BY DEF Control, Types
<1> DEFINE e == Append(extents_[id], IF extents_[id] = <<>> THEN 1 ELSE Last(extents_[id]) + 1)
<1>3. e \in Seq(Nat) /\ extents_' = [extents_ EXCEPT ![id] = e]
  <2>1. extents_[id] # <<>> => Last(extents_[id]) \in Nat
    BY <1>2 DEF Last
  <2> QED
    BY <1>1, <1>2, <2>1
<1> HIDE DEF e
<1>4. MemoryTypes'
  <2>1. extents_' \in [Ids -> Seq(Nat)]
    BY <1>2, <1>3
  <2> QED
    BY <1>1, <2>1 DEF Control, Types, MemoryTypes
<1>5. DeviceTypes' /\ RollTypes' /\ HistoryTypes' /\ pc' \in Places
  BY <1>1, TypeParts, TypesSame DEF Control, HistoryTypes
<1>6. Types' /\ Decodable'
  BY <1>4, <1>5, TypePartsNext
<1>7. Calling'
  BY Zenon, <1>1, CallSame DEF Control, Calling, Blank
<1>8. Numbers'
  <2>1. PICK n \in Names : files_[n] = id
    BY <1>1 DEF Live
  <2>2. id < next_file_id_ /\ next_file_id_ \in Nat
    BY <2>1, GivenOut, NoFileIsNone DEF Control, Types
  <2>3. \A x \in Ids : x >= next_file_id_ => Unused(x)'
    <3> SUFFICES ASSUME NEW x \in Ids, x >= next_file_id_ PROVE Unused(x)'
      OBVIOUS
    <3>1. x # id
      BY <2>2 DEF Ids
    <3>2. Unused(x) /\ extents_'[x] = extents_[x]
      BY <3>1, <1>2, <1>3 DEF Control, Numbers
    <3> QED
      BY <3>2, <1>1 DEF Unused
  <2>4. Opening' <=> Opening
    BY Zenon, <1>1, CallSame DEF Opening
  <2> QED
    BY Zenon, <1>1, <2>3, <2>4, CallSame DEF Control, Numbers
<1>9. Rolling'
  <2>1. \A z \in Zones : RecoverFrom(z)' = RecoverFrom(z)
    BY <1>1, LogSame DEF device
  <2> QED
    BY <1>1, <2>1 DEF Control, Types, Rolling, device, roll
<1> QED
  BY <1>6, <1>7, <1>8, <1>9 DEF Control

\* A call hands its record to PersistRecord: what is left to show of the change in memory
LEMMA PersistControl ==
  ASSUME Control, pc \in {"unlink", "main"}, NEW r, NEW nf \in Namespace, PersistRecord(r, nf),
         MemoryTypes', Deleting' \/ Updating',
         \A id \in Ids : id >= next_file_id_' => Unused(id)',
         call.name # "open" => next_file_id_' = next_file_id_,
         call.name = "open" => next_file_id_' = IF Updating' THEN next_file_id_ + 1 ELSE next_file_id_,
         Deleting' => r.id < next_file_id_'
  PROVE  Control'
<1>1. /\ record' = r /\ goal' = nf /\ pc' = "add"
      /\ UNCHANGED <<device, extents_, nr_synced_extents_, roll, call, crashes, errors, durable,
                     trusted>>
  BY DEF PersistRecord
<1>2. DeviceTypes' /\ RollTypes'
  BY <1>1, TypeParts, TypesSame DEF Control
<1>3. HistoryTypes' /\ pc' \in Places
  BY <1>1 DEF Control, Types, HistoryTypes, Places, Persisting, Before
<1>4. Types' /\ Decodable'
  BY <1>2, <1>3, TypePartsNext
<1>5. pc' \in Persisting /\ pc' \notin Down /\ pc' # "idle"
  BY <1>1 DEF Persisting, Before, Down
<1>6. Calling'
  BY <1>1, <1>5 DEF Calling, Down
<1>7. Rolling'
  BY <1>1 DEF Rolling
<1>8. Numbers'
  <2>1. ~Opening
    BY DEF Opening, Persisting, Before, After
  <2>2. call.name \in {"open", "delete", "rename", "link", "sync"} /\ call.id \in Ids
    BY CallFields DEF Control, Calling
  <2>3. call.name # "open" => call.id < next_file_id_'
    BY <2>2 DEF Control, Numbers
  <2>4. call.name = "open" => call.id = next_file_id_ /\ next_file_id_ \in Nat
    BY <2>1 DEF Control, Numbers, Types
  <2>5. Opening' <=> Updating' /\ call.name = "open"
    BY <1>1, <1>5 DEF Opening
  <2>6. call.name = "open" =>
          IF Opening' THEN call.id < next_file_id_' ELSE call.id = next_file_id_'
    <3>1. CASE call.name = "open" /\ Updating'
      BY <3>1, <2>4, <2>5
    <3>2. CASE call.name = "open" /\ ~Updating'
      BY <3>2, <2>4, <2>5
    <3> QED
      BY <3>1, <3>2
  <2> QED
    BY <1>1, <2>2, <2>3, <2>6 DEF Numbers
<1> QED
  BY <1>4, <1>6, <1>7, <1>8 DEF Control

\* A record that is being made: only one of the two kinds
LEMMA KindsNext ==
  ~(Deleting' /\ Updating') /\ ~(Deleting /\ Updating)
BY Zenon, Kinds, RecordFields DEF Deleting, Updating

\* A list of links that changes leaves numbers alone that have not been given out.
LEMMA UnusedSame ==
  ASSUME Control, NEW id \in Ids, id < next_file_id_,
         next_file_id_' = next_file_id_,
         \A x \in Ids \ {id} : linkfiles_'[x] = linkfiles_[x] /\ extents_'[x] = extents_[x]
                               /\ nr_synced_extents_'[x] = nr_synced_extents_[x],
         \A n \in Names : files_'[n] \in {files_[n], id, NoFile}
  PROVE  \A x \in Ids : x >= next_file_id_' => Unused(x)'
<1> SUFFICES ASSUME NEW x \in Ids, x >= next_file_id_' PROVE Unused(x)'
  OBVIOUS
<1>1. x # id
  BY DEF Control, Types, Ids
<1>2. Unused(x)
  BY DEF Control, Numbers
<1>3. x # NoFile
  BY NoFileIsNone
<1> QED
  BY <1>1, <1>2, <1>3 DEF Unused

\* DeleteFileNoLock takes a name away.
LEMMA DeleteControl ==
  ASSUME Control, DeleteFileNoLock
  PROVE  Control'
<1> DEFINE n == call.dst
           id == files_[n]
<1>1. /\ pc = "unlink" /\ files_' = [files_ EXCEPT ![n] = NoFile]
      /\ linkfiles_' = [linkfiles_ EXCEPT ![id] = RemoveFirst(linkfiles_[id], n)]
      /\ PersistRecord([tag |-> "delete", id |-> id, name |-> n], files_')
      /\ UNCHANGED next_file_id_
  BY DEF DeleteFileNoLock, RemoveLinkName, EncodeFileDeletionTo
<1>2. /\ call \in UserCall /\ call.name \in {"open", "delete", "rename"} /\ n \in Names
      /\ files_[n] # NoFile
  BY <1>1, CallFields DEF Control, Calling
<1>3. id \in Ids /\ id < next_file_id_
  BY <1>2, GivenOut
<1>4. /\ files_ \in [Names -> Ids \cup {NoFile}] /\ linkfiles_ \in [Ids -> Seq(Names)]
      /\ extents_ \in [Ids -> Seq(Nat)] /\ nr_synced_extents_ \in [Ids -> Nat]
      /\ next_file_id_ \in Nat \ {0}
  BY DEF Control, Types, Namespace
<1> HIDE DEF id, n
<1>5. RemoveFirst(linkfiles_[id], n) \in Seq(Names)
  BY <1>3, <1>4, RemoveType
<1>6. /\ record' = [tag |-> "delete", id |-> id, name |-> n]
      /\ UNCHANGED <<extents_, nr_synced_extents_, call>>
  BY <1>1 DEF PersistRecord
<1>7. files_' \in Namespace /\ MemoryTypes'
  BY <1>1, <1>4, <1>5, <1>6 DEF MemoryTypes, Namespace
<1>8. Deleting' /\ ~Updating'
  <2>1. record' \in Deletion /\ record'.name = call'.dst
    BY <1>2, <1>3, <1>6 DEF Deletion, n
  <2> QED
    BY <1>2, <1>6, <2>1, KindsNext DEF Deleting
<1>9. \A x \in Ids : x >= next_file_id_' => Unused(x)'
  BY <1>1, <1>3, <1>4, <1>6, UnusedSame
<1>10. record'.id < next_file_id_'
  BY <1>1, <1>3, <1>6
<1>11. pc \in {"unlink", "main"} /\ [tag |-> "delete", id |-> id, name |-> n].id = id
  BY <1>1
<1> QED
  BY <1>1, <1>3, <1>7, <1>8, <1>9, <1>11, PersistControl

\* A new file gets the next number and its first link.
LEMMA OpenControl ==
  ASSUME Control, OpenNewFile
  PROVE  Control'
<1>1. /\ pc = "main" /\ call.name = "open" /\ next_file_id_' = next_file_id_ + 1
      /\ linkfiles_' = [linkfiles_ EXCEPT ![call.id] = <<call.dst>>]
      /\ PersistRecord(EncodeUpdateTo(call.id, linkfiles_'[call.id]),
                       [files_ EXCEPT ![call.dst] = call.id])
      /\ UNCHANGED files_
  BY DEF OpenNewFile
<1>2. call \in UserCall /\ call.dst \in Names /\ call.id \in Ids
  BY <1>1, CallFields DEF Control, Calling
<1>3. call.id = next_file_id_
  BY <1>1 DEF Control, Numbers, Opening, Persisting, Before, After
<1>4. /\ files_ \in [Names -> Ids \cup {NoFile}] /\ linkfiles_ \in [Ids -> Seq(Names)]
      /\ extents_ \in [Ids -> Seq(Nat)] /\ nr_synced_extents_ \in [Ids -> Nat]
      /\ next_file_id_ \in Nat \ {0}
  BY DEF Control, Types, Namespace
<1> DEFINE r == EncodeUpdateTo(call.id, linkfiles_'[call.id])
<1>5. linkfiles_' \in [Ids -> Seq(Names)] /\ linkfiles_'[call.id] \in Seq(Names)
  BY <1>1, <1>2, <1>4
<1>6. r \in Update /\ r.id = call.id
  BY <1>2, <1>5, EncodeUpdateType DEF Control
<1>7. record' = r /\ UNCHANGED <<extents_, nr_synced_extents_, call>>
  BY <1>1 DEF PersistRecord
<1> HIDE DEF r
<1>8. MemoryTypes' /\ [files_ EXCEPT ![call.dst] = call.id] \in Namespace
  BY <1>1, <1>2, <1>4, <1>5, <1>7 DEF MemoryTypes, Namespace
<1>9. Updating' /\ ~Deleting'
  BY <1>1, <1>2, <1>6, <1>7, KindsNext DEF Updating
<1>10. \A x \in Ids : x >= next_file_id_' => Unused(x)'
  <2> SUFFICES ASSUME NEW x \in Ids, x >= next_file_id_' PROVE Unused(x)'
    OBVIOUS
  <2>1. x # call.id /\ x >= next_file_id_
    BY <1>1, <1>3, <1>4 DEF Ids
  <2>2. Unused(x)
    BY <2>1 DEF Control, Numbers
  <2> QED
    BY <1>1, <1>4, <1>7, <2>1, <2>2 DEF Unused
<1> QED
  BY <1>1, <1>8, <1>9, <1>10, PersistControl DEF r

\* Rename, link and sync write an update of a file that has a number.
LEMMA UpdateControl ==
  ASSUME Control, pc = "main", call.name \in {"rename", "link", "sync"},
         NEW links \in Seq(Names),
         linkfiles_' = [linkfiles_ EXCEPT ![call.id] = links],
         files_' \in Namespace, \A n \in Names : files_'[n] \in {files_[n], call.id, NoFile},
         PersistRecord(EncodeUpdateTo(call.id, linkfiles_'[call.id]), files_'),
         UNCHANGED next_file_id_
  PROVE  Control'
<1>2. call \in UserCall /\ call.id \in Ids
  BY CallFields DEF Control, Calling
<1>3. call.id < next_file_id_
  BY DEF Control, Numbers
<1>4. /\ linkfiles_ \in [Ids -> Seq(Names)] /\ next_file_id_ \in Nat \ {0}
      /\ extents_ \in [Ids -> Seq(Nat)] /\ nr_synced_extents_ \in [Ids -> Nat]
  BY DEF Control, Types
<1> DEFINE r == EncodeUpdateTo(call.id, linkfiles_'[call.id])
<1>5. linkfiles_' \in [Ids -> Seq(Names)] /\ linkfiles_'[call.id] = links
  BY <1>2, <1>4
<1>6. r \in Update /\ r.id = call.id
  BY <1>2, <1>5, EncodeUpdateType DEF Control
<1>7. record' = r /\ UNCHANGED <<extents_, nr_synced_extents_, call>>
  BY DEF PersistRecord
<1> HIDE DEF r
<1>8. MemoryTypes'
  BY <1>4, <1>5, <1>7 DEF MemoryTypes
<1>9. Updating' /\ ~Deleting'
  BY <1>2, <1>6, <1>7, KindsNext DEF Updating
<1>10. \A x \in Ids : x >= next_file_id_' => Unused(x)'
  BY <1>2, <1>3, <1>4, <1>7, UnusedSame
<1> QED
  BY <1>8, <1>9, <1>10, PersistControl DEF r

\* RenameFileNoLock and LinkFileLocked change links and names, SyncFileMetadataNoLock
\* neither.
LEMMA ChangeControl ==
  ASSUME Control, Change
  PROVE  Control'
<1>0. /\ files_ \in [Names -> Ids \cup {NoFile}] /\ linkfiles_ \in [Ids -> Seq(Names)]
  BY DEF Control, Types, Namespace
<1>1. pc = "main" => call \in UserCall /\ call.src \in Names /\ call.dst \in Names /\ call.id \in Ids
  BY CallFields DEF Control, Calling
<1>2. CASE RenameFileNoLock
  <2> DEFINE links == RenameLink(linkfiles_[call.id], call.src, call.dst)
  <2>1. /\ pc = "main" /\ call.name = "rename"
        /\ linkfiles_' = [linkfiles_ EXCEPT ![call.id] = links]
        /\ files_' = [files_ EXCEPT ![call.src] = NoFile, ![call.dst] = call.id]
        /\ PersistRecord(EncodeUpdateTo(call.id, linkfiles_'[call.id]), files_')
        /\ UNCHANGED next_file_id_
    BY <1>2 DEF RenameFileNoLock
  <2>2. links \in Seq(Names)
    <3>1. RemoveFirst(linkfiles_[call.id], call.src) \in Seq(Names)
      BY <1>0, <1>1, <2>1, RemoveType
    <3> QED
      BY <1>1, <2>1, <3>1 DEF RenameLink, RemoveLinkName
  <2> HIDE DEF links
  <2>3. files_' \in Namespace /\ \A n \in Names : files_'[n] \in {files_[n], call.id, NoFile}
    BY <1>0, <1>1, <2>1 DEF Namespace
  <2> QED
    BY <2>1, <2>2, <2>3, UpdateControl
<1>3. CASE LinkFileLocked
  <2> DEFINE links == Append(linkfiles_[call.id], call.dst)
  <2>1. /\ pc = "main" /\ call.name = "link"
        /\ linkfiles_' = [linkfiles_ EXCEPT ![call.id] = links]
        /\ files_' = [files_ EXCEPT ![call.dst] = call.id]
        /\ PersistRecord(EncodeUpdateTo(call.id, linkfiles_'[call.id]), files_')
        /\ UNCHANGED next_file_id_
    BY <1>3 DEF LinkFileLocked
  <2>2. links \in Seq(Names)
    BY <1>0, <1>1, <2>1
  <2> HIDE DEF links
  <2>3. files_' \in Namespace /\ \A n \in Names : files_'[n] \in {files_[n], call.id, NoFile}
    BY <1>0, <1>1, <2>1 DEF Namespace
  <2> QED
    BY <2>1, <2>2, <2>3, UpdateControl
<1>4. CASE SyncFileMetadataNoLock
  <2> DEFINE links == linkfiles_[call.id]
  <2>1. /\ pc = "main" /\ call.name = "sync"
        /\ PersistRecord(EncodeUpdateTo(call.id, linkfiles_[call.id]), files_)
        /\ UNCHANGED <<files_, next_file_id_, linkfiles_>>
    BY <1>4 DEF SyncFileMetadataNoLock
  <2>2. links \in Seq(Names) /\ linkfiles_' = [linkfiles_ EXCEPT ![call.id] = links]
    BY <1>0, <1>1, <2>1
  <2>3. files_' \in Namespace /\ \A n \in Names : files_'[n] \in {files_[n], call.id, NoFile}
    BY <1>0, <2>1 DEF Namespace
  <2>4. PersistRecord(EncodeUpdateTo(call.id, linkfiles_'[call.id]), files_')
    BY <2>1
  <2> HIDE DEF links
  <2> QED
    BY <2>1, <2>2, <2>3, <2>4, UpdateControl
<1> QED
  BY <1>2, <1>3, <1>4, DeleteControl, OpenControl DEF Change

-----------------------------------------------------------------------------
(***************************************************************************)
(* Control: PersistRecord and RollMetaZoneLocked                           *)
(***************************************************************************)

\* A write changes no call and no number in memory.
LEMMA PersistStep ==
  ASSUME Control, pc \in Persisting, pc' \in Persisting, pc' # "add",
         UNCHANGED <<files_, next_file_id_, linkfiles_, extents_, call, record>>,
         nr_synced_extents_' \in [Ids -> Nat],
         \A id \in Ids : id \notin Live => nr_synced_extents_'[id] = nr_synced_extents_[id],
         DeviceTypes', RollTypes', HistoryTypes', Rolling'
  PROVE  Control'
<1>1. MemoryTypes'
  BY DEF Control, Types, MemoryTypes
<1>2. Types' /\ Decodable'
  BY <1>1, TypePartsNext DEF Places
<1>3. (Deleting' <=> Deleting) /\ (Updating' <=> Updating) /\ (Mounting' <=> Mounting)
  BY Zenon, CallSame
<1>4. pc' \notin Down \cup {"idle", "unlink", "main"}
  BY DEF Persisting, Before, After, Down
<1>5. Calling'
  BY Zenon, <1>3, <1>4, CallSame DEF Control, Calling, Down
<1>6. Opening' <=> Opening
  BY Zenon, CallSame DEF Opening
<1>7. ASSUME NEW id \in Ids, id >= next_file_id_' PROVE Unused(id)'
  <2>1. Unused(id)
    BY <1>7 DEF Control, Numbers
  <2>2. id \notin Live
    BY <2>1 DEF Unused, Live
  <2> QED
    BY <2>1, <2>2 DEF Unused
<1>8. Numbers'
  BY Zenon, <1>6, <1>7, CallSame DEF Control, Numbers
<1> QED
  BY <1>2, <1>5, <1>8 DEF Control

\* The steps that leave memory alone altogether
LEMMA WriteStep ==
  ASSUME Control, pc \in Persisting, pc' \in Persisting, pc' # "add",
         UNCHANGED <<memory, call, record>>,
         DeviceTypes', RollTypes', HistoryTypes', Rolling'
  PROVE  Control'
<1>1. /\ UNCHANGED <<files_, next_file_id_, linkfiles_, extents_, nr_synced_extents_>>
      /\ nr_synced_extents_ \in [Ids -> Nat]
  BY DEF memory, Control, Types
<1> QED
  BY <1>1, PersistStep

\* A record that a call adds is one that the log may have.
LEMMA RecordType ==
  ASSUME Control, pc = "add"
  PROVE  record \in LogRecord
<1>1. Deleting \/ Updating
  BY DEF Control, Calling, Persisting, Before
<1> QED
  BY <1>1 DEF Deleting, Updating, LogRecord

\* The types, piece by piece
LEMMA ControlTypes ==
  ASSUME Control
  PROVE  /\ DeviceTypes /\ MemoryTypes /\ RollTypes /\ HistoryTypes
         /\ log \in [Zones -> Seq(LogRecord)] /\ capacity_ \in [Zones -> 0..ZoneBlocks]
         /\ meta_log_ \in Zones /\ old_meta_log \in Zones /\ sequence_ \in Nat
BY TypeParts DEF Control, DeviceTypes, RollTypes

\* A record is added.
LEMMA AddRecordOkControl ==
  ASSUME Control, AddRecordOk
  PROVE  Control'
<1>1. /\ pc = "add" /\ AddRecord(meta_log_, record) /\ durable' = goal
      /\ trusted' = (trusted /\ HasSnapshot(meta_log_)) /\ pc' = "synced"
      /\ UNCHANGED <<memory, roll, call, record, crashes, errors, goal>>
  BY DEF AddRecordOk
<1>2. DeviceTypes'
  BY <1>1, AddRecordWrites, RecordType, ControlTypes
<1>3. RollTypes' /\ HistoryTypes'
  BY <1>1, ControlTypes, TypesSame DEF HistoryTypes
<1>4. Rolling'
  BY <1>1 DEF Rolling
<1> QED
  BY <1>1, <1>2, <1>3, <1>4, WriteStep DEF Persisting, Before, After

\* It does not fit, or is refused.
LEMMA AddRecordNotControl ==
  ASSUME Control, AddRecordNoSpace \/ AddRecordError
  PROVE  Control'
<1>1. /\ pc = "add" /\ pc' \in {"alloc", "failed"}
      /\ UNCHANGED <<device, memory, roll, call, record, history>>
  BY DEF AddRecordNoSpace, AddRecordError, Refused
<1>2. DeviceTypes' /\ RollTypes' /\ HistoryTypes'
  BY <1>1, ControlTypes, TypesSame
<1>4. Rolling'
  BY <1>1 DEF Rolling
<1> QED
  BY <1>1, <1>2, <1>4, WriteStep DEF Persisting, Before, After

\* There is another zone, and the first one is taken.
LEMMA OtherZone ==
  ASSUME Control
  PROVE  LET z == CHOOSE z \in Zones \ {meta_log_} : \A y \in Zones \ {meta_log_} : z <= y
         IN  z \in Zones /\ z # meta_log_
<1> DEFINE S == Zones \ {meta_log_}
<1>1. 1 \in Zones /\ 2 \in Zones /\ Zones \subseteq Nat
  BY DEF Zones
<1>2. S \subseteq Nat /\ S # {}
  <2>1. S \subseteq Nat
    BY <1>1
  <2>2. CASE meta_log_ = 1
    <3>1. 2 \in S
      BY <1>1, <2>2
    <3> QED
      BY <2>1, <3>1
  <2>3. CASE meta_log_ # 1
    <3>1. 1 \in S
      BY <1>1, <2>3
    <3> QED
      BY <2>1, <3>1
  <2> QED
    BY <2>2, <2>3
<1> HIDE DEF S
<1>3. \E z \in S : \A y \in S : z <= y
  BY <1>2, Smallest
<1>4. (CHOOSE z \in S : \A y \in S : z <= y) \in S
  BY <1>3
<1> QED
  BY <1>4 DEF S

\* The zone that a roll takes is reset.
LEMMA AllocateFacts ==
  ASSUME Control, AllocateMetaZone
  PROVE  /\ pc = "alloc" /\ pc' = "end" /\ old_meta_log' = meta_log_
         /\ meta_log_' \in Zones \ {meta_log_}
         /\ DeviceTypes' /\ Emptied(meta_log_')
         /\ trusted' = (trusted /\ HasSnapshot(meta_log_))
         /\ UNCHANGED <<memory, sequence_, call, record, crashes, errors, durable, goal>>
<1> DEFINE z == CHOOSE z \in Zones \ {meta_log_} : \A y \in Zones \ {meta_log_} : z <= y
<1>1. z \in Zones /\ z # meta_log_
  BY OtherZone
<1>2. /\ pc = "alloc" /\ Reset(z) /\ old_meta_log' = meta_log_ /\ meta_log_' = z
      /\ trusted' = (trusted /\ HasSnapshot(meta_log_)) /\ pc' = "end"
      /\ UNCHANGED <<memory, sequence_, call, record, crashes, errors, durable, goal>>
  BY DEF AllocateMetaZone
<1> HIDE DEF z
<1> QED
  BY <1>1, <1>2, ResetEmpties, ControlTypes

\* AllocateMetaZone
LEMMA AllocateControl ==
  ASSUME Control, AllocateMetaZone
  PROVE  Control'
<1>1. /\ pc = "alloc" /\ pc' = "end" /\ old_meta_log' = meta_log_
      /\ meta_log_' \in Zones \ {meta_log_}
      /\ DeviceTypes' /\ Emptied(meta_log_')
      /\ trusted' = (trusted /\ HasSnapshot(meta_log_))
      /\ UNCHANGED <<memory, sequence_, call, record, crashes, errors, durable, goal>>
  BY AllocateFacts
<1>2. RollTypes' /\ HistoryTypes'
  BY <1>1, ControlTypes DEF RollTypes, HistoryTypes
<1>3. Rolling'
  BY <1>1 DEF Rolling, Emptied
<1> QED
  BY <1>1, <1>2, <1>3, WriteStep DEF Persisting, Before, After

\* The end of the old zone is marked, or the zone is full, or the record is refused.
LEMMA EndFacts ==
  ASSUME Control, WriteEndRecord
  PROVE  /\ pc = "end" /\ pc' = "finish" /\ DeviceTypes'
         /\ UNCHANGED <<memory, roll, call, record, crashes, durable, goal, overtaken>>
         /\ old_meta_log # meta_log_ /\ trusted' \in BOOLEAN /\ (trusted' => trusted)
         /\ \/ UNCHANGED device /\ capacity_[old_meta_log] = 0
            \/ UNCHANGED device /\ ~trusted'
            \/ Wrote(old_meta_log, [tag |-> "end"], 1)
<1>1. /\ pc = "end" /\ pc' = "finish"
      /\ UNCHANGED <<memory, roll, call, record, crashes, durable, goal, overtaken>>
      /\ old_meta_log # meta_log_ /\ trusted' \in BOOLEAN /\ (trusted' => trusted)
  <2>1. /\ pc = "end" /\ pc' = "finish"
        /\ UNCHANGED <<memory, roll, call, record, crashes, durable, goal, overtaken>>
        /\ trusted' = trusted \/ trusted' = FALSE
    BY DEF WriteEndRecord
  <2>2. trusted \in BOOLEAN
    BY DEF Control, Types
  <2>3. old_meta_log # meta_log_
    BY <2>1 DEF Control, Rolling
  <2>4. trusted' \in BOOLEAN /\ (trusted' => trusted)
    <3>1. CASE trusted' = trusted
      BY Zenon, <2>2, <3>1
    <3>2. CASE trusted' = FALSE
      BY Zenon, <3>2
    <3> QED
      BY Zenon, <2>1, <3>1, <3>2
  <2> QED
    BY Zenon, <2>1, <2>3, <2>4
<1>0. CASE UNCHANGED device /\ ~trusted'
  BY <1>0, <1>1, ControlTypes, TypesSame
<1>4. CASE ~(UNCHANGED device /\ ~trusted') /\ capacity_[old_meta_log] > 0
  <2>1. AddRecord(old_meta_log, [tag |-> "end"])
    BY <1>4 DEF WriteEndRecord, Refused
  <2>2. [tag |-> "end"] \in LogRecord /\ PhysSize([tag |-> "end"]) = 1
    BY DEF LogRecord, Mark, PhysSize
  <2> QED
    BY <1>1, <2>1, <2>2, AddRecordWrites, ControlTypes
<1>3. CASE ~(capacity_[old_meta_log] > 0)
  <2>1. UNCHANGED device
    BY <1>3 DEF WriteEndRecord, Refused
  <2>2. capacity_[old_meta_log] = 0
    BY <1>3, ControlTypes
  <2> QED
    BY <1>1, <2>1, <2>2, ControlTypes, TypesSame
<1> QED
  BY <1>0, <1>3, <1>4

\* WriteEndRecord
LEMMA EndControl ==
  ASSUME Control, WriteEndRecord
  PROVE  Control'
<1>1. /\ pc = "end" /\ pc' = "finish" /\ DeviceTypes'
      /\ UNCHANGED <<memory, roll, call, record, crashes, durable, goal, overtaken>>
      /\ old_meta_log # meta_log_ /\ trusted' \in BOOLEAN /\ (trusted' => trusted)
      /\ \/ UNCHANGED device /\ capacity_[old_meta_log] = 0
         \/ UNCHANGED device /\ ~trusted'
         \/ Wrote(old_meta_log, [tag |-> "end"], 1)
  BY EndFacts
<1>2. RollTypes' /\ HistoryTypes' /\ UNCHANGED <<meta_log_, old_meta_log>>
  BY <1>1, ControlTypes, TypesSame DEF roll, HistoryTypes
<1>3. log[meta_log_] = <<>> /\ capacity_[meta_log_] = ZoneBlocks
  BY <1>1 DEF Control, Rolling
<1>4. log'[meta_log_] = <<>> /\ capacity_'[meta_log_] = ZoneBlocks
  BY <1>1, <1>3, ControlTypes DEF Wrote, device
<1>5. trusted' => capacity_'[old_meta_log] = 0 \/ RecoverFrom(old_meta_log)'.done
  <2>1. CASE UNCHANGED device /\ capacity_[old_meta_log] = 0
    BY <2>1 DEF device
  <2>2. CASE Wrote(old_meta_log, [tag |-> "end"], 1)
    <3> DEFINE st == Decoded(log[old_meta_log])
    <3>1. log'[old_meta_log] = Append(log[old_meta_log], [tag |-> "end"])
      BY <2>2 DEF Wrote
    <3>2. [tag |-> "end"] \in LogRecord /\ log[old_meta_log] \in Seq(LogRecord)
      BY ControlTypes DEF LogRecord, Mark
    <3>3. Decoded(log'[old_meta_log]) = DecodeRecord(st, [tag |-> "end"])
      BY <3>1, <3>2, DecodedAppend
    <3>4. st \in State
      BY ControlTypes DEF Control, Decodable, Sound
    <3> HIDE DEF st
    <3>5. DecodeRecord(st, [tag |-> "end"]).done
      <4>1. CASE st.done
        BY <4>1 DEF DecodeRecord
      <4>2. CASE ~st.done
        <5>1. DecodeRecord(st, [tag |-> "end"]) = [st EXCEPT !.done = TRUE]
          BY <4>2 DEF DecodeRecord
        <5> QED
          BY <5>1, <3>4 DEF State
      <4> QED
        BY <4>1, <4>2
    <3> QED
      BY <3>3, <3>5, <1>2 DEF RecoverFrom
  <2> QED
    BY <1>1, <2>1, <2>2
<1>6. Rolling'
  BY <1>1, <1>2, <1>4, <1>5 DEF Rolling
<1> QED
  BY <1>1, <1>2, <1>6, WriteStep DEF Persisting, Before, After

\* The old zone is finished; zeros behind its end are not read.
LEMMA FinishFacts ==
  ASSUME Control, FinishOldZone
  PROVE  /\ pc = "finish" /\ pc' = "super" /\ DeviceTypes'
         /\ UNCHANGED <<memory, roll, call, record, crashes, errors, history>>
         /\ old_meta_log # meta_log_
         /\ \/ UNCHANGED device
            \/ /\ trusted => RecoverFrom(old_meta_log).done
               /\ Wrote(old_meta_log, [tag |-> "zeros"], capacity_[old_meta_log])
<1>1. /\ pc = "finish" /\ pc' = "super"
      /\ UNCHANGED <<memory, roll, call, record, crashes, errors, history>>
      /\ old_meta_log # meta_log_
      /\ trusted => capacity_[old_meta_log] = 0 \/ RecoverFrom(old_meta_log).done
  BY DEF FinishOldZone, Control, Rolling
<1>2. CASE capacity_[old_meta_log] > 0
  <2>1. /\ log' = [log EXCEPT ![old_meta_log] = Append(@, [tag |-> "zeros"])]
        /\ capacity_' = [capacity_ EXCEPT ![old_meta_log] = 0]
    BY <1>2 DEF FinishOldZone
  <2>2. [tag |-> "zeros"] \in LogRecord
    BY DEF LogRecord, Mark
  <2> DEFINE b == capacity_[old_meta_log]
  <2>3. b \in Nat /\ b <= capacity_[old_meta_log] /\ b - b = 0
    BY ControlTypes
  <2>4. capacity_' = [capacity_ EXCEPT ![old_meta_log] = @ - b]
    BY <2>1, <2>3
  <2> HIDE DEF b
  <2>5. DeviceTypes' /\ Wrote(old_meta_log, [tag |-> "zeros"], b)
    BY <2>1, <2>2, <2>3, <2>4, WriteKeeps, ControlTypes
  <2>6. trusted => RecoverFrom(old_meta_log).done
    BY <1>1, <1>2
  <2> QED
    BY <1>1, <2>5, <2>6 DEF b
<1>3. CASE ~(capacity_[old_meta_log] > 0)
  <2>1. UNCHANGED device
    BY <1>3 DEF FinishOldZone
  <2> QED
    BY <1>1, <2>1, ControlTypes, TypesSame
<1> QED
  BY <1>2, <1>3

\* FinishOldZone
LEMMA FinishControl ==
  ASSUME Control, FinishOldZone
  PROVE  Control'
<1>1. /\ pc = "finish" /\ pc' = "super" /\ DeviceTypes'
      /\ UNCHANGED <<memory, roll, call, record, crashes, errors, history>>
      /\ old_meta_log # meta_log_
      /\ \/ UNCHANGED device
         \/ Wrote(old_meta_log, [tag |-> "zeros"], capacity_[old_meta_log])
  BY FinishFacts
<1>2. RollTypes' /\ HistoryTypes' /\ UNCHANGED <<meta_log_, old_meta_log>>
  BY <1>1, ControlTypes, TypesSame DEF roll
<1>3. log[meta_log_] = <<>> /\ capacity_[meta_log_] = ZoneBlocks
  BY <1>1 DEF Control, Rolling
<1>4. log'[meta_log_] = <<>> /\ capacity_'[meta_log_] = ZoneBlocks
  BY <1>1, <1>3, ControlTypes DEF Wrote, device
<1>6. Rolling'
  BY <1>1, <1>2, <1>4 DEF Rolling
<1> QED
  BY <1>1, <1>2, <1>6, WriteStep DEF Persisting, Before, After

\* The superblock of the new zone
LEMMA SuperFacts ==
  ASSUME Control, AddSuperblock
  PROVE  /\ pc = "super" /\ DeviceTypes' /\ sequence_' = sequence_ + 1
         /\ log[meta_log_] = <<>>
         /\ UNCHANGED <<memory, meta_log_, old_meta_log, call, record, crashes, history>>
         /\ \/ pc' = "failed" /\ UNCHANGED device
            \/ /\ pc' = "snapshot"
               /\ Wrote(meta_log_, [tag |-> "super", seq |-> sequence_'], 1)
               /\ log'[meta_log_] = <<[tag |-> "super", seq |-> sequence_']>>
               /\ capacity_'[meta_log_] = ZoneBlocks - 1
<1>1. /\ pc = "super" /\ sequence_' = sequence_ + 1
      /\ UNCHANGED <<memory, meta_log_, old_meta_log, call, record, crashes, history>>
  BY DEF AddSuperblock
<1>2. log[meta_log_] = <<>> /\ capacity_[meta_log_] = ZoneBlocks
  BY <1>1 DEF Control, Rolling
<1>3. CASE Refused /\ pc' = "failed"
  BY <1>1, <1>2, <1>3, ControlTypes, TypesSame DEF Refused
<1>4. CASE AddRecord(meta_log_, EncodeSuperblock) /\ pc' = "snapshot"
  <2>1. EncodeSuperblock = [tag |-> "super", seq |-> sequence_']
    BY <1>1 DEF EncodeSuperblock
  <2>2. EncodeSuperblock \in LogRecord /\ PhysSize(EncodeSuperblock) = 1
    BY ControlTypes DEF EncodeSuperblock, LogRecord, Super, PhysSize
  <2>3. DeviceTypes' /\ Wrote(meta_log_, EncodeSuperblock, 1)
    BY <1>4, <2>2, AddRecordWrites, ControlTypes
  <2>4. log'[meta_log_] = <<[tag |-> "super", seq |-> sequence_']>>
    BY <1>2, <2>1, <2>3 DEF Wrote
  <2> QED
    BY <1>1, <1>2, <1>4, <2>1, <2>3, <2>4 DEF Wrote
<1> QED
  BY <1>3, <1>4 DEF AddSuperblock

\* AddSuperblock
LEMMA SuperControl ==
  ASSUME Control, AddSuperblock
  PROVE  Control'
<1>1. /\ pc = "super" /\ DeviceTypes' /\ sequence_' = sequence_ + 1
      /\ UNCHANGED <<memory, meta_log_, old_meta_log, call, record, crashes, history>>
      /\ \/ pc' = "failed" /\ UNCHANGED device
         \/ /\ pc' = "snapshot"
            /\ log'[meta_log_] = <<[tag |-> "super", seq |-> sequence_']>>
            /\ capacity_'[meta_log_] = ZoneBlocks - 1
  BY SuperFacts
<1>2. RollTypes' /\ HistoryTypes' /\ old_meta_log # meta_log_
  BY <1>1, ControlTypes, TypesSame DEF RollTypes, Control, Rolling
<1>3. Rolling'
  BY <1>1, <1>2 DEF Rolling
<1> QED
  BY <1>1, <1>2, <1>3, WriteStep DEF Persisting, Before, After

\* The snapshot of the new zone
LEMMA SnapshotFacts ==
  ASSUME Control, WriteSnapshotLocked
  PROVE  /\ pc = "snapshot" /\ DeviceTypes' /\ old_meta_log # meta_log_
         /\ log[meta_log_] = <<[tag |-> "super", seq |-> sequence_]>>
         /\ EncodeSnapshotTo \in LogRecord
         /\ UNCHANGED <<memory, roll, call, record, crashes, goal, trusted>>
         /\ \/ pc' = "failed" /\ UNCHANGED <<device, durable>>
            \/ /\ pc' = "marksynced" /\ durable' = files_
               /\ Wrote(meta_log_, EncodeSnapshotTo, PhysSize(EncodeSnapshotTo))
<1>1. /\ pc = "snapshot"
      /\ UNCHANGED <<memory, roll, call, record, crashes, goal, trusted>>
  BY DEF WriteSnapshotLocked
<1>2. old_meta_log # meta_log_ /\ log[meta_log_] = <<[tag |-> "super", seq |-> sequence_]>>
  BY <1>1 DEF Control, Rolling
<1>3. EncodeSnapshotTo \in LogRecord
  BY EncodeSnapshotType DEF Control, Types, LogRecord
<1>4. CASE Refused /\ pc' = "failed" /\ UNCHANGED durable
  BY <1>1, <1>2, <1>3, <1>4, ControlTypes, TypesSame DEF Refused
<1>5. CASE AddRecord(meta_log_, EncodeSnapshotTo) /\ durable' = files_ /\ pc' = "marksynced"
  BY <1>1, <1>2, <1>3, <1>5, AddRecordWrites, ControlTypes
<1> QED
  BY <1>4, <1>5 DEF WriteSnapshotLocked

\* WriteSnapshotLocked
LEMMA SnapshotControl ==
  ASSUME Control, WriteSnapshotLocked
  PROVE  Control'
<1>1. /\ pc = "snapshot" /\ DeviceTypes' /\ old_meta_log # meta_log_
      /\ EncodeSnapshotTo \in LogRecord
      /\ UNCHANGED <<memory, roll, call, record, crashes, goal, trusted>>
      /\ \/ pc' = "failed" /\ UNCHANGED <<device, durable>>
         \/ /\ pc' = "marksynced" /\ durable' = files_
            /\ Wrote(meta_log_, EncodeSnapshotTo, PhysSize(EncodeSnapshotTo))
  BY SnapshotFacts
<1>2. RollTypes' /\ HistoryTypes' /\ UNCHANGED <<meta_log_, old_meta_log>>
  BY <1>1, ControlTypes, TypesSame DEF HistoryTypes, MemoryTypes, roll
<1>3. pc' = "marksynced" =>
        log'[meta_log_] # <<>> /\ Last(log'[meta_log_]).tag = "snapshot"
  <2> SUFFICES ASSUME pc' = "marksynced"
               PROVE  log'[meta_log_] # <<>> /\ Last(log'[meta_log_]).tag = "snapshot"
    OBVIOUS
  <2>1. log'[meta_log_] = Append(log[meta_log_], EncodeSnapshotTo)
    BY <1>1 DEF Wrote
  <2>2. EncodeSnapshotTo.tag = "snapshot" /\ log[meta_log_] \in Seq(LogRecord)
    BY ControlTypes DEF EncodeSnapshotTo
  <2> QED
    BY <1>1, <2>1, <2>2 DEF Last
<1>4. Rolling'
  BY <1>1, <1>2, <1>3 DEF Rolling
<1> QED
  BY <1>1, <1>2, <1>4, WriteStep DEF Persisting, Before, After

\* SnapshotSynced
LEMMA SyncedControl ==
  ASSUME Control, SnapshotSynced
  PROVE  Control'
<1>1. /\ pc = "marksynced" /\ pc' = "reset"
      /\ nr_synced_extents_' =
           [id \in Ids |-> IF id \in Live THEN Len(extents_[id]) ELSE nr_synced_extents_[id]]
      /\ UNCHANGED <<device, files_, next_file_id_, linkfiles_, extents_, roll, call, record,
                     crashes, errors, history>>
  BY DEF SnapshotSynced
<1>2. DeviceTypes' /\ RollTypes' /\ HistoryTypes'
  BY <1>1, ControlTypes, TypesSame
<1>3. nr_synced_extents_' \in [Ids -> Nat]
  BY <1>1 DEF Control, Types
<1>4. \A id \in Ids : id \notin Live => nr_synced_extents_'[id] = nr_synced_extents_[id]
  BY <1>1
<1>5. Rolling'
  BY <1>1 DEF Control, Rolling, device, roll
<1> QED
  BY <1>1, <1>2, <1>3, <1>4, <1>5, PersistStep DEF Persisting, Before, After

\* ResetOldZone
LEMMA ResetControl ==
  ASSUME Control, ResetOldZone
  PROVE  Control' /\ Emptied(old_meta_log)
<1>1. /\ pc = "reset" /\ Reset(old_meta_log) /\ pc' = "synced"
      /\ UNCHANGED <<memory, roll, call, record, crashes, errors, history>>
  BY DEF ResetOldZone
<1>2. DeviceTypes' /\ Emptied(old_meta_log)
  BY <1>1, ControlTypes, ResetEmpties
<1>3. RollTypes' /\ HistoryTypes'
  BY <1>1, ControlTypes, TypesSame
<1>4. Rolling'
  BY <1>1 DEF Rolling
<1> QED
  BY <1>1, <1>2, <1>3, <1>4, WriteStep DEF Persisting, Before, After

\* All steps of PersistRecord
LEMMA PersistAllControl ==
  ASSUME Control, Persist
  PROVE  Control'
BY AddRecordOkControl, AddRecordNotControl, AllocateControl, EndControl, FinishControl,
   SuperControl, SnapshotControl, SyncedControl, ResetControl DEF Persist

-----------------------------------------------------------------------------
(***************************************************************************)
(* Control: the ends of calls                                              *)
(***************************************************************************)

\* A call returns.
LEMMA ReturnControl ==
  ASSUME Control, NEW nf \in Namespace, Return(nf), UNCHANGED <<device, next_file_id_, roll>>,
         trusted' \in BOOLEAN, linkfiles_' \in [Ids -> Seq(Names)],
         extents_' \in [Ids -> Seq(Nat)], nr_synced_extents_' \in [Ids -> Nat],
         \A x \in Ids : x >= next_file_id_' => Unused(x)'
  PROVE  Control'
<1>1. /\ files_' = nf /\ goal' = nf /\ UNCHANGED durable
      /\ pc' = "idle" /\ call' = NoCall /\ record' = NoRecord
  BY DEF Return
<1>2. DeviceTypes' /\ RollTypes'
  BY ControlTypes, TypesSame
<1>3. MemoryTypes' /\ HistoryTypes' /\ pc' \in Places
  BY <1>1, ControlTypes DEF MemoryTypes, HistoryTypes, Places
<1>4. Types' /\ Decodable'
  BY <1>2, <1>3, TypePartsNext
<1>5. pc' \notin Persisting /\ pc' \notin Down
  BY <1>1 DEF Persisting, Before, After, Down
<1>6. Calling'
  BY <1>1, <1>5 DEF Calling, Down
<1>7. Numbers'
  BY <1>1, <1>5 DEF Numbers, NoCall
<1>8. Rolling'
  BY <1>1 DEF Rolling
<1> QED
  BY <1>4, <1>6, <1>7, <1>8 DEF Control

\* What a record's tag says of the call that is being persisted
LEMMA Persisted ==
  ASSUME Control, pc \in {"synced", "failed"}
  PROVE  /\ pc \in Persisting
         /\ record.tag = "delete" => /\ Deleting /\ ~Updating /\ call \in UserCall
                                     /\ record.id \in Ids /\ record.id < next_file_id_
                                     /\ record.name = call.dst /\ call.dst \in Names
         /\ record.tag = "update" => /\ Updating /\ ~Deleting /\ call \in UserCall
                                     /\ call.id \in Ids /\ call.id < next_file_id_
                                     /\ call.src \in Names /\ call.dst \in Names
         /\ record.tag = "mount" => Mounting
<1>1. pc \in Persisting
  BY DEF Persisting, Before, After
<1>2. Deleting \/ Updating \/ Mounting
  BY <1>1 DEF Control, Calling
<1>3. CASE Deleting
  <2>1. record.tag = "delete" /\ record.id \in Ids /\ ~Updating
    BY <1>3, Kinds, KindsNext
  <2>2. record.id < next_file_id_
    BY <1>1, <1>3 DEF Control, Numbers
  <2>3. call \in UserCall /\ record.name = call.dst /\ call.dst \in Names
    BY <1>3, CallFields DEF Deleting
  <2> QED
    BY <1>1, <1>3, <2>1, <2>2, <2>3
<1>4. CASE Updating
  <2>1. record.tag = "update" /\ ~Deleting
    BY <1>4, Kinds, KindsNext
  <2>2. call \in UserCall /\ call.name \in {"open", "rename", "link", "sync"}
    BY <1>4 DEF Updating
  <2>3. call.id \in Ids /\ call.src \in Names /\ call.dst \in Names
    BY <2>2, CallFields
  <2>4. call.name = "open" => Opening
    BY <1>1, <1>4 DEF Opening
  <2>5. call.id < next_file_id_
    BY <2>2, <2>4 DEF Control, Numbers
  <2> QED
    BY <1>1, <1>4, <2>1, <2>2, <2>3, <2>5
<1>5. CASE Mounting
  BY <1>1, <1>5, Kinds
<1> QED
  BY <1>2, <1>3, <1>4, <1>5

\* The deletion of a name has been persisted; the call ends or goes on.
LEMMA DeletePersistedControl ==
  ASSUME Control, DeletePersisted
  PROVE  Control'
<1>1. /\ pc = "synced" /\ record.tag = "delete"
      /\ UNCHANGED <<device, next_file_id_, linkfiles_, roll, crashes, errors, trusted>>
  BY DEF DeletePersisted
<1> DEFINE id == record.id
<1>2. /\ Deleting /\ ~Updating /\ call \in UserCall /\ id \in Ids /\ id < next_file_id_
      /\ pc \in Persisting
  BY <1>1, Persisted
<1>3. /\ files_ \in Namespace /\ linkfiles_ \in [Ids -> Seq(Names)]
      /\ extents_ \in [Ids -> Seq(Nat)] /\ nr_synced_extents_ \in [Ids -> Nat]
      /\ next_file_id_ \in Nat \ {0} /\ trusted \in BOOLEAN
  BY DEF Control, Types
<1>4. /\ extents_' = extents_ \/ extents_' = [extents_ EXCEPT ![id] = <<>>]
      /\ \/ nr_synced_extents_' = nr_synced_extents_
         \/ nr_synced_extents_' = [nr_synced_extents_ EXCEPT ![id] = 0]
  BY DEF DeletePersisted
<1>5. UNCHANGED files_
  BY DEF DeletePersisted, Return
<1> HIDE DEF id
<1>6. extents_' \in [Ids -> Seq(Nat)] /\ nr_synced_extents_' \in [Ids -> Nat]
  <2>1. [extents_ EXCEPT ![id] = <<>>] \in [Ids -> Seq(Nat)]
    BY <1>2, <1>3
  <2>2. [nr_synced_extents_ EXCEPT ![id] = 0] \in [Ids -> Nat]
    BY <1>2, <1>3
  <2> QED
    BY <1>3, <1>4, <2>1, <2>2
<1>7. \A x \in Ids \ {id} : /\ extents_'[x] = extents_[x]
                            /\ nr_synced_extents_'[x] = nr_synced_extents_[x]
  BY <1>2, <1>3, <1>4
<1>8. \A x \in Ids : x >= next_file_id_' => Unused(x)'
  BY <1>1, <1>2, <1>5, <1>7, UnusedSame
<1>9. CASE call.name = "delete"
  <2>1. Return(files_)
    BY <1>9 DEF DeletePersisted
  <2> QED
    BY <1>1, <1>3, <1>6, <1>8, <2>1, ReturnControl
<1>10. CASE call.name # "delete"
  <2>1. pc' = "main" /\ goal' = files_ /\ UNCHANGED <<call, record, durable>>
    BY <1>10 DEF DeletePersisted
  <2>2. DeviceTypes' /\ RollTypes'
    BY <1>1, ControlTypes, TypesSame
  <2>3. MemoryTypes' /\ HistoryTypes' /\ pc' \in Places
    BY <1>1, <1>3, <1>5, <1>6, <2>1, ControlTypes DEF MemoryTypes, HistoryTypes, Places
  <2>4. Types' /\ Decodable'
    BY <2>2, <2>3, TypePartsNext
  <2>5. pc' \notin Persisting /\ pc' \notin Down
    BY <2>1 DEF Persisting, Before, After, Down
  <2>6. call.name \in {"open", "rename"}
    BY <1>2, <1>10 DEF Deleting
  <2>7. Calling'
    BY <1>2, <2>1, <2>5, <2>6 DEF Calling, Down
  <2>8. ~Opening /\ ~Opening'
    BY <1>2, <2>5 DEF Opening
  <2>9. Numbers'
    BY <1>1, <1>8, <2>1, <2>5, <2>6, <2>8 DEF Control, Numbers
  <2>10. Rolling'
    BY <2>1 DEF Rolling
  <2> QED
    BY <2>4, <2>7, <2>9, <2>10 DEF Control
<1> QED
  BY <1>9, <1>10

\* An update has been persisted, or has failed and is undone in memory.
LEMMA UpdateEnds ==
  ASSUME Control, NEW id \in Ids, id < next_file_id_, NEW nf \in Namespace, Return(nf),
         \A n \in Names : nf[n] \in {files_[n], id, NoFile},
         UNCHANGED <<device, next_file_id_, roll>>, trusted' \in BOOLEAN,
         NEW links \in Seq(Names), linkfiles_' = [linkfiles_ EXCEPT ![id] = links],
         UNCHANGED extents_,
         UNCHANGED nr_synced_extents_ \/ MetadataSynced(id)
  PROVE  Control'
<1>1. /\ files_ \in Namespace /\ linkfiles_ \in [Ids -> Seq(Names)]
      /\ extents_ \in [Ids -> Seq(Nat)] /\ nr_synced_extents_ \in [Ids -> Nat]
  BY DEF Control, Types
<1>2. Len(extents_[id]) \in Nat
  BY <1>1
<1>3. /\ nr_synced_extents_' \in [Ids -> Nat]
      /\ \A x \in Ids \ {id} : nr_synced_extents_'[x] = nr_synced_extents_[x]
  BY <1>1, <1>2 DEF MetadataSynced
<1>4. /\ linkfiles_' \in [Ids -> Seq(Names)]
      /\ \A x \in Ids \ {id} : linkfiles_'[x] = linkfiles_[x] /\ extents_'[x] = extents_[x]
  BY <1>1
<1>5. \A n \in Names : files_'[n] \in {files_[n], id, NoFile}
  BY DEF Return
<1>6. \A x \in Ids : x >= next_file_id_' => Unused(x)'
  BY <1>3, <1>4, <1>5, UnusedSame
<1> QED
  BY <1>1, <1>3, <1>4, <1>6, ReturnControl

\* Memory without a call: a crash, or a mount that failed
LEMMA DownControl ==
  ASSUME Control, NoMemory, pc' = "down", DeviceTypes', HistoryTypes'
  PROVE  Control'
<1>1. /\ files_' = EmptyState.files /\ linkfiles_' = EmptyState.links
      /\ extents_' = EmptyState.ext /\ nr_synced_extents_' = [id \in Ids |-> 0]
      /\ next_file_id_' = 1 /\ sequence_' = 0 /\ meta_log_' = 1 /\ old_meta_log' = 1
      /\ call' = NoCall /\ record' = NoRecord
  BY DEF NoMemory
<1>2. MemoryTypes' /\ RollTypes' /\ pc' \in Places
  <2>1. EmptyState \in State
    BY EmptyStateType
  <2>2. files_' \in Namespace /\ linkfiles_' \in [Ids -> Seq(Names)] /\ extents_' \in [Ids -> Seq(Nat)]
    BY <1>1, <2>1, StateFields DEF Namespace
  <2>3. RollTypes' /\ pc' \in Places
    BY <1>1 DEF RollTypes, Zones, Places, Down
  <2> QED
    BY <1>1, <2>2, <2>3 DEF MemoryTypes
<1>3. Types' /\ Decodable'
  BY <1>2, TypePartsNext
<1>4. pc' \notin Persisting /\ pc' # "blank"
  BY DEF Persisting, Before, After
<1>5. Calling'
  BY <1>1, <1>4 DEF Calling
<1>6. \A id \in Ids : Unused(id)'
  BY <1>1, EmptyStateType, NoFileIsNone DEF Unused
<1>7. Numbers'
  BY <1>1, <1>4, <1>6 DEF Numbers, NoCall
<1>8. Rolling'
  BY DEF Rolling
<1> QED
  BY <1>3, <1>5, <1>7, <1>8 DEF Control

\* All ends of calls
LEMMA FinishAllControl ==
  ASSUME Control, Finish
  PROVE  Control'
<1>0. /\ files_ \in [Names -> Ids \cup {NoFile}] /\ linkfiles_ \in [Ids -> Seq(Names)]
      /\ trusted \in BOOLEAN /\ files_ \in Namespace
  BY DEF Control, Types, Namespace
<1>1. CASE OpenPersisted
  <2> DEFINE nf == [files_ EXCEPT ![call.dst] = call.id]
  <2>1. /\ pc = "synced" /\ record.tag = "update"
        /\ trusted' = (trusted /\ Last(log[meta_log_]).tag # "snapshot")
        /\ MetadataSynced(call.id) /\ Return(nf)
        /\ UNCHANGED <<device, next_file_id_, linkfiles_, extents_, roll, crashes, errors>>
    BY <1>1 DEF OpenPersisted
  <2>2. call.id \in Ids /\ call.id < next_file_id_ /\ call.dst \in Names
    BY <2>1, Persisted
  <2>3. nf \in Namespace /\ \A n \in Names : nf[n] \in {files_[n], call.id, NoFile}
    BY <1>0, <2>2 DEF Namespace
  <2>4. /\ linkfiles_[call.id] \in Seq(Names) /\ trusted' \in BOOLEAN
        /\ linkfiles_' = [linkfiles_ EXCEPT ![call.id] = linkfiles_[call.id]]
    BY <1>0, <2>1, <2>2
  <2> HIDE DEF nf
  <2> QED
    BY <2>1, <2>2, <2>3, <2>4, UpdateEnds
<1>2. CASE UpdatePersisted \/ SyncFailed
  <2>1. /\ pc \in {"synced", "failed"} /\ record.tag = "update" /\ Return(files_)
        /\ UNCHANGED nr_synced_extents_ \/ MetadataSynced(call.id)
        /\ UNCHANGED <<device, next_file_id_, linkfiles_, extents_, roll, crashes, errors, trusted>>
    BY <1>2 DEF UpdatePersisted, SyncFailed
  <2>2. call.id \in Ids /\ call.id < next_file_id_
    BY <2>1, Persisted
  <2>3. /\ linkfiles_[call.id] \in Seq(Names) /\ trusted' \in BOOLEAN
        /\ linkfiles_' = [linkfiles_ EXCEPT ![call.id] = linkfiles_[call.id]]
    BY <1>0, <2>1, <2>2
  <2> QED
    BY <1>0, <2>1, <2>2, <2>3, UpdateEnds
<1>3. CASE MountDone
  <2>1. /\ Return(files_)
        /\ UNCHANGED <<device, next_file_id_, linkfiles_, extents_, nr_synced_extents_, roll,
                       crashes, errors, trusted>>
    BY <1>3 DEF MountDone
  <2>2. UNCHANGED files_
    BY <2>1 DEF Return
  <2>3. \A x \in Ids : x >= next_file_id_' => Unused(x)'
    BY <2>1, <2>2 DEF Control, Numbers, Unused
  <2>4. /\ linkfiles_' \in [Ids -> Seq(Names)] /\ extents_' \in [Ids -> Seq(Nat)]
        /\ nr_synced_extents_' \in [Ids -> Nat]
    BY <2>1 DEF Control, Types
  <2> QED
    BY <1>0, <2>1, <2>3, <2>4, ReturnControl
<1>4. CASE DeleteFailed
  <2> DEFINE nf == [files_ EXCEPT ![record.name] = record.id]
             links == Append(linkfiles_[record.id], record.name)
  <2>1. /\ pc = "failed" /\ record.tag = "delete" /\ Return(nf)
        /\ linkfiles_' = [linkfiles_ EXCEPT ![record.id] = links]
        /\ UNCHANGED <<device, next_file_id_, extents_, nr_synced_extents_, roll, crashes, errors,
                       trusted>>
    BY <1>4 DEF DeleteFailed
  <2>2. record.id \in Ids /\ record.id < next_file_id_ /\ record.name \in Names
    BY <2>1, Persisted
  <2>3. nf \in Namespace /\ \A n \in Names : nf[n] \in {files_[n], record.id, NoFile}
    BY <1>0, <2>2 DEF Namespace
  <2>4. links \in Seq(Names)
    BY <1>0, <2>2
  <2> HIDE DEF nf, links
  <2> QED
    BY <1>0, <2>1, <2>2, <2>3, <2>4, UpdateEnds
<1>5. CASE OpenFailed
  <2>1. /\ pc = "failed" /\ record.tag = "update" /\ Return(files_)
        /\ linkfiles_' = [linkfiles_ EXCEPT ![call.id] = <<>>]
        /\ UNCHANGED <<device, next_file_id_, extents_, nr_synced_extents_, roll, crashes, errors,
                       trusted>>
    BY <1>5 DEF OpenFailed
  <2>2. call.id \in Ids /\ call.id < next_file_id_ /\ <<>> \in Seq(Names)
    BY <2>1, Persisted
  <2> QED
    BY <1>0, <2>1, <2>2, UpdateEnds
<1>6. CASE RenameFailed
  <2> DEFINE nf == [files_ EXCEPT ![call.dst] = NoFile, ![call.src] = call.id]
             links == RenameLink(linkfiles_[call.id], call.dst, call.src)
  <2>1. /\ pc = "failed" /\ record.tag = "update" /\ Return(nf)
        /\ linkfiles_' = [linkfiles_ EXCEPT ![call.id] = links]
        /\ UNCHANGED <<device, next_file_id_, extents_, nr_synced_extents_, roll, crashes, errors,
                       trusted>>
    BY <1>6 DEF RenameFailed
  <2>2. /\ call.id \in Ids /\ call.id < next_file_id_
        /\ call.src \in Names /\ call.dst \in Names
    BY <2>1, Persisted
  <2>3. nf \in Namespace /\ \A n \in Names : nf[n] \in {files_[n], call.id, NoFile}
    BY <1>0, <2>2 DEF Namespace
  <2>4. links \in Seq(Names)
    <3>1. RemoveFirst(linkfiles_[call.id], call.dst) \in Seq(Names)
      BY <1>0, <2>2, RemoveType
    <3> QED
      BY <2>2, <3>1 DEF RenameLink, RemoveLinkName
  <2> HIDE DEF nf, links
  <2> QED
    BY <1>0, <2>1, <2>2, <2>3, <2>4, UpdateEnds
<1>7. CASE LinkFailed
  <2> DEFINE nf == [files_ EXCEPT ![call.dst] = NoFile]
             links == RemoveFirst(linkfiles_[call.id], call.dst)
  <2>1. /\ pc = "failed" /\ record.tag = "update" /\ Return(nf)
        /\ linkfiles_' = [linkfiles_ EXCEPT ![call.id] = links]
        /\ UNCHANGED <<device, next_file_id_, extents_, nr_synced_extents_, roll, crashes, errors,
                       trusted>>
    BY <1>7 DEF LinkFailed, RemoveLinkName
  <2>2. call.id \in Ids /\ call.id < next_file_id_ /\ call.dst \in Names
    BY <2>1, Persisted
  <2>3. nf \in Namespace /\ \A n \in Names : nf[n] \in {files_[n], call.id, NoFile}
    BY <1>0, <2>2 DEF Namespace
  <2>4. links \in Seq(Names)
    BY <1>0, <2>2, RemoveType
  <2> HIDE DEF nf, links
  <2> QED
    BY <1>0, <2>1, <2>2, <2>3, <2>4, UpdateEnds
<1>8. CASE RenameLinkFailed
  <2>1. /\ pc = "main" /\ call.name = "rename" /\ Return(files_)
        /\ UNCHANGED <<device, next_file_id_, linkfiles_, extents_, nr_synced_extents_, roll,
                       crashes, errors, trusted>>
    BY <1>8 DEF RenameLinkFailed
  <2>2. call.id \in Ids /\ call.id < next_file_id_
    BY <2>1, CallFields DEF Control, Calling, Numbers
  <2>3. /\ linkfiles_[call.id] \in Seq(Names)
        /\ linkfiles_' = [linkfiles_ EXCEPT ![call.id] = linkfiles_[call.id]]
    BY <1>0, <2>1, <2>2
  <2> QED
    BY <1>0, <2>1, <2>2, <2>3, UpdateEnds
<1>9. CASE MountFailed
  BY <1>9, DownControl, ControlTypes, TypesSame DEF MountFailed
<1> QED
  BY <1>1, <1>2, <1>3, <1>4, <1>5, <1>6, <1>7, <1>8, <1>9, DeletePersistedControl DEF Finish

-----------------------------------------------------------------------------
(***************************************************************************)
(* Control: MkFS, crashes and Mount                                        *)
(***************************************************************************)

\* MkFS writes a superblock and a snapshot without files.
LEMMA MkFSFacts ==
  ASSUME Control, MkFS
  PROVE  /\ pc = "blank" /\ pc' = "down" /\ DeviceTypes'
         /\ UNCHANGED <<memory, roll, call, record, crashes, errors, history>>
         /\ EncodeSnapshotTo \in Snapshot
         /\ log'[1] = <<[tag |-> "super", seq |-> 1], EncodeSnapshotTo>>
         /\ \A z \in Zones \ {1} : log'[z] = <<>>
<1> DEFINE a == [tag |-> "super", seq |-> 1]
           b == EncodeSnapshotTo
           first == <<a, b>>
<1>1. /\ pc = "blank" /\ pc' = "down"
      /\ UNCHANGED <<memory, roll, call, record, crashes, errors, history>>
      /\ log' = [z \in Zones |-> IF z = 1 THEN first ELSE <<>>]
      /\ capacity_' = [z \in Zones |-> IF z = 1 THEN ZoneBlocks - 2 ELSE ZoneBlocks]
  BY DEF MkFS
<1>2. a \in LogRecord /\ b \in Snapshot /\ b \in LogRecord /\ 1 \in Zones
  BY EncodeSnapshotType DEF Control, Types, LogRecord, Super, Zones
<1>3. PhysSize(b) \in Nat /\ PhysSize(b) <= ZoneBlocks - 1 /\ PhysSize(b) # 0
  BY <1>2, SnapshotFits, PhysSizeType DEF Control, Types
<1>4. ZoneBlocks - 2 \in 0..ZoneBlocks /\ ZoneBlocks \in 0..ZoneBlocks
  BY <1>3
<1> HIDE DEF a, b
<1>5. Append(<<>>, a) = <<a>> /\ <<a>> \in Seq(LogRecord) /\ Append(<<a>>, b) = first
  <2>1. Append(<<>>, a) = <<a>>
    OBVIOUS
  <2>2. <<a>> \in Seq(LogRecord)
    BY <1>2
  <2>3. Append(<<a>>, b) = <<a, b>>
    <3> DEFINE t == Append(<<a>>, b)
    <3>1. t \in Seq(LogRecord) /\ Len(t) = 2 /\ t[1] = a /\ t[2] = b
      BY <1>2, <2>2
    <3> HIDE DEF t
    <3>2. DOMAIN t = 1..2 /\ t = [i \in 1..2 |-> t[i]]
      BY <3>1
    <3>3. t = <<a, b>>
      BY <3>1, <3>2
    <3> QED
      BY <3>3 DEF t
  <2> QED
    BY <2>1, <2>2, <2>3
<1>6. first \in Seq(LogRecord)
  BY <1>2
<1>7. Sound(first)
  <2>1. <<>> \in Seq(LogRecord)
    OBVIOUS
  <2>2. Sound(Append(<<>>, a))
    BY <1>2, <2>1, SoundEmpty, SoundAppend
  <2>3. Sound(Append(<<a>>, b))
    BY <1>2, <1>5, <2>2, SoundAppend
  <2> QED
    BY <1>5, <2>3
<1> HIDE DEF first
<1>8. log' \in [Zones -> Seq(LogRecord)] /\ capacity_' \in [Zones -> 0..ZoneBlocks]
  BY <1>1, <1>4, <1>6
<1>9. Decodable'
  <2>1. \A z \in Zones : Sound(log'[z])
    BY <1>1, <1>7, SoundEmpty
  <2> QED
    BY <2>1 DEF Decodable
<1> QED
  BY <1>1, <1>2, <1>8, <1>9 DEF DeviceTypes, first, a, b

\* A step between the states without a mounted file system
LEMMA StayDown ==
  ASSUME Control, pc \in Down, pc' \in Down, pc' # "blank", DeviceTypes',
         UNCHANGED <<memory, roll, call, record, history>>
  PROVE  Control'
<1>1. MemoryTypes' /\ RollTypes' /\ HistoryTypes' /\ pc' \in Places
  BY ControlTypes, TypesSame DEF Places
<1>2. Types' /\ Decodable'
  BY <1>1, TypePartsNext
<1>3. /\ pc' \notin Persisting /\ call = NoCall /\ UNCHANGED call
      /\ pc' \notin {"unlink", "main", "end", "finish", "super", "snapshot", "marksynced", "reset"}
  BY DEF Persisting, Before, After, Down, Control, Calling
<1>4. Calling'
  BY <1>3 DEF Calling
<1>5. Numbers'
  BY <1>3 DEF Control, Numbers, Unused, memory, NoCall
<1>6. Rolling'
  BY <1>3 DEF Rolling
<1> QED
  BY <1>2, <1>4, <1>5, <1>6 DEF Control

\* A superblock has a number.
LEMMA SuperblockSeq ==
  ASSUME Control, NEW z \in Zones, HasSuperblock(z)
  PROVE  log[z][1].seq \in Nat /\ z \in Nat
<1>1. log[z] \in Seq(LogRecord) /\ log[z] # <<>> /\ log[z][1].tag = "super"
  BY ControlTypes DEF HasSuperblock
<1>2. log[z][1] \in LogRecord
  BY <1>1
<1>3. log[z][1] \in Super
  BY <1>1, <1>2, RecordFields, SnapshotFields DEF LogRecord
<1> QED
  BY <1>3, RecordFields DEF Zones

\* There is one newest zone among those that are ready.
LEMMA NewestExists ==
  ASSUME Control, NEW h \in Zones, Ready(h)
  PROVE  \E z \in Zones : Newest(z)
<1> DEFINE S == {z \in Zones : Ready(z)}
           R == {p \in S \X S : Newer(p[1], p[2])}
<1>1. \A z \in S : z \in Zones /\ z \in Nat /\ log[z][1].seq \in Nat
  BY SuperblockSeq DEF Ready
<1>2. IsFiniteSet(S) /\ S # {}
  <2>1. IsFiniteSet(Zones)
    <3>1. 1 \in Int /\ MetaZones \in Int
      OBVIOUS
    <3> QED
      BY Zenon, <3>1, FS_Interval DEF Zones
  <2>2. S \subseteq Zones /\ h \in S
    OBVIOUS
  <2> HIDE DEF S
  <2> QED
    BY <2>1, <2>2, FS_Subset
<1>3. \A x, y \in S : <<x, y>> \in R <=> Newer(x, y)
  OBVIOUS
<1> HIDE DEF S, R
<1>4. \A x \in S : <<x, x>> \notin R
  BY <1>1, <1>3 DEF Newer
<1>5. \A x, y, z \in S : <<x, y>> \in R /\ <<y, z>> \in R => <<x, z>> \in R
  BY <1>1, <1>3 DEF Newer
<1>6. PICK x \in S : \A y \in S : <<y, x>> \notin R
  BY <1>2, <1>4, <1>5, Maximal
<1>7. ASSUME NEW y \in S \ {x} PROVE Newer(x, y)
  <2>1. ~Newer(y, x)
    BY <1>3, <1>6
  <2>2. x \in Nat /\ y \in Nat /\ x # y /\ log[x][1].seq \in Nat /\ log[y][1].seq \in Nat
    BY <1>1
  <2> QED
    BY <2>1, <2>2 DEF Newer
<1> QED
  BY <1>7 DEF S, Newest

\* Mount takes it.
LEMMA NewestIsRecovered ==
  ASSUME Control, NEW h \in Zones, Newest(h)
  PROVE  /\ RecoveredZone = h
         /\ (\A z \in Zones : ~Misplaced(z)) => Recovered = RecoverFrom(h)
<1> DEFINE S == {z \in Zones : Ready(z)}
<1>1. h \in S /\ \A y \in S \ {h} : Newer(h, y)
  BY DEF Newest
<1>2. \A z \in S : z \in Nat /\ log[z][1].seq \in Nat
  BY SuperblockSeq DEF Ready
<1>3. RecoveredZone = CHOOSE z \in S : \A y \in S \ {z} : Newer(z, y)
  BY <1>1 DEF RecoveredZone
<1> HIDE DEF S
<1>4. RecoveredZone \in S /\ \A y \in S \ {RecoveredZone} : Newer(RecoveredZone, y)
  BY <1>1, <1>3
<1>5. RecoveredZone = h
  BY <1>1, <1>2, <1>4 DEF Newer
<1>6. h # 0
  BY DEF Zones
<1> QED
  BY <1>5, <1>6 DEF Recovered

\* A mount that finds a namespace finds it in a zone.
LEMMA MountFinds ==
  ASSUME Control, Recovered.status = "ok"
  PROVE  /\ RecoveredZone \in Zones /\ Newest(RecoveredZone)
         /\ Recovered = RecoverFrom(RecoveredZone) /\ \A z \in Zones : ~Misplaced(z)
<1>0. \A z \in Zones : ~Misplaced(z)
  <2>1. Corrupt(EmptyState).status = "corrupt"
    BY EmptyStateType DEF Corrupt, State
  <2> QED
    BY <2>1 DEF Recovered
<1>1. RecoveredZone # 0
  BY <1>0, EmptyStateType DEF Recovered
<1>2. PICK h \in Zones : Ready(h)
  BY <1>1 DEF RecoveredZone
<1>3. PICK z \in Zones : Newest(z)
  BY <1>2, NewestExists
<1> QED
  BY <1>0, <1>3, NewestIsRecovered

\* Mount: what it finds is in memory, and it goes on to roll.
LEMMA MountFacts ==
  ASSUME Control, Mount
  PROVE  LET h == RecoveredZone
             st == RecoverFrom(h)
         IN  /\ pc = "down" /\ pc' = "alloc" /\ h \in Zones /\ Newest(h)
             /\ st \in State /\ st.status = "ok"
             /\ files_' = st.files /\ linkfiles_' = st.links /\ extents_' = st.ext
             /\ nr_synced_extents_' = [id \in Ids |-> Len(st.ext[id])]
             /\ meta_log_' = h /\ sequence_' = log[h][1].seq /\ sequence_' \in Nat
             /\ Mounting' /\ call'.name = "mount"
             /\ durable' = st.files /\ goal' = st.files
             /\ trusted' = (trusted \/ LinksAgree(st.files, st.links))
             /\ UNCHANGED <<device, old_meta_log, crashes, errors>>
<1>1. /\ pc = "down" /\ Recovered.status = "ok"
      /\ files_' = Recovered.files /\ linkfiles_' = Recovered.links /\ extents_' = Recovered.ext
      /\ nr_synced_extents_' = [id \in Ids |-> Len(Recovered.ext[id])]
      /\ meta_log_' = RecoveredZone
      /\ sequence_' = log[RecoveredZone][1].seq
      /\ call' = [NoCall EXCEPT !.name = "mount"] /\ record' = [tag |-> "mount"]
      /\ durable' = files_' /\ goal' = files_'
      /\ trusted' = (trusted \/ LinksAgree(Recovered.files, Recovered.links))
      /\ pc' = "alloc"
      /\ UNCHANGED <<device, old_meta_log, crashes, errors>>
  BY DEF Mount
<1>2. /\ RecoveredZone \in Zones /\ Newest(RecoveredZone)
      /\ Recovered = RecoverFrom(RecoveredZone)
  BY <1>1, MountFinds
<1>3. RecoverFrom(RecoveredZone) \in State
  BY <1>2 DEF Control, Decodable, Sound, RecoverFrom
<1>4. log[RecoveredZone][1].seq \in Nat
  BY <1>2, SuperblockSeq DEF Newest, Ready
<1>5. Mounting' /\ call'.name = "mount"
  BY <1>1 DEF Mounting, NoCall
<1> QED
  BY <1>1, <1>2, <1>3, <1>4, <1>5

\* The number of the next file is above all that the zone has.
LEMMA MountNumbers ==
  ASSUME Control, Mount
  PROVE  /\ next_file_id_' \in Nat \ {0}
         /\ \A id \in Ids : id >= next_file_id_' => Unused(id)'
<1> DEFINE h == RecoveredZone
           st == RecoverFrom(h)
<1>1. /\ h \in Zones /\ Newest(h) /\ st \in State
      /\ files_' = st.files /\ linkfiles_' = st.links /\ extents_' = st.ext
      /\ nr_synced_extents_' = [id \in Ids |-> Len(st.ext[id])]
  BY MountFacts
<1>2. next_file_id_' = 1 + Max(SeenIds \cup {0})
  BY DEF Mount
<1>3. SeenIds \in SUBSET Ids
  BY DEF SeenIds, IdsIn
<1> DEFINE m == Max(SeenIds \cup {0})
<1>4. m \in Nat /\ \A x \in SeenIds : x <= m
  BY <1>3, MaxIs
<1> HIDE DEF m
<1>5. next_file_id_' = 1 + m /\ next_file_id_' \in Nat \ {0}
  BY <1>2, <1>4 DEF m
<1>6. IdsIn(log[h]) \subseteq SeenIds
  <2>1. HasSuperblock(h) /\ ~Newer(h, h)
    <3>1. HasSuperblock(h) /\ log[h][1].seq \in Nat /\ h \in Nat
      BY <1>1, SuperblockSeq DEF Newest, Ready
    <3> QED
      BY <3>1 DEF Newer
  <2> QED
    BY <1>1, <2>1 DEF SeenIds
<1>7. ASSUME NEW id \in Ids, id >= next_file_id_' PROVE Unused(id)'
  <2>1. id \notin IdsIn(log[h])
    BY <1>4, <1>5, <1>6, <1>7 DEF Ids
  <2>2. st.links[id] = <<>> /\ st.ext[id] = <<>> /\ \A n \in Names : st.files[n] # id
    BY <1>1, <2>1 DEF Control, Decodable, Sound, RecoverFrom
  <2> HIDE DEF st, h
  <2> QED
    BY <1>1, <2>2 DEF Unused
<1> QED
  BY <1>5, <1>7

\* Mount
LEMMA MountControl ==
  ASSUME Control, Mount
  PROVE  Control'
<1> DEFINE h == RecoveredZone
           st == RecoverFrom(h)
<1>1. /\ pc' = "alloc" /\ h \in Zones /\ st \in State
      /\ files_' = st.files /\ linkfiles_' = st.links /\ extents_' = st.ext
      /\ nr_synced_extents_' = [id \in Ids |-> Len(st.ext[id])]
      /\ meta_log_' = h /\ sequence_' \in Nat
      /\ Mounting' /\ call'.name = "mount"
      /\ durable' = st.files /\ goal' = st.files
      /\ trusted' = (trusted \/ LinksAgree(st.files, st.links))
      /\ UNCHANGED <<device, old_meta_log, crashes, errors>>
  BY MountFacts
<1>2. st.files \in Namespace /\ st.links \in [Ids -> Seq(Names)] /\ st.ext \in [Ids -> Seq(Nat)]
  BY <1>1, StateFields DEF Namespace
<1> HIDE DEF h, st
<1>3. MemoryTypes'
  BY <1>1, <1>2, MountNumbers DEF MemoryTypes
<1>4. trusted' \in BOOLEAN
  BY <1>1, ControlTypes DEF HistoryTypes, LinksAgree
<1>5. DeviceTypes' /\ RollTypes' /\ HistoryTypes' /\ pc' \in Places
  BY <1>1, <1>2, <1>4, ControlTypes, TypesSame
     DEF RollTypes, HistoryTypes, Places, Persisting, Before
<1>6. Types' /\ Decodable'
  BY <1>3, <1>5, TypePartsNext
<1>7. Calling'
  BY <1>1 DEF Calling, Down
<1>8. ~Deleting'
  BY <1>1 DEF Deleting
<1>9. Numbers'
  BY <1>1, <1>8, MountNumbers DEF Numbers
<1>10. Rolling'
  BY <1>1 DEF Rolling
<1> QED
  BY <1>6, <1>7, <1>9, <1>10 DEF Control

\* A crash within a snapshot leaves part of it.
LEMMA TornFacts ==
  ASSUME Control, CrashInSnapshot
  PROVE  pc = "snapshot" /\ DeviceTypes' /\ \E b \in Nat : Wrote(meta_log_, [tag |-> "torn"], b)
<1>1. /\ pc = "snapshot"
      /\ log' = [log EXCEPT ![meta_log_] = Append(@, [tag |-> "torn"])]
  BY DEF CrashInSnapshot
<1>2. PICK b \in 1..(PhysSize(EncodeSnapshotTo) - 1) :
        capacity_' = [capacity_ EXCEPT ![meta_log_] = @ - b]
  BY DEF CrashInSnapshot
<1> DEFINE p == PhysSize(EncodeSnapshotTo)
<1>3. p \in Nat /\ p <= ZoneBlocks - 1 /\ capacity_[meta_log_] = ZoneBlocks - 1
  BY <1>1, SnapshotFits DEF Control, Types, Rolling
<1> HIDE DEF p
<1>4. b \in 1..(p - 1)
  BY <1>2 DEF p
<1>5. b \in Nat /\ b <= capacity_[meta_log_]
  BY <1>3, <1>4
<1>6. [tag |-> "torn"] \in LogRecord
  BY DEF LogRecord, Mark
<1> QED
  BY <1>1, <1>2, <1>5, <1>6, WriteKeeps, ControlTypes

\* The initial state
LEMMA InitControl == Init => Control
<1> SUFFICES ASSUME Init PROVE Control
  OBVIOUS
<1>1. /\ log = [z \in Zones |-> <<>>] /\ capacity_ = [z \in Zones |-> ZoneBlocks]
      /\ files_ = EmptyState.files /\ linkfiles_ = EmptyState.links
      /\ extents_ = EmptyState.ext /\ nr_synced_extents_ = [id \in Ids |-> 0]
      /\ next_file_id_ = 1 /\ sequence_ = 0 /\ meta_log_ = 1 /\ old_meta_log = 1
      /\ pc = "blank" /\ call = NoCall /\ record = NoRecord
      /\ durable = files_ /\ goal = files_ /\ trusted = TRUE
  BY DEF Init
<1>2. EmptyState \in State
  BY EmptyStateType
<1>3. /\ files_ \in Namespace /\ linkfiles_ \in [Ids -> Seq(Names)]
      /\ extents_ \in [Ids -> Seq(Nat)]
  BY <1>1, <1>2, StateFields DEF Namespace
<1>4. MemoryTypes /\ HistoryTypes /\ RollTypes /\ pc \in Places
  <2>1. MemoryTypes
    BY <1>1, <1>3 DEF MemoryTypes
  <2>2. HistoryTypes
    BY <1>1, <1>3 DEF HistoryTypes
  <2> QED
    BY <1>1, <2>1, <2>2 DEF RollTypes, Zones, Places, Down
<1>5. DeviceTypes
  <2>1. log \in [Zones -> Seq(LogRecord)]
    BY <1>1
  <2>2. capacity_ \in [Zones -> 0..ZoneBlocks]
    BY <1>1
  <2>3. Decodable
    BY <1>1, SoundEmpty DEF Decodable
  <2> QED
    BY <2>1, <2>2, <2>3 DEF DeviceTypes
<1>6. Types /\ Decodable
  BY <1>4, <1>5, TypeParts
<1>7. pc \notin Persisting
  BY <1>1 DEF Persisting, Before, After
<1>8. Calling
  BY <1>1, <1>7 DEF Calling, Blank, Down
<1>9. \A id \in Ids : Unused(id)
  BY <1>1, EmptyStateType, NoFileIsNone DEF Unused
<1>10. Numbers
  BY <1>1, <1>7, <1>9 DEF Numbers, NoCall
<1>11. Rolling
  BY <1>1 DEF Rolling
<1> QED
  BY <1>6, <1>8, <1>10, <1>11 DEF Control

\* Nothing happens.
LEMMA StutterControl ==
  ASSUME Control, UNCHANGED vars
  PROVE  Control'
<1>1. UNCHANGED <<device, memory, roll, pc, call, record, history>>
  BY DEF vars
<1>2. Types' /\ Decodable'
  BY <1>1, ControlTypes, TypesSame, TypePartsNext DEF Control, Types, Places
<1>3. /\ UNCHANGED <<files_, linkfiles_, extents_, nr_synced_extents_, next_file_id_>>
      /\ UNCHANGED <<log, capacity_, meta_log_, old_meta_log, sequence_, durable, goal, trusted>>
  BY <1>1 DEF memory, device, roll, history
<1>4. Calling'
  BY Zenon, <1>1, <1>3, CallSame DEF Control, Calling, Blank
<1>5. Opening' <=> Opening
  BY Zenon, <1>1, CallSame DEF Opening
<1>6. \A x \in Ids : Unused(x) => Unused(x)'
  BY <1>3 DEF Unused
<1>7. Numbers'
  BY Zenon, <1>1, <1>3, <1>5, <1>6, CallSame DEF Control, Numbers
<1>8. \A z \in Zones : RecoverFrom(z)' = RecoverFrom(z)
  BY <1>3, LogSame
<1>9. Rolling'
  BY <1>1, <1>3, <1>8 DEF Control, Types, Rolling
<1> QED
  BY <1>2, <1>4, <1>7, <1>9 DEF Control

\* Every step keeps control.
LEMMA NextControl == Control /\ [Next]_vars => Control'
<1> SUFFICES ASSUME Control, [Next]_vars PROVE Control'
  OBVIOUS
<1>1. ASSUME NEW id \in Ids, PushExtent(id) PROVE Control'
  BY <1>1, PushControl
<1>2. CASE MkFS
  BY <1>2, MkFSFacts, StayDown DEF Down
<1>3. CASE MountCorrupted
  BY <1>3, StayDown, ControlTypes, TypesSame DEF MountCorrupted, Down
<1>4. CASE Crash
  BY <1>4, DownControl, ControlTypes, TypesSame DEF Crash
<1>5. CASE CrashInSnapshot
  <2>1. NoMemory /\ pc' = "down" /\ trusted' = FALSE /\ UNCHANGED <<durable, goal>>
    BY <1>5 DEF CrashInSnapshot
  <2>2. HistoryTypes'
    BY <2>1, ControlTypes DEF HistoryTypes
  <2> QED
    BY <1>5, <2>1, <2>2, TornFacts, DownControl
<1> QED
  BY <1>1, <1>2, <1>3, <1>4, <1>5, CallControl, ChangeControl, PersistAllControl,
     FinishAllControl, MountControl, StutterControl DEF Next

\* What every reachable state has of types, calls, numbers of files and zones
LEMMA ControlAlways == Spec => []Control
BY InitControl, NextControl, PTL DEF Spec

\* Files that were overtaken are files, and no more extents count as synced than there
\* are.
Counts == /\ overtaken \subseteq Ids
          /\ \A id \in Ids : nr_synced_extents_[id] <= Len(extents_[id])

\* A step that touches neither
LEMMA CountsSame ==
  ASSUME Counts, UNCHANGED <<extents_, nr_synced_extents_>>, overtaken' \subseteq overtaken
  PROVE  Counts'
BY DEF Counts

\* Every step keeps the counts.
LEMMA NextCounts == Control /\ Counts /\ [Next]_vars => Counts'
<1> SUFFICES ASSUME Control, Counts, [Next]_vars PROVE Counts'
  OBVIOUS
<1>1. /\ extents_ \in [Ids -> Seq(Nat)] /\ nr_synced_extents_ \in [Ids -> Nat]
      /\ \A id \in Ids : Len(extents_[id]) \in Nat
  BY DEF Control, Types
<1>2. CASE CallSome
  BY <1>2, CountsSame DEF CallSome, OpenWritableFile, DeleteFile, SyncFileMetadata, RenameFile,
     LinkFile, Begin, memory, history
<1>3. CASE Change
  BY <1>3, CountsSame DEF Change, DeleteFileNoLock, OpenNewFile, RenameFileNoLock, LinkFileLocked,
     SyncFileMetadataNoLock, PersistRecord
<1>4. CASE Persist /\ ~SnapshotSynced
  BY <1>4, CountsSame, EndFacts DEF Persist, AddRecordOk, AddRecordNoSpace, AddRecordError, AllocateMetaZone,
     FinishOldZone, AddSuperblock, WriteSnapshotLocked, ResetOldZone, memory, history
<1>5. CASE SnapshotSynced
  BY <1>1, <1>5 DEF SnapshotSynced, Counts, history
<1>6. CASE OpenPersisted \/ UpdatePersisted
  <2>1. /\ nr_synced_extents_' = [nr_synced_extents_ EXCEPT ![call.id] = Len(extents_[call.id])]
        /\ UNCHANGED <<extents_, overtaken>>
    BY <1>6 DEF OpenPersisted, UpdatePersisted, MetadataSynced, Return
  <2> QED
    BY <1>1, <2>1 DEF Counts
<1>7. CASE DeletePersisted
  <2> DEFINE gone == linkfiles_[record.id] = <<>>
  <2>1. /\ extents_' = IF gone THEN [extents_ EXCEPT ![record.id] = <<>>] ELSE extents_
        /\ nr_synced_extents_' =
              IF gone THEN [nr_synced_extents_ EXCEPT ![record.id] = 0] ELSE nr_synced_extents_
        /\ UNCHANGED overtaken
    BY <1>7 DEF DeletePersisted, Return
  <2> HIDE DEF gone
  <2>2. ASSUME NEW id \in Ids PROVE nr_synced_extents_'[id] <= Len(extents_'[id])
    <3>1. CASE gone /\ id = record.id
      <4>1. extents_'[id] = <<>> /\ nr_synced_extents_'[id] = 0
        BY <1>1, <2>1, <3>1
      <4> QED
        BY <4>1
    <3>2. CASE ~(gone /\ id = record.id)
      <4>1. extents_'[id] = extents_[id] /\ nr_synced_extents_'[id] = nr_synced_extents_[id]
        BY <1>1, <2>1, <3>2
      <4> QED
        BY <4>1 DEF Counts
    <3> QED
      BY <3>1, <3>2
  <2> QED
    BY <2>1, <2>2 DEF Counts
<1>8. CASE MountDone \/ DeleteFailed \/ OpenFailed \/ RenameFailed \/ RenameLinkFailed \/ LinkFailed
           \/ SyncFailed
  BY <1>8, CountsSame DEF MountDone, DeleteFailed, OpenFailed, RenameFailed, RenameLinkFailed,
     LinkFailed, SyncFailed, Return
<1>9. CASE MountFailed \/ Crash \/ CrashInSnapshot
  <2>1. NoMemory /\ UNCHANGED overtaken
    BY <1>9 DEF MountFailed, Crash, CrashInSnapshot, history
  <2>2. ASSUME NEW id \in Ids PROVE extents_'[id] = <<>> /\ nr_synced_extents_'[id] = 0
    BY <2>1 DEF NoMemory, EmptyState
  <2> QED
    BY <2>1, <2>2 DEF Counts
<1>10. CASE \E id \in Ids : PushExtent(id)
  <2>1. PICK x \in Ids : PushExtent(x)
    BY <1>10
  <2>2. PICK v : extents_' = [extents_ EXCEPT ![x] = Append(@, v)]
    BY <2>1 DEF PushExtent
  <2>3. UNCHANGED nr_synced_extents_ /\ overtaken' \subseteq Ids
    BY <2>1 DEF PushExtent, Counts
  <2>4. ASSUME NEW id \in Ids PROVE nr_synced_extents_[id] <= Len(extents_'[id])
    <3>1. Len(extents_'[id]) >= Len(extents_[id])
      <4>1. CASE id = x
        <5>1. extents_'[id] = Append(extents_[id], v) /\ extents_[id] \in Seq(Nat)
          BY <1>1, <2>2, <4>1
        <5>2. Len(Append(extents_[id], v)) = Len(extents_[id]) + 1
          BY <5>1
        <5> QED
          BY <1>1, <5>1, <5>2
      <4>2. CASE id # x
        BY <1>1, <2>2, <4>2
      <4> QED
        BY <4>1, <4>2
    <3>2. Len(extents_'[id]) \in Nat
      <4>1. extents_[id] \in Seq(Nat)
        BY <1>1
      <4>2. extents_'[id] = extents_[id] \/ Len(extents_'[id]) = Len(extents_[id]) + 1
        BY <1>1, <2>2, <4>1
      <4> QED
        BY <1>1, <4>2
    <3> QED
      BY <1>1, <3>1, <3>2 DEF Counts
  <2> QED
    BY <2>3, <2>4 DEF Counts
<1>11. CASE MkFS \/ MountCorrupted \/ UNCHANGED vars
  BY <1>11, CountsSame DEF MkFS, MountCorrupted, vars, memory, history
<1>12. CASE Mount
  <2>1. /\ extents_' = Recovered.ext /\ overtaken' = {}
        /\ nr_synced_extents_' = [id \in Ids |-> Len(Recovered.ext[id])]
    BY <1>12 DEF Mount
  <2>2. Recovered \in State
    BY <1>12, MountFacts, MountFinds DEF Mount
  <2>3. \A id \in Ids : Len(Recovered.ext[id]) \in Nat
    BY <2>2, StateFields
  <2> QED
    BY <2>1, <2>3 DEF Counts
<1> QED
  BY <1>2, <1>3, <1>4, <1>5, <1>6, <1>7, <1>8, <1>9, <1>10, <1>11, <1>12 DEF Next, Finish

\* The counts in every reachable state
LEMMA CountsAlways == Spec => []Counts
<1>1. Init => Counts
  BY DEF Init, Counts, EmptyState
<1> QED
  BY <1>1, NextCounts, ControlAlways, PTL DEF Spec

\* The types that the invariant has are those the runs check.
LEMMA ControlTypeOK == Control /\ Counts => TypeOK
<1> SUFFICES ASSUME Control, Counts PROVE TypeOK
  OBVIOUS
<1>1. \A r \in LogRecord : IsRecord(r)
  <2> TAKE r \in LogRecord
  <2>1. CASE r \in Snapshot
    BY <2>1, SnapshotFields DEF IsRecord, FileType
  <2>2. CASE r \notin Snapshot
    BY <2>2, RecordFields DEF LogRecord, IsRecord, FileType
  <2> QED
    BY <2>1, <2>2
<1>2. \A z \in Zones : \A i \in DOMAIN log[z] : log[z][i] \in LogRecord
  BY ControlTypes
<1> QED
  BY <1>1, <1>2 DEF Control, Types, TypeOK, Counts

\* The variables have their types in every reachable state, and no zone of the log is
\* written beyond its capacity: neither by records and snapshots, nor by the end record
\* and the superblock of a roll (AddRecord, RollMetaZoneLocked, EncodeSnapshotTo).
THEOREM MetaLogTypes == Spec => []TypeOK
BY ControlAlways, CountsAlways, ControlTypeOK, PTL

-----------------------------------------------------------------------------
(***************************************************************************)
(* Names: what a mount decodes                                             *)
(***************************************************************************)

\* The namespace F has the names of the record for a file that is known, instead of its
\* old ones.
Exchanges(F, st, r) ==
  /\ LinksAgree(st.files, st.links) /\ \E n \in Names : st.files[n] = r.id
  /\ IsInjective(r.links) /\ \A n \in ToSet(r.links) : st.files[n] \in {r.id, NoFile}
  /\ \A n \in Names : F[n] = r.id <=> n \in ToSet(r.links)
  /\ \A n \in Names : F[n] # r.id => F[n] = IF st.files[n] = r.id THEN NoFile ELSE st.files[n]

\* An update of a known file: its names are exchanged for those of the record
\* (DecodeFileUpdateFrom, MergeUpdate).
LEMMA UpdateKnown ==
  ASSUME NEW st \in State, NEW r \in Update, NEW F \in Namespace, Exchanges(F, st, r)
  PROVE  LET to == DecodeFileUpdateFrom(st, r)
         IN  /\ to.status = st.status /\ to.done = st.done /\ to.files = F
             /\ LinksAgree(F, to.links)
             /\ to.ext = [st.ext EXCEPT ![r.id] = st.ext[r.id] \o r.ext]
<1> USE DEF Exchanges
<1>0. r.id \in Ids /\ r.links \in Seq(Names) /\ r.ext \in Seq(Nat) /\ r.id # NoFile
  BY RecordFields, NoFileIsNone
<1>00. /\ st.status \in {"notfound", "ok", "corrupt"} /\ st.done \in BOOLEAN
       /\ st.files \in [Names -> Ids \cup {NoFile}]
       /\ st.links \in [Ids -> Seq(Names)] /\ st.ext \in [Ids -> Seq(Nat)]
  BY StateFields
<1> DEFINE to == DecodeFileUpdateFrom(st, r)
           old == ToSet(st.links[r.id])
           new == ToSet(r.links)
           files == [n \in Names |->
                       IF n \in new /\ (n \in old \/ st.files[n] = NoFile) THEN r.id
                       ELSE IF n \in old THEN NoFile ELSE st.files[n]]
           missing == \/ \E n \in old : st.files[n] = NoFile
                      \/ Cardinality(old) < Len(st.links[r.id])
           links == [st.links EXCEPT ![r.id] = r.links]
           ext == [st.ext EXCEPT ![r.id] = st.ext[r.id] \o r.ext]
<1>1. old \subseteq Names /\ new \subseteq Names
  BY <1>0, <1>00 DEF ToSet
<1>2. IsInjective(st.links[r.id]) /\ \A n \in Names : n \in old <=> st.files[n] = r.id
  BY <1>0 DEF LinksAgree
<1>3. Cardinality(old) = Len(st.links[r.id]) /\ Len(st.links[r.id]) \in Nat
  BY <1>0, <1>00, <1>2, CountLinks
<1>4. to = IF missing THEN Corrupt(st) ELSE [MergeUpdate(st, r) EXCEPT !.files = files]
  BY DEF DecodeFileUpdateFrom
<1> HIDE DEF old, new
<1>5. ~missing
  BY <1>0, <1>1, <1>2, <1>3
<1>6. files = F
  <2>1. F = [n \in Names |-> F[n]]
    BY DEF Namespace
  <2>2. ASSUME NEW n \in Names
        PROVE  F[n] = IF n \in new /\ (n \in old \/ st.files[n] = NoFile) THEN r.id
                      ELSE IF n \in old THEN NoFile ELSE st.files[n]
    <3>1. CASE n \in new
      BY <3>1, <1>2 DEF new
    <3>2. CASE n \notin new
      BY <3>2, <1>2 DEF new
    <3> QED
      BY <3>1, <3>2
  <2> QED
    BY <2>1, <2>2
<1> HIDE DEF files, missing
<1>7. MergeUpdate(st, r) = [st EXCEPT !.links = links, !.ext = ext]
  BY <1>0, <1>00 DEF MergeUpdate, State
<1> HIDE DEF links, ext
<1>8. to = [st EXCEPT !.links = links, !.ext = ext, !.files = files]
  BY <1>4, <1>5, <1>7
<1>9. st = [status |-> st.status, done |-> st.done, files |-> st.files, links |-> st.links, ext |-> st.ext]
  BY DEF State
<1>10. /\ to.status = st.status /\ to.done = st.done /\ to.files = files /\ to.links = links
       /\ to.ext = ext
  BY <1>8, <1>9
<1>11. LinksAgree(F, links)
  <2> SUFFICES ASSUME NEW id \in Ids
               PROVE  /\ IsInjective(links[id])
                      /\ \A n \in Names : n \in ToSet(links[id]) <=> F[n] = id
    BY DEF LinksAgree
  <2>1. CASE id = r.id
    BY <2>1, <1>0, <1>00 DEF links
  <2>2. CASE id # r.id
    <3>1. links[id] = st.links[id] /\ id # NoFile
      BY <2>2, <1>00, NoFileIsNone DEF links
    <3>2. IsInjective(links[id]) /\ \A n \in Names : n \in ToSet(links[id]) <=> st.files[n] = id
      BY <3>1 DEF LinksAgree
    <3>3. \A n \in Names : st.files[n] = id <=> F[n] = id
      <4> TAKE n \in Names
      <4>1. CASE F[n] = r.id
        BY <4>1, <2>2, <3>1, <1>1
      <4>2. CASE F[n] # r.id
        BY <4>2, <2>2, <3>1
      <4> QED
        BY <4>1, <4>2
    <3> QED
      BY <3>2, <3>3
  <2> QED
    BY <2>1, <2>2
<1> QED
  BY <1>6, <1>10, <1>11 DEF ext

\* An update of a new file: it gets its name.
LEMMA UpdateUnknown ==
  ASSUME NEW st \in State, NEW r \in Update, LinksAgree(st.files, st.links),
         \A n \in Names : st.files[n] # r.id,
         NEW d \in Names, r.links = <<d>>, st.files[d] = NoFile
  PROVE  LET to == DecodeFileUpdateFrom(st, r)
             F == [st.files EXCEPT ![d] = r.id]
         IN  /\ to.status = st.status /\ to.done = st.done /\ to.files = F
             /\ LinksAgree(F, to.links)
             /\ to.ext = [st.ext EXCEPT ![r.id] = r.ext]
<1>0. r.id \in Ids /\ r.links \in Seq(Names) /\ r.ext \in Seq(Nat) /\ r.id # NoFile
  BY RecordFields, NoFileIsNone
<1>00. /\ st.status \in {"notfound", "ok", "corrupt"} /\ st.done \in BOOLEAN
       /\ st.files \in [Names -> Ids \cup {NoFile}]
       /\ st.links \in [Ids -> Seq(Names)] /\ st.ext \in [Ids -> Seq(Nat)]
  BY StateFields
<1> DEFINE to == DecodeFileUpdateFrom(st, r)
           files == [n \in Names |->
                       IF n \in {r.links[1]} /\ (n \in {} \/ st.files[n] = NoFile) THEN r.id
                       ELSE IF n \in {} THEN NoFile ELSE st.files[n]]
           F == [st.files EXCEPT ![d] = r.id]
           links == [st.links EXCEPT ![r.id] = r.links]
           ext == [st.ext EXCEPT ![r.id] = r.ext]
<1>1. to = [st EXCEPT !.files = files, !.links[r.id] = r.links, !.ext[r.id] = r.ext]
  BY DEF DecodeFileUpdateFrom
<1>2. files = F
  <2>1. r.links[1] = d
    OBVIOUS
  <2> QED
    BY <2>1, <1>00
<1>3. st = [status |-> st.status, done |-> st.done, files |-> st.files, links |-> st.links, ext |-> st.ext]
  BY DEF State
<1> HIDE DEF files
<1>4. to = [st EXCEPT !.files = files, !.links = links, !.ext = ext]
  BY <1>1, <1>0, <1>00, <1>3
<1> HIDE DEF links, ext
<1>5. /\ to.status = st.status /\ to.done = st.done /\ to.files = files /\ to.links = links
      /\ to.ext = ext
  BY <1>3, <1>4
<1>6. F[d] = r.id /\ \A n \in Names \ {d} : F[n] = st.files[n]
  BY <1>00
<1> HIDE DEF F
<1>7. LinksAgree(F, links)
  <2> SUFFICES ASSUME NEW id \in Ids
               PROVE  /\ IsInjective(links[id])
                      /\ \A n \in Names : n \in ToSet(links[id]) <=> F[n] = id
    BY DEF LinksAgree
  <2>1. CASE id = r.id
    <3>1. links[id] = <<d>>
      BY <2>1, <1>0, <1>00 DEF links
    <3>2. IsInjective(<<d>>) /\ ToSet(<<d>>) = {d}
      BY DEF IsInjective, ToSet
    <3> QED
      BY <2>1, <3>1, <3>2, <1>6
  <2>2. CASE id # r.id
    <3>1. links[id] = st.links[id] /\ id # NoFile
      BY <2>2, <1>00, NoFileIsNone DEF links
    <3>2. IsInjective(links[id]) /\ \A n \in Names : n \in ToSet(links[id]) <=> st.files[n] = id
      BY <3>1 DEF LinksAgree
    <3> QED
      BY <2>2, <3>1, <3>2, <1>6
  <2> QED
    BY <2>1, <2>2
<1> QED
  BY <1>2, <1>5, <1>7 DEF ext, F

\* A deletion takes the name away (DecodeFileDeletionFrom).
LEMMA DeletionKnown ==
  ASSUME NEW st \in State, NEW r \in Deletion, LinksAgree(st.files, st.links),
         st.files[r.name] = r.id
  PROVE  LET to == DecodeFileDeletionFrom(st, r)
             F == [st.files EXCEPT ![r.name] = NoFile]
         IN  /\ to.status = st.status /\ to.done = st.done /\ to.files = F
             /\ LinksAgree(F, to.links)
             /\ \A id \in Ids : (\E n \in Names : F[n] = id) => to.ext[id] = st.ext[id]
<1>0. r.id \in Ids /\ r.name \in Names /\ r.id # NoFile
  BY RecordFields, NoFileIsNone
<1>00. /\ st.status \in {"notfound", "ok", "corrupt"} /\ st.done \in BOOLEAN
       /\ st.files \in [Names -> Ids \cup {NoFile}]
       /\ st.links \in [Ids -> Seq(Names)] /\ st.ext \in [Ids -> Seq(Nat)]
  BY StateFields
<1> DEFINE to == DecodeFileDeletionFrom(st, r)
           F == [st.files EXCEPT ![r.name] = NoFile]
           l == RemoveFirst(st.links[r.id], r.name)
           links == [st.links EXCEPT ![r.id] = l]
           e == IF l = <<>> THEN <<>> ELSE st.ext[r.id]
           ext == [st.ext EXCEPT ![r.id] = e]
<1>1. to = [st EXCEPT !.files[r.name] = NoFile, !.links[r.id] = l, !.ext[r.id] = IF l = <<>> THEN <<>> ELSE @]
  BY DEF DecodeFileDeletionFrom
<1>2. IsInjective(st.links[r.id]) /\ \A n \in Names : n \in ToSet(st.links[r.id]) <=> st.files[n] = r.id
  BY <1>0 DEF LinksAgree
<1>3. IsInjective(l) /\ ToSet(l) = ToSet(st.links[r.id]) \ {r.name}
  BY <1>0, <1>00, <1>2, RemoveLink
<1>4. l = <<>> => ToSet(l) = {}
  BY EmptyLinks
<1>5. st = [status |-> st.status, done |-> st.done, files |-> st.files, links |-> st.links, ext |-> st.ext]
  BY DEF State
<1> HIDE DEF l
<1>6. to = [st EXCEPT !.files = F, !.links = links, !.ext = ext]
  BY <1>1, <1>0, <1>00, <1>5
<1>7. F[r.name] = NoFile /\ \A n \in Names \ {r.name} : F[n] = st.files[n]
  BY <1>0, <1>00
<1>8. links[r.id] = l /\ \A id \in Ids \ {r.id} : links[id] = st.links[id] /\ ext[id] = st.ext[id]
  BY <1>0, <1>00
<1>9. l # <<>> => ext[r.id] = st.ext[r.id]
  BY <1>0, <1>00
<1> HIDE DEF F, links, ext
<1>10. /\ to.status = st.status /\ to.done = st.done /\ to.files = F /\ to.links = links
       /\ to.ext = ext
  BY <1>5, <1>6
<1>11. LinksAgree(F, links)
  <2> SUFFICES ASSUME NEW id \in Ids
               PROVE  /\ IsInjective(links[id])
                      /\ \A n \in Names : n \in ToSet(links[id]) <=> F[n] = id
    BY DEF LinksAgree
  <2>1. CASE id = r.id
    BY <2>1, <1>0, <1>2, <1>3, <1>7, <1>8
  <2>2. CASE id # r.id
    <3>1. links[id] = st.links[id] /\ id # NoFile
      BY <2>2, <1>8, NoFileIsNone
    <3>2. IsInjective(links[id]) /\ \A n \in Names : n \in ToSet(links[id]) <=> st.files[n] = id
      BY <3>1 DEF LinksAgree
    <3> QED
      BY <2>2, <3>1, <3>2, <1>7
  <2> QED
    BY <2>1, <2>2
<1>12. ASSUME NEW id \in Ids, NEW n \in Names, F[n] = id PROVE ext[id] = st.ext[id]
  <2>1. CASE id = r.id
    <3>1. n \in ToSet(l)
      BY <2>1, <1>8, <1>11, <1>12 DEF LinksAgree
    <3> QED
      BY <2>1, <3>1, <1>4, <1>9
  <2>2. CASE id # r.id
    BY <2>2, <1>8
  <2> QED
    BY <2>1, <2>2
<1> QED
  BY <1>10, <1>11, <1>12 DEF F

\* The snapshot of a memory whose names and links agree is decoded to that memory
\* (EncodeSnapshotTo, DecodeSnapshotFrom).
LEMMA SnapshotOfMemory ==
  ASSUME files_ \in Namespace, linkfiles_ \in [Ids -> Seq(Names)], extents_ \in [Ids -> Seq(Nat)],
         \A id \in Live : /\ IsInjective(linkfiles_[id])
                          /\ \A n \in Names : n \in ToSet(linkfiles_[id]) <=> files_[n] = id
  PROVE  LET st == DecodeSnapshotFrom(EncodeSnapshotTo)
         IN  /\ st.status = "ok" /\ ~st.done /\ st.files = files_
             /\ LinksAgree(files_, st.links)
             /\ \A id \in Live : st.ext[id] = extents_[id]
<1> DEFINE r == EncodeSnapshotTo
           st == DecodeSnapshotFrom(r)
           Has(n) == {id \in DOMAIN r.files : \E i \in DOMAIN r.files[id].links :
                                                r.files[id].links[i] = n}
           f == [n \in Names |-> IF Has(n) = {} THEN NoFile ELSE CHOOSE id \in Has(n) : TRUE]
<1>1. /\ r \in Snapshot /\ DOMAIN r.files = Live
      /\ \A id \in Live : r.files[id].links = linkfiles_[id] /\ r.files[id].ext = extents_[id]
  BY EncodeSnapshotType
<1>2. /\ st.status = "ok" /\ ~st.done
      /\ \A id \in Ids \ Live : st.links[id] = <<>> /\ st.ext[id] = <<>>
      /\ \A id \in Live : st.links[id] = linkfiles_[id] /\ st.ext[id] = extents_[id]
  BY <1>1, SnapshotDecoded
<1>3. st.files = f
  BY DEF DecodeSnapshotFrom
<1> HIDE DEF r, st
<1>4. \A n \in Names : \A id : id \in Has(n) <=> id \in Live /\ n \in ToSet(linkfiles_[id])
  BY <1>1 DEF ToSet
<1> HIDE DEF Has
<1>5. \A n \in Names : \A id : id \in Has(n) <=> id \in Live /\ files_[n] = id
  BY <1>4
<1>6. \A n \in Names : files_[n] # NoFile => files_[n] \in Live
  BY DEF Live, Namespace
<1>7. ASSUME NEW n \in Names
      PROVE  (IF Has(n) = {} THEN NoFile ELSE CHOOSE id \in Has(n) : TRUE) = files_[n]
  <2>1. CASE files_[n] = NoFile
    <3>1. Has(n) = {}
      BY <2>1, <1>5, NoFileIsNone DEF Live
    <3> QED
      BY <2>1, <3>1
  <2>2. CASE files_[n] # NoFile
    <3>1. Has(n) = {files_[n]}
      BY <2>2, <1>5, <1>6
    <3> QED
      BY <3>1
  <2> QED
    BY <2>1, <2>2
<1>8. f = files_
  <2>1. files_ = [n \in Names |-> files_[n]]
    BY DEF Namespace
  <2> QED
    BY <2>1, <1>7
<1>9. LinksAgree(files_, st.links)
  <2> SUFFICES ASSUME NEW id \in Ids
               PROVE  /\ IsInjective(st.links[id])
                      /\ \A n \in Names : n \in ToSet(st.links[id]) <=> files_[n] = id
    BY DEF LinksAgree
  <2>1. CASE id \in Live
    BY <2>1, <1>2
  <2>2. CASE id \notin Live
    <3>1. \A n \in Names : files_[n] # id
      BY <2>2 DEF Live
    <3> QED
      BY <2>2, <3>1, <1>2, EmptyLinks
  <2> QED
    BY <2>1, <2>2
<1> QED
  BY <1>2, <1>3, <1>8, <1>9 DEF st, r

-----------------------------------------------------------------------------
(***************************************************************************)
(* Names: the zone a mount takes                                           *)
(***************************************************************************)

\* The newest zone stays so when it keeps its superblock and no other becomes ready.
LEMMA NewestKept ==
  ASSUME NEW h \in Zones, Newest(h), log'[h] # <<>>, log'[h][1] = log[h][1],
         RecoverFrom(h)'.status = "ok",
         \A y \in Zones \ {h} : Ready(y)' => Ready(y) /\ log'[y][1] = log[y][1]
  PROVE  Newest(h)'
<1>1. HasSuperblock(h) /\ \A y \in Zones \ {h} : Ready(y) => Newer(h, y)
  BY DEF Newest, Ready
<1>2. Ready(h)'
  BY <1>1 DEF Ready, HasSuperblock
<1>3. ASSUME NEW y \in Zones \ {h}, Ready(y)' PROVE Newer(h, y)'
  BY <1>1, <1>3 DEF Newer
<1> QED
  BY <1>2, <1>3 DEF Newest

\* A zone that is not written is as ready as before, an empty one is not ready.
LEMMA ReadyKept ==
  ASSUME NEW y \in Zones
  PROVE  /\ log'[y] = log[y] => (Ready(y)' <=> Ready(y))
         /\ log'[y] = <<>> => ~Ready(y)'
BY DEF Ready, HasSuperblock, RecoverFrom

\* A superblock alone does not make a zone ready (RecoverFrom).
LEMMA SuperNotReady ==
  ASSUME NEW q \in Nat
  PROVE  LET r == [tag |-> "super", seq |-> q]
         IN  Decoded(<<r>>) = EmptyState
<1> DEFINE r == [tag |-> "super", seq |-> q]
<1>1. r \in LogRecord /\ r.tag = "super" /\ <<>> \in Seq(LogRecord)
  BY DEF LogRecord, Super
<1> HIDE DEF r
<1>2. Append(<<>>, r) = <<r>>
  OBVIOUS
<1>3. Decoded(Append(<<>>, r)) = DecodeRecord(EmptyState, r)
  BY <1>1, DecodedAppend, DecodedEmpty
<1>4. DecodeRecord(EmptyState, r) = EmptyState
  BY <1>1 DEF DecodeRecord
<1> QED
  BY <1>2, <1>3, <1>4 DEF r

\* Home stays home when what a mount finds there stays.
LEMMA HomeKept ==
  ASSUME NEW h \in Zones, Home(h), UNCHANGED durable,
         log'[h] # <<>>, log'[h][1] = log[h][1],
         RecoverFrom(h)'.status = RecoverFrom(h).status,
         RecoverFrom(h)'.files = RecoverFrom(h).files,
         RecoverFrom(h)'.links = RecoverFrom(h).links,
         \A y \in Zones \ {h} : Ready(y)' => Ready(y) /\ log'[y][1] = log[y][1]
  PROVE  Home(h)'
<1>1. Newest(h)'
  BY NewestKept DEF Home
<1>2. /\ RecoverFrom(h).status = "ok" /\ RecoverFrom(h).files = durable
      /\ LinksAgree(durable, RecoverFrom(h).links)
  BY DEF Home
<1> QED
  BY <1>1, <1>2 DEF Home

\* Home has records.
LEMMA HomeHas ==
  ASSUME NEW h \in Zones, Home(h)
  PROVE  log[h] # <<>> /\ RecoverFrom(h).status = "ok" /\ HasSuperblock(h) /\ Newest(h)
BY DEF Home, Newest, Ready, HasSuperblock

\* It is still home when the log is left alone.
LEMMA HomeSame ==
  ASSUME NEW h \in Zones, Home(h), UNCHANGED <<log, durable>>
  PROVE  Home(h)'
BY LogSame DEF Home

\* A zone that is reset or gets its superblock does not take its place.
LEMMA HomeBeside ==
  ASSUME NEW h \in Zones, Home(h), UNCHANGED durable, NEW z \in Zones \ {h},
         \A y \in Zones \ {z} : log'[y] = log[y], ~Ready(z)'
  PROVE  Home(h)' /\ log'[h] = log[h] /\ RecoverFrom(h)' = RecoverFrom(h)
<1>1. log'[h] = log[h] /\ log[h] # <<>>
  BY HomeHas
<1>2. RecoverFrom(h)' = RecoverFrom(h)
  BY <1>1 DEF RecoverFrom
<1>3. \A y \in Zones \ {h} : Ready(y)' => Ready(y) /\ log'[y][1] = log[y][1]
  BY ReadyKept
<1>4. Home(h)'
  BY <1>1, <1>2, <1>3, HomeKept
<1> QED
  BY <1>1, <1>2, <1>4

\* A zone with a snapshot, and one without
LEMMA CurrentIs ==
  ASSUME Control
  PROVE  /\ Current \in Zones
         /\ HasSnapshot(meta_log_) => Current = meta_log_
         /\ log[meta_log_] = <<>> => ~HasSnapshot(meta_log_) /\ Current = old_meta_log
         /\ \A q : log[meta_log_] = <<[tag |-> "super", seq |-> q]>> =>
                     ~HasSnapshot(meta_log_) /\ Current = old_meta_log
BY ControlTypes DEF Current, HasSnapshot

\* A list of records that ends with a snapshot has one.
LEMMA EndsWithSnapshot ==
  ASSUME NEW s \in Seq(LogRecord), s # <<>>, Last(s).tag = "snapshot"
  PROVE  \E i \in DOMAIN s : s[i].tag = "snapshot"
<1>1. Len(s) \in DOMAIN s
  OBVIOUS
<1> QED
  BY <1>1 DEF Last

\* A record more does not take the snapshot away, nor the superblock.
LEMMA AppendKeeps ==
  ASSUME NEW s \in Seq(LogRecord), NEW r \in LogRecord, s # <<>>
  PROVE  LET t == Append(s, r)
         IN  /\ t # <<>> /\ t[1] = s[1] /\ Last(t) = r
             /\ (\E i \in DOMAIN s : s[i].tag = "snapshot") => \E i \in DOMAIN t : t[i].tag = "snapshot"
<1> DEFINE t == Append(s, r)
<1>1. /\ Len(t) = Len(s) + 1 /\ t[Len(s) + 1] = r /\ \A i \in 1..Len(s) : t[i] = s[i]
      /\ DOMAIN t = 1..(Len(s) + 1) /\ DOMAIN s = 1..Len(s) /\ Len(s) \in Nat \ {0}
      /\ t \in Seq(LogRecord)
  OBVIOUS
<1> HIDE DEF t
<1>2. t # <<>> /\ t[1] = s[1] /\ Last(t) = r
  BY <1>1 DEF Last
<1>3. ASSUME NEW i \in DOMAIN s, s[i].tag = "snapshot" PROVE i \in DOMAIN t /\ t[i].tag = "snapshot"
  BY <1>1, <1>3
<1> QED
  BY <1>2, <1>3 DEF t

-----------------------------------------------------------------------------
(***************************************************************************)
(* Names: PersistRecord and RollMetaZoneLocked                             *)
(***************************************************************************)

\* What is known while a file system is mounted
LEMMA Trusted ==
  ASSUME Trust, trusted, pc \notin Down
  PROVE  AtHome /\ InMemory /\ Ahead /\ Underway
BY DEF Trust, Down

\* A step that changes no name in memory
LEMMA PersistTrust ==
  ASSUME Trust, pc \in Persisting, pc' \in Persisting,
         UNCHANGED <<files_, linkfiles_, call, record, goal>>,
         trusted' => trusted /\ AtHome',
         pc' \in Before => pc \in Before /\ UNCHANGED durable,
         trusted' /\ pc' \in {"marksynced", "reset"} => durable' = files_,
         trusted' /\ pc' = "synced" =>
           \/ durable' = goal
           \/ Opening /\ durable' = files_ /\ Last(log'[meta_log_']).tag = "snapshot"
  PROVE  Trust'
<1>1. pc \notin Down /\ pc' \notin Down \cup {"idle", "unlink", "main"}
  BY DEF Persisting, Before, After, Down
<1> SUFFICES ASSUME trusted' PROVE AtHome' /\ InMemory' /\ Ahead' /\ Underway'
  BY <1>1 DEF Trust, Down
<1>2. InMemory /\ Underway
  BY <1>1, Trusted
<1>3. /\ (Opening' <=> Opening) /\ (Deleting' <=> Deleting) /\ (Updating' <=> Updating)
      /\ (Mounting' <=> Mounting)
  BY Zenon, CallSame DEF Opening
<1>4. InMemory'
  BY Zenon, <1>2, <1>3 DEF InMemory
<1>5. Ahead'
  BY <1>1 DEF Ahead
<1>6. Changed'
  <2>1. Changed
    BY <1>2 DEF Underway
  <2> QED
    BY Zenon, <1>3, <2>1 DEF Changed
<1>7. Undone' = Undone
  BY <1>3 DEF Undone
<1>8. Underway'
  BY <1>2, <1>3, <1>6, <1>7 DEF Underway
<1> QED
  BY <1>4, <1>5, <1>8

\* What a trusted call has made of the names, by its kind
LEMMA ChangedBy ==
  ASSUME Control, Underway, pc \in Before
  PROVE  /\ Changed /\ durable = Undone
         /\ Deleting => /\ durable = [files_ EXCEPT ![call.dst] = record.id]
                        /\ goal = files_ /\ files_[call.dst] = NoFile
         /\ Updating /\ call.name = "open" =>
              /\ durable = files_ /\ goal = [files_ EXCEPT ![call.dst] = call.id]
              /\ files_[call.dst] = NoFile /\ \A n \in Names : files_[n] # call.id
              /\ record.links = <<call.dst>>
         /\ Updating /\ call.name # "open" => goal = files_ /\ record.links = linkfiles_[call.id]
         /\ Updating /\ call.name = "rename" =>
              /\ durable = [files_ EXCEPT ![call.dst] = NoFile, ![call.src] = call.id]
              /\ call.src # call.dst /\ files_[call.src] = NoFile /\ files_[call.dst] = call.id
         /\ Updating /\ call.name = "link" =>
              /\ durable = [files_ EXCEPT ![call.dst] = NoFile]
              /\ call.src # call.dst /\ files_[call.src] = call.id /\ files_[call.dst] = call.id
         /\ Updating /\ call.name = "sync" => durable = files_ /\ files_[call.dst] = call.id
         /\ Mounting => durable = files_ /\ goal = files_
<1>1. Changed /\ durable = Undone
  BY DEF Underway, Persisting
<1>2. CASE Deleting
  <2>1. ~Updating /\ ~Mounting
    BY <1>2, Kinds, KindsNext
  <2> QED
    BY <1>1, <1>2, <2>1 DEF Changed, Undone
<1>3. CASE Updating
  <2>1. ~Deleting /\ ~Mounting
    BY <1>3, Kinds, KindsNext
  <2>2. call.name \in {"open", "rename", "link", "sync"}
    BY <1>3 DEF Updating
  <2>3. CASE call.name = "open"
    BY <1>1, <1>3, <2>1, <2>3 DEF Changed, Undone
  <2>4. CASE call.name = "rename"
    BY <1>1, <1>3, <2>1, <2>4 DEF Changed, Undone
  <2>5. CASE call.name = "link"
    BY <1>1, <1>3, <2>1, <2>5 DEF Changed, Undone
  <2>6. CASE call.name = "sync"
    BY <1>1, <1>3, <2>1, <2>6 DEF Changed, Undone
  <2> QED
    BY <2>2, <2>3, <2>4, <2>5, <2>6
<1>4. CASE Mounting
  <2>1. ~Deleting /\ ~Updating
    BY <1>4, Kinds
  <2> QED
    BY <1>1, <1>4, <2>1 DEF Changed, Undone
<1> QED
  BY <1>1, <1>2, <1>3, <1>4 DEF Changed

\* The record that a call adds makes of the durable names what the call is to make of
\* them (EncodeUpdateTo, EncodeFileDeletionTo, DecodeFileUpdateFrom,
\* DecodeFileDeletionFrom).
LEMMA AddDecodes ==
  ASSUME Control, InMemory, Underway, pc = "add", NEW st \in State, ~st.done,
         st.status = "ok", st.files = durable, LinksAgree(durable, st.links)
  PROVE  LET to == DecodeRecord(st, record)
         IN  /\ to.status = "ok" /\ ~to.done /\ to.files = goal /\ LinksAgree(goal, to.links)
             /\ Deleting => \A id \in Ids : (\E n \in Names : goal[n] = id) => to.ext[id] = st.ext[id]
             /\ Updating =>
                  to.ext = [st.ext EXCEPT ![call.id] =
                              IF call.name = "open" THEN record.ext ELSE st.ext[call.id] \o record.ext]
<1>1. Deleting \/ Updating
  BY DEF Control, Calling, Persisting, Before
<1>2. /\ pc \in Before /\ files_ \in [Names -> Ids \cup {NoFile}] /\ files_ \in Namespace
      /\ goal \in Namespace
  BY DEF Before, Control, Types, Namespace
<1>3. CASE Deleting
  <2>1. /\ ~Updating /\ record \in Deletion /\ record.tag = "delete" /\ record.id \in Ids
        /\ record.name = call.dst /\ call.dst \in Names
    BY <1>3, Kinds, KindsNext, CallFields DEF Deleting
  <2>2. /\ durable = [files_ EXCEPT ![call.dst] = record.id]
        /\ goal = files_ /\ files_[call.dst] = NoFile
    BY <1>2, <1>3, ChangedBy
  <2>3. st.files[record.name] = record.id /\ [st.files EXCEPT ![record.name] = NoFile] = goal
    BY <1>2, <2>1, <2>2
  <2>4. DecodeRecord(st, record) = DecodeFileDeletionFrom(st, record)
    BY <2>1 DEF DecodeRecord
  <2>5. LinksAgree(st.files, st.links)
    OBVIOUS
  <2> DEFINE to == DecodeFileDeletionFrom(st, record)
             F == [st.files EXCEPT ![record.name] = NoFile]
  <2>6. /\ to.status = st.status /\ to.done = st.done /\ to.files = F
        /\ LinksAgree(F, to.links)
        /\ \A id \in Ids : (\E n \in Names : F[n] = id) => to.ext[id] = st.ext[id]
    BY Zenon, <2>1, <2>3, <2>5, DeletionKnown
  <2>7. F = goal
    BY <2>3
  <2> HIDE DEF to, F
  <2> QED
    BY <2>1, <2>4, <2>6, <2>7 DEF to
<1>4. CASE Updating
  <2>1. /\ ~Deleting /\ record \in Update /\ record.tag = "update" /\ record.id = call.id
        /\ call.id \in Ids /\ call.dst \in Names /\ call.src \in Names
        /\ call.name \in {"open", "rename", "link", "sync"} /\ call.id # NoFile
    BY <1>4, Kinds, KindsNext, CallFields, NoFileIsNone DEF Updating
  <2>2. DecodeRecord(st, record) = DecodeFileUpdateFrom(st, record)
    BY <2>1 DEF DecodeRecord
  <2>3. CASE call.name = "open"
    <3>1. /\ durable = files_ /\ goal = [files_ EXCEPT ![call.dst] = call.id]
          /\ files_[call.dst] = NoFile /\ \A n \in Names : files_[n] # call.id
          /\ record.links = <<call.dst>>
      BY <1>2, <1>4, <2>3, ChangedBy
    <3>2. /\ LinksAgree(st.files, st.links) /\ \A n \in Names : st.files[n] # record.id
          /\ st.files[call.dst] = NoFile
      BY <2>1, <3>1
    <3> DEFINE to == DecodeFileUpdateFrom(st, record)
               F == [st.files EXCEPT ![call.dst] = record.id]
    <3>3. /\ to.status = st.status /\ to.done = st.done /\ to.files = F
          /\ LinksAgree(F, to.links) /\ to.ext = [st.ext EXCEPT ![record.id] = record.ext]
      BY Zenon, <2>1, <3>1, <3>2, UpdateUnknown
    <3>4. F = goal
      BY <2>1, <3>1
    <3> HIDE DEF to, F
    <3> QED
      BY <2>1, <2>2, <2>3, <3>3, <3>4 DEF to
  <2>4. CASE call.name # "open"
    <3>1. goal = files_ /\ record.links = linkfiles_[call.id]
      BY <1>2, <1>4, <2>4, ChangedBy
    <3>2. ~Opening
      BY <2>4 DEF Opening
    <3>3. IsInjective(record.links) /\ \A n \in Names : n \in ToSet(record.links) <=> files_[n] = record.id
      BY <2>1, <3>1, <3>2 DEF InMemory
    <3>4. ToSet(record.links) \subseteq Names
      BY <2>1, RecordFields DEF ToSet
    <3>5. /\ \E n \in Names : durable[n] = call.id
          /\ \A n \in Names : files_[n] = call.id => durable[n] \in {call.id, NoFile}
          /\ \A n \in Names : files_[n] # call.id =>
                files_[n] = IF durable[n] = call.id THEN NoFile ELSE durable[n]
      <4>1. CASE call.name = "rename"
        <5>1. /\ durable = [files_ EXCEPT ![call.dst] = NoFile, ![call.src] = call.id]
              /\ call.src # call.dst /\ files_[call.src] = NoFile /\ files_[call.dst] = call.id
          BY <1>2, <1>4, <4>1, ChangedBy
        <5> QED
          BY <5>1, <1>2, <2>1
      <4>2. CASE call.name = "link"
        <5>1. /\ durable = [files_ EXCEPT ![call.dst] = NoFile]
              /\ call.src # call.dst /\ files_[call.src] = call.id /\ files_[call.dst] = call.id
          BY <1>2, <1>4, <4>2, ChangedBy
        <5> QED
          BY <5>1, <1>2, <2>1
      <4>3. CASE call.name = "sync"
        <5>1. durable = files_ /\ files_[call.dst] = call.id
          BY <1>2, <1>4, <4>3, ChangedBy
        <5> QED
          BY <5>1, <1>2, <2>1
      <4> QED
        BY <2>1, <2>4, <4>1, <4>2, <4>3
    <3>6. \A n \in ToSet(record.links) : st.files[n] \in {record.id, NoFile}
      BY <2>1, <3>3, <3>4, <3>5
    <3>7. \A n \in Names : files_[n] # record.id =>
             files_[n] = IF st.files[n] = record.id THEN NoFile ELSE st.files[n]
      BY <2>1, <3>5
    <3>8. (\E n \in Names : st.files[n] = record.id) /\ LinksAgree(st.files, st.links)
      BY <2>1, <3>5
    <3>9. LET to == DecodeFileUpdateFrom(st, record)
          IN  /\ to.status = st.status /\ to.done = st.done /\ to.files = files_
              /\ LinksAgree(files_, to.links)
              /\ to.ext = [st.ext EXCEPT ![record.id] = st.ext[record.id] \o record.ext]
      <4>1. \A n \in Names : files_[n] = record.id <=> n \in ToSet(record.links)
        BY <3>3
      <4>2. Exchanges(files_, st, record)
        BY <3>3, <3>6, <3>7, <3>8, <4>1 DEF Exchanges
      <4> QED
        BY Zenon, <1>2, <2>1, <4>2, UpdateKnown
    <3> QED
      BY <2>1, <2>2, <2>4, <3>1, <3>9
  <2> QED
    BY <2>3, <2>4
<1> QED
  BY <1>1, <1>3, <1>4

\* Being at home, in terms of the zone
LEMMA AtHomeIs ==
  ASSUME Control, AtHome
  PROVE  \E h \in Zones : /\ h = Current /\ Home(h) /\ log[h][1].seq <= sequence_
                          /\ log[h][1].seq \in Nat /\ log[h] # <<>> /\ log[h] \in Seq(LogRecord)
                          /\ RecoverFrom(h) \in State
                          /\ HasSnapshot(meta_log_) => h = meta_log_
<1>1. PICK h \in Zones : h = Current /\ (HasSnapshot(meta_log_) => h = meta_log_)
  BY CurrentIs
<1>2. Home(h) /\ log[h][1].seq <= sequence_
  BY <1>1 DEF AtHome
<1>3. log[h] # <<>> /\ log[h][1].seq \in Nat
  BY <1>2, HomeHas, SuperblockSeq
<1>4. log[h] \in Seq(LogRecord) /\ RecoverFrom(h) \in State
  BY ControlTypes DEF Control, Decodable, Sound, RecoverFrom
<1> QED
  BY <1>1, <1>2, <1>3, <1>4

\* What to show of a step to be at home behind it
LEMMA AtHomeNext ==
  ASSUME NEW h \in Zones, h = Current', Home(h)', log'[h][1].seq <= sequence_',
         pc' = "snapshot" => log'[h][1].seq < sequence_',
         HasSnapshot(meta_log_)' /\ pc' # "alloc" => h = meta_log_' /\ ~RecoverFrom(h)'.done
  PROVE  AtHome'
BY DEF AtHome, Home, Newest, Ready, HasSuperblock, Newer, RecoverFrom

\* A step that writes nothing leaves the file system at home.
LEMMA AtHomeSame ==
  ASSUME Control, AtHome, UNCHANGED <<log, durable, roll>>, pc' # "snapshot",
         pc = "alloc" => pc' = "alloc"
  PROVE  AtHome'
<1>1. PICK h \in Zones : /\ h = Current /\ Home(h) /\ log[h][1].seq <= sequence_
                         /\ HasSnapshot(meta_log_) => h = meta_log_
  BY AtHomeIs
<1>2. UNCHANGED <<meta_log_, old_meta_log, sequence_>>
  BY DEF roll
<1>3. HasSnapshot(meta_log_)' <=> HasSnapshot(meta_log_)
  BY <1>2 DEF HasSnapshot
<1>4. Home(h)' /\ RecoverFrom(h)' = RecoverFrom(h)
  BY <1>1, HomeSame, LogSame
<1>5. Current' = Current
  BY <1>2, <1>3 DEF Current
<1>6. HasSnapshot(meta_log_)' /\ pc' # "alloc" => h = meta_log_' /\ ~RecoverFrom(h)'.done
  BY <1>1, <1>2, <1>3, <1>4 DEF AtHome
<1> QED
  BY <1>1, <1>2, <1>4, <1>5, <1>6, AtHomeNext

\* The record is added: a mount finds what the call was to do.
LEMMA AddRecordOkTrust ==
  ASSUME Control, Trust, AddRecordOk
  PROVE  Trust'
<1>1. /\ pc = "add" /\ AddRecord(meta_log_, record) /\ durable' = goal
      /\ trusted' = (trusted /\ HasSnapshot(meta_log_)) /\ pc' = "synced"
      /\ UNCHANGED <<memory, roll, call, record, crashes, errors, goal>>
  BY DEF AddRecordOk
<1>2. pc \in Persisting /\ pc \notin Down /\ pc' \in Persisting /\ pc' \notin Before
  BY <1>1 DEF Persisting, Before, After, Down
<1>3. ASSUME trusted' PROVE trusted /\ AtHome'
  <2>1. trusted /\ HasSnapshot(meta_log_)
    BY <1>1, <1>3
  <2>2. AtHome /\ InMemory /\ Underway
    BY <1>2, <2>1, Trusted
  <2>3. PICK h \in Zones : /\ h = meta_log_ /\ Home(h) /\ log[h][1].seq <= sequence_
                           /\ log[h] # <<>> /\ log[h] \in Seq(LogRecord)
                           /\ RecoverFrom(h) \in State
    BY <2>1, <2>2, AtHomeIs
  <2> DEFINE st == RecoverFrom(h)
             to == DecodeRecord(st, record)
  <2>4. /\ st.status = "ok" /\ st.files = durable /\ LinksAgree(durable, st.links) /\ ~st.done
        /\ Newest(h)
    BY <1>1, <2>1, <2>2, <2>3 DEF Home, AtHome
  <2>5. record \in LogRecord /\ Wrote(h, record, PhysSize(record))
    BY <1>1, <2>3, AddRecordWrites, RecordType, ControlTypes
  <2>6. log'[h] = Append(log[h], record) /\ \A y \in Zones \ {h} : log'[y] = log[y]
    BY <2>5 DEF Wrote
  <2>7. RecoverFrom(h)' = to
    BY <2>3, <2>5, <2>6, DecodedAppend DEF RecoverFrom
  <2> HIDE DEF st
  <2>8. to.status = "ok" /\ ~to.done /\ to.files = goal /\ LinksAgree(goal, to.links)
    BY <1>1, <2>2, <2>3, <2>4, AddDecodes DEF st
  <2> HIDE DEF to
  <2>9. log'[h] # <<>> /\ log'[h][1] = log[h][1] /\ \E i \in DOMAIN log'[h] : log'[h][i].tag = "snapshot"
    <3>1. \E i \in DOMAIN log[h] : log[h][i].tag = "snapshot"
      BY <2>1, <2>3 DEF HasSnapshot
    <3> DEFINE t == Append(log[h], record)
    <3>2. t # <<>> /\ t[1] = log[h][1] /\ \E i \in DOMAIN t : t[i].tag = "snapshot"
      BY Zenon, <2>3, <2>5, <3>1, AppendKeeps
    <3> HIDE DEF t
    <3>3. log'[h] = t
      BY <2>6 DEF t
    <3> QED
      BY <3>2, <3>3
  <2>10. Newest(h)'
    BY <2>4, <2>6, <2>7, <2>8, <2>9, NewestKept, ReadyKept
  <2>11. Home(h)'
    BY <1>1, <2>7, <2>8, <2>10 DEF Home
  <2>12. UNCHANGED <<meta_log_, sequence_>>
    BY <1>1 DEF roll
  <2>13. h = Current' /\ h = meta_log_'
    BY <2>3, <2>9, <2>12 DEF Current, HasSnapshot
  <2> QED
    BY <1>1, <2>1, <2>3, <2>7, <2>8, <2>9, <2>11, <2>12, <2>13, AtHomeNext
<1>4. UNCHANGED <<files_, linkfiles_, call, record, goal>>
  BY <1>1 DEF memory
<1> QED
  BY <1>1, <1>2, <1>3, <1>4, PersistTrust

\* It does not fit, or is refused.
LEMMA AddRecordNotTrust ==
  ASSUME Control, Trust, AddRecordNoSpace \/ AddRecordError
  PROVE  Trust'
<1>1. /\ pc = "add" /\ pc' \in {"alloc", "failed"}
      /\ UNCHANGED <<device, memory, roll, call, record, history>>
  BY DEF AddRecordNoSpace, AddRecordError, Refused
<1>2. pc \in Persisting /\ pc \in Before /\ pc \notin Down /\ pc' \in Persisting /\ pc' \in Before
  BY <1>1 DEF Persisting, Before, Down
<1>3. UNCHANGED <<files_, linkfiles_, call, record, goal, durable, trusted, log>>
  BY <1>1 DEF memory, device, history
<1>4. trusted => AtHome'
  BY <1>1, <1>2, <1>3, Trusted, AtHomeSame
<1> QED
  BY <1>1, <1>2, <1>3, <1>4, PersistTrust

\* The zone the log rolls to is emptied; the old one is home.
LEMMA AllocateTrust ==
  ASSUME Control, Trust, AllocateMetaZone
  PROVE  Trust'
<1>1. /\ pc = "alloc" /\ pc' = "end" /\ old_meta_log' = meta_log_
      /\ meta_log_' \in Zones \ {meta_log_} /\ Emptied(meta_log_')
      /\ trusted' = (trusted /\ HasSnapshot(meta_log_))
      /\ UNCHANGED <<memory, sequence_, call, record, crashes, errors, durable, goal>>
  BY AllocateFacts
<1>2. pc \in Persisting /\ pc \in Before /\ pc \notin Down /\ pc' \in Persisting /\ pc' \in Before
  BY <1>1 DEF Persisting, Before, Down
<1>3. ASSUME trusted' PROVE trusted /\ AtHome'
  <2>1. trusted /\ HasSnapshot(meta_log_)
    BY <1>1, <1>3
  <2>2. AtHome
    BY <1>2, <2>1, Trusted
  <2>3. PICK h \in Zones : h = meta_log_ /\ Home(h) /\ log[h][1].seq <= sequence_
    BY <2>1, <2>2, AtHomeIs
  <2>4. PICK z \in Zones : z = meta_log_' /\ z # h
    BY <1>1, <2>3
  <2>5. log'[z] = <<>> /\ \A y \in Zones \ {z} : log'[y] = log[y]
    BY <1>1, <2>4 DEF Emptied
  <2>6. ~Ready(z)'
    BY <2>5, ReadyKept
  <2>7. Home(h)' /\ log'[h] = log[h]
    BY <1>1, <2>3, <2>4, <2>5, <2>6, HomeBeside
  <2>8. ~HasSnapshot(meta_log_)' /\ Current' = h
    BY <1>1, <2>3, <2>4, <2>5 DEF Current, HasSnapshot
  <2> QED
    BY <1>1, <2>1, <2>3, <2>7, <2>8, AtHomeNext
<1>4. UNCHANGED <<files_, linkfiles_, call, record, goal>>
  BY <1>1 DEF memory
<1> QED
  BY <1>1, <1>2, <1>3, <1>4, PersistTrust

\* The mark of the end, and zeros behind it, change nothing that has been read.
LEMMA EndDecodes ==
  ASSUME NEW st \in State, NEW r \in {[tag |-> "end"], [tag |-> "zeros"]},
         r.tag = "zeros" => st.done
  PROVE  LET to == DecodeRecord(st, r)
         IN  /\ to.status = st.status /\ to.files = st.files /\ to.links = st.links
             /\ to.ext = st.ext
<1>1. CASE st.done
  BY <1>1 DEF DecodeRecord
<1>2. CASE ~st.done
  <2>1. DecodeRecord(st, r) = [st EXCEPT !.done = TRUE]
    BY <1>2 DEF DecodeRecord
  <2> QED
    BY <2>1 DEF State
<1> QED
  BY <1>1, <1>2

\* The old zone is ended and finished; a mount reads the same of it.
LEMMA EndTrust ==
  ASSUME Control, Trust, WriteEndRecord \/ FinishOldZone
  PROVE  Trust'
<1>1. /\ pc \in {"end", "finish"} /\ pc' \in {"finish", "super"}
      /\ UNCHANGED <<memory, roll, call, record, crashes, durable, goal>>
      /\ old_meta_log # meta_log_ /\ (trusted' => trusted)
      /\ \/ UNCHANGED device
         \/ Wrote(old_meta_log, [tag |-> "end"], 1)
         \/ /\ trusted => RecoverFrom(old_meta_log).done
            /\ Wrote(old_meta_log, [tag |-> "zeros"], capacity_[old_meta_log])
  BY EndFacts, FinishFacts DEF history
<1>2. pc \in Persisting /\ pc \in Before /\ pc \notin Down /\ pc' \in Persisting /\ pc' \in Before
  BY <1>1 DEF Persisting, Before, Down
<1>3. UNCHANGED <<files_, linkfiles_, call, record, goal, durable>>
  BY <1>1 DEF memory
<1>4. ASSUME trusted PROVE AtHome'
  <2>1. AtHome
    BY <1>2, <1>4, Trusted
  <2>2. log[meta_log_] = <<>>
    BY <1>1 DEF Control, Rolling
  <2>3. CASE UNCHANGED device
    BY <1>1, <1>3, <2>1, <2>3, AtHomeSame DEF device
  <2>4. CASE ~UNCHANGED device
    <3>1. PICK h \in Zones : /\ h = old_meta_log /\ Home(h) /\ log[h][1].seq <= sequence_
                             /\ log[h] # <<>> /\ log[h] \in Seq(LogRecord) /\ RecoverFrom(h) \in State
      BY <2>1, <2>2, CurrentIs, AtHomeIs
    <3> DEFINE st == RecoverFrom(h)
    <3>2. PICK r \in {[tag |-> "end"], [tag |-> "zeros"]} :
            /\ log'[h] = Append(log[h], r) /\ \A y \in Zones \ {h} : log'[y] = log[y]
            /\ r.tag = "zeros" => st.done
      <4>1. CASE Wrote(old_meta_log, [tag |-> "end"], 1)
        BY <3>1, <4>1 DEF Wrote
      <4>2. CASE /\ trusted => RecoverFrom(old_meta_log).done
                 /\ Wrote(old_meta_log, [tag |-> "zeros"], capacity_[old_meta_log])
        BY <1>4, <3>1, <4>2 DEF Wrote
      <4> QED
        BY <1>1, <2>4, <4>1, <4>2
    <3>3. r \in LogRecord /\ (r.tag = "end" \/ r.tag = "zeros")
      BY DEF LogRecord, Mark
    <3>4. RecoverFrom(h)' = DecodeRecord(st, r)
      BY <3>1, <3>2, <3>3, DecodedAppend DEF RecoverFrom
    <3> HIDE DEF st
    <3>5. LET to == DecodeRecord(st, r)
          IN  to.status = st.status /\ to.files = st.files /\ to.links = st.links
      BY <3>1, <3>2, EndDecodes DEF st
    <3>6. log'[h] # <<>> /\ log'[h][1] = log[h][1]
      BY <3>1, <3>2, <3>3, AppendKeeps
    <3>7. Home(h)'
      BY <1>3, <3>1, <3>2, <3>4, <3>5, <3>6, HomeKept, ReadyKept DEF st
    <3>8. UNCHANGED <<meta_log_, old_meta_log, sequence_>> /\ log'[meta_log_] = <<>>
      BY <1>1, <2>2, <3>1, <3>2, ControlTypes DEF roll
    <3>9. ~HasSnapshot(meta_log_)' /\ Current' = h
      BY <3>1, <3>8 DEF Current, HasSnapshot
    <3> QED
      BY <1>1, <3>1, <3>6, <3>7, <3>8, <3>9, AtHomeNext
  <2> QED
    BY <2>3, <2>4
<1> QED
  BY <1>1, <1>2, <1>3, <1>4, PersistTrust

\* The superblock of the new zone: without a snapshot a mount does not take it.
LEMMA SuperTrust ==
  ASSUME Control, Trust, AddSuperblock
  PROVE  Trust'
<1>1. /\ pc = "super" /\ sequence_' = sequence_ + 1 /\ log[meta_log_] = <<>>
      /\ UNCHANGED <<memory, meta_log_, old_meta_log, call, record, crashes, history>>
      /\ \/ pc' = "failed" /\ UNCHANGED device
         \/ /\ pc' = "snapshot"
            /\ Wrote(meta_log_, [tag |-> "super", seq |-> sequence_'], 1)
            /\ log'[meta_log_] = <<[tag |-> "super", seq |-> sequence_']>>
  BY SuperFacts
<1>2. pc \in Persisting /\ pc \in Before /\ pc \notin Down /\ pc' \in Persisting /\ pc' \in Before
  BY <1>1 DEF Persisting, Before, Down
<1>3. UNCHANGED <<files_, linkfiles_, call, record, goal, durable, trusted>>
  BY <1>1 DEF memory, history
<1>4. ASSUME trusted PROVE AtHome'
  <2>1. AtHome
    BY <1>2, <1>4, Trusted
  <2>2. old_meta_log # meta_log_ /\ sequence_ \in Nat
    BY <1>1 DEF Control, Rolling, Types
  <2>3. PICK h \in Zones : /\ h = old_meta_log /\ Home(h) /\ log[h][1].seq <= sequence_
                           /\ log[h][1].seq \in Nat
    BY <1>1, <2>1, CurrentIs, AtHomeIs
  <2>4. PICK z \in Zones : z = meta_log_ /\ z # h
    BY <2>2, <2>3, ControlTypes
  <2>5. /\ log'[z] = <<>> \/ log'[z] = <<[tag |-> "super", seq |-> sequence_']>>
        /\ \A y \in Zones \ {z} : log'[y] = log[y]
    BY <1>1, <2>4 DEF Wrote, device
  <2>6. ~Ready(z)'
    <3>1. CASE log'[z] = <<>>
      BY <3>1, ReadyKept
    <3>2. CASE log'[z] = <<[tag |-> "super", seq |-> sequence_']>>
      <4>1. sequence_' \in Nat
        BY <1>1, <2>2
      <4>2. Decoded(log'[z]) = EmptyState
        BY <3>2, <4>1, SuperNotReady
      <4> QED
        BY <4>2, EmptyStateType DEF Ready, RecoverFrom
    <3> QED
      BY <2>5, <3>1, <3>2
  <2>7. Home(h)' /\ log'[h] = log[h]
    BY <1>3, <2>3, <2>4, <2>5, <2>6, HomeBeside
  <2>8. ~HasSnapshot(meta_log_)' /\ Current' = h
    <3>1. \A i \in DOMAIN log'[z] : log'[z][i].tag # "snapshot"
      BY <2>5
    <3> QED
      BY <1>1, <2>3, <2>4, <3>1 DEF Current, HasSnapshot
  <2>9. log'[h][1].seq < sequence_' /\ log'[h][1].seq <= sequence_'
    BY <1>1, <2>2, <2>3, <2>7
  <2> QED
    BY <2>7, <2>8, <2>9, AtHomeNext
<1> QED
  BY <1>1, <1>2, <1>3, <1>4, PersistTrust

\* The snapshot of the new zone: it is newer, and has the names in memory.
LEMMA SnapshotTrust ==
  ASSUME Control, Trust, WriteSnapshotLocked
  PROVE  Trust'
<1>1. /\ pc = "snapshot" /\ old_meta_log # meta_log_
      /\ log[meta_log_] = <<[tag |-> "super", seq |-> sequence_]>>
      /\ EncodeSnapshotTo \in LogRecord
      /\ UNCHANGED <<memory, roll, call, record, crashes, goal, trusted>>
      /\ \/ pc' = "failed" /\ UNCHANGED <<device, durable>>
         \/ /\ pc' = "marksynced" /\ durable' = files_
            /\ Wrote(meta_log_, EncodeSnapshotTo, PhysSize(EncodeSnapshotTo))
  BY SnapshotFacts
<1>2. pc \in Persisting /\ pc \in Before /\ pc \notin Down
  BY <1>1 DEF Persisting, Before, Down
<1>3. UNCHANGED <<files_, linkfiles_, call, record, goal, meta_log_, old_meta_log, sequence_>>
  BY <1>1 DEF memory, roll
<1>4. CASE pc' = "failed" /\ UNCHANGED <<device, durable>>
  <2>1. pc' \in Persisting /\ pc' \in Before
    BY <1>4 DEF Persisting, Before
  <2>2. trusted => AtHome'
    BY <1>1, <1>2, <1>4, Trusted, AtHomeSame DEF device
  <2> QED
    BY <1>1, <1>2, <1>3, <1>4, <2>1, <2>2, PersistTrust
<1>5. CASE /\ pc' = "marksynced" /\ durable' = files_
           /\ Wrote(meta_log_, EncodeSnapshotTo, PhysSize(EncodeSnapshotTo))
  <2>1. pc' \in Persisting /\ pc' \notin Before
    BY <1>5 DEF Persisting, Before, After
  <2>2. ASSUME trusted PROVE AtHome'
    <3>1. AtHome /\ InMemory /\ Underway
      BY <1>2, <2>2, Trusted
    <3>2. PICK h \in Zones : /\ h = old_meta_log /\ Home(h) /\ h = Current
                             /\ log[h][1].seq \in Nat /\ log[h] # <<>>
      BY <1>1, <3>1, CurrentIs, AtHomeIs
    <3>3. log[h][1].seq < sequence_ /\ sequence_ \in Nat
      BY <1>1, <3>1, <3>2, ControlTypes DEF AtHome
    <3>4. PICK z \in Zones : z = meta_log_ /\ z # h
      BY <1>1, <3>2, ControlTypes
    <3> DEFINE s == <<[tag |-> "super", seq |-> sequence_]>>
               r == EncodeSnapshotTo
               st == DecodeSnapshotFrom(r)
    <3>5. log'[z] = Append(s, r) /\ \A y \in Zones \ {z} : log'[y] = log[y]
      BY <1>1, <1>5, <3>4 DEF Wrote
    <3>6. s \in Seq(LogRecord) /\ s # <<>> /\ s[1].tag = "super" /\ s[1].seq = sequence_
      BY <3>3 DEF LogRecord, Super
    <3>7. r.tag = "snapshot" /\ Decoded(s) = EmptyState
      BY <3>3, SuperNotReady DEF EncodeSnapshotTo
    <3> HIDE DEF s, r
    <3>8. RecoverFrom(z)' = st
      <4>1. Decoded(Append(s, r)) = DecodeRecord(EmptyState, r)
        BY <1>1, <3>6, <3>7, DecodedAppend DEF r
      <4>2. DecodeRecord(EmptyState, r) = DecodeSnapshotFrom(r)
        BY <3>7, EmptyStateType DEF DecodeRecord
      <4> QED
        BY <3>5, <4>1, <4>2 DEF RecoverFrom
    <3>9. st.status = "ok" /\ ~st.done /\ st.files = files_ /\ LinksAgree(files_, st.links)
      <4>1. ASSUME NEW id \in Live PROVE ~(Opening /\ id = call.id) /\ id \in Ids
        <5>1. id \in Ids /\ \E n \in Names : files_[n] = id
          BY DEF Live
        <5>2. Opening => \A n \in Names : files_[n] # call.id
          BY <1>2, <3>1, ChangedBy DEF Opening
        <5> QED
          BY <5>1, <5>2
      <4>2. \A id \in Live : /\ IsInjective(linkfiles_[id])
                             /\ \A n \in Names : n \in ToSet(linkfiles_[id]) <=> files_[n] = id
        BY <3>1, <4>1 DEF InMemory
      <4>3. /\ files_ \in Namespace /\ linkfiles_ \in [Ids -> Seq(Names)]
            /\ extents_ \in [Ids -> Seq(Nat)]
        BY DEF Control, Types
      <4> QED
        BY Zenon, <4>2, <4>3, SnapshotOfMemory DEF r
    <3> HIDE DEF st
    <3>10. /\ log'[z] # <<>> /\ log'[z][1] = s[1]
           /\ \E i \in DOMAIN log'[z] : log'[z][i].tag = "snapshot"
      <4>1. r \in LogRecord
        BY <1>1 DEF r
      <4> DEFINE t == Append(s, r)
      <4>2. /\ DOMAIN t = 1..(Len(s) + 1) /\ t[Len(s) + 1] = r /\ Len(s) \in Nat
            /\ t # <<>> /\ t[1] = s[1]
        BY <3>6, <4>1, AppendKeeps
      <4> HIDE DEF t
      <4>3. \E i \in DOMAIN t : t[i].tag = "snapshot"
        BY <3>7, <4>2
      <4>4. log'[z] = t
        BY <3>5 DEF t
      <4> QED
        BY <4>2, <4>3, <4>4
    <3>11. Ready(z)'
      BY <3>6, <3>8, <3>9, <3>10 DEF Ready, HasSuperblock
    <3>12. ASSUME NEW y \in Zones \ {z}, Ready(y)' PROVE Newer(z, y)'
      <4>1. log'[y] = log[y] /\ Ready(y)
        BY <3>5, <3>12, ReadyKept
      <4>2. log[y][1].seq \in Nat
        BY <4>1, SuperblockSeq DEF Ready
      <4>3. y # h => Newer(h, y)
        BY <3>2, <4>1 DEF Home, Newest
      <4>4. log[y][1].seq <= log[h][1].seq
        BY <3>2, <4>2, <4>3 DEF Newer
      <4>5. log'[z][1].seq > log'[y][1].seq
        BY <3>2, <3>3, <3>6, <3>10, <4>1, <4>2, <4>4
      <4> QED
        BY <4>5 DEF Newer
    <3>13. Newest(z)'
      BY <3>11, <3>12 DEF Newest
    <3>14. Home(z)'
      BY <1>5, <3>8, <3>9, <3>13 DEF Home
    <3>15. z = Current' /\ z = meta_log_'
      BY <1>3, <3>4, <3>10 DEF Current, HasSnapshot
    <3>16. log'[z][1].seq <= sequence_'
      BY <1>3, <3>3, <3>6, <3>10
    <3>17. ~RecoverFrom(z)'.done
      BY <3>8, <3>9
    <3> QED
      BY <1>5, <3>14, <3>15, <3>16, <3>17, AtHomeNext
  <2> QED
    BY <1>1, <1>2, <1>3, <1>5, <2>1, <2>2, PersistTrust
<1> QED
  BY <1>1, <1>4, <1>5

\* Extents count as synced.
LEMMA SyncedTrust ==
  ASSUME Control, Trust, SnapshotSynced
  PROVE  Trust'
<1>1. /\ pc = "marksynced" /\ pc' = "reset"
      /\ UNCHANGED <<device, files_, next_file_id_, linkfiles_, extents_, roll, call, record,
                     crashes, errors, history>>
  BY DEF SnapshotSynced
<1>2. /\ pc \in Persisting /\ pc \notin Down /\ pc' \in Persisting /\ pc' \notin Before
      /\ UNCHANGED <<files_, linkfiles_, call, record, goal, durable, trusted, log>>
  BY <1>1 DEF Persisting, Before, After, Down, history, device
<1>3. trusted => AtHome' /\ durable = files_
  BY <1>1, <1>2, Trusted, AtHomeSame DEF Underway
<1> QED
  BY <1>1, <1>2, <1>3, PersistTrust

\* The old zone is emptied behind the roll.
LEMMA ResetTrust ==
  ASSUME Control, Trust, ResetOldZone
  PROVE  Trust'
<1>1. /\ pc = "reset" /\ pc' = "synced" /\ Emptied(old_meta_log)
      /\ UNCHANGED <<memory, roll, call, record, crashes, errors, history>>
  BY ResetControl DEF ResetOldZone
<1>2. /\ pc \in Persisting /\ pc \notin Down /\ pc' \in Persisting /\ pc' \notin Before
      /\ UNCHANGED <<files_, linkfiles_, call, record, goal, durable, trusted>>
      /\ UNCHANGED <<meta_log_, old_meta_log, sequence_>>
  BY <1>1 DEF Persisting, Before, After, Down, history, memory, roll
<1>3. ASSUME trusted
      PROVE  /\ AtHome'
             /\ \/ durable' = goal
                \/ Opening /\ durable' = files_ /\ Last(log'[meta_log_']).tag = "snapshot"
  <2>1. AtHome /\ Underway
    BY <1>2, <1>3, Trusted
  <2>2. /\ old_meta_log # meta_log_ /\ log[meta_log_] # <<>>
        /\ Last(log[meta_log_]).tag = "snapshot" /\ log[meta_log_] \in Seq(LogRecord)
    BY <1>1, ControlTypes DEF Control, Rolling
  <2>3. HasSnapshot(meta_log_)
    BY <2>2, EndsWithSnapshot DEF HasSnapshot
  <2>4. PICK h \in Zones : h = meta_log_ /\ Home(h) /\ log[h][1].seq <= sequence_
    BY <2>1, <2>3, AtHomeIs
  <2>5. PICK z \in Zones : z = old_meta_log /\ z # h
    BY <2>2, <2>4, ControlTypes
  <2>6. log'[z] = <<>> /\ \A y \in Zones \ {z} : log'[y] = log[y]
    BY <1>1, <2>5 DEF Emptied
  <2>7. ~Ready(z)'
    BY <2>6, ReadyKept
  <2>8. Home(h)' /\ log'[h] = log[h] /\ RecoverFrom(h)' = RecoverFrom(h)
    BY <1>2, <2>4, <2>5, <2>6, <2>7, HomeBeside
  <2>9. HasSnapshot(meta_log_)' /\ Current' = h
    BY <1>2, <2>3, <2>4, <2>8 DEF Current, HasSnapshot
  <2>10. ~RecoverFrom(h).done
    BY <1>1, <2>1, <2>3, <2>4 DEF AtHome
  <2>11. AtHome'
    BY <1>1, <1>2, <2>4, <2>8, <2>9, <2>10, AtHomeNext
  <2>12. Last(log'[meta_log_']).tag = "snapshot" /\ durable = files_ /\ Changed
    BY <1>1, <1>2, <2>1, <2>2, <2>4, <2>8 DEF Underway
  <2>13. goal = files_ \/ Opening
    BY <1>2, <2>12 DEF Changed, Opening
  <2> QED
    BY <1>2, <2>11, <2>12, <2>13
<1> QED
  BY <1>1, <1>2, <1>3, PersistTrust

\* All steps of PersistRecord
LEMMA PersistAllTrust ==
  ASSUME Control, Trust, Persist
  PROVE  Trust'
BY AddRecordOkTrust, AddRecordNotTrust, AllocateTrust, EndTrust, SuperTrust, SnapshotTrust,
   SyncedTrust, ResetTrust DEF Persist

-----------------------------------------------------------------------------
(***************************************************************************)
(* Names: calls                                                            *)
(***************************************************************************)

\* A list of links that agrees with the names
Named(links, names, id) ==
  IsInjective(links) /\ \A n \in Names : n \in ToSet(links) <=> names[n] = id

\* A link is added (LinkFileLocked, the undoing of DeleteFileNoLock).
LEMMA AddedLink ==
  ASSUME NEW links \in Seq(Names), NEW names \in Namespace, NEW id \in Ids, NEW b \in Names,
         Named(links, names, id), names[b] = NoFile
  PROVE  Named(Append(links, b), [names EXCEPT ![b] = id], id)
<1> DEFINE t == Append(links, b)
           F == [names EXCEPT ![b] = id]
<1>1. b \notin ToSet(links)
  BY NoFileIsNone DEF Named
<1>2. IsInjective(t) /\ ToSet(t) = ToSet(links) \cup {b}
  BY <1>1, AppendLink DEF Named
<1>3. F[b] = id /\ \A n \in Names \ {b} : F[n] = names[n]
  BY DEF Namespace
<1> HIDE DEF t, F
<1>4. Named(t, F, id)
  BY <1>2, <1>3 DEF Named
<1> QED
  BY <1>4 DEF t, F

\* A link is removed (DeleteFileNoLock, the undoing of LinkFile).
LEMMA RemovedLink ==
  ASSUME NEW links \in Seq(Names), NEW names \in Namespace, NEW id \in Ids, NEW a \in Names,
         Named(links, names, id)
  PROVE  Named(RemoveFirst(links, a), [names EXCEPT ![a] = NoFile], id)
<1> DEFINE t == RemoveFirst(links, a)
           F == [names EXCEPT ![a] = NoFile]
<1>1. IsInjective(t) /\ ToSet(t) = ToSet(links) \ {a}
  BY RemoveLink DEF Named
<1>2. F[a] = NoFile /\ NoFile # id /\ \A n \in Names \ {a} : F[n] = names[n]
  BY NoFileIsNone DEF Namespace
<1> HIDE DEF t, F
<1>3. Named(t, F, id)
  BY <1>1, <1>2 DEF Named
<1> QED
  BY <1>3 DEF t, F

\* A link is renamed (RenameFileNoLock and its undoing).
LEMMA RenamedLink ==
  ASSUME NEW links \in Seq(Names), NEW names \in Namespace, NEW id \in Ids,
         NEW a \in Names, NEW b \in Names, a # b, Named(links, names, id), names[b] = NoFile
  PROVE  Named(RenameLink(links, a, b), [names EXCEPT ![a] = NoFile, ![b] = id], id)
<1> DEFINE t == RemoveFirst(links, a)
           F == [names EXCEPT ![a] = NoFile]
           G == [names EXCEPT ![a] = NoFile, ![b] = id]
<1>1. t \in Seq(Names) /\ Named(t, F, id)
  BY RemovedLink, RemoveType
<1>2. F \in Namespace /\ F[b] = NoFile
  BY DEF Namespace
<1>3. G = [F EXCEPT ![b] = id]
  BY DEF Namespace
<1> HIDE DEF t, F, G
<1>4. Named(Append(t, b), G, id)
  BY <1>1, <1>2, <1>3, AddedLink
<1> QED
  BY <1>4 DEF t, G, RenameLink, RemoveLinkName

\* Names and links of one file change together.
LEMMA InMemoryNext ==
  ASSUME InMemory, NEW id \in Ids, Opening => call.id = id,
         \A x \in Ids \ {id} : /\ linkfiles_'[x] = linkfiles_[x]
                               /\ \A n \in Names : files_'[n] = x <=> files_[n] = x,
         (Opening' /\ call'.id = id) \/ Named(linkfiles_'[id], files_', id)
  PROVE  InMemory'
<1> SUFFICES ASSUME NEW x \in Ids, ~(Opening' /\ x = call'.id)
             PROVE  /\ IsInjective(linkfiles_'[x])
                    /\ \A n \in Names : n \in ToSet(linkfiles_'[x]) <=> files_'[n] = x
  BY DEF InMemory
<1>1. CASE x = id
  BY <1>1 DEF Named
<1>2. CASE x # id
  <2>1. ~(Opening /\ x = call.id)
    BY <1>2
  <2>2. /\ IsInjective(linkfiles_[x])
        /\ \A n \in Names : n \in ToSet(linkfiles_[x]) <=> files_[n] = x
    BY <2>1 DEF InMemory
  <2> QED
    BY <1>2, <2>2
<1> QED
  BY <1>1, <1>2

\* Nothing about names and links changes.
LEMMA InMemorySame ==
  ASSUME InMemory, UNCHANGED <<files_, linkfiles_>>, ~Opening
  PROVE  InMemory'
BY DEF InMemory

\* A file's links in memory
LEMMA InMemoryHas ==
  ASSUME InMemory, NEW id \in Ids, ~(Opening /\ id = call.id)
  PROVE  Named(linkfiles_[id], files_, id)
BY DEF InMemory, Named

\* The beginning of a call
LEMMA BeginTrust ==
  ASSUME Control, Trust, NEW name, NEW src, NEW dst, NEW id, NEW next \in {"unlink", "main"},
         Begin(name, src, dst, id, next),
         next = "unlink" /\ name = "rename" => files_[src] = id,
         next = "main" => /\ name # "sync" => files_[dst] = NoFile
                          /\ name \in {"rename", "link"} => files_[src] = id
                          /\ name = "sync" => files_[dst] = id
  PROVE  Trust'
<1>1. /\ pc = "idle" /\ call' = [name |-> name, src |-> src, dst |-> dst, id |-> id] /\ pc' = next
      /\ UNCHANGED <<device, memory, roll, record, crashes, errors, history>>
  BY DEF Begin
<1>2. /\ pc \notin Down /\ pc' \notin Down /\ pc \notin Persisting /\ pc' \notin Persisting
      /\ UNCHANGED <<files_, linkfiles_, durable, goal, trusted, log>>
  BY <1>1 DEF Down, Persisting, Before, After, memory, history, device
<1> SUFFICES ASSUME trusted PROVE AtHome' /\ InMemory' /\ Ahead' /\ Underway'
  BY <1>2 DEF Trust, Down
<1>3. AtHome /\ InMemory /\ Ahead
  BY <1>2, Trusted
<1>4. AtHome'
  BY <1>1, <1>2, <1>3, AtHomeSame
<1>5. InMemory'
  BY <1>2, <1>3, InMemorySame DEF Opening
<1>6. Underway'
  BY <1>1, <1>2 DEF Underway, Persisting, Before, After
<1>7. Ahead'
  <2>1. durable = files_ /\ goal = files_
    BY <1>1, <1>3 DEF Ahead
  <2>2. call'.name = name /\ call'.src = src /\ call'.dst = dst /\ call'.id = id
    BY <1>1
  <2> QED
    BY <1>1, <1>2, <2>1, <2>2 DEF Ahead
<1> QED
  BY <1>4, <1>5, <1>6, <1>7

\* All calls
LEMMA CallTrust ==
  ASSUME Control, Trust, CallSome
  PROVE  Trust'
<1>1. ASSUME NEW n \in Names, OpenWritableFile(n) PROVE Trust'
  <2> DEFINE next == IF files_[n] # NoFile THEN "unlink" ELSE "main"
  <2>1. Begin("open", n, n, next_file_id_, next)
    BY <1>1 DEF OpenWritableFile
  <2>2. next \in {"unlink", "main"} /\ (next = "main" => files_[n] = NoFile)
    OBVIOUS
  <2> HIDE DEF next
  <2> QED
    BY <2>1, <2>2, BeginTrust
<1>2. ASSUME NEW n \in Names, DeleteFile(n) PROVE Trust'
  BY <1>2, BeginTrust DEF DeleteFile
<1>3. ASSUME NEW n \in Names, SyncFileMetadata(n) PROVE Trust'
  BY <1>3, BeginTrust DEF SyncFileMetadata
<1>4. ASSUME NEW src \in Names, NEW dst \in Names, RenameFile(src, dst) PROVE Trust'
  <2> DEFINE next == IF files_[dst] # NoFile THEN "unlink" ELSE "main"
  <2>1. Begin("rename", src, dst, files_[src], next)
    BY <1>4 DEF RenameFile
  <2>2. next \in {"unlink", "main"} /\ (next = "main" => files_[dst] = NoFile)
    OBVIOUS
  <2> HIDE DEF next
  <2> QED
    BY <2>1, <2>2, BeginTrust
<1>5. ASSUME NEW src \in Names, NEW dst \in Names, LinkFile(src, dst) PROVE Trust'
  BY <1>5, BeginTrust DEF LinkFile
<1> QED
  BY <1>1, <1>2, <1>3, <1>4, <1>5 DEF CallSome

\* A call hands its record to PersistRecord.
LEMMA PersistBegins ==
  ASSUME Control, Trust, pc \in {"unlink", "main"}, NEW r, NEW nf, PersistRecord(r, nf),
         trusted => InMemory' /\ Changed' /\ durable = Undone'
  PROVE  Trust'
<1>1. /\ record' = r /\ goal' = nf /\ pc' = "add"
      /\ UNCHANGED <<device, extents_, nr_synced_extents_, roll, call, crashes, errors, durable,
                     trusted>>
  BY DEF PersistRecord
<1>2. pc \notin Down /\ pc' \notin Down /\ UNCHANGED log
  BY <1>1 DEF Down, device
<1> SUFFICES ASSUME trusted PROVE AtHome' /\ InMemory' /\ Ahead' /\ Underway'
  BY <1>1, <1>2 DEF Trust, Down
<1>3. AtHome'
  BY <1>1, <1>2, Trusted, AtHomeSame
<1>4. Ahead'
  BY <1>1 DEF Ahead
<1>5. Underway'
  BY <1>1 DEF Underway
<1> QED
  BY <1>3, <1>4, <1>5

\* What is known before a call changes memory
LEMMA BeforeChange ==
  ASSUME Control, Trust, trusted, pc \in {"unlink", "main"}
  PROVE  /\ InMemory /\ ~Opening /\ durable = files_ /\ Ahead
         /\ call \in UserCall /\ call.src \in Names /\ call.dst \in Names /\ call.id \in Ids
         /\ files_ \in [Names -> Ids \cup {NoFile}] /\ files_ \in Namespace
         /\ linkfiles_ \in [Ids -> Seq(Names)] /\ call.id # NoFile
<1>1. pc \notin Down
  BY DEF Down
<1>2. InMemory /\ Ahead
  BY <1>1, Trusted
<1>3. ~Opening
  BY DEF Opening, Persisting, Before, After
<1>4. call \in UserCall
  BY DEF Control, Calling
<1>5. call.src \in Names /\ call.dst \in Names /\ call.id \in Ids /\ call.id # NoFile
  BY <1>4, CallFields, NoFileIsNone
<1> QED
  BY <1>2, <1>3, <1>4, <1>5 DEF Ahead, Control, Types, Namespace

\* DeleteFileNoLock
LEMMA DeleteTrust ==
  ASSUME Control, Control', Trust, DeleteFileNoLock
  PROVE  Trust'
<1> DEFINE n == call.dst
           id == files_[n]
<1>1. /\ pc = "unlink" /\ files_' = [files_ EXCEPT ![n] = NoFile]
      /\ linkfiles_' = [linkfiles_ EXCEPT ![id] = RemoveFirst(linkfiles_[id], n)]
      /\ PersistRecord([tag |-> "delete", id |-> id, name |-> n], files_')
  BY DEF DeleteFileNoLock, RemoveLinkName, EncodeFileDeletionTo
<1>2. ASSUME trusted PROVE InMemory' /\ Changed' /\ durable = Undone'
  <2>1. /\ InMemory /\ ~Opening /\ durable = files_ /\ Ahead
        /\ call \in UserCall /\ call.src \in Names /\ n \in Names
        /\ files_ \in [Names -> Ids \cup {NoFile}] /\ files_ \in Namespace
        /\ linkfiles_ \in [Ids -> Seq(Names)]
    BY <1>1, <1>2, BeforeChange
  <2>2. files_[n] # NoFile /\ id \in Ids /\ call.name \in {"open", "delete", "rename"}
    BY <1>1, <2>1 DEF Control, Calling
  <2>3. /\ record' = [tag |-> "delete", id |-> id, name |-> n] /\ goal' = files_'
        /\ UNCHANGED call
    BY <1>1 DEF PersistRecord
  <2> HIDE DEF id, n
  <2>4. call' \in UserCall /\ record' \in Deletion /\ record'.name = n /\ record'.id = id
    BY <2>1, <2>2, <2>3 DEF Deletion
  <2>5. Deleting'
    BY <2>2, <2>3, <2>4 DEF Deleting, n
  <2>6. ~Opening'
    BY <2>5, KindsNext DEF Opening
  <2>7. Named(linkfiles_[id], files_, id)
    BY <2>1, <2>2, InMemoryHas
  <2>8. Named(linkfiles_'[id], files_', id)
    <3>1. linkfiles_'[id] = RemoveFirst(linkfiles_[id], n) /\ linkfiles_[id] \in Seq(Names)
      BY <1>1, <2>1, <2>2
    <3> QED
      BY <1>1, <2>1, <2>2, <2>7, <3>1, RemovedLink
  <2>9. files_[n] = id
    BY DEF id
  <2>10. InMemory'
    <3>1. \A x \in Ids \ {id} : /\ linkfiles_'[x] = linkfiles_[x]
                                /\ \A m \in Names : files_'[m] = x <=> files_[m] = x
      BY <1>1, <2>1, <2>2, <2>9, NoFileIsNone
    <3> QED
      BY <2>1, <2>2, <2>8, <3>1, InMemoryNext
  <2>11. files_'[n] = NoFile /\ files_ = [files_' EXCEPT ![n] = id]
    BY <1>1, <2>1, <2>9
  <2>12. Changed'
    <3>1. call.name = "rename" /\ call.src # n => files_'[call.src] = call.id
      BY <1>1, <2>1 DEF Ahead
    <3> QED
      BY <2>3, <2>5, <2>11, <3>1 DEF Changed, n
  <2>13. Undone' = [files_' EXCEPT ![n] = id]
    <3>1. ~Updating'
      BY <2>5, KindsNext
    <3> QED
      BY <2>3, <2>4, <2>5, <3>1 DEF Undone, n
  <2> QED
    BY <2>1, <2>10, <2>11, <2>12, <2>13
<1> HIDE DEF id, n
<1> QED
  BY <1>1, <1>2, PersistBegins

\* OpenNewFile
LEMMA OpenTrust ==
  ASSUME Control, Control', Trust, OpenNewFile
  PROVE  Trust'
<1>1. /\ pc = "main" /\ call.name = "open" /\ next_file_id_' = next_file_id_ + 1
      /\ linkfiles_' = [linkfiles_ EXCEPT ![call.id] = <<call.dst>>]
      /\ PersistRecord(EncodeUpdateTo(call.id, linkfiles_'[call.id]),
                       [files_ EXCEPT ![call.dst] = call.id])
      /\ UNCHANGED files_
  BY DEF OpenNewFile
<1>2. ASSUME trusted PROVE InMemory' /\ Changed' /\ durable = Undone'
  <2>1. /\ InMemory /\ ~Opening /\ durable = files_ /\ Ahead
        /\ call \in UserCall /\ call.dst \in Names /\ call.id \in Ids
        /\ linkfiles_ \in [Ids -> Seq(Names)]
    BY <1>1, <1>2, BeforeChange
  <2>2. linkfiles_'[call.id] = <<call.dst>> /\ <<call.dst>> \in Seq(Names)
    BY <1>1, <2>1
  <2> DEFINE r == EncodeUpdateTo(call.id, linkfiles_'[call.id])
  <2>3. r \in Update /\ r.id = call.id /\ r.links = <<call.dst>>
    <3> DEFINE l == linkfiles_'[call.id]
    <3>1. Types /\ call.id \in Ids /\ l \in Seq(Names) /\ l = <<call.dst>>
      BY <2>1, <2>2 DEF Control
    <3> HIDE DEF l
    <3>2. LET u == EncodeUpdateTo(call.id, l) IN u \in Update /\ u.id = call.id /\ u.links = l
      BY <3>1, EncodeUpdateType
    <3> QED
      BY <3>1, <3>2 DEF l
  <2>4. /\ record' = r /\ goal' = [files_ EXCEPT ![call.dst] = call.id] /\ pc' = "add"
        /\ UNCHANGED call
    BY <1>1 DEF PersistRecord
  <2> HIDE DEF r
  <2>5. Updating' /\ ~Deleting'
    BY <1>1, <2>1, <2>3, <2>4, KindsNext DEF Updating
  <2>6. Opening'
    BY <1>1, <2>4, <2>5 DEF Opening, Persisting, Before
  <2>7. \A n \in Names : files_[n] # call.id
    <3>1. call.id = next_file_id_ /\ next_file_id_ \in Nat
      BY <1>1, <2>1 DEF Control, Numbers, Types
    <3> QED
      BY <2>1, <3>1 DEF Control, Numbers, Unused, Ids
  <2>8. files_[call.dst] = NoFile
    BY <1>1, <2>1 DEF Ahead
  <2>9. Changed'
    BY <1>1, <2>2, <2>3, <2>4, <2>5, <2>7, <2>8 DEF Changed
  <2>10. Undone' = files_
    BY <1>1, <2>4, <2>5 DEF Undone
  <2>11. InMemory'
    BY <1>1, <2>1, <2>4, <2>6, InMemoryNext
  <2> QED
    BY <2>1, <2>9, <2>10, <2>11
<1> QED
  BY <1>1, <1>2, PersistBegins

\* Rename, link and sync write an update of a file whose names and links agree.
LEMMA UpdateTrust ==
  ASSUME Control, Trust, pc = "main", call.name \in {"rename", "link", "sync"},
         NEW links \in Seq(Names), linkfiles_' = [linkfiles_ EXCEPT ![call.id] = links],
         PersistRecord(EncodeUpdateTo(call.id, linkfiles_'[call.id]), files_'),
         trusted =>
           /\ Named(links, files_', call.id)
           /\ \A n \in Names : \A x \in Ids \ {call.id} : files_'[n] = x <=> files_[n] = x
           /\ call.name = "rename" =>
                /\ call.src # call.dst /\ files_'[call.src] = NoFile /\ files_'[call.dst] = call.id
                /\ files_ = [files_' EXCEPT ![call.dst] = NoFile, ![call.src] = call.id]
           /\ call.name = "link" =>
                /\ call.src # call.dst /\ files_'[call.src] = call.id /\ files_'[call.dst] = call.id
                /\ files_ = [files_' EXCEPT ![call.dst] = NoFile]
           /\ call.name = "sync" => files_'[call.dst] = call.id /\ files_ = files_'
  PROVE  Trust'
<1>2. ASSUME trusted PROVE InMemory' /\ Changed' /\ durable = Undone'
  <2>1. /\ InMemory /\ ~Opening /\ durable = files_
        /\ call \in UserCall /\ call.dst \in Names /\ call.id \in Ids
        /\ linkfiles_ \in [Ids -> Seq(Names)]
    BY <1>2, BeforeChange
  <2>2. linkfiles_'[call.id] = links
    BY <2>1
  <2> DEFINE r == EncodeUpdateTo(call.id, linkfiles_'[call.id])
  <2>3. r \in Update /\ r.id = call.id /\ r.links = links
    <3>1. Types
      BY DEF Control
    <3>2. LET u == EncodeUpdateTo(call.id, links) IN u \in Update /\ u.id = call.id /\ u.links = links
      BY <2>1, <3>1, EncodeUpdateType
    <3> QED
      BY <2>2, <3>2
  <2>4. record' = r /\ goal' = files_' /\ UNCHANGED call
    BY DEF PersistRecord
  <2> HIDE DEF r
  <2>5. Updating' /\ ~Deleting'
    BY <2>1, <2>3, <2>4, KindsNext DEF Updating
  <2>6. ~Opening'
    BY <2>4 DEF Opening
  <2>7. Changed'
    BY <1>2, <2>2, <2>3, <2>4, <2>5 DEF Changed
  <2>8. Undone' = files_
    <3>1. CASE call.name = "rename"
      BY <1>2, <2>4, <2>5, <3>1 DEF Undone
    <3>2. CASE call.name = "link"
      BY <1>2, <2>4, <2>5, <3>2 DEF Undone
    <3>3. CASE call.name = "sync"
      BY <1>2, <2>4, <2>5, <3>3 DEF Undone
    <3> QED
      BY <3>1, <3>2, <3>3
  <2>9. InMemory'
    <3>1. \A x \in Ids \ {call.id} : /\ linkfiles_'[x] = linkfiles_[x]
                                     /\ \A n \in Names : files_'[n] = x <=> files_[n] = x
      BY <1>2, <2>1
    <3> QED
      BY <1>2, <2>1, <2>2, <3>1, InMemoryNext
  <2> QED
    BY <2>1, <2>7, <2>8, <2>9
<1> QED
  BY <1>2, PersistBegins

\* All changes of memory
LEMMA ChangeTrust ==
  ASSUME Control, Control', Trust, Change
  PROVE  Trust'
<1>0. /\ files_ \in [Names -> Ids \cup {NoFile}] /\ linkfiles_ \in [Ids -> Seq(Names)]
      /\ files_ \in Namespace
  BY DEF Control, Types, Namespace
<1>1. pc = "main" =>
        /\ call \in UserCall /\ call.src \in Names /\ call.dst \in Names /\ call.id \in Ids
        /\ call.id # NoFile
  BY CallFields, NoFileIsNone DEF Control, Calling
<1>2. CASE RenameFileNoLock
  <2> DEFINE links == RenameLink(linkfiles_[call.id], call.src, call.dst)
  <2>1. /\ pc = "main" /\ call.name = "rename" /\ Contains(linkfiles_[call.id], call.src)
        /\ linkfiles_' = [linkfiles_ EXCEPT ![call.id] = links]
        /\ files_' = [files_ EXCEPT ![call.src] = NoFile, ![call.dst] = call.id]
        /\ PersistRecord(EncodeUpdateTo(call.id, linkfiles_'[call.id]), files_')
    BY <1>2 DEF RenameFileNoLock
  <2>2. links \in Seq(Names)
    <3>1. RemoveFirst(linkfiles_[call.id], call.src) \in Seq(Names)
      BY <1>0, <1>1, <2>1, RemoveType
    <3> QED
      BY <1>1, <2>1, <3>1 DEF RenameLink, RemoveLinkName
  <2>3. ASSUME trusted
        PROVE  /\ Named(links, files_', call.id)
               /\ call.src # call.dst /\ files_[call.dst] = NoFile /\ files_[call.src] = call.id
    <3>1. InMemory /\ ~Opening /\ Ahead
      BY <2>1, <2>3, BeforeChange
    <3>2. files_[call.dst] = NoFile
      BY <2>1, <3>1 DEF Ahead
    <3>3. Named(linkfiles_[call.id], files_, call.id)
      BY <1>1, <2>1, <3>1, InMemoryHas
    <3>4. call.src \in ToSet(linkfiles_[call.id])
      BY <2>1 DEF Contains, ToSet
    <3>5. files_[call.src] = call.id
      BY <1>1, <2>1, <3>3, <3>4 DEF Named
    <3>6. call.src # call.dst
      BY <1>1, <2>1, <3>2, <3>5
    <3>7. linkfiles_[call.id] \in Seq(Names)
      BY <1>0, <1>1, <2>1
    <3>8. Named(links, [files_ EXCEPT ![call.src] = NoFile, ![call.dst] = call.id], call.id)
      BY <1>0, <1>1, <2>1, <3>2, <3>3, <3>6, <3>7, RenamedLink
    <3> QED
      BY <2>1, <3>2, <3>5, <3>6, <3>8
  <2> HIDE DEF links
  <2>4. trusted =>
          /\ \A n \in Names : \A x \in Ids \ {call.id} : files_'[n] = x <=> files_[n] = x
          /\ files_'[call.src] = NoFile /\ files_'[call.dst] = call.id
          /\ files_ = [files_' EXCEPT ![call.dst] = NoFile, ![call.src] = call.id]
    BY <1>0, <1>1, <2>1, <2>3, NoFileIsNone
  <2> QED
    BY <2>1, <2>2, <2>3, <2>4, UpdateTrust
<1>3. CASE LinkFileLocked
  <2> DEFINE links == Append(linkfiles_[call.id], call.dst)
  <2>1. /\ pc = "main" /\ call.name = "link"
        /\ linkfiles_' = [linkfiles_ EXCEPT ![call.id] = links]
        /\ files_' = [files_ EXCEPT ![call.dst] = call.id]
        /\ PersistRecord(EncodeUpdateTo(call.id, linkfiles_'[call.id]), files_')
    BY <1>3 DEF LinkFileLocked
  <2>2. links \in Seq(Names)
    BY <1>0, <1>1, <2>1
  <2>3. ASSUME trusted
        PROVE  /\ Named(links, files_', call.id)
               /\ call.src # call.dst /\ files_[call.dst] = NoFile /\ files_[call.src] = call.id
    <3>1. InMemory /\ ~Opening /\ Ahead
      BY <2>1, <2>3, BeforeChange
    <3>2. files_[call.dst] = NoFile /\ files_[call.src] = call.id
      BY <2>1, <3>1 DEF Ahead
    <3>3. Named(linkfiles_[call.id], files_, call.id) /\ linkfiles_[call.id] \in Seq(Names)
      BY <1>0, <1>1, <2>1, <3>1, InMemoryHas
    <3>4. Named(links, [files_ EXCEPT ![call.dst] = call.id], call.id)
      BY <1>0, <1>1, <2>1, <3>2, <3>3, AddedLink
    <3> QED
      BY <1>1, <2>1, <3>2, <3>4
  <2> HIDE DEF links
  <2>4. trusted =>
          /\ \A n \in Names : \A x \in Ids \ {call.id} : files_'[n] = x <=> files_[n] = x
          /\ files_'[call.src] = call.id /\ files_'[call.dst] = call.id
          /\ files_ = [files_' EXCEPT ![call.dst] = NoFile]
    BY <1>0, <1>1, <2>1, <2>3, NoFileIsNone
  <2> QED
    BY <2>1, <2>2, <2>3, <2>4, UpdateTrust
<1>4. CASE SyncFileMetadataNoLock
  <2> DEFINE links == linkfiles_[call.id]
  <2>1. /\ pc = "main" /\ call.name = "sync"
        /\ PersistRecord(EncodeUpdateTo(call.id, linkfiles_[call.id]), files_)
        /\ UNCHANGED <<files_, next_file_id_, linkfiles_>>
    BY <1>4 DEF SyncFileMetadataNoLock
  <2>2. /\ links \in Seq(Names) /\ linkfiles_' = [linkfiles_ EXCEPT ![call.id] = links]
        /\ PersistRecord(EncodeUpdateTo(call.id, linkfiles_'[call.id]), files_')
    BY <1>0, <1>1, <2>1
  <2>3. trusted => Named(links, files_', call.id) /\ files_[call.dst] = call.id
    BY <1>1, <2>1, BeforeChange, InMemoryHas DEF Ahead
  <2> HIDE DEF links
  <2> QED
    BY <2>1, <2>2, <2>3, UpdateTrust
<1> QED
  BY <1>2, <1>3, <1>4, DeleteTrust, OpenTrust DEF Change

-----------------------------------------------------------------------------
(***************************************************************************)
(* Names: the ends of calls, MkFS, crashes and Mount                       *)
(***************************************************************************)

\* A call returns: memory is what a mount finds.
LEMMA ReturnTrust ==
  ASSUME Control, Trust, pc \in {"synced", "failed", "main"}, NEW nf, Return(nf),
         UNCHANGED <<device, roll>>,
         trusted' => trusted /\ durable = nf /\ InMemory'
  PROVE  Trust'
<1>1. /\ files_' = nf /\ goal' = nf /\ UNCHANGED durable /\ pc' = "idle"
  BY DEF Return
<1>2. pc \notin Down /\ pc' \notin Down /\ UNCHANGED log
  BY <1>1 DEF Down, device
<1> SUFFICES ASSUME trusted' PROVE AtHome' /\ InMemory' /\ Ahead' /\ Underway'
  BY <1>1, <1>2 DEF Trust, Down
<1>3. AtHome'
  BY <1>1, <1>2, Trusted, AtHomeSame
<1>4. Ahead'
  BY <1>1 DEF Ahead
<1>5. Underway'
  BY <1>1 DEF Underway, Persisting, Before, After
<1> QED
  BY <1>3, <1>4, <1>5

\* What is known when PersistRecord has returned
LEMMA AfterPersist ==
  ASSUME Control, Trust, trusted, pc = "synced"
  PROVE  /\ InMemory /\ Changed
         /\ ~Opening => durable = goal /\ goal = files_
         /\ Opening /\ Last(log[meta_log_]).tag # "snapshot" => durable = goal
<1>1. pc \notin Down /\ pc \in Persisting
  BY DEF Down, Persisting, After
<1>2. InMemory /\ Underway
  BY <1>1, Trusted
<1>3. Changed
  BY <1>1, <1>2 DEF Underway
<1>4. ~Opening => goal = files_
  BY <1>1, <1>3 DEF Changed, Opening
<1> QED
  BY <1>2, <1>3, <1>4 DEF Underway

\* DeletePersisted
LEMMA DeletePersistedTrust ==
  ASSUME Control, Trust, DeletePersisted
  PROVE  Trust'
<1>1. /\ pc = "synced" /\ record.tag = "delete"
      /\ UNCHANGED <<device, next_file_id_, linkfiles_, roll, crashes, errors, trusted>>
      /\ UNCHANGED files_
  BY DEF DeletePersisted, Return
<1>2. Deleting /\ ~Updating /\ ~Mounting /\ ~Opening
  BY <1>1, Persisted, Kinds DEF Opening
<1>3. trusted => durable = files_ /\ Changed /\ InMemory'
  BY <1>1, <1>2, AfterPersist, InMemorySame
<1>4. CASE call.name = "delete"
  <2>1. Return(files_)
    BY <1>4 DEF DeletePersisted
  <2> QED
    BY <1>1, <1>3, <2>1, ReturnTrust
<1>5. CASE call.name # "delete"
  <2>1. pc' = "main" /\ goal' = files_ /\ UNCHANGED <<call, record, durable>>
    BY <1>5 DEF DeletePersisted
  <2>2. pc \notin Down /\ pc' \notin Down /\ UNCHANGED log
    BY <1>1, <2>1 DEF Down, device
  <2> SUFFICES ASSUME trusted PROVE AtHome' /\ InMemory' /\ Ahead' /\ Underway'
    BY <1>1, <2>1, <2>2 DEF Trust, Down
  <2>3. AtHome'
    BY <1>1, <2>1, <2>2, Trusted, AtHomeSame
  <2>4. Underway'
    BY <2>1 DEF Underway, Persisting, Before, After
  <2>5. call.name \in {"open", "rename"}
    BY <1>2, <1>5 DEF Deleting
  <2>6. /\ files_[call.dst] = NoFile
        /\ call.name = "rename" /\ call.src # call.dst => files_[call.src] = call.id
    BY <1>2, <1>3 DEF Changed
  <2>7. Ahead'
    BY <1>1, <1>3, <2>1, <2>5, <2>6 DEF Ahead
  <2> QED
    BY <1>3, <2>3, <2>4, <2>7
<1> QED
  BY <1>4, <1>5

\* OpenPersisted: the new file comes into the namespace.
LEMMA OpenPersistedTrust ==
  ASSUME Control, Trust, OpenPersisted
  PROVE  Trust'
<1> DEFINE nf == [files_ EXCEPT ![call.dst] = call.id]
<1>1. /\ pc = "synced" /\ record.tag = "update" /\ call.name = "open"
      /\ trusted' = (trusted /\ Last(log[meta_log_]).tag # "snapshot") /\ Return(nf)
      /\ UNCHANGED <<device, next_file_id_, linkfiles_, extents_, roll, crashes, errors>>
  BY DEF OpenPersisted
<1>2. /\ Updating /\ ~Deleting /\ ~Mounting /\ Opening /\ call.id \in Ids /\ call.dst \in Names
      /\ call.id # NoFile
  BY <1>1, Persisted, Kinds, NoFileIsNone DEF Opening
<1>3. files_ \in [Names -> Ids \cup {NoFile}] /\ linkfiles_ \in [Ids -> Seq(Names)]
  BY DEF Control, Types, Namespace
<1>4. ASSUME trusted' PROVE durable = nf /\ InMemory'
  <2>1. trusted /\ InMemory /\ Changed /\ durable = goal
    BY <1>1, <1>2, <1>4, AfterPersist
  <2>2. /\ goal = nf /\ files_[call.dst] = NoFile /\ \A n \in Names : files_[n] # call.id
        /\ linkfiles_[call.id] = <<call.dst>>
    BY <1>1, <1>2, <2>1 DEF Changed
  <2>3. files_' = nf /\ pc' = "idle"
    BY <1>1 DEF Return
  <2>4. Named(linkfiles_'[call.id], files_', call.id)
    <3>1. IsInjective(<<call.dst>>) /\ ToSet(<<call.dst>>) = {call.dst}
      BY DEF IsInjective, ToSet
    <3> QED
      BY <1>1, <1>2, <1>3, <2>2, <2>3, <3>1 DEF Named
  <2>5. \A x \in Ids \ {call.id} : /\ linkfiles_'[x] = linkfiles_[x]
                                   /\ \A n \in Names : files_'[n] = x <=> files_[n] = x
    BY <1>1, <1>2, <1>3, <2>2, <2>3, NoFileIsNone
  <2>6. InMemory'
    BY <1>2, <2>1, <2>4, <2>5, InMemoryNext
  <2> QED
    BY <2>1, <2>2, <2>6
<1>5. trusted' => trusted
  BY <1>1
<1> HIDE DEF nf
<1> QED
  BY <1>1, <1>4, <1>5, ReturnTrust

\* A call that failed is undone in memory.
LEMMA FailedTrust ==
  ASSUME Control, Trust, pc = "failed", NEW id \in Ids, NEW links, NEW nf \in Namespace, Return(nf),
         UNCHANGED <<device, roll, trusted>>,
         linkfiles_' = [linkfiles_ EXCEPT ![id] = links],
         trusted => /\ Opening => call.id = id
                    /\ durable = nf /\ Named(links, nf, id)
                    /\ \A x \in Ids \ {id} : \A n \in Names : nf[n] = x <=> files_[n] = x
  PROVE  Trust'
<1>1. ASSUME trusted PROVE InMemory'
  <2>1. InMemory
    BY <1>1, Trusted DEF Down
  <2>2. linkfiles_'[id] = links /\ \A x \in Ids \ {id} : linkfiles_'[x] = linkfiles_[x]
    BY DEF Control, Types
  <2>3. files_' = nf
    BY DEF Return
  <2>4. \A x \in Ids \ {id} : /\ linkfiles_'[x] = linkfiles_[x]
                              /\ \A n \in Names : files_'[n] = x <=> files_[n] = x
    BY <1>1, <2>2, <2>3
  <2>5. Named(linkfiles_'[id], files_', id)
    BY <1>1, <2>2, <2>3
  <2> QED
    BY <1>1, <2>1, <2>4, <2>5, InMemoryNext
<1> QED
  BY <1>1, ReturnTrust

\* What is known when PersistRecord has failed
LEMMA AfterFailure ==
  ASSUME Control, Trust, trusted, pc = "failed"
  PROVE  pc \in Before /\ InMemory /\ Underway
BY Trusted DEF Down, Before

\* DeleteFailed, OpenFailed, RenameFailed, LinkFailed, SyncFailed
LEMMA FailedAllTrust ==
  ASSUME Control, Trust,
         DeleteFailed \/ OpenFailed \/ RenameFailed \/ LinkFailed \/ SyncFailed
  PROVE  Trust'
<1>0. /\ files_ \in [Names -> Ids \cup {NoFile}] /\ linkfiles_ \in [Ids -> Seq(Names)]
      /\ files_ \in Namespace
  BY DEF Control, Types, Namespace
<1>1. CASE DeleteFailed
  <2> DEFINE id == record.id
             n == record.name
             nf == [files_ EXCEPT ![n] = id]
             links == Append(linkfiles_[id], n)
  <2>1. /\ pc = "failed" /\ record.tag = "delete" /\ Return(nf)
        /\ linkfiles_' = [linkfiles_ EXCEPT ![id] = links]
        /\ UNCHANGED <<device, roll, trusted>>
    BY <1>1 DEF DeleteFailed
  <2>2. Deleting /\ ~Updating /\ id \in Ids /\ n = call.dst /\ n \in Names
    BY <2>1, Persisted
  <2>3. ~Opening /\ nf \in Namespace /\ linkfiles_[id] \in Seq(Names)
    BY <1>0, <2>2 DEF Opening, Namespace
  <2>4. ASSUME trusted
        PROVE  /\ durable = nf /\ Named(links, nf, id)
               /\ \A x \in Ids \ {id} : \A m \in Names : nf[m] = x <=> files_[m] = x
    <3>1. durable = nf /\ files_[n] = NoFile
      BY <2>1, <2>2, <2>4, AfterFailure, ChangedBy
    <3>2. Named(linkfiles_[id], files_, id)
      BY <2>1, <2>2, <2>3, <2>4, AfterFailure, InMemoryHas
    <3>3. Named(links, nf, id)
      BY <1>0, <2>2, <2>3, <3>1, <3>2, AddedLink
    <3>4. \A x \in Ids \ {id} : \A m \in Names : nf[m] = x <=> files_[m] = x
      BY <1>0, <2>2, <3>1, NoFileIsNone
    <3> QED
      BY <3>1, <3>3, <3>4
  <2> HIDE DEF id, n, nf, links
  <2> QED
    BY <2>1, <2>2, <2>3, <2>4, FailedTrust
<1>2. CASE OpenFailed
  <2>1. /\ pc = "failed" /\ record.tag = "update" /\ call.name = "open" /\ Return(files_)
        /\ linkfiles_' = [linkfiles_ EXCEPT ![call.id] = <<>>]
        /\ UNCHANGED <<device, roll, trusted>>
    BY <1>2 DEF OpenFailed
  <2>2. Updating /\ call.id \in Ids
    BY <2>1, Persisted
  <2>3. ASSUME trusted PROVE durable = files_ /\ Named(<<>>, files_, call.id)
    <3>1. durable = files_ /\ \A n \in Names : files_[n] # call.id
      BY <2>1, <2>2, <2>3, AfterFailure, ChangedBy
    <3> QED
      BY <3>1, EmptyLinks DEF Named
  <2> QED
    BY <1>0, <2>1, <2>2, <2>3, FailedTrust
<1>3. CASE RenameFailed
  <2> DEFINE nf == [files_ EXCEPT ![call.dst] = NoFile, ![call.src] = call.id]
             links == RenameLink(linkfiles_[call.id], call.dst, call.src)
  <2>1. /\ pc = "failed" /\ record.tag = "update" /\ call.name = "rename" /\ Return(nf)
        /\ linkfiles_' = [linkfiles_ EXCEPT ![call.id] = links]
        /\ UNCHANGED <<device, roll, trusted>>
    BY <1>3 DEF RenameFailed
  <2>2. Updating /\ call.id \in Ids /\ call.src \in Names /\ call.dst \in Names
    BY <2>1, Persisted
  <2>3. ~Opening /\ nf \in Namespace /\ linkfiles_[call.id] \in Seq(Names)
    BY <1>0, <2>1, <2>2 DEF Opening, Namespace
  <2>4. ASSUME trusted
        PROVE  /\ durable = nf /\ Named(links, nf, call.id)
               /\ \A x \in Ids \ {call.id} : \A m \in Names : nf[m] = x <=> files_[m] = x
    <3>1. /\ durable = nf /\ call.src # call.dst /\ files_[call.src] = NoFile
          /\ files_[call.dst] = call.id
      BY <2>1, <2>2, <2>4, AfterFailure, ChangedBy
    <3>2. Named(linkfiles_[call.id], files_, call.id)
      BY <2>1, <2>2, <2>3, <2>4, AfterFailure, InMemoryHas
    <3>3. Named(links, nf, call.id)
      BY <1>0, <2>2, <2>3, <3>1, <3>2, RenamedLink
    <3>4. \A x \in Ids \ {call.id} : \A m \in Names : nf[m] = x <=> files_[m] = x
      BY <1>0, <2>2, <3>1, NoFileIsNone
    <3> QED
      BY <3>1, <3>3, <3>4
  <2> HIDE DEF nf, links
  <2> QED
    BY <2>1, <2>2, <2>3, <2>4, FailedTrust
<1>4. CASE LinkFailed
  <2> DEFINE nf == [files_ EXCEPT ![call.dst] = NoFile]
             links == RemoveFirst(linkfiles_[call.id], call.dst)
  <2>1. /\ pc = "failed" /\ record.tag = "update" /\ call.name = "link" /\ Return(nf)
        /\ linkfiles_' = [linkfiles_ EXCEPT ![call.id] = links]
        /\ UNCHANGED <<device, roll, trusted>>
    BY <1>4 DEF LinkFailed, RemoveLinkName
  <2>2. Updating /\ call.id \in Ids /\ call.src \in Names /\ call.dst \in Names
    BY <2>1, Persisted
  <2>3. ~Opening /\ nf \in Namespace /\ linkfiles_[call.id] \in Seq(Names)
    BY <1>0, <2>1, <2>2 DEF Opening, Namespace
  <2>4. ASSUME trusted
        PROVE  /\ durable = nf /\ Named(links, nf, call.id)
               /\ \A x \in Ids \ {call.id} : \A m \in Names : nf[m] = x <=> files_[m] = x
    <3>1. durable = nf /\ files_[call.dst] = call.id
      BY <2>1, <2>2, <2>4, AfterFailure, ChangedBy
    <3>2. Named(linkfiles_[call.id], files_, call.id)
      BY <2>1, <2>2, <2>3, <2>4, AfterFailure, InMemoryHas
    <3>3. Named(links, nf, call.id)
      BY <1>0, <2>2, <2>3, <3>2, RemovedLink
    <3>4. \A x \in Ids \ {call.id} : \A m \in Names : nf[m] = x <=> files_[m] = x
      BY <1>0, <2>2, <3>1, NoFileIsNone
    <3> QED
      BY <3>1, <3>3, <3>4
  <2> HIDE DEF nf, links
  <2> QED
    BY <2>1, <2>2, <2>3, <2>4, FailedTrust
<1>5. CASE SyncFailed
  <2>1. /\ pc = "failed" /\ record.tag = "update" /\ call.name = "sync" /\ Return(files_)
        /\ UNCHANGED <<device, linkfiles_, roll, trusted>>
    BY <1>5 DEF SyncFailed
  <2>2. Updating /\ call.id \in Ids /\ ~Opening
    BY <2>1, Persisted DEF Opening
  <2>3. linkfiles_' = [linkfiles_ EXCEPT ![call.id] = linkfiles_[call.id]]
    BY <1>0, <2>1, <2>2
  <2>4. trusted => durable = files_ /\ Named(linkfiles_[call.id], files_, call.id)
    BY <2>1, <2>2, AfterFailure, ChangedBy, InMemoryHas
  <2> QED
    BY <1>0, <2>1, <2>2, <2>3, <2>4, FailedTrust
<1> QED
  BY <1>1, <1>2, <1>3, <1>4, <1>5

\* A file system that stops leaves its home.
LEMMA StopTrust ==
  ASSUME Control, Trust, pc \notin Down, pc' = "down", UNCHANGED <<device, history>>
  PROVE  Trust'
<1>1. UNCHANGED <<log, durable, trusted>>
  BY DEF device, history
<1> SUFFICES ASSUME trusted PROVE \E h \in Zones : Home(h)'
  BY <1>1 DEF Trust, Down
<1>2. PICK h \in Zones : Home(h)
  BY Trusted, AtHomeIs
<1> QED
  BY <1>1, <1>2, HomeSame

\* All ends of calls
LEMMA FinishAllTrust ==
  ASSUME Control, Trust, Finish
  PROVE  Trust'
<1>1. CASE UpdatePersisted
  <2>1. /\ pc = "synced" /\ record.tag = "update" /\ call.name \in {"rename", "link", "sync"}
        /\ Return(files_) /\ UNCHANGED <<device, roll, linkfiles_, trusted>>
    BY <1>1 DEF UpdatePersisted
  <2>2. ~Opening /\ UNCHANGED files_
    BY <2>1 DEF Opening, Return
  <2>3. trusted => durable = files_ /\ InMemory'
    BY <2>1, <2>2, AfterPersist, InMemorySame
  <2> QED
    BY <2>1, <2>3, ReturnTrust
<1>2. CASE MountDone
  <2>1. /\ pc = "synced" /\ record.tag = "mount"
        /\ Return(files_) /\ UNCHANGED <<device, roll, linkfiles_, trusted>>
    BY <1>2 DEF MountDone
  <2>2. ~Opening /\ UNCHANGED files_
    BY <2>1, Kinds DEF Opening, Return
  <2>3. trusted => durable = files_ /\ InMemory'
    BY <2>1, <2>2, AfterPersist, InMemorySame
  <2> QED
    BY <2>1, <2>3, ReturnTrust
<1>3. CASE RenameLinkFailed
  <2>1. /\ pc = "main" /\ Return(files_) /\ UNCHANGED <<device, roll, linkfiles_, trusted>>
    BY <1>3 DEF RenameLinkFailed
  <2>2. UNCHANGED files_
    BY <2>1 DEF Return
  <2>3. trusted => durable = files_ /\ InMemory'
    BY <2>1, <2>2, BeforeChange, InMemorySame
  <2> QED
    BY <2>1, <2>3, ReturnTrust
<1>4. CASE MountFailed
  BY <1>4, StopTrust DEF MountFailed, Down
<1> QED
  BY <1>1, <1>2, <1>3, <1>4, DeletePersistedTrust, OpenPersistedTrust, FailedAllTrust DEF Finish

\* MkFS makes a home for no names.
LEMMA MkFSTrust ==
  ASSUME Control, Trust, MkFS
  PROVE  Trust'
<1>1. /\ pc = "blank" /\ pc' = "down" /\ EncodeSnapshotTo \in Snapshot
      /\ UNCHANGED <<memory, roll, call, record, crashes, errors, history>>
      /\ log'[1] = <<[tag |-> "super", seq |-> 1], EncodeSnapshotTo>>
      /\ \A z \in Zones \ {1} : log'[z] = <<>>
  BY MkFSFacts
<1>2. /\ 1 \in Zones /\ UNCHANGED durable
      /\ durable = EmptyState.files /\ files_ = EmptyState.files /\ linkfiles_ = EmptyState.links
      /\ files_ \in Namespace /\ linkfiles_ \in [Ids -> Seq(Names)] /\ extents_ \in [Ids -> Seq(Nat)]
  BY <1>1 DEF Zones, history, Control, Calling, Blank, Types
<1>3. Live = {}
  BY <1>2, EmptyStateType, NoFileIsNone DEF Live
<1> DEFINE a == [tag |-> "super", seq |-> 1]
           r == EncodeSnapshotTo
           st == DecodeSnapshotFrom(r)
<1>4. st.status = "ok" /\ st.files = files_ /\ LinksAgree(files_, st.links)
  BY <1>2, <1>3, SnapshotOfMemory
<1>5. r.tag = "snapshot" /\ r \in LogRecord /\ a \in LogRecord /\ a.tag = "super"
  BY <1>1, SnapshotFields DEF LogRecord, Super
<1>6. Decoded(<<a>>) = EmptyState
  BY SuperNotReady
<1> HIDE DEF a, r
<1>7. <<a>> \in Seq(LogRecord) /\ Append(<<a>>, r) = <<a, r>>
  <2>1. <<a>> \in Seq(LogRecord)
    BY <1>5
  <2> DEFINE t == Append(<<a>>, r)
  <2>2. t \in Seq(LogRecord) /\ Len(t) = 2 /\ t[1] = a /\ t[2] = r
    BY <1>5, <2>1
  <2> HIDE DEF t
  <2>3. DOMAIN t = 1..2 /\ t = [i \in 1..2 |-> t[i]]
    BY <2>2
  <2>4. t = <<a, r>>
    BY <2>2, <2>3
  <2> QED
    BY <2>1, <2>4 DEF t
<1>8. Decoded(<<a, r>>) = st
  <2>1. Decoded(Append(<<a>>, r)) = DecodeRecord(EmptyState, r)
    BY <1>5, <1>6, <1>7, DecodedAppend
  <2>2. DecodeRecord(EmptyState, r) = DecodeSnapshotFrom(r)
    BY <1>5, EmptyStateType DEF DecodeRecord
  <2> QED
    BY <1>7, <2>1, <2>2
<1> HIDE DEF st
<1>9. RecoverFrom(1)' = st
  BY <1>1, <1>8 DEF RecoverFrom, a, r
<1>10. Ready(1)'
  <2>1. log'[1] # <<>> /\ log'[1][1] = a
    BY <1>1 DEF a
  <2> QED
    BY <1>4, <1>5, <1>9, <2>1 DEF Ready, HasSuperblock
<1>11. Newest(1)'
  BY <1>1, <1>10, ReadyKept DEF Newest
<1>12. Home(1)'
  BY <1>2, <1>4, <1>9, <1>11 DEF Home
<1> QED
  BY <1>1, <1>2, <1>12 DEF Trust, Down

\* Mount: what is found is in memory.
LEMMA MountTrust ==
  ASSUME Control, Control', Trust, Mount
  PROVE  Trust'
<1>1. PICK h \in Zones : h = RecoveredZone
  BY MountFacts
<1> DEFINE st == RecoverFrom(h)
<1>2. /\ pc = "down" /\ pc' = "alloc" /\ Newest(h)
      /\ st \in State /\ st.status = "ok"
      /\ files_' = st.files /\ linkfiles_' = st.links
      /\ meta_log_' = h /\ sequence_' = log[h][1].seq /\ sequence_' \in Nat
      /\ Mounting' /\ call'.name = "mount"
      /\ durable' = st.files /\ goal' = st.files
      /\ trusted' = (trusted \/ LinksAgree(st.files, st.links))
      /\ UNCHANGED <<device, old_meta_log, crashes, errors>>
  BY <1>1, MountFacts
<1>3. UNCHANGED log /\ RecoverFrom(h)' = st /\ Newest(h)'
  BY <1>2, LogSame DEF device
<1> SUFFICES ASSUME trusted' PROVE AtHome' /\ InMemory' /\ Ahead' /\ Underway'
  BY <1>2 DEF Trust, Down
<1>4. LinksAgree(st.files, st.links)
  <2>1. CASE trusted
    <3>1. PICK g \in Zones : Home(g)
      BY <1>2, <2>1 DEF Trust, Down
    <3>2. g = h
      BY <1>1, <3>1, HomeHas, NewestIsRecovered
    <3> QED
      BY <3>1, <3>2 DEF Home
  <2>2. CASE ~trusted
    BY <1>2, <2>2
  <2> QED
    BY <2>1, <2>2
<1>5. \E i \in DOMAIN log[h] : log[h][i].tag = "snapshot"
  BY <1>2 DEF Control, Decodable, Sound, RecoverFrom
<1> HIDE DEF st
<1>6. Home(h)'
  BY <1>2, <1>3, <1>4 DEF Home
<1>7. Current' = h
  BY <1>2, <1>3, <1>5 DEF Current, HasSnapshot
<1>8. AtHome'
  BY <1>2, <1>3, <1>6, <1>7, AtHomeNext
<1>9. ~Deleting' /\ ~Updating' /\ ~Opening'
  BY <1>2 DEF Deleting, Updating, Opening
<1>10. InMemory'
  BY <1>2, <1>4 DEF InMemory, LinksAgree
<1>11. Ahead'
  BY <1>2 DEF Ahead
<1>12. Changed' /\ Undone' = files_'
  BY <1>2, <1>9 DEF Changed, Undone
<1>13. Underway'
  BY <1>2, <1>12 DEF Underway
<1> QED
  BY <1>8, <1>10, <1>11, <1>13

\* A step that touches neither names nor the log: a writer adds an extent, or nothing
\* happens.
LEMMA SameTrust ==
  ASSUME Control, Trust, UNCHANGED <<device, files_, linkfiles_, roll, pc, call, record, durable,
                                     goal, trusted>>
  PROVE  Trust'
<1>1. UNCHANGED <<device, files_, linkfiles_, roll, pc, call, record>>
  OBVIOUS
<1>2. UNCHANGED <<log, durable, goal, trusted, meta_log_, old_meta_log, sequence_>>
  BY DEF device, roll
<1>3. \A h \in Zones : Home(h) => Home(h)'
  BY <1>2, HomeSame
<1>4. /\ (Opening' <=> Opening) /\ (Deleting' <=> Deleting) /\ (Updating' <=> Updating)
      /\ (Mounting' <=> Mounting)
  BY Zenon, <1>1, CallSame DEF Opening
<1>5. InMemory => InMemory'
  BY Zenon, <1>1, <1>4 DEF InMemory
<1>6. Ahead => Ahead'
  BY Zenon, <1>1, <1>2 DEF Ahead
<1>7. Changed => Changed'
  BY Zenon, <1>1, <1>2, <1>4 DEF Changed
<1>8. Undone' = Undone
  BY <1>1, <1>4 DEF Undone
<1>9. Underway => Underway'
  BY Zenon, <1>1, <1>2, <1>4, <1>7, <1>8 DEF Underway
<1>10. Current' = Current /\ (HasSnapshot(meta_log_)' <=> HasSnapshot(meta_log_))
  BY <1>2 DEF Current, HasSnapshot
<1>11. AtHome => AtHome'
  <2> SUFFICES ASSUME AtHome PROVE AtHome'
    OBVIOUS
  <2>1. PICK h \in Zones : /\ h = Current /\ Home(h) /\ log[h][1].seq <= sequence_
                           /\ HasSnapshot(meta_log_) => h = meta_log_
    BY AtHomeIs
  <2>2. RecoverFrom(h)' = RecoverFrom(h)
    BY <1>2, LogSame
  <2>3. pc = "snapshot" => log[h][1].seq < sequence_
    BY <2>1 DEF AtHome
  <2>4. HasSnapshot(meta_log_) /\ pc # "alloc" => h = meta_log_ /\ ~RecoverFrom(h).done
    BY <2>1 DEF AtHome
  <2> QED
    BY <1>1, <1>2, <1>3, <1>10, <2>1, <2>2, <2>3, <2>4, AtHomeNext
<1> QED
  <2>1. pc' = pc /\ trusted' = trusted
    BY <1>1, <1>2
  <2> QED
    BY <1>3, <1>5, <1>6, <1>9, <1>11, <2>1 DEF Trust

\* Every step keeps names and log together.
LEMMA NextTrust == Control /\ Control' /\ Trust /\ [Next]_vars => Trust'
<1> SUFFICES ASSUME Control, Control', Trust, [Next]_vars PROVE Trust'
  OBVIOUS
<1>1. ASSUME NEW id \in Ids, PushExtent(id) PROVE Trust'
  BY <1>1, SameTrust DEF PushExtent
<1>2. CASE MountCorrupted
  <2>1. pc = "down" /\ pc' = "unmountable" /\ UNCHANGED <<log, durable, trusted>>
    BY <1>2 DEF MountCorrupted, device, history
  <2>2. \A h \in Zones : Home(h) => Home(h)'
    BY <2>1, HomeSame
  <2> QED
    BY <2>1, <2>2 DEF Trust, Down
<1>3. CASE Crash
  BY <1>3, StopTrust DEF Crash
<1>4. CASE CrashInSnapshot
  BY <1>4 DEF CrashInSnapshot, Trust
<1>5. CASE UNCHANGED vars
  BY <1>5, SameTrust DEF vars, memory, history
<1> QED
  BY <1>1, <1>2, <1>3, <1>4, <1>5, CallTrust, ChangeTrust, PersistAllTrust, FinishAllTrust,
     MkFSTrust, MountTrust DEF Next

\* A zone is emptied, or gets a record behind others, or one that may be the first.
LEMMA PlacedStep ==
  ASSUME NEW z \in Zones, log \in [Zones -> Seq(LogRecord)], \A y \in Zones : ~Misplaced(y),
         \A y \in Zones \ {z} : log'[y] = log[y],
         \/ log'[z] = <<>>
         \/ \E r \in LogRecord : /\ log'[z] = Append(log[z], r)
                                 /\ log[z] # <<>> \/ r.tag \in {"super", "zeros"}
  PROVE  \A y \in Zones : ~Misplaced(y)'
<1>1. ASSUME NEW r \in LogRecord, log'[z] = Append(log[z], r),
             log[z] # <<>> \/ r.tag \in {"super", "zeros"}
      PROVE  ~Misplaced(z)'
  <2>1. log[z] \in Seq(LogRecord)
    OBVIOUS
  <2>2. CASE log[z] # <<>>
    <3>1. log'[z] # <<>> /\ log'[z][1] = log[z][1]
      BY <1>1, <2>1, <2>2, AppendKeeps
    <3> QED
      BY <2>2, <3>1 DEF Misplaced
  <2>3. CASE log[z] = <<>> /\ r.tag \in {"super", "zeros"}
    <3>1. log'[z][1] = r
      BY <1>1, <2>1, <2>3
    <3> QED
      BY <2>3, <3>1 DEF Misplaced
  <2> QED
    BY <1>1, <2>2, <2>3
<1>2. log'[z] = <<>> => ~Misplaced(z)'
  BY DEF Misplaced
<1>3. \A y \in Zones \ {z} : ~Misplaced(y)'
  BY DEF Misplaced
<1> QED
  BY <1>1, <1>2, <1>3

\* Steps that leave the log alone
LEMMA PlacedSame ==
  ASSUME Placed, UNCHANGED log, trusted' => trusted
  PROVE  Placed'
BY DEF Placed, Misplaced

\* What PersistRecord writes into an empty zone is a superblock, while the log is trusted.
LEMMA PersistPlaced ==
  ASSUME Control, Trust, Placed, Persist
  PROVE  Placed'
<1>1. log \in [Zones -> Seq(LogRecord)] /\ meta_log_ \in Zones /\ old_meta_log \in Zones
  BY ControlTypes
<1> SUFFICES ASSUME trusted' PROVE \A z \in Zones : ~Misplaced(z)'
  BY DEF Placed
<1>2. trusted /\ \A z \in Zones : ~Misplaced(z)
  <2>1. trusted
    BY EndFacts, SnapshotFacts DEF Persist, AddRecordOk, AddRecordNoSpace, AddRecordError, AllocateMetaZone,
       FinishOldZone, AddSuperblock, WriteSnapshotLocked, SnapshotSynced, ResetOldZone, history
  <2> QED
    BY <2>1 DEF Placed
<1>3. CASE UNCHANGED log
  BY <1>2, <1>3 DEF Misplaced
<1>4. CASE AddRecordOk
  <2>1. HasSnapshot(meta_log_) /\ pc = "add" /\ AddRecord(meta_log_, record)
    BY <1>4 DEF AddRecordOk
  <2>2. log[meta_log_] # <<>>
    BY <1>1, <2>1 DEF HasSnapshot
  <2>3. record \in LogRecord /\ Wrote(meta_log_, record, PhysSize(record))
    BY <1>1, <2>1, AddRecordWrites, RecordType, ControlTypes
  <2> QED
    BY <1>1, <1>2, <2>2, <2>3, PlacedStep DEF Wrote
<1>5. CASE AllocateMetaZone \/ ResetOldZone
  <2>1. PICK z \in Zones : Emptied(z)
    BY <1>1, <1>5, AllocateFacts, ResetControl DEF ResetOldZone
  <2> QED
    BY <1>1, <1>2, <2>1, PlacedStep DEF Emptied
<1>6. CASE WriteEndRecord \/ FinishOldZone
  <2>1. /\ pc \in {"end", "finish"}
        /\ \/ UNCHANGED device
           \/ \E r \in LogRecord, b \in Nat : r.tag \in {"end", "zeros"} /\ Wrote(old_meta_log, r, b)
    <3>1. [tag |-> "end"] \in LogRecord /\ [tag |-> "zeros"] \in LogRecord
      BY DEF LogRecord, Mark
    <3>2. capacity_[old_meta_log] \in Nat
      BY ControlTypes
    <3> QED
      BY <1>6, <3>1, <3>2, EndFacts, FinishFacts
  <2>2. log[old_meta_log] # <<>>
    <3>1. pc \notin Down /\ log[meta_log_] = <<>>
      BY <2>1 DEF Down, Control, Rolling
    <3>2. AtHome
      BY <1>2, <3>1, Trusted
    <3> QED
      BY <3>1, <3>2, CurrentIs, AtHomeIs
  <2>3. CASE UNCHANGED device
    BY <1>3, <2>3 DEF device
  <2>4. CASE \E r \in LogRecord, b \in Nat : r.tag \in {"end", "zeros"} /\ Wrote(old_meta_log, r, b)
    BY <1>1, <1>2, <2>2, <2>4, PlacedStep DEF Wrote
  <2> QED
    BY <2>1, <2>3, <2>4
<1>7. CASE AddSuperblock
  <2>1. \/ UNCHANGED device
        \/ Wrote(meta_log_, [tag |-> "super", seq |-> sequence_'], 1) /\ sequence_' \in Nat
    BY <1>7, SuperFacts, ControlTypes
  <2>2. sequence_' \in Nat => [tag |-> "super", seq |-> sequence_'] \in LogRecord
    BY DEF LogRecord, Super
  <2>3. CASE UNCHANGED device
    BY <1>3, <2>3 DEF device
  <2>4. CASE Wrote(meta_log_, [tag |-> "super", seq |-> sequence_'], 1) /\ sequence_' \in Nat
    BY <1>1, <1>2, <2>2, <2>4, PlacedStep DEF Wrote
  <2> QED
    BY <2>1, <2>3, <2>4
<1>8. CASE WriteSnapshotLocked
  <2>1. /\ log[meta_log_] # <<>>
        /\ \/ UNCHANGED device
           \/ /\ EncodeSnapshotTo \in LogRecord
              /\ Wrote(meta_log_, EncodeSnapshotTo, PhysSize(EncodeSnapshotTo))
    <3>1. /\ log[meta_log_] = <<[tag |-> "super", seq |-> sequence_]>>
          /\ EncodeSnapshotTo \in LogRecord
          /\ \/ UNCHANGED device
             \/ Wrote(meta_log_, EncodeSnapshotTo, PhysSize(EncodeSnapshotTo))
      BY Zenon, <1>8, SnapshotFacts
    <3>2. log[meta_log_] # <<>>
      BY <3>1
    <3> QED
      BY Zenon, <3>1, <3>2
  <2>2. CASE UNCHANGED device
    BY <1>3, <2>2 DEF device
  <2>3. CASE /\ EncodeSnapshotTo \in LogRecord
             /\ Wrote(meta_log_, EncodeSnapshotTo, PhysSize(EncodeSnapshotTo))
    BY <1>1, <1>2, <2>1, <2>3, PlacedStep DEF Wrote
  <2> QED
    BY <2>1, <2>2, <2>3
<1>9. CASE AddRecordNoSpace \/ AddRecordError \/ SnapshotSynced
  BY <1>3, <1>9 DEF AddRecordNoSpace, AddRecordError, SnapshotSynced, Refused, device
<1> QED
  BY <1>4, <1>5, <1>6, <1>7, <1>8, <1>9 DEF Persist

\* Every step keeps records in their places.
LEMMA NextPlaced == Control /\ Trust /\ Placed /\ [Next]_vars => Placed'
<1> SUFFICES ASSUME Control, Trust, Placed, [Next]_vars PROVE Placed'
  OBVIOUS
<1>1. CASE CallSome
  BY <1>1, PlacedSame DEF CallSome, OpenWritableFile, DeleteFile, SyncFileMetadata, RenameFile,
     LinkFile, Begin, device, history
<1>2. CASE Change
  BY <1>2, PlacedSame DEF Change, DeleteFileNoLock, OpenNewFile, RenameFileNoLock, LinkFileLocked,
     SyncFileMetadataNoLock, PersistRecord, device
<1>3. CASE Finish
  <2>1. UNCHANGED device /\ (trusted' => trusted)
    <3>1. CASE DeletePersisted \/ UpdatePersisted \/ MountDone \/ MountFailed
      BY <3>1 DEF DeletePersisted, UpdatePersisted, MountDone, MountFailed, history
    <3>2. CASE OpenPersisted
      BY <3>2 DEF OpenPersisted
    <3>3. CASE \/ DeleteFailed \/ OpenFailed \/ RenameFailed \/ RenameLinkFailed \/ LinkFailed
               \/ SyncFailed
      BY <3>3 DEF DeleteFailed, OpenFailed, RenameFailed, RenameLinkFailed, LinkFailed, SyncFailed
    <3> QED
      BY <1>3, <3>1, <3>2, <3>3 DEF Finish
  <2> QED
    BY <2>1, PlacedSame DEF device
<1>4. CASE \E id \in Ids : PushExtent(id)
  BY <1>4, PlacedSame DEF PushExtent, device
<1>5. CASE MountCorrupted \/ Crash \/ UNCHANGED vars
  BY <1>5, PlacedSame DEF MountCorrupted, Crash, vars, device, history
<1>6. CASE CrashInSnapshot
  BY <1>6 DEF CrashInSnapshot, Placed
<1>7. CASE Mount
  <2>1. Recovered.status = "ok" /\ UNCHANGED log
    BY <1>7 DEF Mount, device
  <2> QED
    BY <2>1, MountFinds DEF Placed, Misplaced
<1>8. CASE MkFS
  <2>1. log' = [z \in Zones |-> IF z = 1 THEN <<[tag |-> "super", seq |-> 1], EncodeSnapshotTo>>
                                ELSE <<>>]
    BY <1>8 DEF MkFS
  <2> QED
    BY <2>1 DEF Placed, Misplaced
<1> QED
  BY <1>1, <1>2, <1>3, <1>4, <1>5, <1>6, <1>7, <1>8, PersistPlaced DEF Next

\* The inductive invariant of the log
LEMMA MetaInvAlways == Spec => []MetaInv
<1>1. Init => MetaInv
  BY InitControl DEF Init, MetaInv, Trust, Placed, Misplaced
<1>2. MetaInv /\ [Next]_vars => MetaInv'
  BY NextControl, NextTrust, NextPlaced DEF MetaInv
<1> QED
  BY <1>1, <1>2, PTL DEF Spec

\* The zone a mount takes from a trusted log, and what it finds there
LEMMA TrustFinds ==
  ASSUME MetaInv, trusted, pc # "blank"
  PROVE  \E h \in Zones : /\ Home(h) /\ Recovered = RecoverFrom(h) /\ Recovered \in State
                          /\ Recovered.status = "ok" /\ Recovered.files = durable
                          /\ LinksAgree(durable, Recovered.links)
                          /\ pc \notin Down => h = Current
<1>1. PICK h \in Zones : Home(h) /\ (pc \notin Down => h = Current)
  BY Trusted, AtHomeIs DEF MetaInv, Trust
<1>2. Recovered = RecoverFrom(h)
  BY <1>1, HomeHas, NewestIsRecovered DEF MetaInv, Placed
<1>3. RecoverFrom(h) \in State
  BY DEF MetaInv, Control, Decodable, Sound, RecoverFrom
<1> QED
  BY <1>1, <1>2, <1>3 DEF Home

\* Whatever write a crash comes behind, and whichever calls failed before it, a mount finds
\* the namespace before the running call's record or, from the write of the record or of the
\* roll's snapshot on, the one behind it; when no call runs it finds what is in memory, links
\* included (PersistRecord, RollMetaZoneLocked, RecoverFrom, Mount and the rollbacks of
\* failed calls).
THEOREM MetaLogNamespace == Spec => []NamespaceSurvives
<1>1. MetaInv => NamespaceSurvives
  <2> SUFFICES ASSUME MetaInv, trusted, pc # "blank"
               PROVE  /\ Recovered.status = "ok" /\ Recovered.files = durable
                      /\ pc = "idle" =>
                           /\ Recovered.files = files_
                           /\ \A id \in Live : ToSet(Recovered.links[id]) = ToSet(linkfiles_[id])
    BY DEF NamespaceSurvives
  <2>1. /\ Recovered \in State /\ Recovered.status = "ok" /\ Recovered.files = durable
        /\ LinksAgree(durable, Recovered.links)
    BY TrustFinds
  <2>2. ASSUME pc = "idle", NEW id \in Live
        PROVE  durable = files_ /\ ToSet(Recovered.links[id]) = ToSet(linkfiles_[id])
    <3>1. InMemory /\ Ahead
      BY <2>2, Trusted DEF MetaInv, Down
    <3>2. id \in Ids /\ ~Opening /\ durable = files_
      BY <2>2, <3>1 DEF Live, Opening, Persisting, Before, After, Ahead
    <3>3. \A n \in Names : n \in ToSet(linkfiles_[id]) <=> files_[n] = id
      BY <3>1, <3>2, InMemoryHas DEF Named
    <3>4. \A n \in Names : n \in ToSet(Recovered.links[id]) <=> files_[n] = id
      BY <2>1, <3>2 DEF LinksAgree
    <3>5. linkfiles_[id] \in Seq(Names) /\ Recovered.links[id] \in Seq(Names)
      BY <2>1, <3>2, StateFields DEF MetaInv, Control, Types
    <3>6. ToSet(linkfiles_[id]) \subseteq Names /\ ToSet(Recovered.links[id]) \subseteq Names
      BY <3>5 DEF ToSet
    <3> QED
      BY <3>2, <3>3, <3>4, <3>6
  <2>3. pc = "idle" => durable = files_
    BY Trusted DEF MetaInv, Down, Ahead
  <2> QED
    BY <2>1, <2>2, <2>3
<1> QED
  BY <1>1, MetaInvAlways, PTL

-----------------------------------------------------------------------------
(***************************************************************************)
(* Extents, when files grow beside calls                                    *)
(***************************************************************************)

\* What is known of the extents of a file with a name
LEMMA ExtentsHas ==
  ASSUME Extents, trusted, pc \notin Down
  PROVE  /\ \A id \in Ids : Sure(id) => ExtentsOf(id)
         /\ pc \in Before /\ Updating /\ call.id \notin overtaken =>
              record = EncodeUpdateTo(call.id, record.links)
         /\ Opening => extents_[call.id] = <<>> /\ nr_synced_extents_[call.id] = 0
BY DEF Extents, Persisting

\* What to show of a step
LEMMA ExtentsNext ==
  ASSUME trusted' /\ pc' \notin Down =>
           /\ \A id \in Ids : Sure(id)' => ExtentsOf(id)'
           /\ pc' \in Before /\ Updating' /\ call'.id \notin overtaken' =>
                record' = EncodeUpdateTo(call.id, record.links)'
           /\ Opening' => extents_'[call'.id] = <<>> /\ nr_synced_extents_'[call'.id] = 0
  PROVE  Extents'
BY DEF Extents, Persisting

\* The types of extents
LEMMA FoundType ==
  ASSUME Control, NEW id \in Ids
  PROVE  /\ Found(id) \in Seq(Nat) /\ Len(Found(id)) \in Nat
         /\ extents_[id] \in Seq(Nat) /\ Len(extents_[id]) \in Nat
         /\ nr_synced_extents_[id] \in Nat
<1>1. Current \in Zones
  BY CurrentIs
<1>2. RecoverFrom(Current) \in State
  BY <1>1 DEF Control, Decodable, Sound, RecoverFrom
<1>3. Found(id) \in Seq(Nat)
  BY <1>2, StateFields DEF Found
<1>4. extents_[id] \in Seq(Nat) /\ nr_synced_extents_[id] \in Nat
  BY DEF Control, Types
<1> QED
  BY <1>3, <1>4

\* A step that changes neither the extents that a mount finds nor those in memory
LEMMA ExtentsKept ==
  ASSUME Control, NEW id \in Ids, ExtentsOf(id), Found(id)' = Found(id),
         extents_'[id] = extents_[id], nr_synced_extents_'[id] = nr_synced_extents_[id],
         pc' # "marksynced", pc' # "reset", pc # "marksynced", pc = "synced" => ~(Updating /\ id = call.id),
         pc' = "synced" => ~(Updating' /\ id = call'.id)
  PROVE  ExtentsOf(id)'
<1> DEFINE f == Found(id)
           e == extents_[id]
           k == nr_synced_extents_[id]
<1>1. /\ Len(f) <= Len(e) /\ \A i \in 1..Len(f) : f[i] = e[i]
      /\ k = Len(f) /\ k <= Len(f)
  BY DEF ExtentsOf
<1>2. f = Found(id)' /\ e = extents_'[id] /\ k = nr_synced_extents_'[id]
  OBVIOUS
<1> HIDE DEF f, e, k
<1> QED
  BY <1>1, <1>2 DEF ExtentsOf

\* The log is left alone, and so is what a mount finds.
LEMMA FoundSame ==
  ASSUME UNCHANGED <<log, meta_log_, old_meta_log>>
  PROVE  \A id \in Ids : Found(id)' = Found(id)
BY DEF Found, Current, HasSnapshot, RecoverFrom

\* A file with a name in memory has one in the log while a call is being persisted.
LEMMA LiveDurable ==
  ASSUME Control, Underway, pc \in Before, NEW id \in Ids, NEW n \in Names, files_[n] = id
  PROVE  IsDurable(id)
<1>0. /\ files_ \in [Names -> Ids \cup {NoFile}] /\ id # NoFile /\ pc \in Persisting
  BY NoFileIsNone DEF Control, Types, Namespace, Persisting
<1>1. Deleting \/ Updating \/ Mounting
  BY <1>0 DEF Control, Calling
<1>2. CASE Deleting
  <2>1. call.dst \in Names
    BY <1>2, CallFields DEF Deleting
  <2>2. durable = [files_ EXCEPT ![call.dst] = record.id] /\ files_[call.dst] = NoFile
    BY <1>2, ChangedBy
  <2>3. durable[n] = id
    BY <1>0, <2>1, <2>2
  <2> QED
    BY <2>3 DEF IsDurable
<1>3. CASE Updating
  <2>1. /\ call.dst \in Names /\ call.src \in Names
        /\ call.name \in {"open", "rename", "link", "sync"}
    BY <1>3, CallFields DEF Updating
  <2>2. CASE call.name \in {"open", "sync"}
    <3>1. durable = files_
      BY <1>3, <2>2, ChangedBy
    <3> QED
      BY <3>1 DEF IsDurable
  <2>3. CASE call.name = "rename"
    <3>1. /\ durable = [files_ EXCEPT ![call.dst] = NoFile, ![call.src] = call.id]
          /\ call.src # call.dst /\ files_[call.src] = NoFile /\ files_[call.dst] = call.id
      BY <1>3, <2>3, ChangedBy
    <3>2. n # call.dst => durable[n] = id
      BY <1>0, <2>1, <3>1
    <3>3. n = call.dst => durable[call.src] = id
      BY <1>0, <2>1, <3>1
    <3> QED
      BY <2>1, <3>2, <3>3 DEF IsDurable
  <2>4. CASE call.name = "link"
    <3>1. /\ durable = [files_ EXCEPT ![call.dst] = NoFile]
          /\ call.src # call.dst /\ files_[call.src] = call.id /\ files_[call.dst] = call.id
      BY <1>3, <2>4, ChangedBy
    <3>2. n # call.dst => durable[n] = id
      BY <1>0, <2>1, <3>1
    <3>3. n = call.dst => durable[call.src] = id
      BY <1>0, <2>1, <3>1
    <3> QED
      BY <2>1, <3>2, <3>3 DEF IsDurable
  <2> QED
    BY <2>1, <2>2, <2>3, <2>4
<1>4. CASE Mounting
  <2>1. durable = files_
    BY <1>4, ChangedBy
  <2> QED
    BY <2>1 DEF IsDurable
<1> QED
  BY <1>1, <1>2, <1>3, <1>4

\* Calls that begin or end without a change of extents: same extents, same log
LEMMA CallExtents ==
  ASSUME MetaInv, Extents, UNCHANGED <<device, meta_log_, old_meta_log, durable, extents_,
                                       nr_synced_extents_, trusted, overtaken>>,
         pc \notin Down, pc' \notin Down, pc \notin After \/ (pc = "synced" /\ ~Updating),
         pc' \in {"idle", "unlink", "main"}
  PROVE  Extents'
<1>1. pc' \notin Before /\ pc' \notin Persisting
  BY DEF Before, Persisting, After
<1>2. ASSUME trusted', NEW id \in Ids, Sure(id)' PROVE ExtentsOf(id)'
  <2>1. Sure(id) /\ trusted
    BY <1>2 DEF Sure, IsDurable
  <2>2. ExtentsOf(id)
    BY <2>1, ExtentsHas
  <2>3. Found(id)' = Found(id)
    BY FoundSame DEF device
  <2> QED
    BY <2>2, <2>3, ExtentsKept DEF MetaInv, After
<1>3. ~Opening'
  BY <1>1 DEF Opening
<1> QED
  BY <1>1, <1>2, <1>3, ExtentsNext

\* Steps of a call that is being persisted before its record is in the log
LEMMA BeforeExtents ==
  ASSUME MetaInv, Extents, pc \in Before, pc' \in Before,
         UNCHANGED <<durable, extents_, nr_synced_extents_, call, record, overtaken>>,
         trusted' => trusted /\ \A id \in Ids : Found(id)' = Found(id)
  PROVE  Extents'
<1>1. pc \notin Down /\ pc \in Persisting /\ pc' \in Persisting /\ pc \notin After /\ pc' \notin After
  BY DEF Before, Down, Persisting, After
<1>2. ASSUME trusted', NEW id \in Ids, Sure(id)' PROVE ExtentsOf(id)'
  <2>1. Sure(id) /\ trusted
    BY <1>2 DEF Sure, IsDurable
  <2>2. ExtentsOf(id)
    BY <1>1, <2>1, ExtentsHas
  <2> QED
    BY <1>1, <1>2, <2>2, ExtentsKept DEF MetaInv, After
<1>3. (Opening' <=> Opening) /\ (Updating' <=> Updating)
  BY Zenon, <1>1, CallSame DEF Opening
<1>4. EncodeUpdateTo(call.id, record.links)' = EncodeUpdateTo(call.id, record.links)
  BY DEF EncodeUpdateTo
<1> QED
  BY <1>1, <1>2, <1>3, <1>4, ExtentsHas, ExtentsNext

\* A zone that is current before and behind a step that keeps what is read of it
LEMMA FoundAt ==
  ASSUME NEW h \in Zones, h = Current, h = Current', RecoverFrom(h)'.ext = RecoverFrom(h).ext
  PROVE  \A id \in Ids : Found(id)' = Found(id)
BY DEF Found, RecoverFrom

\* A call begins to be persisted.
LEMMA PersistExtents ==
  ASSUME MetaInv, Extents, pc \in {"unlink", "main"}, NEW r, NEW nf, PersistRecord(r, nf),
         Updating' => r = EncodeUpdateTo(call.id, r.links),
         Opening' => extents_[call.id] = <<>> /\ nr_synced_extents_[call.id] = 0
  PROVE  Extents'
<1>1. /\ record' = r /\ pc' = "add"
      /\ UNCHANGED <<device, extents_, nr_synced_extents_, roll, call, durable, trusted, overtaken>>
  BY DEF PersistRecord
<1>2. pc \notin Down /\ UNCHANGED <<log, meta_log_, old_meta_log>>
  BY <1>1 DEF Down, device, roll
<1>3. ASSUME trusted', NEW id \in Ids, Sure(id)' PROVE ExtentsOf(id)'
  <2>1. Sure(id) /\ trusted
    BY <1>1, <1>3 DEF Sure, IsDurable
  <2>2. ExtentsOf(id)
    BY <1>2, <2>1, ExtentsHas
  <2>3. Found(id)' = Found(id)
    BY <1>2, FoundSame
  <2> QED
    BY <1>1, <2>2, <2>3, ExtentsKept DEF MetaInv
<1>4. EncodeUpdateTo(call.id, record.links)' = EncodeUpdateTo(call.id, r.links)
  BY <1>1 DEF EncodeUpdateTo
<1> QED
  BY <1>1, <1>3, <1>4, ExtentsNext

\* DeleteFileNoLock, OpenNewFile, RenameFileNoLock, LinkFileLocked and
\* SyncFileMetadataNoLock
LEMMA ChangeExtents ==
  ASSUME MetaInv, Extents, Change
  PROVE  Extents'
<1>1. CASE DeleteFileNoLock
  <2> DEFINE r == EncodeFileDeletionTo(files_[call.dst], call.dst)
  <2>1. pc = "unlink" /\ PersistRecord(r, files_')
    BY <1>1 DEF DeleteFileNoLock
  <2>2. r.tag = "delete" /\ record' = r
    BY <2>1 DEF EncodeFileDeletionTo, PersistRecord
  <2> HIDE DEF r
  <2>3. ~Updating'
    BY Zenon, <2>2, RecordFields DEF Updating
  <2>4. ~Opening'
    BY <2>3 DEF Opening
  <2> QED
    BY <2>1, <2>3, <2>4, PersistExtents
<1>2. CASE ~DeleteFileNoLock
  <2>1. PICK nf : /\ pc = "main" /\ PersistRecord(EncodeUpdateTo(call.id, linkfiles_'[call.id]), nf)
                  /\ call.name = "open" => OpenNewFile
    BY <1>2 DEF Change, OpenNewFile, RenameFileNoLock, LinkFileLocked, SyncFileMetadataNoLock
  <2> DEFINE r == EncodeUpdateTo(call.id, linkfiles_'[call.id])
  <2>2. r.links = linkfiles_'[call.id]
    BY DEF EncodeUpdateTo
  <2>3. r = EncodeUpdateTo(call.id, r.links)
    BY <2>2
  <2>4. ASSUME call.name = "open" PROVE extents_[call.id] = <<>> /\ nr_synced_extents_[call.id] = 0
    <3>1. ~Opening /\ call \in UserCall
      BY <2>1 DEF Opening, Persisting, Before, After, MetaInv, Control, Calling
    <3>2. call.id = next_file_id_ /\ call.id \in Ids /\ next_file_id_ \in Nat
      BY <2>4, <3>1, CallFields DEF MetaInv, Control, Numbers, Types
    <3>3. Unused(call.id)
      BY <3>2 DEF MetaInv, Control, Numbers
    <3> QED
      BY <3>3 DEF Unused
  <2>5. Opening' => call.name = "open"
    BY <2>1 DEF Opening, PersistRecord
  <2> HIDE DEF r
  <2>6. PersistRecord(r, nf)
    BY <2>1 DEF r
  <2> QED
    BY <2>1, <2>3, <2>4, <2>5, <2>6, PersistExtents
<1> QED
  BY <1>1, <1>2

\* A record does not fit, or is refused.
LEMMA AddRecordNotExtents ==
  ASSUME MetaInv, Extents, AddRecordNoSpace \/ AddRecordError
  PROVE  Extents'
<1>1. /\ pc = "add" /\ pc' \in {"alloc", "failed"}
      /\ UNCHANGED <<device, memory, roll, call, record, history>>
  BY DEF AddRecordNoSpace, AddRecordError, Refused
<1>2. /\ pc \in Before /\ pc' \in Before
      /\ UNCHANGED <<durable, extents_, nr_synced_extents_, trusted, overtaken, log, meta_log_, old_meta_log>>
  BY <1>1 DEF Before, device, memory, roll, history
<1> QED
  BY <1>1, <1>2, FoundSame, BeforeExtents

\* The zone the log rolls to is emptied.
LEMMA AllocateExtents ==
  ASSUME MetaInv, Extents, AllocateMetaZone
  PROVE  Extents'
<1>0. Control
  BY DEF MetaInv
<1>1. /\ pc = "alloc" /\ pc' = "end" /\ old_meta_log' = meta_log_
      /\ meta_log_' \in Zones \ {meta_log_} /\ Emptied(meta_log_')
      /\ trusted' = (trusted /\ HasSnapshot(meta_log_))
      /\ UNCHANGED <<memory, sequence_, call, record, crashes, errors, durable, goal>>
  BY <1>0, AllocateFacts
<1>2. /\ pc \in Before /\ pc' \in Before
      /\ UNCHANGED <<durable, extents_, nr_synced_extents_, call, record, overtaken>>
  BY <1>1 DEF Before, memory, AllocateMetaZone
<1>3. ASSUME trusted' PROVE \A id \in Ids : Found(id)' = Found(id)
  <2>1. PICK h \in Zones : h = meta_log_ /\ h = Current
    BY <1>0, <1>1, <1>3, CurrentIs, ControlTypes
  <2>2. PICK z \in Zones : z = meta_log_' /\ z # h
    BY <1>1, <2>1
  <2>3. log'[z] = <<>> /\ log'[h] = log[h]
    BY <1>1, <2>1, <2>2 DEF Emptied
  <2>4. Current' = h
    BY <1>1, <2>1, <2>2, <2>3 DEF Current, HasSnapshot
  <2>5. RecoverFrom(h)'.ext = RecoverFrom(h).ext
    BY <2>3 DEF RecoverFrom
  <2> QED
    BY <2>1, <2>4, <2>5, FoundAt
<1> QED
  BY <1>1, <1>2, <1>3, BeforeExtents

\* The old zone is ended and finished.
LEMMA EndExtents ==
  ASSUME MetaInv, Extents, WriteEndRecord \/ FinishOldZone
  PROVE  Extents'
<1>0. Control
  BY DEF MetaInv
<1>1. /\ pc \in {"end", "finish"} /\ pc' \in {"finish", "super"}
      /\ UNCHANGED <<memory, roll, call, record, crashes, durable, overtaken>>
      /\ old_meta_log # meta_log_ /\ (trusted' => trusted)
      /\ \/ UNCHANGED device
         \/ Wrote(old_meta_log, [tag |-> "end"], 1)
         \/ /\ trusted => RecoverFrom(old_meta_log).done
            /\ Wrote(old_meta_log, [tag |-> "zeros"], capacity_[old_meta_log])
  BY <1>0, EndFacts, FinishFacts DEF history
<1>2. /\ pc \in Before /\ pc' \in Before
      /\ UNCHANGED <<durable, extents_, nr_synced_extents_, call, record, overtaken>>
      /\ UNCHANGED <<meta_log_, old_meta_log>>
  BY <1>1 DEF Before, memory, roll
<1>3. log[meta_log_] = <<>>
  BY <1>0, <1>1 DEF Control, Rolling
<1>4. PICK h \in Zones : h = old_meta_log /\ h = Current
  BY <1>0, <1>3, CurrentIs
<1>5. log[h] \in Seq(LogRecord) /\ RecoverFrom(h) \in State
  BY <1>0, ControlTypes DEF Control, Decodable, Sound, RecoverFrom
<1>6. CASE UNCHANGED device
  <2>1. UNCHANGED log
    BY <1>6 DEF device
  <2> QED
    BY <1>1, <1>2, <2>1, FoundSame, BeforeExtents
<1>7. CASE ~UNCHANGED device
  <2>1. PICK r \in {[tag |-> "end"], [tag |-> "zeros"]} :
          /\ log'[h] = Append(log[h], r) /\ \A y \in Zones \ {h} : log'[y] = log[y]
          /\ r.tag = "zeros" /\ trusted => RecoverFrom(h).done
    <3>1. CASE Wrote(old_meta_log, [tag |-> "end"], 1)
      BY <1>4, <3>1 DEF Wrote
    <3>2. CASE /\ trusted => RecoverFrom(old_meta_log).done
               /\ Wrote(old_meta_log, [tag |-> "zeros"], capacity_[old_meta_log])
      BY <1>4, <3>2 DEF Wrote
    <3> QED
      BY <1>1, <1>7, <3>1, <3>2
  <2>2. RecoverFrom(h)' = DecodeRecord(RecoverFrom(h), r)
    <3>1. r \in LogRecord
      BY DEF LogRecord, Mark
    <3> QED
      BY <1>5, <2>1, <3>1, DecodedAppend DEF RecoverFrom
  <2>3. trusted => RecoverFrom(h)'.ext = RecoverFrom(h).ext
    BY <1>5, <2>1, <2>2, EndDecodes
  <2>4. log'[meta_log_] = <<>>
    BY <1>0, <1>1, <1>3, <1>4, <2>1, ControlTypes
  <2>5. Current' = h
    BY <1>2, <1>4, <2>4 DEF Current, HasSnapshot
  <2> QED
    BY <1>1, <1>2, <1>4, <2>3, <2>5, FoundAt, BeforeExtents
<1> QED
  BY <1>6, <1>7

\* The superblock of the new zone
LEMMA SuperExtents ==
  ASSUME MetaInv, Extents, AddSuperblock
  PROVE  Extents'
<1>0. Control
  BY DEF MetaInv
<1>1. /\ pc = "super" /\ sequence_' = sequence_ + 1 /\ log[meta_log_] = <<>>
      /\ UNCHANGED <<memory, meta_log_, old_meta_log, call, record, crashes, history>>
      /\ \/ pc' = "failed" /\ UNCHANGED device
         \/ /\ pc' = "snapshot"
            /\ Wrote(meta_log_, [tag |-> "super", seq |-> sequence_'], 1)
            /\ log'[meta_log_] = <<[tag |-> "super", seq |-> sequence_']>>
  BY <1>0, SuperFacts
<1>2. /\ pc \in Before /\ pc' \in Before
      /\ UNCHANGED <<durable, extents_, nr_synced_extents_, call, record, trusted, overtaken>>
  BY <1>1 DEF Before, memory, history
<1>3. old_meta_log # meta_log_
  BY <1>0, <1>1 DEF Control, Rolling
<1>4. PICK h \in Zones : h = old_meta_log /\ h = Current
  BY <1>0, <1>1, CurrentIs
<1>5. log'[h] = log[h]
  BY <1>0, <1>1, <1>3, <1>4, ControlTypes DEF Wrote, device
<1>6. \A i \in DOMAIN log'[meta_log_] : log'[meta_log_][i].tag # "snapshot"
  <2>1. log'[meta_log_] = <<>> \/ log'[meta_log_] = <<[tag |-> "super", seq |-> sequence_']>>
    BY <1>1 DEF device
  <2> QED
    BY <2>1
<1>7. Current' = h
  BY <1>1, <1>4, <1>6 DEF Current, HasSnapshot
<1>8. RecoverFrom(h)'.ext = RecoverFrom(h).ext
  BY <1>5 DEF RecoverFrom
<1> QED
  BY <1>2, <1>4, <1>7, <1>8, FoundAt, BeforeExtents

\* What the log has of a file's extents, with those behind it, are the file's extents.
LEMMA Completed ==
  ASSUME NEW f \in Seq(Nat), NEW e \in Seq(Nat), Len(f) <= Len(e),
         \A i \in 1..Len(f) : f[i] = e[i]
  PROVE  LET g == f \o SubSeq(e, Len(f) + 1, Len(e))
         IN  Len(g) = Len(e) /\ \A i \in 1..Len(g) : g[i] = e[i]
<1> DEFINE s == SubSeq(e, Len(f) + 1, Len(e))
           g == f \o s
<1>1. /\ s \in Seq(Nat) /\ Len(s) = Len(e) - Len(f)
      /\ \A i \in 1..Len(s) : s[i] = e[Len(f) + i]
  OBVIOUS
<1> HIDE DEF s
<1>2. /\ Len(g) = Len(f) + Len(s)
      /\ \A i \in 1..Len(g) : g[i] = IF i <= Len(f) THEN f[i] ELSE s[i - Len(f)]
  BY <1>1
<1> HIDE DEF g
<1>3. Len(f) \in Nat /\ Len(e) \in Nat
  OBVIOUS
<1>4. ASSUME NEW i \in 1..Len(g) PROVE g[i] = e[i]
  <2>1. CASE i <= Len(f)
    BY <1>2, <1>3, <2>1
  <2>2. CASE ~(i <= Len(f))
    <3>1. i - Len(f) \in 1..Len(s) /\ Len(f) + (i - Len(f)) = i
      BY <1>1, <1>2, <1>3, <2>2
    <3> QED
      BY <1>1, <1>2, <2>2, <3>1
  <2> QED
    BY <2>1, <2>2
<1> QED
  BY <1>1, <1>2, <1>3, <1>4 DEF g, s

\* The zone to which a call's record is added, and what is read of it then
LEMMA AddReads ==
  ASSUME MetaInv, AddRecordOk, trusted'
  PROVE  \E h \in Zones :
           /\ h = Current /\ h = Current' /\ RecoverFrom(h) \in State
           /\ RecoverFrom(h)' = DecodeRecord(RecoverFrom(h), record)
           /\ ~RecoverFrom(h).done /\ RecoverFrom(h).status = "ok"
           /\ RecoverFrom(h).files = durable /\ LinksAgree(durable, RecoverFrom(h).links)
<1>0. Control /\ Trust
  BY DEF MetaInv
<1>1. /\ pc = "add" /\ AddRecord(meta_log_, record) /\ pc \notin Down
      /\ trusted /\ HasSnapshot(meta_log_) /\ UNCHANGED meta_log_
  BY DEF AddRecordOk, roll, Down
<1>2. AtHome
  BY <1>0, <1>1, Trusted
<1>3. PICK h \in Zones : /\ h = Current /\ Home(h) /\ log[h] # <<>> /\ log[h] \in Seq(LogRecord)
                         /\ RecoverFrom(h) \in State /\ h = meta_log_
  BY <1>0, <1>1, <1>2, AtHomeIs
<1>4. /\ RecoverFrom(h).status = "ok" /\ RecoverFrom(h).files = durable
      /\ LinksAgree(durable, RecoverFrom(h).links) /\ ~RecoverFrom(h).done
  BY <1>1, <1>2, <1>3 DEF Home, AtHome
<1>5. record \in LogRecord /\ Wrote(h, record, PhysSize(record))
  BY <1>0, <1>1, <1>3, AddRecordWrites, RecordType, ControlTypes
<1>6. log'[h] = Append(log[h], record)
  BY <1>5 DEF Wrote
<1>7. RecoverFrom(h)' = DecodeRecord(RecoverFrom(h), record)
  BY <1>3, <1>5, <1>6, DecodedAppend DEF RecoverFrom
<1>8. \E i \in DOMAIN log'[h] : log'[h][i].tag = "snapshot"
  <2> DEFINE t == Append(log[h], record)
  <2>1. \E i \in DOMAIN log[h] : log[h][i].tag = "snapshot"
    BY <1>1, <1>3 DEF HasSnapshot
  <2>2. \E i \in DOMAIN t : t[i].tag = "snapshot"
    BY Zenon, <1>3, <1>5, <2>1, AppendKeeps
  <2> HIDE DEF t
  <2>3. log'[h] = t
    BY <1>6 DEF t
  <2> QED
    BY <2>2, <2>3
<1>9. h = Current'
  BY <1>1, <1>3, <1>8 DEF Current, HasSnapshot
<1> QED
  BY <1>3, <1>4, <1>7, <1>9

\* A file that has a name behind a call's record, other than the one that the record is
\* of, had one before.
LEMMA GoalDurable ==
  ASSUME Control, Underway, pc = "add", NEW id \in Ids, NEW n \in Names, goal[n] = id,
         ~(Updating /\ call.name = "open" /\ id = call.id)
  PROVE  IsDurable(id)
<1>0. /\ files_ \in [Names -> Ids \cup {NoFile}] /\ id # NoFile /\ pc \in Before
  BY NoFileIsNone DEF Control, Types, Namespace, Before
<1>1. Deleting \/ Updating
  BY DEF Control, Calling, Persisting, Before
<1>2. CASE Updating /\ call.name = "open"
  <2>1. call.dst \in Names
    BY <1>2, CallFields DEF Updating
  <2>2. durable = files_ /\ goal = [files_ EXCEPT ![call.dst] = call.id]
    BY <1>0, <1>2, ChangedBy
  <2>3. durable[n] = id
    BY <1>0, <1>2, <2>1, <2>2
  <2> QED
    BY <2>3 DEF IsDurable
<1>3. CASE ~(Updating /\ call.name = "open")
  <2>1. goal = files_
    BY <1>0, <1>1, <1>3, ChangedBy
  <2> QED
    BY <1>0, <2>1, LiveDurable
<1> QED
  BY <1>2, <1>3

\* The record is added: the log has the extents it lacked.
LEMMA AddRecordOkExtents ==
  ASSUME MetaInv, Extents, AddRecordOk
  PROVE  Extents'
<1>0. Control /\ Trust
  BY DEF MetaInv
<1>1. /\ pc = "add" /\ durable' = goal /\ (trusted' => trusted) /\ pc' = "synced"
      /\ UNCHANGED <<extents_, nr_synced_extents_, call, record, overtaken>>
  BY DEF AddRecordOk, memory
<1>2. pc \in Before /\ pc \in Persisting /\ pc \notin Down /\ pc' \in Persisting /\ pc' \notin Before
  BY <1>1 DEF Persisting, Before, After, Down
<1>3. (Opening' <=> Opening) /\ (Updating' <=> Updating)
  BY Zenon, <1>1, <1>2, CallSame DEF Opening
<1>4. ASSUME trusted', NEW id \in Ids, Sure(id)' PROVE ExtentsOf(id)'
  <2>1. InMemory /\ Underway /\ trusted
    BY <1>0, <1>1, <1>2, <1>4, Trusted
  <2>2. PICK n \in Names : goal[n] = id
    BY <1>1, <1>4 DEF Sure, IsDurable
  <2>9. id \notin overtaken
    BY <1>1, <1>4 DEF Sure
  <2>3. PICK h \in Zones :
          /\ h = Current /\ h = Current' /\ RecoverFrom(h) \in State
          /\ RecoverFrom(h)' = DecodeRecord(RecoverFrom(h), record)
          /\ ~RecoverFrom(h).done /\ RecoverFrom(h).status = "ok"
          /\ RecoverFrom(h).files = durable /\ LinksAgree(durable, RecoverFrom(h).links)
    BY <1>4, AddReads
  <2> DEFINE st == RecoverFrom(h)
             to == DecodeRecord(st, record)
             f == st.ext[id]
             g == to.ext[id]
             e == extents_[id]
             k == nr_synced_extents_[id]
  <2>4. Found(id) = f /\ Found(id)' = g
    BY <2>3 DEF Found, RecoverFrom
  <2> HIDE DEF st
  <2>5. /\ Deleting => g = f
        /\ Updating => to.ext = [st.ext EXCEPT ![call.id] =
                                   IF call.name = "open" THEN record.ext ELSE st.ext[call.id] \o record.ext]
    BY <1>0, <1>1, <2>1, <2>2, <2>3, AddDecodes DEF st
  <2>6. DOMAIN st.ext = Ids /\ f \in Seq(Nat) /\ e \in Seq(Nat) /\ k \in Nat
    BY <1>0, <2>3, StateFields DEF st, Control, Types
  <2> HIDE DEF to
  <2>7. CASE Updating /\ id = call.id
    <3>1. record.ext = SubSeq(e, k + 1, Len(e))
      <4>1. record = EncodeUpdateTo(call.id, record.links)
        BY <1>2, <2>1, <2>7, <2>9, ExtentsHas
      <4>2. EncodeUpdateTo(call.id, record.links).ext = SubSeq(e, k + 1, Len(e))
        BY <2>7 DEF EncodeUpdateTo
      <4> QED
        BY <4>1, <4>2
    <3>2. CASE call.name = "open"
      <4>1. e = <<>> /\ k = 0
        BY <1>2, <2>1, <2>7, <3>2, ExtentsHas DEF Opening
      <4>2. g = SubSeq(e, k + 1, Len(e))
        BY <2>5, <2>6, <2>7, <3>1, <3>2
      <4> HIDE DEF g
      <4>3. Len(g) = 0 /\ Len(e) = 0
        BY <4>1, <4>2
      <4>4. /\ Len(Found(id)') = 0 /\ Len(extents_'[id]) = 0 /\ nr_synced_extents_'[id] = 0
        BY <1>1, <2>4, <4>1, <4>3
      <4> QED
        BY <1>1, <4>4 DEF ExtentsOf
    <3>3. CASE call.name # "open"
      <4>1. ExtentsOf(id)
        BY <1>0, <1>1, <1>2, <2>1, <2>2, <2>9, <3>3, GoalDurable, ExtentsHas DEF Sure
      <4>2. Len(f) <= Len(e) /\ k = Len(f) /\ \A i \in 1..Len(f) : f[i] = e[i]
        BY <1>1, <2>4, <4>1 DEF ExtentsOf
      <4>3. g = f \o SubSeq(e, k + 1, Len(e))
        BY <2>5, <2>6, <2>7, <3>1, <3>3
      <4> HIDE DEF f, e, k, g
      <4>4. Len(g) = Len(e) /\ \A i \in 1..Len(g) : g[i] = e[i]
        BY <2>6, <4>2, <4>3, Completed
      <4>5. Found(id)' = g /\ extents_'[id] = e /\ nr_synced_extents_'[id] = k /\ Len(e) \in Nat
        BY <1>1, <2>4, <2>6 DEF e, k
      <4> QED
        BY <1>1, <1>3, <2>7, <4>2, <4>4, <4>5 DEF ExtentsOf
    <3> QED
      BY <3>2, <3>3
  <2>8. CASE ~(Updating /\ id = call.id)
    <3>1. Deleting \/ Updating
      BY <1>0, <1>1, <1>2 DEF Control, Calling
    <3>2. g = f
      BY <2>5, <2>6, <2>8, <3>1
    <3>3. ExtentsOf(id)
      BY <1>0, <1>1, <1>2, <2>1, <2>2, <2>8, <2>9, GoalDurable, ExtentsHas DEF Sure
    <3> QED
      BY <1>0, <1>1, <1>3, <2>4, <2>8, <3>2, <3>3, ExtentsKept
  <2> QED
    BY <2>7, <2>8
<1> QED
  BY <1>1, <1>2, <1>3, <1>4, ExtentsHas, ExtentsNext

\* What is read of the zone a roll fills, once it has the snapshot
LEMMA SnapshotReads ==
  ASSUME Control, InMemory, Underway, WriteSnapshotLocked, pc' = "marksynced"
  PROVE  \A id \in Live : Found(id)' = extents_[id]
<1>1. /\ pc = "snapshot" /\ log[meta_log_] = <<[tag |-> "super", seq |-> sequence_]>>
      /\ EncodeSnapshotTo \in LogRecord /\ UNCHANGED <<memory, roll>>
      /\ Wrote(meta_log_, EncodeSnapshotTo, PhysSize(EncodeSnapshotTo))
  BY SnapshotFacts
<1>2. PICK z \in Zones : z = meta_log_ /\ z = meta_log_'
  BY <1>1, ControlTypes DEF roll
<1> DEFINE s == <<[tag |-> "super", seq |-> sequence_]>>
           r == EncodeSnapshotTo
           st == DecodeSnapshotFrom(r)
<1>3. log'[z] = Append(s, r) /\ sequence_ \in Nat
  BY <1>1, <1>2, ControlTypes DEF Wrote
<1>4. s \in Seq(LogRecord) /\ s # <<>>
  BY <1>3 DEF LogRecord, Super
<1>5. r.tag = "snapshot" /\ Decoded(s) = EmptyState
  BY <1>3, SuperNotReady DEF EncodeSnapshotTo
<1> HIDE DEF s, r
<1>6. RecoverFrom(z)' = st
  <2>1. Decoded(Append(s, r)) = DecodeRecord(EmptyState, r)
    BY <1>1, <1>4, <1>5, DecodedAppend DEF r
  <2>2. DecodeRecord(EmptyState, r) = DecodeSnapshotFrom(r)
    BY <1>5, EmptyStateType DEF DecodeRecord
  <2> QED
    BY <1>3, <2>1, <2>2 DEF RecoverFrom
<1>7. \A id \in Live : st.ext[id] = extents_[id]
  <2>1. ASSUME NEW id \in Live PROVE ~(Opening /\ id = call.id) /\ id \in Ids
    <3>1. id \in Ids /\ \E n \in Names : files_[n] = id
      BY DEF Live
    <3>2. Opening => \A n \in Names : files_[n] # call.id
      BY <1>1, ChangedBy DEF Opening, Before
    <3> QED
      BY <3>1, <3>2
  <2>2. \A id \in Live : /\ IsInjective(linkfiles_[id])
                         /\ \A n \in Names : n \in ToSet(linkfiles_[id]) <=> files_[n] = id
    BY <2>1 DEF InMemory
  <2>3. /\ files_ \in Namespace /\ linkfiles_ \in [Ids -> Seq(Names)]
        /\ extents_ \in [Ids -> Seq(Nat)]
    BY DEF Control, Types
  <2> QED
    BY Zenon, <2>2, <2>3, SnapshotOfMemory DEF r
<1> HIDE DEF st
<1>8. \E i \in DOMAIN log'[z] : log'[z][i].tag = "snapshot"
  <2> DEFINE t == Append(s, r)
  <2>0. r \in LogRecord
    BY <1>1 DEF r
  <2>1. t \in Seq(LogRecord) /\ t # <<>> /\ Last(t) = r
    BY <1>4, <2>0, AppendKeeps
  <2> HIDE DEF t
  <2>2. \E i \in DOMAIN t : t[i].tag = "snapshot"
    BY <1>5, <2>1, EndsWithSnapshot
  <2>3. log'[z] = t
    BY <1>3 DEF t
  <2> QED
    BY <2>2, <2>3
<1>9. z = Current'
  BY <1>2, <1>8 DEF Current, HasSnapshot
<1>10. \A id \in Ids : Found(id)' = st.ext[id]
  BY <1>6, <1>9 DEF Found, RecoverFrom
<1> QED
  BY <1>7, <1>10 DEF Live

\* The snapshot of the new zone: the log has all extents of all files.
LEMMA SnapshotExtents ==
  ASSUME MetaInv, Counts, Extents, WriteSnapshotLocked
  PROVE  Extents'
<1>0. Control /\ Trust
  BY DEF MetaInv
<1>1. /\ pc = "snapshot" /\ pc \in Before /\ pc \in Persisting /\ pc \notin Down
      /\ UNCHANGED <<extents_, nr_synced_extents_, files_, meta_log_, old_meta_log, call, record, trusted>>
      /\ \/ pc' = "failed" /\ UNCHANGED <<device, durable, overtaken>>
         \/ pc' = "marksynced" /\ durable' = files_
  BY <1>0, SnapshotFacts DEF WriteSnapshotLocked, memory, roll, Before, Persisting, Down
<1>2. CASE pc' = "failed" /\ UNCHANGED <<device, durable, overtaken>>
  <2>1. pc' \in Before /\ UNCHANGED log
    BY <1>2 DEF Before, device
  <2> QED
    BY <1>1, <1>2, <2>1, FoundSame, BeforeExtents
<1>3. CASE pc' = "marksynced" /\ durable' = files_
  <2>1. pc' \in Persisting /\ pc' \notin Before
    BY <1>3 DEF Persisting, Before, After
  <2>2. (Opening' <=> Opening) /\ (Updating' <=> Updating)
    BY Zenon, <1>1, <2>1, CallSame DEF Opening
  <2>3. ASSUME trusted', NEW id \in Ids, Sure(id)' PROVE ExtentsOf(id)'
    <3>1. InMemory /\ Underway
      BY <1>0, <1>1, <2>3, Trusted
    <3>2. PICK n \in Names : files_[n] = id
      BY <1>3, <2>3 DEF Sure, IsDurable
    <3> DEFINE e == extents_[id]
               k == nr_synced_extents_[id]
    <3>4. Found(id)' = e /\ extents_'[id] = e /\ nr_synced_extents_'[id] = k
      BY <1>0, <1>1, <1>3, <3>1, <3>2, SnapshotReads DEF Live
    <3>5. k <= Len(e) /\ Len(e) \in Nat
      BY <1>0, FoundType DEF Counts
    <3> HIDE DEF e, k
    <3> QED
      BY <1>3, <3>4, <3>5 DEF ExtentsOf
  <2> QED
    BY <1>1, <2>1, <2>2, <2>3, ExtentsHas, ExtentsNext
<1> QED
  BY <1>1, <1>2, <1>3

\* The extents of all files with a name count as synced.
LEMMA SyncedExtents ==
  ASSUME MetaInv, Extents, SnapshotSynced
  PROVE  Extents'
<1>0. Control /\ Trust
  BY DEF MetaInv
<1>1. /\ pc = "marksynced" /\ pc' = "reset"
      /\ UNCHANGED <<log, files_, extents_, meta_log_, old_meta_log, call, record, durable, trusted,
                     overtaken>>
      /\ nr_synced_extents_' =
           [id \in Ids |-> IF id \in Live THEN Len(extents_[id]) ELSE nr_synced_extents_[id]]
  BY DEF SnapshotSynced, device, roll, history
<1>2. pc \in Persisting /\ pc \notin Down /\ pc' \in Persisting /\ pc' \notin Before
  BY <1>1 DEF Persisting, Before, After, Down
<1>3. (Opening' <=> Opening) /\ (Updating' <=> Updating)
  BY Zenon, <1>1, <1>2, CallSame DEF Opening
<1>4. ASSUME trusted', NEW id \in Ids, Sure(id)' PROVE ExtentsOf(id)'
  <2>1. trusted /\ Sure(id) /\ durable = files_
    BY <1>0, <1>1, <1>2, <1>4, Trusted DEF Underway, Sure, IsDurable
  <2>2. ExtentsOf(id) /\ id \in Live
    BY <1>2, <2>1, ExtentsHas DEF Sure, IsDurable, Live
  <2> DEFINE e == extents_[id]
             f == Found(id)
  <2>3. /\ Found(id)' = f /\ extents_'[id] = e /\ nr_synced_extents_'[id] = Len(e)
        /\ Len(e) \in Nat
    BY <1>0, <1>1, <2>2, FoundSame, FoundType
  <2>4. Len(f) = Len(e) /\ \A i \in 1..Len(f) : f[i] = e[i]
    BY <1>1, <2>2 DEF ExtentsOf
  <2> HIDE DEF e, f
  <2> QED
    BY <1>1, <2>3, <2>4 DEF ExtentsOf
<1>5. ASSUME trusted', Opening PROVE extents_'[call.id] = <<>> /\ nr_synced_extents_'[call.id] = 0
  <2>1. extents_[call.id] = <<>> /\ nr_synced_extents_[call.id] = 0
    BY <1>1, <1>2, <1>5, ExtentsHas
  <2>2. call.id \in Ids
    BY <1>5, CallFields DEF Opening, Updating
  <2> QED
    BY <1>1, <2>1, <2>2
<1> QED
  BY <1>1, <1>2, <1>3, <1>4, <1>5, ExtentsNext

\* The old zone is emptied.
LEMMA ResetExtents ==
  ASSUME MetaInv, Extents, ResetOldZone
  PROVE  Extents'
<1>0. Control /\ Trust
  BY DEF MetaInv
<1>1. /\ pc = "reset" /\ pc' = "synced" /\ Emptied(old_meta_log)
      /\ UNCHANGED <<extents_, nr_synced_extents_, meta_log_, old_meta_log, call, record, durable,
                     trusted, overtaken>>
  BY <1>0, ResetControl DEF ResetOldZone, memory, roll, history
<1>2. pc \in Persisting /\ pc \notin Down /\ pc' \in Persisting /\ pc' \notin Before
  BY <1>1 DEF Persisting, Before, After, Down
<1>3. (Opening' <=> Opening) /\ (Updating' <=> Updating)
  BY Zenon, <1>1, <1>2, CallSame DEF Opening
<1>4. \A id \in Ids : Found(id)' = Found(id)
  <2>1. /\ old_meta_log # meta_log_ /\ log[meta_log_] # <<>>
        /\ Last(log[meta_log_]).tag = "snapshot" /\ log[meta_log_] \in Seq(LogRecord)
    BY <1>0, <1>1, ControlTypes DEF Control, Rolling
  <2>2. HasSnapshot(meta_log_)
    BY <2>1, EndsWithSnapshot DEF HasSnapshot
  <2>3. PICK h \in Zones : h = meta_log_ /\ h = Current
    BY <1>0, <2>2, CurrentIs
  <2>4. log'[h] = log[h]
    BY <1>0, <1>1, <2>1, <2>3, ControlTypes DEF Emptied
  <2>5. Current' = h
    BY <1>1, <2>2, <2>3, <2>4 DEF Current, HasSnapshot
  <2>6. RecoverFrom(h)'.ext = RecoverFrom(h).ext
    BY <2>4 DEF RecoverFrom
  <2> QED
    BY <2>3, <2>5, <2>6, FoundAt
<1>5. ASSUME trusted', NEW id \in Ids, Sure(id)' PROVE ExtentsOf(id)'
  <2>1. Sure(id) /\ trusted
    BY <1>1, <1>5 DEF Sure, IsDurable
  <2>2. ExtentsOf(id)
    BY <1>2, <2>1, ExtentsHas
  <2> DEFINE e == extents_[id]
             f == Found(id)
             k == nr_synced_extents_[id]
  <2>3. Found(id)' = f /\ extents_'[id] = e /\ nr_synced_extents_'[id] = k
    BY <1>1, <1>4
  <2>4. /\ k = Len(f) /\ k <= Len(f) /\ Len(f) <= Len(e) /\ \A i \in 1..Len(f) : f[i] = e[i]
        /\ Updating /\ id = call.id => Len(f) = Len(e)
    BY <1>1, <2>2 DEF ExtentsOf
  <2> HIDE DEF e, f, k
  <2> QED
    BY <1>1, <1>3, <2>3, <2>4 DEF ExtentsOf
<1> QED
  BY <1>1, <1>2, <1>3, <1>5, ExtentsHas, ExtentsNext

\* All steps of PersistRecord
LEMMA PersistAllExtents ==
  ASSUME MetaInv, Counts, Extents, Persist
  PROVE  Extents'
BY AddRecordOkExtents, AddRecordNotExtents, AllocateExtents, EndExtents, SuperExtents,
   SnapshotExtents, SyncedExtents, ResetExtents DEF Persist

\* The extents of a file whose update is in the log count as synced.
LEMMA UpdateEndsExtents ==
  ASSUME MetaInv, Extents, pc = "synced", Updating, MetadataSynced(call.id), pc' = "idle",
         trusted' => trusted,
         UNCHANGED <<device, meta_log_, old_meta_log, durable, extents_, overtaken>>
  PROVE  Extents'
<1>0. Control
  BY DEF MetaInv
<1>1. /\ pc \notin Down /\ pc' \notin Persisting /\ pc' \notin Before /\ call.id \in Ids
  BY CallFields DEF Down, Persisting, Before, After, Updating
<1>2. nr_synced_extents_' = [nr_synced_extents_ EXCEPT ![call.id] = Len(extents_[call.id])]
  BY DEF MetadataSynced
<1>3. ~Opening'
  BY <1>1 DEF Opening
<1>4. ASSUME trusted', NEW id \in Ids, Sure(id)' PROVE ExtentsOf(id)'
  <2>1. Sure(id) /\ trusted
    BY <1>4 DEF Sure, IsDurable
  <2>2. ExtentsOf(id)
    BY <1>1, <2>1, ExtentsHas
  <2>3. Found(id)' = Found(id) /\ nr_synced_extents_ \in [Ids -> Nat]
    BY <1>0, FoundSame DEF device, Control, Types
  <2>4. CASE id # call.id
    <3>1. nr_synced_extents_'[id] = nr_synced_extents_[id]
      BY <1>2, <2>3, <2>4
    <3> QED
      BY <1>0, <2>2, <2>3, <2>4, <3>1, ExtentsKept
  <2>5. CASE id = call.id
    <3> DEFINE e == extents_[id]
               f == Found(id)
    <3>1. /\ Found(id)' = f /\ extents_'[id] = e /\ nr_synced_extents_'[id] = Len(e)
          /\ Len(e) \in Nat
      BY <1>0, <1>2, <2>3, <2>5, FoundType
    <3>2. Len(f) = Len(e) /\ \A i \in 1..Len(f) : f[i] = e[i]
      BY <2>2, <2>5 DEF ExtentsOf
    <3> HIDE DEF e, f
    <3> QED
      BY <3>1, <3>2 DEF ExtentsOf
  <2> QED
    BY <2>4, <2>5
<1> QED
  BY <1>1, <1>3, <1>4, ExtentsNext

\* A file without links gives up its extents; it has no name.
LEMMA DeletePersistedExtents ==
  ASSUME MetaInv, Extents, DeletePersisted
  PROVE  Extents'
<1>0. Control /\ Trust
  BY DEF MetaInv
<1> DEFINE gone == linkfiles_[record.id] = <<>>
<1>1. /\ pc = "synced" /\ record.tag = "delete"
      /\ extents_' = IF gone THEN [extents_ EXCEPT ![record.id] = <<>>] ELSE extents_
      /\ nr_synced_extents_' =
           IF gone THEN [nr_synced_extents_ EXCEPT ![record.id] = 0] ELSE nr_synced_extents_
      /\ pc' \in {"idle", "main"}
      /\ UNCHANGED <<device, meta_log_, old_meta_log, durable, trusted, overtaken>>
  BY DEF DeletePersisted, Return, roll
<1>2. Deleting /\ ~Updating /\ record.id \in Ids
  BY <1>0, <1>1, Persisted
<1>3. /\ pc \notin Down /\ pc' \notin Persisting /\ pc' \notin Before
  BY <1>1 DEF Down, Persisting, Before, After
<1>4. ~Opening' /\ ~Opening
  BY <1>2, <1>3 DEF Opening
<1>5. ASSUME trusted', NEW id \in Ids, Sure(id)' PROVE ExtentsOf(id)'
  <2>1. Sure(id) /\ trusted
    BY <1>1, <1>5 DEF Sure, IsDurable
  <2>2. ExtentsOf(id)
    BY <1>3, <2>1, ExtentsHas
  <2>3. Found(id)' = Found(id)
    BY <1>1, FoundSame DEF device
  <2>4. ASSUME gone PROVE id # record.id
    <3>1. InMemory /\ durable = files_
      BY <1>0, <1>1, <1>4, <2>1, AfterPersist
    <3>2. Named(linkfiles_[record.id], files_, record.id)
      BY <1>2, <1>4, <3>1, InMemoryHas
    <3>3. \A n \in Names : files_[n] # record.id
      BY <2>4, <3>2, EmptyLinks DEF Named
    <3> QED
      BY <2>1, <3>1, <3>3 DEF Sure, IsDurable
  <2>5. extents_ \in [Ids -> Seq(Nat)] /\ nr_synced_extents_ \in [Ids -> Nat]
    BY <1>0 DEF Control, Types
  <2>6. extents_'[id] = extents_[id] /\ nr_synced_extents_'[id] = nr_synced_extents_[id]
    BY <1>1, <2>4, <2>5
  <2> QED
    BY <1>0, <1>1, <1>2, <2>2, <2>3, <2>6, ExtentsKept
<1> QED
  BY <1>3, <1>4, <1>5, ExtentsNext

\* What the calls do once PersistRecord has returned
LEMMA FinishExtents ==
  ASSUME MetaInv, Extents, Finish
  PROVE  Extents'
<1>0. Control
  BY DEF MetaInv
<1>1. CASE DeletePersisted
  BY <1>1, DeletePersistedExtents
<1>2. CASE OpenPersisted \/ UpdatePersisted
  <2>1. /\ pc = "synced" /\ record.tag = "update" /\ MetadataSynced(call.id) /\ pc' = "idle"
        /\ UNCHANGED <<device, meta_log_, old_meta_log, durable, extents_, overtaken>>
        /\ trusted' => trusted
    <3>1. CASE OpenPersisted
      BY <3>1 DEF OpenPersisted, Return, roll
    <3>2. CASE UpdatePersisted
      BY <3>2 DEF UpdatePersisted, Return, roll
    <3> QED
      BY <1>2, <3>1, <3>2
  <2>2. Updating
    BY <1>0, <2>1, Persisted
  <2> QED
    BY <2>1, <2>2, UpdateEndsExtents
<1>3. CASE MountDone
  <2>1. /\ pc = "synced" /\ record.tag = "mount" /\ pc' = "idle"
        /\ UNCHANGED <<device, meta_log_, old_meta_log, durable, extents_, nr_synced_extents_, trusted,
                       overtaken>>
    BY <1>3 DEF MountDone, Return, roll
  <2>2. ~Updating
    BY <2>1, Kinds
  <2> QED
    BY <2>1, <2>2, CallExtents DEF Down
<1>4. CASE DeleteFailed \/ OpenFailed \/ RenameFailed \/ LinkFailed \/ SyncFailed \/ RenameLinkFailed
  <2>1. /\ pc \in {"failed", "main"} /\ pc' = "idle"
        /\ UNCHANGED <<device, meta_log_, old_meta_log, durable, extents_, nr_synced_extents_, trusted,
                       overtaken>>
    BY <1>4 DEF DeleteFailed, OpenFailed, RenameFailed, LinkFailed, SyncFailed, RenameLinkFailed,
                Return, roll
  <2> QED
    BY <2>1, CallExtents DEF Down, After
<1>5. CASE MountFailed
  BY <1>5 DEF MountFailed, Extents, Down
<1> QED
  BY <1>1, <1>2, <1>3, <1>4, <1>5 DEF Finish

\* A file grows, beside whatever call is running.
LEMMA PushExtents ==
  ASSUME MetaInv, Extents, NEW x \in Ids, PushExtent(x)
  PROVE  Extents'
<1>0. Control /\ Trust
  BY DEF MetaInv
<1> DEFINE e == extents_[x]
           v == IF e = <<>> THEN 1 ELSE Last(e) + 1
<1>1. /\ extents_' = [extents_ EXCEPT ![x] = Append(e, v)] /\ x \in Live
      /\ UNCHANGED <<device, meta_log_, old_meta_log, nr_synced_extents_, durable, trusted, pc, call,
                     record>>
      /\ overtaken' = IF Encoded(x) THEN overtaken \cup {x} ELSE overtaken
  BY DEF PushExtent, roll
<1>2. (Opening' <=> Opening) /\ (Updating' <=> Updating)
  BY Zenon, <1>1, CallSame DEF Opening
<1>3. extents_ \in [Ids -> Seq(Nat)] /\ \A id \in Ids : id # x => extents_'[id] = extents_[id]
  BY <1>0, <1>1 DEF Control, Types
<1>4. ASSUME trusted', pc' \notin Down, NEW id \in Ids, Sure(id)' PROVE ExtentsOf(id)'
  <2>1. Sure(id) /\ trusted /\ pc \notin Down
    BY <1>1, <1>4 DEF Sure, IsDurable
  <2>2. ExtentsOf(id)
    BY <2>1, ExtentsHas
  <2>3. Found(id)' = Found(id)
    BY <1>1, FoundSame DEF device
  <2>4. CASE id # x
    <3>1. extents_'[id] = extents_[id]
      BY <1>3, <2>4
    <3> QED
      BY Zenon, <1>1, <1>2, <2>2, <2>3, <3>1 DEF ExtentsOf
  <2>5. CASE id = x
    <3> DEFINE f == Found(id)
               k == nr_synced_extents_[id]
               a == Append(e, v)
    <3>0. pc # "marksynced" /\ ~(Updating /\ id = call.id)
      <4>1. ~Encoded(x)
        BY <1>1, <1>4, <2>5 DEF Sure
      <4> QED
        BY <2>5, <4>1, Kinds DEF Encoded, Updating
    <3>1. Found(id)' = f /\ extents_'[id] = a /\ nr_synced_extents_'[id] = k
      BY <1>1, <1>3, <2>3, <2>5
    <3>2. /\ Len(f) <= Len(e) /\ (\A i \in 1..Len(f) : f[i] = e[i]) /\ k <= Len(f) /\ Len(f) \in Nat
          /\ e \in Seq(Nat) /\ k = Len(f)
      BY <1>0, <2>2, <2>5, <3>0, FoundType DEF ExtentsOf
    <3> HIDE DEF e, f, k, v
    <3>3. Len(a) = Len(e) + 1 /\ \A i \in 1..Len(e) : a[i] = e[i]
      BY <3>2
    <3> HIDE DEF a
    <3>4. Len(f) <= Len(a) /\ \A i \in 1..Len(f) : f[i] = a[i]
      BY <3>2, <3>3
    <3> QED
      BY <1>1, <1>2, <3>0, <3>1, <3>2, <3>4 DEF ExtentsOf
  <2> QED
    BY <2>4, <2>5
<1>5. ASSUME trusted', pc' \notin Down, pc' \in Before, Updating', call'.id \notin overtaken'
      PROVE  record' = EncodeUpdateTo(call.id, record.links)'
  <2>1. /\ trusted /\ pc \notin Down /\ pc \in Before /\ Updating /\ call.id \notin overtaken
        /\ ~(Encoded(x) /\ call.id = x)
    BY <1>1, <1>2, <1>5
  <2>2. call.id # x /\ call.id \in Ids
    BY <2>1, Kinds, CallFields DEF Encoded, Updating
  <2>3. record = EncodeUpdateTo(call.id, record.links)
    BY <2>1, ExtentsHas
  <2>4. extents_'[call.id] = extents_[call.id]
    BY <1>3, <2>2
  <2>5. EncodeUpdateTo(call.id, record.links)' = EncodeUpdateTo(call.id, record.links)
    BY <1>1, <2>4 DEF EncodeUpdateTo
  <2> QED
    BY <1>1, <2>3, <2>5
<1>6. ASSUME trusted', pc' \notin Down, Opening'
      PROVE  extents_'[call'.id] = <<>> /\ nr_synced_extents_'[call'.id] = 0
  <2>1. trusted /\ pc \notin Down /\ Opening
    BY <1>1, <1>2, <1>6
  <2>2. Underway /\ call.id \in Ids
    BY <1>0, <2>1, Trusted, CallFields DEF Opening, Updating
  <2>3. \A n \in Names : files_[n] # call.id
    <3>1. pc \in Persisting /\ Updating /\ call.name = "open"
      BY <2>1 DEF Opening
    <3>2. ~Deleting /\ ~Mounting
      BY <3>1, Kinds, KindsNext
    <3>3. Changed
      BY <2>2, <3>1 DEF Underway
    <3> QED
      BY <3>1, <3>2, <3>3 DEF Changed
  <2>4. call.id # x
    BY <1>1, <2>3 DEF Live
  <2> QED
    BY <1>1, <1>3, <2>1, <2>2, <2>4, ExtentsHas
<1> QED
  BY <1>4, <1>5, <1>6, ExtentsNext

\* A mount has the extents it finds, and they count as synced.
LEMMA MountExtents ==
  ASSUME MetaInv, Mount
  PROVE  Extents'
<1>0. Control
  BY DEF MetaInv
<1>1. PICK h \in Zones :
        /\ pc' = "alloc" /\ RecoverFrom(h) \in State /\ RecoverFrom(h).status = "ok"
        /\ extents_' = RecoverFrom(h).ext
        /\ nr_synced_extents_' = [id \in Ids |-> Len(RecoverFrom(h).ext[id])]
        /\ meta_log_' = h /\ Mounting' /\ call'.name = "mount" /\ UNCHANGED device
  BY <1>0, MountFacts
<1>2. /\ record' = [tag |-> "mount"] /\ pc' \in Before
  BY <1>1 DEF Mounting, Before
<1>3. ~Updating' /\ ~Opening'
  BY Zenon, <1>1, <1>2, RecordFields DEF Updating, Opening
<1>4. \E i \in DOMAIN log[h] : log[h][i].tag = "snapshot"
  BY <1>0, <1>1 DEF Control, Decodable, Sound, RecoverFrom
<1>5. Current' = h /\ RecoverFrom(h)' = RecoverFrom(h)
  BY <1>1, <1>4 DEF Current, HasSnapshot, device, RecoverFrom
<1>6. ASSUME NEW id \in Ids PROVE ExtentsOf(id)'
  <2> DEFINE f == RecoverFrom(h).ext[id]
  <2>1. Found(id)' = f /\ extents_'[id] = f /\ nr_synced_extents_'[id] = Len(f)
    BY <1>1, <1>5 DEF Found, RecoverFrom
  <2>2. f \in Seq(Nat)
    BY <1>1, StateFields
  <2> HIDE DEF f
  <2>3. Len(f) \in Nat
    BY <2>2
  <2> QED
    BY <1>1, <2>1, <2>3 DEF ExtentsOf
<1> QED
  BY <1>3, <1>6, ExtentsNext

\* All steps keep what is known of extents.
LEMMA NextExtents ==
  ASSUME MetaInv, Counts, Extents, [Next]_vars
  PROVE  Extents'
<1>1. CASE CallSome
  <2>1. /\ pc = "idle" /\ pc' \in {"unlink", "main"}
        /\ UNCHANGED <<device, meta_log_, old_meta_log, durable, extents_, nr_synced_extents_, trusted,
                       overtaken>>
    BY <1>1 DEF CallSome, OpenWritableFile, DeleteFile, SyncFileMetadata, RenameFile, LinkFile,
                Begin, memory, roll, history
  <2> QED
    BY <2>1, CallExtents DEF Down, After
<1>2. CASE \E id \in Ids : PushExtent(id)
  BY <1>2, PushExtents
<1>3. CASE MkFS \/ MountCorrupted \/ Crash \/ CrashInSnapshot
  BY <1>3 DEF MkFS, MountCorrupted, Crash, CrashInSnapshot, Extents, Down
<1>4. CASE UNCHANGED vars
  <2>1. UNCHANGED <<log, meta_log_, old_meta_log, extents_, nr_synced_extents_, pc, call, record,
                    durable, trusted, overtaken>>
    BY <1>4 DEF vars, device, memory, roll, history
  <2>2. (Opening' <=> Opening) /\ (Updating' <=> Updating)
    BY Zenon, <2>1, CallSame DEF Opening
  <2>3. EncodeUpdateTo(call.id, record.links)' = EncodeUpdateTo(call.id, record.links)
    BY <2>1 DEF EncodeUpdateTo
  <2>4. ASSUME NEW id \in Ids PROVE (Sure(id)' <=> Sure(id)) /\ (ExtentsOf(id)' <=> ExtentsOf(id))
    <3>1. Found(id)' = Found(id)
      BY <2>1, FoundSame
    <3> QED
      BY Zenon, <2>1, <2>2, <3>1 DEF Sure, IsDurable, ExtentsOf
  <2> QED
    BY <2>1, <2>2, <2>3, <2>4, ExtentsHas, ExtentsNext
<1> QED
  BY <1>1, <1>2, <1>3, <1>4, ChangeExtents, PersistAllExtents, FinishExtents, MountExtents DEF Next

\* A file with a name in memory has one in the log, whatever call is running.
LEMMA LiveIsDurable ==
  ASSUME MetaInv, trusted, pc \notin Down, NEW id \in Live
  PROVE  id \in Ids /\ IsDurable(id)
<1>0. Control /\ Ahead /\ Underway
  BY Trusted DEF MetaInv
<1>1. PICK n \in Names : id \in Ids /\ files_[n] = id
  BY DEF Live
<1>2. pc \in {"idle", "unlink", "main"} \cup Before \cup After
  BY <1>0 DEF Control, Types, Persisting
<1>3. CASE pc \in Before
  BY <1>0, <1>1, <1>3, LiveDurable
<1>4. CASE pc \in {"idle", "unlink", "main"}
  BY <1>0, <1>1, <1>4 DEF Ahead, IsDurable
<1>5. CASE pc \in After
  <2>1. /\ pc \in Persisting /\ Changed
        /\ durable = files_ \/ durable = goal
    BY <1>0, <1>5 DEF Persisting, After, Underway
  <2>2. CASE durable = files_ \/ goal = files_
    BY <1>1, <2>1, <2>2 DEF IsDurable
  <2>3. CASE goal # files_
    <3>1. goal = [files_ EXCEPT ![call.dst] = call.id] /\ files_[call.dst] = NoFile
      BY <2>1, <2>3 DEF Changed
    <3>2. files_ \in [Names -> Ids \cup {NoFile}] /\ id # NoFile
      BY <1>0, <1>1, NoFileIsNone DEF Control, Types, Namespace
    <3>3. goal[n] = id
      BY <1>1, <3>1, <3>2
    <3> QED
      BY <1>1, <2>1, <3>3 DEF IsDurable
  <2> QED
    BY <2>2, <2>3
<1> QED
  BY <1>2, <1>3, <1>4, <1>5

\* A sequence that agrees with another as far as it goes is a prefix of it.
LEMMA PrefixOf ==
  ASSUME NEW f \in Seq(Nat), NEW e \in Seq(Nat), Len(f) <= Len(e),
         \A i \in 1..Len(f) : f[i] = e[i]
  PROVE  IsPrefix(f, e)
<1>1. SubSeq(f, 1, Len(f)) = SubSeq(e, 1, Len(f))
  OBVIOUS
<1> QED
  BY <1>1 DEF IsPrefix

\* And what the longer one begins with is a prefix of it.
LEMMA PrefixIs ==
  ASSUME NEW f \in Seq(Nat), NEW e \in Seq(Nat), Len(f) <= Len(e),
         \A i \in 1..Len(f) : f[i] = e[i], NEW k \in Nat, k <= Len(f)
  PROVE  IsPrefix(f, e) /\ IsPrefix(SubSeq(e, 1, k), f)
<1> DEFINE s == SubSeq(e, 1, k)
<1>1. Len(f) \in Nat /\ Len(e) \in Nat /\ k <= Len(e)
  OBVIOUS
<1>2. s \in Seq(Nat) /\ Len(s) = k /\ \A i \in 1..k : s[i] = e[i]
  BY <1>1
<1> HIDE DEF s
<1>3. Len(s) <= Len(f)
  BY <1>2
<1>4. ASSUME NEW i \in 1..Len(s) PROVE s[i] = f[i]
  <2>1. i \in 1..k /\ i \in 1..Len(f)
    BY <1>1, <1>2
  <2>2. f[i] = e[i]
    BY <2>1
  <2> QED
    BY <1>2, <2>1, <2>2
<1> QED
  BY <1>2, <1>3, <1>4, PrefixOf DEF s

\* Extents that count as synced are in the log, in order, and the log has no others: for
\* every number of files and of extents, crashes and refused writes, and writers that add
\* extents beside calls and rolls.  Only a file that grew between the encoding of a record
\* or a snapshot with it and MetadataSynced is left out, until the next snapshot
\* (EncodeUpdateTo, MergeUpdate, WriteSnapshotLocked, MetadataSynced).
THEOREM MetaLogExtents == Spec => []SyncedExtentsLogged
<1>1. Init => Extents
  BY DEF Init, Extents, Down
<1>2. MetaInv /\ Counts /\ Extents /\ [Next]_vars => Extents'
  BY NextExtents
<1>3. MetaInv /\ Extents => SyncedExtentsLogged
  <2> SUFFICES ASSUME MetaInv, Extents, trusted, pc \notin Down, NEW id \in Live \ overtaken
               PROVE  /\ IsPrefix(SubSeq(extents_[id], 1, nr_synced_extents_[id]), Recovered.ext[id])
                      /\ IsPrefix(Recovered.ext[id], extents_[id])
    BY DEF SyncedExtentsLogged
  <2>1. id \in Ids /\ Sure(id)
    BY LiveIsDurable DEF Sure
  <2>2. ExtentsOf(id)
    BY <2>1, ExtentsHas
  <2>3. Recovered.ext[id] = Found(id)
    BY TrustFinds DEF Found, Down
  <2> DEFINE f == Found(id)
             e == extents_[id]
             k == nr_synced_extents_[id]
  <2>4. /\ f \in Seq(Nat) /\ e \in Seq(Nat) /\ k \in Nat
        /\ Len(f) <= Len(e) /\ (\A i \in 1..Len(f) : f[i] = e[i]) /\ k <= Len(f)
    BY <2>1, <2>2, FoundType DEF MetaInv, ExtentsOf
  <2> HIDE DEF f, e, k
  <2>5. IsPrefix(f, e) /\ IsPrefix(SubSeq(e, 1, k), f)
    BY <2>4, PrefixIs
  <2> QED
    BY <2>3, <2>5 DEF f, e, k
<1> QED
  BY <1>1, <1>2, <1>3, MetaInvAlways, CountsAlways, PTL DEF Spec

-----------------------------------------------------------------------------
(***************************************************************************)
(* The log implements the durable namespace                                *)
(***************************************************************************)

\* Nothing of what is promised changes.
LEMMA NamesStay ==
  ASSUME trusted, trusted', durable' = durable, Promised' <=> Promised,
         Promised => call' = call /\ Stage' = Stage
  PROVE  UNCHANGED Durable!vars
<1>1. ~Promised => Stage = "idle" /\ Stage' = "idle"
  BY DEF Stage
<1> QED
  BY <1>1 DEF Durable!vars

\* A call is over, in whatever way.
LEMMA NamesEnd ==
  ASSUME trusted, trusted', durable' = durable, Promised, ~Promised'
  PROVE  Durable!End
<1>1. Stage # "idle" /\ Stage' = "idle"
  BY DEF Stage
<1> QED
  BY <1>1 DEF Durable!End, Durable!NoCall, NoCall

\* The promise is given up.
LEMMA NamesLost ==
  ASSUME ~trusted'
  PROVE  Durable!Lose
<1>1. ~Promised' /\ Stage' = "idle"
  BY DEF Promised, Stage
<1> QED
  BY <1>1 DEF Durable!Lose, Durable!NoNames, Durable!NoCall, NoCall, EmptyState

\* A running call whose record is not in the log yet is to change the durable names.
LEMMA Pending ==
  ASSUME Control, Underway, pc \in Before, Deleting \/ (Updating /\ call.name # "sync")
  PROVE  /\ durable # goal /\ call.dst \in Names /\ call.src \in Names
         /\ Deleting => goal = [durable EXCEPT ![call.dst] = NoFile]
         /\ Updating => /\ durable[call.dst] = NoFile
                        /\ goal = IF call.name = "rename"
                                  THEN [durable EXCEPT ![call.src] = NoFile, ![call.dst] = call.id]
                                  ELSE [durable EXCEPT ![call.dst] = call.id]
<1>0. /\ files_ \in [Names -> Ids \cup {NoFile}] /\ durable \in [Names -> Ids \cup {NoFile}]
      /\ call.dst \in Names /\ call.src \in Names /\ call.id \in Ids /\ call.id # NoFile
  BY NoFileIsNone, CallFields DEF Control, Types, Namespace, Deleting, Updating
<1>1. CASE Deleting
  <2>1. /\ durable = [files_ EXCEPT ![call.dst] = record.id]
        /\ goal = files_ /\ files_[call.dst] = NoFile
    BY <1>1, ChangedBy
  <2>2. record.id # NoFile /\ ~Updating
    BY <1>1, Kinds, KindsNext, NoFileIsNone
  <2>3. durable[call.dst] # goal[call.dst]
    BY <1>0, <2>1, <2>2
  <2>4. goal = [durable EXCEPT ![call.dst] = NoFile]
    BY <1>0, <2>1
  <2> QED
    BY <1>0, <2>2, <2>3, <2>4
<1>2. CASE Updating
  <2>1. ~Deleting /\ call.name \in {"open", "rename", "link"}
    BY <1>2, KindsNext DEF Updating
  <2>2. CASE call.name = "open"
    <3>1. durable = files_ /\ goal = [files_ EXCEPT ![call.dst] = call.id] /\ files_[call.dst] = NoFile
      BY <1>2, <2>2, ChangedBy
    <3>2. goal[call.dst] # durable[call.dst]
      BY <1>0, <3>1
    <3> QED
      BY <1>0, <2>1, <2>2, <3>1, <3>2
  <2>3. CASE call.name = "rename"
    <3>1. /\ durable = [files_ EXCEPT ![call.dst] = NoFile, ![call.src] = call.id] /\ goal = files_
          /\ call.src # call.dst /\ files_[call.src] = NoFile /\ files_[call.dst] = call.id
      BY <1>2, <2>3, ChangedBy
    <3>2. durable[call.dst] = NoFile /\ goal[call.dst] # durable[call.dst]
      BY <1>0, <3>1
    <3>3. goal = [durable EXCEPT ![call.src] = NoFile, ![call.dst] = call.id]
      BY <1>0, <3>1
    <3> QED
      BY <1>0, <2>1, <2>3, <3>2, <3>3
  <2>4. CASE call.name = "link"
    <3>1. /\ durable = [files_ EXCEPT ![call.dst] = NoFile] /\ goal = files_
          /\ files_[call.dst] = call.id
      BY <1>2, <2>4, ChangedBy
    <3>2. durable[call.dst] = NoFile /\ goal[call.dst] # durable[call.dst]
      BY <1>0, <3>1
    <3>3. goal = [durable EXCEPT ![call.dst] = call.id]
      BY <1>0, <3>1
    <3> QED
      BY <1>0, <2>1, <2>4, <3>2, <3>3
  <2> QED
    BY <2>1, <2>2, <2>3, <2>4
<1> QED
  BY <1>1, <1>2

\* A call's record, or the snapshot that takes its place, is in the log: the call's part
\* is done.
LEMMA NamesChange ==
  ASSUME Control, Underway, trusted, trusted', pc \in Before, pc' \in After,
         Deleting \/ (Updating /\ call.name # "sync"),
         durable' = goal, UNCHANGED <<call, record, goal>>
  PROVE  Durable!Unlink \/ Durable!Enter
<1>1. /\ pc \notin Down /\ pc \notin {"unlink", "main"} /\ pc' \notin Down /\ pc' \notin {"unlink", "main"}
  BY DEF Before, After, Down
<1>2. /\ Deleting => record.tag = "delete" /\ call.name \in {"open", "delete", "rename"}
      /\ Updating => record.tag = "update" /\ call.name \in {"open", "rename", "link", "sync"}
  BY Kinds DEF Deleting, Updating
<1>3. Promised /\ Promised'
  BY <1>1, <1>2 DEF Promised
<1>4. /\ durable # goal
      /\ Deleting => goal = [durable EXCEPT ![call.dst] = NoFile]
      /\ Updating => /\ durable[call.dst] = NoFile
                     /\ goal = IF call.name = "rename"
                               THEN [durable EXCEPT ![call.src] = NoFile, ![call.dst] = call.id]
                               ELSE [durable EXCEPT ![call.dst] = call.id]
  BY Pending
<1>5. /\ Stage = IF record.tag = "delete" THEN "unlink" ELSE "main"
      /\ Stage' = IF record.tag = "delete" /\ call.name # "delete" THEN "main" ELSE "done"
  BY <1>1, <1>3, <1>4 DEF Stage
<1>6. CASE Deleting
  BY <1>2, <1>3, <1>4, <1>5, <1>6 DEF Durable!Unlink
<1>7. CASE Updating
  BY <1>2, <1>3, <1>4, <1>5, <1>7 DEF Durable!Enter
<1> QED
  BY <1>6, <1>7

\* Such a call behind a step
Unfinished == Underway /\ pc \in Before /\ (Deleting \/ (Updating /\ call.name # "sync"))
LEMMA PendingNext ==
  Control' /\ Unfinished' => (durable # goal)'
<1>1. Control /\ Unfinished => durable # goal
  BY Pending DEF Unfinished
<1> QED
  BY <1>1, PTL

\* What is known of a call behind a step
LEMMA UnderwayNext ==
  MetaInv' /\ trusted' /\ (pc \notin Down)' => Control' /\ Underway'
<1>1. MetaInv /\ trusted /\ pc \notin Down => Control /\ Underway
  BY Trusted DEF MetaInv
<1> QED
  BY <1>1, PTL

\* A call begins: it is legal, and has first to unlink what is in its way.
LEMMA BeginNames ==
  ASSUME MetaInv, trusted, trusted', CallSome
  PROVE  Durable!Call \/ UNCHANGED Durable!vars
<1>0. Control /\ Trust /\ files_ \in [Names -> Ids \cup {NoFile}]
  BY DEF MetaInv, Control, Types, Namespace
<1>1. PICK name \in {"open", "delete", "rename", "link", "sync"}, src \in Names, dst \in Names,
           id \in Ids, next \in {"unlink", "main"} :
        /\ Begin(name, src, dst, id, next)
        /\ name # "sync" => next = IF files_[dst] # NoFile THEN "unlink" ELSE "main"
        /\ name = "open" => src = dst /\ id = next_file_id_
        /\ name = "delete" => src = dst /\ id = files_[dst] /\ id # NoFile
        /\ name = "rename" => id = files_[src] /\ id # NoFile
        /\ name = "link" => id = files_[src] /\ id # NoFile /\ files_[dst] = NoFile
  <2>1. CASE \E n \in Names : OpenWritableFile(n)
    BY <2>1 DEF OpenWritableFile
  <2>2. CASE \E n \in Names : DeleteFile(n)
    BY <1>0, <2>2 DEF DeleteFile
  <2>3. CASE \E n \in Names : SyncFileMetadata(n)
    BY <1>0, <2>3 DEF SyncFileMetadata
  <2>4. CASE \E a, b \in Names : RenameFile(a, b)
    <3>1. PICK a \in Names, b \in Names : RenameFile(a, b)
      BY <2>4
    <3>2. /\ files_[a] # NoFile /\ files_[a] \in Ids
          /\ Begin("rename", a, b, files_[a], IF files_[b] # NoFile THEN "unlink" ELSE "main")
      BY <1>0, <3>1 DEF RenameFile
    <3> QED
      BY <3>2
  <2>5. CASE \E a, b \in Names : LinkFile(a, b)
    <3>1. PICK a \in Names, b \in Names : LinkFile(a, b)
      BY <2>5
    <3>2. /\ files_[a] # NoFile /\ files_[a] \in Ids /\ files_[b] = NoFile
          /\ Begin("link", a, b, files_[a], "main")
      BY <1>0, <3>1 DEF LinkFile
    <3> QED
      BY <3>2
  <2> QED
    BY <2>1, <2>2, <2>3, <2>4, <2>5 DEF CallSome
<1> DEFINE c == [name |-> name, src |-> src, dst |-> dst, id |-> id]
<1>2. /\ pc = "idle" /\ pc' = next /\ call' = c /\ durable' = durable
  BY <1>1 DEF Begin, history
<1>3. /\ c.name = name /\ c.src = src /\ c.dst = dst /\ c.id = id
      /\ name # "sync" => c \in Durable!Calls
  BY <1>1 DEF Durable!Calls
<1> HIDE DEF c
<1>4. call = NoCall /\ durable = files_ /\ pc' \notin Down
  BY <1>0, <1>1, <1>2, Trusted DEF Control, Calling, Ahead, Down
<1>5. ~Promised /\ (Promised' <=> name # "sync")
  BY <1>1, <1>2, <1>3, <1>4 DEF Promised, NoCall
<1>6. CASE name = "sync"
  BY <1>2, <1>5, <1>6, NamesStay
<1>7. CASE name # "sync"
  <2>1. Stage = "idle" /\ Stage' = next
    BY <1>1, <1>2, <1>5, <1>7 DEF Stage
  <2>2. name = "open" => \A n \in Names : files_[n] # id
    <3>1. id \in Nat
      BY DEF Ids
    <3>2. name = "open" => Unused(id)
      BY <1>0, <1>1, <3>1 DEF Control, Numbers
    <3> QED
      BY <3>2 DEF Unused
  <2>3. Durable!Legal(c)
    BY <1>1, <1>3, <1>4, <1>7, <2>2 DEF Durable!Legal, Durable!InUse
  <2> QED
    BY <1>1, <1>2, <1>3, <1>4, <1>5, <1>7, <2>1, <2>3 DEF Durable!Call
<1> QED
  BY <1>6, <1>7

\* A call changes memory; a mount would find what it found before.
LEMMA ChangeNames ==
  ASSUME MetaInv, MetaInv', trusted, trusted', Change
  PROVE  UNCHANGED Durable!vars
<1>1. /\ pc \in {"unlink", "main"} /\ pc' = "add" /\ UNCHANGED <<call, durable>>
      /\ pc = "unlink" => record'.tag = "delete"
      /\ pc = "main" => record'.tag = "update"
  BY DEF Change, DeleteFileNoLock, OpenNewFile, RenameFileNoLock, LinkFileLocked,
         SyncFileMetadataNoLock, PersistRecord, EncodeFileDeletionTo, EncodeUpdateTo
<1>2. Control' /\ Underway' /\ pc' \in Before /\ pc' \in Persisting /\ pc \notin Down /\ pc' \notin Down
  <2>1. pc' \in Before /\ pc' \in Persisting /\ pc \notin Down /\ pc' \notin Down
    BY <1>1 DEF Before, Persisting, Down
  <2> QED
    BY <2>1, UnderwayNext
<1>3. Promised' <=> Promised
  BY <1>1, <1>2 DEF Promised
<1>4. ASSUME Promised PROVE Stage' = Stage
  <2>1. Deleting' \/ Updating'
    BY <1>1, <1>2 DEF Control, Calling
  <2>2. call'.name # "sync"
    BY <1>1, <1>4 DEF Promised
  <2>3. durable' # goal'
    BY <1>2, <2>1, <2>2, PendingNext DEF Unfinished
  <2> QED
    BY <1>1, <1>3, <1>4, <2>3 DEF Stage
<1> QED
  BY <1>1, <1>3, <1>4, NamesStay

\* A step of PersistRecord that changes neither the durable names nor the call
LEMMA PersistStays ==
  ASSUME trusted, trusted', pc \in Persisting, pc' \in Persisting,
         UNCHANGED <<durable, goal, call, record>>
  PROVE  UNCHANGED Durable!vars
<1>1. /\ pc \notin Down /\ pc' \notin Down
      /\ pc \notin {"unlink", "main"} /\ pc' \notin {"unlink", "main"}
  BY DEF Persisting, Before, After, Down
<1>2. Promised' <=> Promised
  BY <1>1 DEF Promised
<1>3. Promised => Stage' = Stage
  BY <1>1, <1>2 DEF Stage
<1> QED
  BY <1>2, <1>3, NamesStay

\* PersistRecord: the record, or the snapshot, makes the call's change durable; the rest
\* of a roll does not show.
LEMMA PersistNames ==
  ASSUME MetaInv, trusted, trusted', Persist
  PROVE  Durable!Unlink \/ Durable!Enter \/ UNCHANGED Durable!vars
<1>0. Control /\ Trust
  BY DEF MetaInv
<1>1. /\ pc \in Persisting /\ pc' \in Persisting /\ UNCHANGED <<goal, call, record>>
  BY DEF Persist, AddRecordOk, AddRecordNoSpace, AddRecordError, AllocateMetaZone, WriteEndRecord,
         FinishOldZone, AddSuperblock, WriteSnapshotLocked, SnapshotSynced, ResetOldZone, history,
         Persisting, Before, After
<1>2. CASE durable' = durable
  BY <1>1, <1>2, PersistStays
<1>3. CASE durable' # durable
  <2>1. AddRecordOk \/ WriteSnapshotLocked
    BY <1>3 DEF Persist, AddRecordNoSpace, AddRecordError, AllocateMetaZone, WriteEndRecord,
                FinishOldZone, AddSuperblock, SnapshotSynced, ResetOldZone, history
  <2>2. /\ pc \in Before /\ pc' \in After /\ pc \notin Down
        /\ durable' = goal \/ durable' = files_
    BY <1>3, <2>1 DEF AddRecordOk, WriteSnapshotLocked, Before, After, Down
  <2>3. Underway
    BY <1>0, <2>2, Trusted
  <2>4. Deleting \/ Updating \/ Mounting
    BY <1>0, <1>1 DEF Control, Calling
  <2>5. ~Mounting /\ ~(Updating /\ call.name = "sync") /\ durable' = goal
    BY <1>0, <1>3, <2>2, <2>3, <2>4, ChangedBy
  <2> QED
    BY <1>0, <1>1, <2>2, <2>3, <2>4, <2>5, NamesChange
<1> QED
  BY <1>2, <1>3

\* What the calls do once PersistRecord has returned: a call that has not ended goes on
\* with its second part.
LEMMA FinishNames ==
  ASSUME MetaInv, trusted, trusted', Finish
  PROVE  Durable!End \/ UNCHANGED Durable!vars
<1>0. Control /\ Trust
  BY DEF MetaInv
<1>1. CASE pc' \in {"idle", "down"} /\ call' = NoCall /\ durable' = durable
  <2>1. ~Promised'
    BY <1>1 DEF Promised, NoCall
  <2> QED
    BY <1>1, <2>1, NamesEnd, NamesStay
<1>2. CASE DeletePersisted /\ call.name # "delete"
  <2>1. /\ pc = "synced" /\ record.tag = "delete" /\ pc' = "main" /\ UNCHANGED <<call, durable>>
    BY <1>2 DEF DeletePersisted
  <2>2. Deleting /\ ~Updating
    BY <1>0, <2>1, Persisted
  <2>3. call.name \in {"open", "delete", "rename"} /\ ~Opening
    BY <2>2 DEF Deleting, Opening
  <2>4. durable = goal
    BY <1>0, <2>1, <2>3, AfterPersist
  <2>5. Promised /\ Promised'
    BY <2>1, <2>3 DEF Promised, Down
  <2>6. Stage = "main" /\ Stage' = "main"
    BY <1>2, <2>1, <2>4, <2>5 DEF Stage
  <2> QED
    BY <2>1, <2>5, <2>6, NamesStay
<1>3. CASE ~(DeletePersisted /\ call.name # "delete")
  <2>1. pc' \in {"idle", "down"} /\ call' = NoCall /\ durable' = durable
    BY <1>3 DEF Finish, DeletePersisted, OpenPersisted, UpdatePersisted, MountDone, DeleteFailed,
                OpenFailed, RenameFailed, RenameLinkFailed, LinkFailed, SyncFailed, MountFailed,
                Return, NoMemory, history
  <2> QED
    BY <1>1, <2>1
<1> QED
  BY <1>2, <1>3

\* MkFS, crashes, mounts, and files that grow
LEMMA OtherNames ==
  ASSUME MetaInv, trusted, trusted',
         \/ \E id \in Ids : PushExtent(id)
         \/ MkFS \/ Mount \/ MountCorrupted \/ Crash \/ CrashInSnapshot
  PROVE  Durable!End \/ UNCHANGED Durable!vars
<1>0. Control
  BY DEF MetaInv
<1>1. CASE \E id \in Ids : PushExtent(id)
  <2>1. UNCHANGED <<pc, call, record, durable, goal, trusted>>
    BY <1>1 DEF PushExtent, history
  <2> QED
    BY <2>1, NamesStay DEF Promised, Stage
<1>2. CASE MkFS \/ MountCorrupted
  <2>1. pc \in Down /\ pc' \in Down /\ UNCHANGED durable
    BY <1>2 DEF MkFS, MountCorrupted, Down, history
  <2> QED
    BY <2>1, NamesStay DEF Promised
<1>3. CASE Mount
  <2>1. pc = "down" /\ call'.name = "mount" /\ durable' = Recovered.files
    BY <1>3 DEF Mount, NoCall
  <2>2. Recovered.files = durable
    BY <2>1, TrustFinds
  <2>3. ~Promised /\ ~Promised'
    BY <2>1 DEF Promised, Down
  <2> QED
    BY <2>1, <2>2, <2>3, NamesStay
<1>4. CASE Crash
  <2>1. pc' = "down" /\ UNCHANGED durable
    BY <1>4 DEF Crash, history
  <2>2. ~Promised'
    BY <2>1 DEF Promised, Down
  <2> QED
    BY <2>1, <2>2, NamesEnd, NamesStay
<1>5. CASE CrashInSnapshot
  BY <1>5 DEF CrashInSnapshot
<1> QED
  BY <1>1, <1>2, <1>3, <1>4, <1>5

\* Only a mount restores the promise.
LEMMA RegainNames ==
  ASSUME MetaInv, MetaInv', ~trusted, trusted', [Next]_vars
  PROVE  Durable!Regain
<1>0. Control
  BY DEF MetaInv
<1>1. Mount
  <2>1. ~CallSome
    BY DEF CallSome, OpenWritableFile, DeleteFile, SyncFileMetadata, RenameFile, LinkFile, Begin, history
  <2>2. ~Change
    BY DEF Change, DeleteFileNoLock, OpenNewFile, RenameFileNoLock, LinkFileLocked,
           SyncFileMetadataNoLock, PersistRecord
  <2>3. ~Persist
    BY DEF Persist, AddRecordOk, AddRecordNoSpace, AddRecordError, AllocateMetaZone, WriteEndRecord,
           FinishOldZone, AddSuperblock, WriteSnapshotLocked, SnapshotSynced, ResetOldZone, history
  <2>4. ~Finish
    BY DEF Finish, DeletePersisted, OpenPersisted, UpdatePersisted, MountDone, DeleteFailed,
           OpenFailed, RenameFailed, RenameLinkFailed, LinkFailed, SyncFailed, MountFailed, history
  <2>5. ~(\/ \E id \in Ids : PushExtent(id)
          \/ MkFS \/ MountCorrupted \/ Crash \/ CrashInSnapshot \/ UNCHANGED vars)
    BY DEF PushExtent, MkFS, MountCorrupted, Crash, CrashInSnapshot, history, vars
  <2> QED
    BY <2>1, <2>2, <2>3, <2>4, <2>5 DEF Next
<1>2. durable' \in [Names -> Ids \cup {NoFile}]
  BY DEF MetaInv, Control, Types, Namespace
<1>3. call'.name = "mount"
  BY <1>1 DEF Mount, NoCall
<1>4. ~Promised /\ ~Promised'
  BY <1>3 DEF Promised
<1>5. Stage = "idle" /\ Stage' = "idle"
  BY <1>4 DEF Stage
<1> QED
  BY <1>2, <1>4, <1>5 DEF Durable!Regain

\* Every step of the log is one of the durable namespace, or does not show.
LEMMA NextNames == MetaInv /\ MetaInv' /\ [Next]_vars => [Durable!Next]_(Durable!vars)
<1> SUFFICES ASSUME MetaInv, MetaInv', [Next]_vars PROVE [Durable!Next]_(Durable!vars)
  OBVIOUS
<1>1. CASE ~trusted'
  BY <1>1, NamesLost DEF Durable!Next
<1>2. CASE ~trusted /\ trusted'
  BY <1>2, RegainNames DEF Durable!Next
<1>3. CASE trusted /\ trusted'
  <2>1. CASE UNCHANGED vars
    <3>1. UNCHANGED <<pc, call, record, durable, goal, trusted>>
      BY <2>1 DEF vars, history
    <3>2. UNCHANGED Durable!vars
      BY <1>3, <3>1, NamesStay DEF Promised, Stage
    <3> QED
      BY <3>2
  <2>2. CASE Next
    <3>1. CASE CallSome
      BY <1>3, <3>1, BeginNames DEF Durable!Next
    <3>2. CASE Change
      BY <1>3, <3>2, ChangeNames
    <3>3. CASE Persist
      BY <1>3, <3>3, PersistNames DEF Durable!Next
    <3>4. CASE Finish
      BY <1>3, <3>4, FinishNames DEF Durable!Next
    <3>5. CASE \/ \E id \in Ids : PushExtent(id)
               \/ MkFS \/ Mount \/ MountCorrupted \/ Crash \/ CrashInSnapshot
      BY <1>3, <3>5, OtherNames DEF Durable!Next
    <3> QED
      BY <2>2, <3>1, <3>2, <3>3, <3>4, <3>5 DEF Next
  <2> QED
    BY <2>1, <2>2
<1> QED
  BY <1>1, <1>2, <1>3

\* The log implements the durable namespace of module DurableNames, for every number of
\* names, files and zones and every crash and refused write: a call changes what a mount
\* would find in one step per part and in order, with numbers no file has, and neither a
\* roll nor a mount nor a rollback shows (PersistRecord, RollMetaZoneLocked, Mount,
\* DeleteFileNoLock, RenameFileNoLock).
THEOREM MetaLogImplements == Spec => ImplementsDurableNames
<1>1. Init => Durable!Init
  <2> SUFFICES ASSUME Init PROVE Durable!Init
    OBVIOUS
  <2>1. trusted /\ durable = EmptyState.files /\ pc = "blank"
    BY DEF Init
  <2>2. ~Promised
    BY <2>1 DEF Promised, Down
  <2>3. Stage = "idle"
    BY <2>2 DEF Stage
  <2> QED
    BY <2>1, <2>2, <2>3 DEF Durable!Init, Durable!NoNames, Durable!NoCall, NoCall, EmptyState
<1> QED
  BY <1>1, NextNames, MetaInvAlways, PTL DEF Spec, ImplementsDurableNames, Durable!Spec
=============================================================================
