--------------------------- MODULE ZoneAllocProofs ---------------------------
(***************************************************************************)
(* Who may touch a zone, and the tokens.  For every number of threads,     *)
(* zones, zones to a group and tokens: the IO zones and the first zones of *)
(* the groups have one holder, their data is kept, no two logs share a     *)
(* group, and what is taken of the open tokens is given back.              *)
(***************************************************************************)
EXTENDS ZoneAlloc, FiniteSetTheorems, WellFoundedInduction, TLAPS

USE ThreadAssumption, ZoneAssumption, TokenAssumption, FileAssumption

-----------------------------------------------------------------------------
(***************************************************************************)
(* Types and control                                                       *)
(***************************************************************************)

\* Where a thread is says what it holds: a loop its zone and its candidate, a write its
\* active zone; ordinary files are in IO zones, logs in WAL zones.
Control(t) ==
  /\ t \in IOThreads => pc[t] \notin WALLoops
  /\ t \in WALThreads => pc[t] \notin {"threshold", "match", "cheapest", "empty"}
  /\ pc[t] \in Loops => First(pc[t]) <= at[t]
  /\ hold[t] # 0 => pc[t] \in Loops /\ hold[t] = at[t] /\ at[t] <= Last(pc[t])
  /\ pc[t] = "groups" => (at[t] - IOZones - 1) % GroupZones = 0
  /\ cand[t] # 0 => pc[t] \in {"match", "cheapest"} /\ cand[t] <= IOZones /\ cand[t] < at[t]
  /\ active_zone_[t] # 0 <=> pc[t] \in {"write", "account", "full", "close"}
  /\ active_zone_[t] # 0 => (t \in IOThreads <=> active_zone_[t] <= IOZones)
  /\ \A z \in Zones : extents[t][z] > 0 => (t \in IOThreads <=> z <= IOZones)
  /\ owe[t] => pc[t] \in {"threshold", "release", "reset", "drop", "waitopen", "token", "giveup"}

TypeInv == TypeOK /\ \A t \in Threads : Control(t)

\* A set of natural numbers has a smallest member.
LEMMA LeastOf ==
  ASSUME NEW T, T \subseteq Nat, T # {}
  PROVE  \E m \in T : \A k \in T : m <= k
<1> DEFINE F == {0..k : k \in T}
           R == StrictSubsetOrdering(Nat)
<1>1. F # {}
  OBVIOUS
<1>2. F \subseteq FiniteSubsetsOf(Nat)
  <2> SUFFICES ASSUME NEW k \in T PROVE 0..k \in FiniteSubsetsOf(Nat)
    OBVIOUS
  <2>1. IsFiniteSet(0..k)
    BY FS_Interval
  <2>2. 0..k \subseteq Nat
    OBVIOUS
  <2> QED
    BY <2>1, <2>2 DEF FiniteSubsetsOf
<1>3. IsWellFoundedOn(R, FiniteSubsetsOf(Nat))
  BY FS_StrictSubsetOrderingWellFounded
<1> HIDE DEF F, R
<1>4. PICK U \in F : \A V \in F : ~ (<<V, U>> \in R)
  BY <1>1, <1>2, <1>3, WFMin
<1>5. PICK m \in T : U = 0..m
  BY DEF F
<1>6. ASSUME NEW k \in T, k < m PROVE FALSE
  <2>1. 0..k \in F /\ 0..k \in SUBSET Nat /\ 0..m \in SUBSET Nat
    BY DEF F
  <2>2. m \in 0..m /\ m \notin 0..k /\ m \in Nat /\ k \in Nat
    BY <1>6
  <2>3. 0..k # 0..m /\ 0..k \subseteq 0..m
    BY <1>6, <2>2
  <2> QED
    BY <1>4, <1>5, <2>1, <2>3 DEF R, StrictSubsetOrdering
<1> QED
  BY <1>6

\* A set of zones has a last one.
LEMMA LargestOf ==
  ASSUME NEW n \in Nat, NEW T, T \subseteq 1..n, T # {}
  PROVE  \E m \in T : \A k \in T : k <= m
<1> DEFINE D == {n - k : k \in T}
<1>0. \A k \in T : n - k \in Nat
  OBVIOUS
<1>1. D \subseteq Nat
  BY <1>0
<1>5. D # {}
  OBVIOUS
<1> HIDE DEF D
<1>2. PICK d \in D : \A e \in D : d <= e
  BY <1>1, <1>5, LeastOf
<1>3. PICK m \in T : d = n - m
  BY DEF D
<1>4. \A k \in T : n - k \in D
  BY DEF D
<1> QED
  BY <1>2, <1>3, <1>4

\* Steps of GroupZones stay at the first zones of groups.
LEMMA NextGroup ==
  ASSUME NEW a \in Nat, a % GroupZones = 0
  PROVE  (a + GroupZones) % GroupZones = 0
<1> DEFINE q == a \div GroupZones
<1>1. q \in Nat /\ a = GroupZones * q
  OBVIOUS
<1>2. a + GroupZones = GroupZones * (q + 1)
  BY <1>1
<1>3. (GroupZones * (q + 1)) % GroupZones = 0
  BY <1>1
<1> QED
  BY <1>2, <1>3

\* Behind a zone that is not the last of its group there is one more.
LEMMA ZoneBehind ==
  ASSUME NEW z \in Zones, z > IOZones, (z - IOZones) % GroupZones # 0
  PROVE  z + 1 \in Zones
BY SMT DEF Zones

\* The initial state is well typed.
LEMMA TypeInit == Init => TypeInv
<1> SUFFICES ASSUME Init PROVE TypeInv
  OBVIOUS
<1>1. TypeOK
  BY DEF Init, TypeOK, PCs
<1>2. ASSUME NEW t \in Threads PROVE Control(t)
  BY <1>2 DEF Init, Control, Loops, IOLoops, WALLoops, Threads
<1> QED
  BY <1>1, <1>2 DEF TypeInv

\* Starting a loop keeps the types of pc and at,
LEMMA EnterTypes ==
  ASSUME TypeOK, NEW t \in Threads, NEW loop \in Loops, Enter(t, loop)
  PROVE  pc' \in [Threads -> PCs] /\ at' \in [Threads -> Nat]
<1>1. loop \in PCs /\ First(loop) \in Nat
  BY DEF PCs, First
<1> QED
  BY <1>1 DEF TypeOK, Enter

\* and so do leaving one
LEMMA LeaveTypes ==
  ASSUME TypeOK, NEW t \in Threads, NEW place \in PCs, Leave(t, place)
  PROVE  pc' \in [Threads -> PCs] /\ at' \in [Threads -> Nat]
BY DEF TypeOK, Leave

\* and the start of AllocateNewZone.
LEMMA AllocateTypes ==
  ASSUME TypeOK, NEW t \in Threads, Allocate(t)
  PROVE  pc' \in [Threads -> PCs] /\ at' \in [Threads -> Nat]
<1>1. "release" \in Loops /\ "threshold" \in Loops /\ "waitopen" \in PCs
  BY DEF Loops, IOLoops, WALLoops, PCs
<1>2. CASE t \in WALThreads
  BY <1>1, <1>2, EnterTypes DEF Allocate
<1>3. CASE t \notin WALThreads /\ FinishBelow > 0
  BY <1>1, <1>3, EnterTypes DEF Allocate, Threads
<1>4. CASE t \notin WALThreads /\ ~(FinishBelow > 0)
  <2>1. pc' = [pc EXCEPT ![t] = "waitopen"] /\ at' = at
    BY <1>4 DEF Allocate, Threads
  <2> QED
    BY <1>1, <2>1 DEF TypeOK
<1> QED
  BY <1>2, <1>3, <1>4

\* The zone behind the last one of a log that goes on in its group
LEMMA GroupGoesOnZone ==
  ASSUME TypeInv, NEW t \in WALThreads, GroupGoesOn(t)
  PROVE  /\ LastZone(t) \in Zones /\ extents[t][LastZone(t)] > 0
         /\ LastZone(t) > IOZones /\ LastZone(t) + 1 \in Zones
         /\ (LastZone(t) - IOZones) % GroupZones # 0
<1>1. t \in Threads /\ t \notin IOThreads
  BY DEF Threads
<1>2. \E z \in Zones : extents[t][z] > 0 /\ \A y \in Zones : extents[t][y] > 0 => y <= z
  <2> DEFINE S == {z \in Zones : extents[t][z] > 0}
  <2>1. S # {} /\ S \subseteq 1..(IOZones + WALZones) /\ IOZones + WALZones \in Nat
    BY DEF GroupGoesOn, HasZone, Zones
  <2>2. \E z \in S : \A y \in S : y <= z
    BY <2>1, LargestOf
  <2> QED
    BY <2>2
<1>3. LastZone(t) \in Zones /\ extents[t][LastZone(t)] > 0
  BY <1>2 DEF LastZone
<1>4. LastZone(t) > IOZones
  BY <1>1, <1>3 DEF TypeInv, Control, Zones
<1> QED
  BY <1>3, <1>4, ZoneBehind DEF GroupGoesOn

\* What one write puts into its zone fits in it.
LEMMA WriteSize ==
  ASSUME TypeOK, NEW t \in Threads, Control(t), WriteZone(t)
  PROVE  /\ active_zone_[t] \in Zones
         /\ WrSize(t) \in Nat /\ WrSize(t) <= left[t]
         /\ wp_[active_zone_[t]] + WrSize(t) \in 0..Cap
<1>1. active_zone_[t] \in Zones
  BY DEF WriteZone, Control, TypeOK
<1>2. wp_[active_zone_[t]] \in 0..Cap /\ left[t] \in Nat
  BY <1>1 DEF TypeOK
<1> QED
  BY <1>1, <1>2 DEF WrSize

\* Every step of a thread keeps the types.
LEMMA TypeStep ==
  ASSUME TypeInv, NEW t \in Threads,
         Run(t) \/ CloseFile(t) \/ Retry(t) \/ GiveUp(t) \/ DeleteFile(t)
  PROVE  TypeOK'
<1> USE DEF TypeOK, zones, tokens, scan, files
<1>0. TypeOK /\ Control(t)
  BY DEF TypeInv
<1>p. Loops \subseteq PCs /\ {"waitopen", "token", "write", "account", "full", "put", "put_full", "close", "giveup", "idle", "failed", "closed"} \subseteq PCs
  BY DEF PCs
<1>l. {"threshold", "match", "cheapest", "empty", "reset", "release", "groups", "drop"} \subseteq Loops
  BY DEF Loops, IOLoops, WALLoops
<1>s. \A loop : Step(loop) \in Nat
  BY DEF Step
<1>1. CASE WaitForOpenIOZoneToken(t)
  <2>1. open_io_zones_' \in Int /\ active_io_zones_' \in Int /\ waiting' \subseteq Threads
    BY <1>0, <1>1 DEF WaitForOpenIOZoneToken, NotifyOne
  <2>2. pc' \in [Threads -> PCs] /\ at' \in [Threads -> Nat]
    <3>1. CASE Enter(t, "match")
      BY <1>0, <1>l, <3>1, EnterTypes
    <3>2. CASE ~Enter(t, "match")
      BY <1>0, <1>p, <1>1, <3>2 DEF WaitForOpenIOZoneToken
    <3> QED
      BY <3>1, <3>2
  <2> QED
    BY <1>0, <1>1, <2>1, <2>2 DEF WaitForOpenIOZoneToken
<1>2. CASE PutActiveIOZoneToken(t)
  <2>1. open_io_zones_' \in Int /\ active_io_zones_' \in Int /\ waiting' \subseteq Threads
    BY <1>0, <1>2 DEF PutActiveIOZoneToken, NotifyOne
  <2>2. owe' \in [Threads -> BOOLEAN]
    BY <1>0, <1>2, Zenon DEF PutActiveIOZoneToken
  <2> QED
    BY <1>0, <1>2, <2>1, <2>2 DEF PutActiveIOZoneToken
<1>3. CASE Acquire(t)
  <2>1. busy_' \in [Zones -> BOOLEAN]
    BY <1>0, <1>3, Zenon DEF Acquire
  <2>2. hold' \in [Threads -> Zones \cup {0}]
    <3>1. at[t] \in Zones
      BY <1>0, <1>3 DEF Acquire, Control, Zones, First, Last
    <3> QED
      BY <1>0, <1>3, <3>1 DEF Acquire
  <2>3. pc' \in [Threads -> PCs] /\ at' \in [Threads -> Nat]
    <3>1. at[t] + Step(pc[t]) \in Nat
      BY <1>0, <1>s
    <3>2. pc' = pc /\ (at' = at \/ at' = [at EXCEPT ![t] = @ + Step(pc[t])])
      BY <1>3 DEF Acquire
    <3> QED
      BY <1>0, <3>1, <3>2
  <2> QED
    BY <1>0, <1>3, <2>1, <2>2, <2>3 DEF Acquire
<1>4. CASE ApplyFinishThreshold(t)
  <2>1. wp_' \in [Zones -> 0..Cap]
    <3>1. Cap \in 0..Cap
      OBVIOUS
    <3> QED
      BY <1>0, <1>4, <3>1 DEF ApplyFinishThreshold
  <2>2. busy_' \in [Zones -> BOOLEAN]
    BY <1>0, <1>4, Zenon DEF ApplyFinishThreshold
  <2>3. owe' \in [Threads -> BOOLEAN]
    BY <1>0, <1>4, Zenon DEF ApplyFinishThreshold
  <2>4. hold' \in [Threads -> Zones \cup {0}]
    BY <1>0, <1>4 DEF ApplyFinishThreshold, Advance
  <2>5. pc' \in [Threads -> PCs] /\ at' \in [Threads -> Nat]
    BY <1>0, <1>4, <1>s DEF ApplyFinishThreshold, Advance, Looking
  <2> QED
    BY <1>0, <1>4, <2>1, <2>2, <2>3, <2>4, <2>5 DEF ApplyFinishThreshold, Advance
<1>5. CASE ThresholdDone(t)
  <2>1. pc' \in [Threads -> PCs] /\ at' \in [Threads -> Nat]
    BY <1>0, <1>5, <1>p, <1>l, EnterTypes, LeaveTypes, AllocateTypes DEF ThresholdDone
  <2> QED
    BY <1>0, <1>5, <2>1 DEF ThresholdDone
<1>6. CASE GetBestOpenZoneMatch(t)
  <2>1. busy_' \in [Zones -> BOOLEAN]
    BY <1>0, <1>6, Zenon DEF GetBestOpenZoneMatch
  <2>2. cand' \in [Threads -> Zones \cup {0}]
    BY <1>0, <1>6 DEF GetBestOpenZoneMatch
  <2>3. hold' \in [Threads -> Zones \cup {0}]
    BY <1>0, <1>6 DEF GetBestOpenZoneMatch, Advance
  <2>4. pc' \in [Threads -> PCs] /\ at' \in [Threads -> Nat]
    BY <1>0, <1>6, <1>s DEF GetBestOpenZoneMatch, Advance, Looking
  <2> QED
    BY <1>0, <1>6, <2>1, <2>2, <2>3, <2>4 DEF GetBestOpenZoneMatch, Advance
<1>7. CASE UseMatch(t)
  <2>1. busy_' \in [Zones -> BOOLEAN]
    BY <1>0, <1>7, Zenon DEF UseMatch
  <2>2. active_zone_' \in [Threads -> Zones \cup {0}]
    BY <1>0, <1>7 DEF UseMatch
  <2>3. cand' \in [Threads -> Zones \cup {0}]
    BY <1>0, <1>7 DEF UseMatch
  <2>4. open_io_zones_' \in Int /\ active_io_zones_' \in Int /\ waiting' \subseteq Threads
    <3>1. open_io_zones_' = open_io_zones_ /\ waiting' = waiting
      BY <1>7 DEF UseMatch
    <3>2. active_io_zones_' = active_io_zones_ + 1 \/ active_io_zones_' = active_io_zones_
      BY <1>7, Zenon DEF UseMatch
    <3> QED
      BY <1>0, <3>1, <3>2
  <2>5. pc' \in [Threads -> PCs] /\ at' \in [Threads -> Nat]
    BY <1>0, <1>7, <1>p, <1>l, EnterTypes, LeaveTypes, AllocateTypes DEF UseMatch
  <2> QED
    BY <1>0, <1>7, <2>1, <2>2, <2>3, <2>4, <2>5 DEF UseMatch
<1>8. CASE GetActiveIOZoneToken(t)
  <2>1. open_io_zones_' \in Int /\ active_io_zones_' \in Int /\ waiting' \subseteq Threads
    BY <1>0, <1>8 DEF GetActiveIOZoneToken, NotifyOne
  <2>2. pc' \in [Threads -> PCs] /\ at' \in [Threads -> Nat]
    BY <1>0, <1>8, <1>p, <1>l, EnterTypes, LeaveTypes, AllocateTypes DEF GetActiveIOZoneToken
  <2> QED
    BY <1>0, <1>8, <2>1, <2>2 DEF GetActiveIOZoneToken
<1>9. CASE FinishCheapestIOZone(t)
  <2>1. busy_' \in [Zones -> BOOLEAN]
    BY <1>0, <1>9, Zenon DEF FinishCheapestIOZone
  <2>2. cand' \in [Threads -> Zones \cup {0}]
    BY <1>0, <1>9 DEF FinishCheapestIOZone
  <2>3. hold' \in [Threads -> Zones \cup {0}]
    BY <1>0, <1>9 DEF FinishCheapestIOZone, Advance
  <2>4. pc' \in [Threads -> PCs] /\ at' \in [Threads -> Nat]
    BY <1>0, <1>9, <1>s DEF FinishCheapestIOZone, Advance, Looking
  <2> QED
    BY <1>0, <1>9, <2>1, <2>2, <2>3, <2>4 DEF FinishCheapestIOZone, Advance
<1>10. CASE FinishVictim(t)
  <2>1. wp_' \in [Zones -> 0..Cap]
    BY <1>0, <1>10 DEF FinishVictim
  <2>2. busy_' \in [Zones -> BOOLEAN]
    BY <1>0, <1>10, Zenon DEF FinishVictim
  <2>3. owe' \in [Threads -> BOOLEAN]
    BY <1>0, <1>10, Zenon DEF FinishVictim
  <2>4. cand' \in [Threads -> Zones \cup {0}]
    BY <1>0, <1>10 DEF FinishVictim
  <2>5. pc' \in [Threads -> PCs] /\ at' \in [Threads -> Nat]
    BY <1>0, <1>10, <1>p, <1>l, EnterTypes, LeaveTypes, AllocateTypes DEF FinishVictim
  <2> QED
    BY <1>0, <1>10, <2>1, <2>2, <2>3, <2>4, <2>5 DEF FinishVictim
<1>11. CASE AllocateEmptyZone(t)
  <2>1. busy_' \in [Zones -> BOOLEAN]
    BY <1>0, <1>11, Zenon DEF AllocateEmptyZone
  <2>2. active_zone_' \in [Threads -> Zones \cup {0}]
    BY <1>0, <1>11 DEF AllocateEmptyZone
  <2>3. lifetime_' \in [Zones -> Lifetimes \cup {0}]
    BY <1>0, <1>11 DEF AllocateEmptyZone
  <2>4. hold' \in [Threads -> Zones \cup {0}]
    BY <1>0, <1>11 DEF AllocateEmptyZone, Advance
  <2>5. pc' \in [Threads -> PCs] /\ at' \in [Threads -> Nat]
    <3>1. CASE IsEmpty(hold[t])
      BY <1>0, <1>p, <1>11, <3>1, LeaveTypes DEF AllocateEmptyZone
    <3>2. CASE ~IsEmpty(hold[t])
      BY <1>0, <1>s, <1>11, <3>2 DEF AllocateEmptyZone, Advance
    <3> QED
      BY <3>1, <3>2
  <2> QED
    BY <1>0, <1>11, <2>1, <2>2, <2>3, <2>4, <2>5 DEF AllocateEmptyZone, Advance
<1>12. CASE NoEmptyZone(t)
  <2>1. owe' \in [Threads -> BOOLEAN]
    BY <1>0, <1>12, Zenon DEF NoEmptyZone
  <2>2. pc' \in [Threads -> PCs] /\ at' \in [Threads -> Nat]
    BY <1>0, <1>12, <1>p, <1>l, EnterTypes, LeaveTypes, AllocateTypes DEF NoEmptyZone
  <2> QED
    BY <1>0, <1>12, <2>1, <2>2 DEF NoEmptyZone
<1>13. CASE ResetUnusedZones(t)
  <2>1. wp_' \in [Zones -> 0..Cap]
    <3>1. 0 \in 0..Cap
      OBVIOUS
    <3> QED
      BY <1>0, <1>13, <3>1 DEF ResetUnusedZones
  <2>2. lifetime_' \in [Zones -> Lifetimes \cup {0}]
    BY <1>0, <1>13 DEF ResetUnusedZones
  <2>3. busy_' \in [Zones -> BOOLEAN]
    BY <1>0, <1>13, Zenon DEF ResetUnusedZones
  <2>4. owe' \in [Threads -> BOOLEAN]
    BY <1>0, <1>13, Zenon DEF ResetUnusedZones
  <2>5. hold' \in [Threads -> Zones \cup {0}]
    BY <1>0, <1>13 DEF ResetUnusedZones, Advance
  <2>6. pc' \in [Threads -> PCs] /\ at' \in [Threads -> Nat]
    BY <1>0, <1>13, <1>s DEF ResetUnusedZones, Advance, Looking
  <2> QED
    BY <1>0, <1>13, <2>1, <2>2, <2>3, <2>4, <2>5, <2>6 DEF ResetUnusedZones, Advance
<1>14. CASE ResetDone(t)
  <2>1. pc' \in [Threads -> PCs] /\ at' \in [Threads -> Nat]
    BY <1>0, <1>14, <1>p, <1>l, EnterTypes, LeaveTypes, AllocateTypes DEF ResetDone
  <2> QED
    BY <1>0, <1>14, <2>1 DEF ResetDone
<1>15. CASE AllocateWALZone(t)
  <2>1. active_zone_' \in [Threads -> Zones \cup {0}]
    <3>1. CASE GroupGoesOn(t)
      <4>1. t \in WALThreads
        BY <1>0, <1>15 DEF AllocateWALZone, Through, Control, Threads, WALLoops
      <4>2. LastZone(t) + 1 \in Zones
        BY <3>1, <4>1, GroupGoesOnZone
      <4> QED
        BY <1>0, <1>15, <3>1, <4>2 DEF AllocateWALZone
    <3>2. CASE ~GroupGoesOn(t)
      BY <1>0, <1>15, <3>2 DEF AllocateWALZone
    <3> QED
      BY <3>1, <3>2
  <2>2. pc' \in [Threads -> PCs] /\ at' \in [Threads -> Nat]
    BY <1>0, <1>15, <1>p, <1>l, EnterTypes, LeaveTypes, AllocateTypes DEF AllocateWALZone
  <2> QED
    BY <1>0, <1>15, <2>1, <2>2 DEF AllocateWALZone
<1>16. CASE WriteZone(t)
  <2>1. wp_' \in [Zones -> 0..Cap]
    BY <1>0, <1>16, WriteSize DEF WriteZone
  <2>2. left' \in [Threads -> Nat] /\ buffer_pos' \in [Threads -> Nat]
    <3>1. left[t] \in Nat /\ WrSize(t) \in Nat /\ WrSize(t) <= left[t]
      BY <1>0, <1>16, WriteSize
    <3>2. left[t] - WrSize(t) \in Nat
      BY <3>1
    <3> QED
      BY <1>0, <1>16, <3>2 DEF WriteZone
  <2>3. pc' \in [Threads -> PCs] /\ at' \in [Threads -> Nat]
    BY <1>0, <1>p, <1>16, WriteSize DEF WriteZone
  <2> QED
    BY <1>0, <1>16, <2>1, <2>2, <2>3 DEF WriteZone
<1>17. CASE Account(t)
  <2>1. extents' \in [Threads -> [Zones -> Nat]]
    <3>1. active_zone_[t] \in Zones /\ at[t] \in Nat
      BY <1>0, <1>17 DEF Account, Control
    <3>2. extents' = [extents EXCEPT ![t][active_zone_[t]] = @ + at[t]]
      BY <1>17 DEF Account
    <3>3. extents[t] \in [Zones -> Nat] /\ extents[t][active_zone_[t]] + at[t] \in Nat
      BY <1>0, <3>1
    <3> QED
      BY <1>0, <3>1, <3>2, <3>3
  <2>2. pc' \in [Threads -> PCs] /\ at' \in [Threads -> Nat]
    BY <1>0, <1>17, <1>p, <1>l, EnterTypes, LeaveTypes, AllocateTypes DEF Account
  <2> QED
    BY <1>0, <1>17, <2>1, <2>2 DEF Account
<1>18. CASE CloseActiveZone(t)
  <2>1. busy_' \in [Zones -> BOOLEAN]
    BY <1>0, <1>18, Zenon DEF CloseActiveZone
  <2>2. active_zone_' \in [Threads -> Zones \cup {0}]
    BY <1>0, <1>18 DEF CloseActiveZone
  <2>3. pc' \in [Threads -> PCs] /\ at' \in [Threads -> Nat]
    BY <1>0, <1>18, <1>p, <1>l, EnterTypes, LeaveTypes, AllocateTypes DEF CloseActiveZone
  <2> QED
    BY <1>0, <1>18, <2>1, <2>2, <2>3 DEF CloseActiveZone
<1>19. CASE PutOpenIOZoneToken(t)
  <2>1. open_io_zones_' \in Int /\ active_io_zones_' \in Int /\ waiting' \subseteq Threads
    BY <1>0, <1>19 DEF PutOpenIOZoneToken, NotifyOne
  <2>2. owe' \in [Threads -> BOOLEAN]
    BY <1>0, <1>19, Zenon DEF PutOpenIOZoneToken
  <2>3. pc' \in [Threads -> PCs] /\ at' \in [Threads -> Nat]
    <3>1. CASE Allocate(t)
      BY <1>0, <3>1, AllocateTypes
    <3>2. CASE ~Allocate(t)
      BY <1>0, <1>p, <1>19, <3>2 DEF PutOpenIOZoneToken
    <3> QED
      BY <3>1, <3>2
  <2> QED
    BY <1>0, <1>19, <2>1, <2>2, <2>3 DEF PutOpenIOZoneToken
<1>20. CASE DropDone(t)
  <2>1. extents' \in [Threads -> [Zones -> Nat]]
    BY <1>0, <1>20 DEF DropDone, ClearExtents
  <2>2. lifetime' \in [Threads -> Lifetimes \cup {0}]
    BY <1>0, <1>20 DEF DropDone, ClearExtents
  <2>3. pc' \in [Threads -> PCs] /\ at' \in [Threads -> Nat]
    BY <1>0, <1>20, <1>p, <1>l, EnterTypes, LeaveTypes, AllocateTypes DEF DropDone
  <2> QED
    BY <1>0, <1>20, <2>1, <2>2, <2>3 DEF DropDone, ClearExtents
<1>21. CASE CloseFile(t)
  <2>1. left' \in [Threads -> Nat] /\ buffer_pos' \in [Threads -> Nat]
    BY <1>0, <1>21 DEF CloseFile
  <2>2. pc' \in [Threads -> PCs] /\ at' \in [Threads -> Nat]
    BY <1>0, <1>21, <1>p, <1>l, EnterTypes, LeaveTypes, AllocateTypes DEF CloseFile
  <2> QED
    BY <1>0, <1>21, <2>1, <2>2 DEF CloseFile
<1>22. CASE Retry(t)
  <2>1. left' \in [Threads -> Nat] /\ buffer_pos' \in [Threads -> Nat]
    BY <1>0, <1>22 DEF Retry
  <2>2. pc' \in [Threads -> PCs] /\ at' \in [Threads -> Nat]
    BY <1>0, <1>22, <1>p, <1>l, EnterTypes, LeaveTypes, AllocateTypes DEF Retry
  <2> QED
    BY <1>0, <1>22, <2>1, <2>2 DEF Retry
<1>23. CASE GiveUp(t)
  <2>1. left' \in [Threads -> Nat] /\ buffer_pos' \in [Threads -> Nat]
    BY <1>0, <1>23 DEF GiveUp
  <2>2. pc' \in [Threads -> PCs] /\ at' \in [Threads -> Nat]
    BY <1>0, <1>23, <1>p, <1>l, EnterTypes, LeaveTypes, AllocateTypes DEF GiveUp
  <2> QED
    BY <1>0, <1>23, <2>1, <2>2 DEF GiveUp
<1>24. CASE DeleteFile(t)
  <2>1. extents' \in [Threads -> [Zones -> Nat]]
    <3>1. [z \in Zones |-> 0] \in [Zones -> Nat]
      OBVIOUS
    <3>2. extents' = [extents EXCEPT ![t] = [z \in Zones |-> 0]] \/ extents' = extents
      BY <1>24 DEF DeleteFile, ClearExtents
    <3>3. extents \in [Threads -> [Zones -> Nat]]
      BY <1>0
    <3> QED
      BY <3>1, <3>2, <3>3
  <2>2. lifetime' \in [Threads -> Lifetimes \cup {0}]
    BY <1>0, <1>24 DEF DeleteFile, ClearExtents
  <2>3. pc' \in [Threads -> PCs] /\ at' \in [Threads -> Nat]
    BY <1>0, <1>24, <1>p, <1>l, EnterTypes, LeaveTypes, AllocateTypes DEF DeleteFile
  <2> QED
    BY <1>0, <1>24, <2>1, <2>2, <2>3 DEF DeleteFile, ClearExtents
<1> QED
  BY <1>1, <1>2, <1>3, <1>4, <1>5, <1>6, <1>7, <1>8, <1>9, <1>10, <1>11, <1>12, <1>13, <1>14, <1>15, <1>16, <1>17, <1>18, <1>19, <1>20, <1>21, <1>22, <1>23, <1>24 DEF Run

\* What a thread does between and inside its calls
Acts(t) ==
  \/ \E n \in WriteSizes, l \in Lifetimes : Create(t, n, l)
  \/ Run(t)
  \/ CloseFile(t) \/ Retry(t) \/ GiveUp(t)
  \/ DeleteFile(t)

Local(t) == <<pc[t], at[t], hold[t], cand[t], owe[t], active_zone_[t], lifetime[t],
              extents[t], buffer_pos[t], left[t]>>

\* The two ways out of AllocateIOZone's matching: the match is used,
Matched(t) ==
  /\ cand[t] # 0
  /\ active_zone_' = [active_zone_ EXCEPT ![t] = cand[t]]
  /\ Leave(t, "write")
  /\ UNCHANGED <<busy_, active_io_zones_>>

\* or it is released, and an active token taken if there is one.
Unmatched(t) ==
  /\ busy_' = [y \in Zones |-> IF y = cand[t] THEN FALSE ELSE busy_[y]]
  /\ \/ ActiveTokenAvailable /\ Enter(t, "empty") /\ active_io_zones_' = active_io_zones_ + 1
     \/ Leave(t, "token") /\ UNCHANGED active_io_zones_
  /\ UNCHANGED active_zone_

\* UseMatch takes one of them.
LEMMA UseMatchCases ==
  ASSUME NEW t, UseMatch(t)
  PROVE  Matched(t) \/ Unmatched(t)
<1> DEFINE u == /\ cand[t] # 0
                /\ \/ BestDiff(t) < LIFETIME_DIFF_COULD_BE_WORSE
                   \/ ~ActiveTokenAvailable /\ BestDiff(t) = LIFETIME_DIFF_COULD_BE_WORSE
<1>1. CASE u
  BY <1>1 DEF UseMatch, Matched
<1>2. CASE ~u
  <2>1. /\ busy_' = [y \in Zones |-> IF y = cand[t] THEN FALSE ELSE busy_[y]]
        /\ active_zone_' = active_zone_
    BY <1>2, Zenon DEF UseMatch
  <2>2. IF ActiveTokenAvailable
        THEN Enter(t, "empty") /\ active_io_zones_' = active_io_zones_ + 1
        ELSE Leave(t, "token") /\ UNCHANGED active_io_zones_
    BY <1>2, Zenon DEF UseMatch
  <2> QED
    BY <2>1, <2>2 DEF Unmatched
<1> QED
  BY <1>1, <1>2

\* A step of one thread leaves the calls and the files of the others alone.
LEMMA Elsewhere ==
  ASSUME TypeInv, NEW t \in Threads, Acts(t), NEW s \in Threads, s # t
  PROVE  Local(s)' = Local(s)
<1> USE DEF Local, zones, tokens, scan, files
<1>0. TypeOK
  BY DEF TypeInv
<1>1. CASE WaitForOpenIOZoneToken(t)
  BY <1>0, <1>1 DEF TypeOK, WaitForOpenIOZoneToken, Enter
<1>2. CASE PutActiveIOZoneToken(t)
  BY <1>0, <1>2 DEF TypeOK, PutActiveIOZoneToken
<1>3. CASE Acquire(t)
  BY <1>0, <1>3 DEF TypeOK, Acquire
<1>4. CASE ApplyFinishThreshold(t)
  BY <1>0, <1>4 DEF TypeOK, ApplyFinishThreshold, Advance, Looking
<1>5. CASE ThresholdDone(t)
  BY <1>0, <1>5 DEF TypeOK, ThresholdDone, Leave, Through
<1>6. CASE GetBestOpenZoneMatch(t)
  BY <1>0, <1>6 DEF TypeOK, GetBestOpenZoneMatch, Advance, Looking
<1>7. CASE UseMatch(t)
  <2>1. /\ cand' = [cand EXCEPT ![t] = 0]
        /\ UNCHANGED <<hold, owe, lifetime, extents, buffer_pos, left>>
    BY <1>7 DEF UseMatch
  <2>2. CASE Matched(t)
    BY <1>0, <2>1, <2>2 DEF TypeOK, Matched, Leave
  <2>3. CASE Unmatched(t)
    BY <1>0, <2>1, <2>3 DEF TypeOK, Unmatched, Enter, Leave
  <2> QED
    BY <1>7, <2>2, <2>3, UseMatchCases
<1>8. CASE GetActiveIOZoneToken(t)
  BY <1>0, <1>8 DEF TypeOK, GetActiveIOZoneToken, Enter
<1>9. CASE FinishCheapestIOZone(t)
  BY <1>0, <1>9 DEF TypeOK, FinishCheapestIOZone, Advance, Looking
<1>10. CASE FinishVictim(t)
  BY <1>0, <1>10 DEF TypeOK, FinishVictim, Leave, Through
<1>11. CASE AllocateEmptyZone(t)
  BY <1>0, <1>11 DEF TypeOK, AllocateEmptyZone, Advance, Leave, Looking
<1>12. CASE NoEmptyZone(t)
  BY <1>0, <1>12 DEF TypeOK, NoEmptyZone, Leave, Through
<1>13. CASE ResetUnusedZones(t)
  BY <1>0, <1>13 DEF TypeOK, ResetUnusedZones, Advance, Looking
<1>14. CASE ResetDone(t)
  BY <1>0, <1>14 DEF TypeOK, ResetDone, Leave, Through
<1>15. CASE AllocateWALZone(t)
  BY <1>0, <1>15 DEF TypeOK, AllocateWALZone, Leave, Through
<1>16. CASE WriteZone(t)
  BY <1>0, <1>16 DEF TypeOK, WriteZone
<1>17. CASE Account(t)
  BY <1>0, <1>17 DEF TypeOK, Account
<1>18. CASE CloseActiveZone(t)
  BY <1>0, <1>18 DEF TypeOK, CloseActiveZone
<1>19. CASE PutOpenIOZoneToken(t)
  BY <1>0, <1>19 DEF TypeOK, PutOpenIOZoneToken, Allocate, Enter
<1>20. CASE DropDone(t)
  BY <1>0, <1>20 DEF TypeOK, DropDone, Enter, ClearExtents, Through
<1>21. CASE CloseFile(t)
  BY <1>0, <1>21 DEF TypeOK, CloseFile
<1>22. CASE Retry(t)
  BY <1>0, <1>22 DEF TypeOK, Retry, Allocate, Enter
<1>23. CASE GiveUp(t)
  BY <1>0, <1>23 DEF TypeOK, GiveUp
<1>24. CASE DeleteFile(t)
  BY <1>0, <1>24 DEF TypeOK, DeleteFile, Enter, ClearExtents
<1>25. ASSUME NEW n \in WriteSizes, NEW l \in Lifetimes, Create(t, n, l)
       PROVE  Local(s)' = Local(s)
  BY <1>0, <1>25 DEF TypeOK, Create, Allocate, Enter
<1> QED
  BY <1>1, <1>2, <1>3, <1>4, <1>5, <1>6, <1>7, <1>8, <1>9, <1>10, <1>11, <1>12, <1>13, <1>14, <1>15, <1>16, <1>17, <1>18, <1>19, <1>20, <1>21, <1>22, <1>23, <1>24, <1>25 DEF Acts, Run

\* The next group a loop over the groups comes to starts at a first zone.
LEMMA GroupAfter ==
  ASSUME TypeOK, NEW t \in Threads, Control(t), pc[t] = "groups"
  PROVE  (at[t] + GroupZones - IOZones - 1) % GroupZones = 0
<1> DEFINE a == at[t] - IOZones - 1
<1>1. a \in Nat /\ a % GroupZones = 0 /\ at[t] \in Nat
  BY DEF Control, TypeOK, First, Loops, IOLoops, WALLoops
<1>2. at[t] + GroupZones - IOZones - 1 = a + GroupZones
  BY <1>1
<1> HIDE DEF a
<1> QED
  BY <1>1, <1>2, NextGroup

\* A step keeps the place of its thread and what it holds in accord.
LEMMA ControlStep ==
  ASSUME TypeInv, NEW t \in Threads, Acts(t)
  PROVE  Control(t)'
<1> USE DEF zones, tokens, scan, files, Loops, IOLoops, WALLoops, First, Last
<1>0. TypeOK /\ Control(t)
  BY DEF TypeInv
<1>1. CASE WaitForOpenIOZoneToken(t)
  BY <1>0, <1>1 DEF TypeOK, Control, Threads, Step, WaitForOpenIOZoneToken, Enter
<1>2. CASE PutActiveIOZoneToken(t)
  BY <1>0, <1>2 DEF TypeOK, Control, Threads, Step, PutActiveIOZoneToken
<1>3. CASE Acquire(t)
  <2>1. CASE busy_[at[t]]
    <3>1. /\ pc' = pc /\ owe' = owe /\ active_zone_' = active_zone_ /\ extents' = extents
          /\ hold' = hold /\ cand' = cand /\ at'[t] = at[t] + Step(pc[t]) /\ hold[t] = 0
      BY <1>0, <1>3, <2>1 DEF TypeOK, Acquire
    <3>2. pc[t] = "groups" => (at'[t] - IOZones - 1) % GroupZones = 0
      <4> SUFFICES ASSUME pc[t] = "groups" PROVE (at'[t] - IOZones - 1) % GroupZones = 0
        OBVIOUS
      <4>1. at'[t] - IOZones - 1 = at[t] + GroupZones - IOZones - 1
        BY <1>0, <3>1 DEF TypeOK, Step
      <4> QED
        BY <1>0, <4>1, GroupAfter
    <3>3. at[t] \in Nat /\ Step(pc[t]) \in Nat /\ hold'[t] = 0 /\ cand[t] \in Nat
      BY <1>0, <3>1 DEF TypeOK, Step, Zones
    <3>4. First(pc[t]) \in Nat
      OBVIOUS
    <3>5. /\ pc[t] \in Loops => First(pc[t]) <= at'[t]
          /\ cand[t] # 0 => cand[t] < at'[t]
      <4> HIDE DEF First
      <4> QED
        BY <1>0, <3>1, <3>3, <3>4 DEF Control
    <3> HIDE DEF First, Last, Loops
    <3> QED
      BY <1>0, <3>1, <3>2, <3>3, <3>5 DEF Control
  <2>2. CASE ~busy_[at[t]]
    BY <1>0, <1>3, <2>2 DEF TypeOK, Control, Threads, Acquire
  <2> QED
    BY <2>1, <2>2
<1>4. CASE ApplyFinishThreshold(t)
  BY <1>0, <1>4 DEF TypeOK, Control, Threads, Step, ApplyFinishThreshold, Advance, Looking
<1>5. CASE ThresholdDone(t)
  BY <1>0, <1>5 DEF TypeOK, Control, Threads, Step, ThresholdDone, Leave, Through
<1>6. CASE GetBestOpenZoneMatch(t)
  <2>1. pc[t] = "match" /\ ~owe[t] /\ hold[t] # 0
    BY <1>6 DEF GetBestOpenZoneMatch, Looking
  <2>2. /\ pc' = pc /\ owe' = owe /\ active_zone_' = active_zone_ /\ extents' = extents
        /\ hold'[t] = 0 /\ at'[t] = at[t] + 1
    BY <1>0, <1>6, <2>1 DEF TypeOK, GetBestOpenZoneMatch, Advance, Step
  <2>3. cand'[t] = cand[t] \/ cand'[t] = hold[t]
    BY <1>0, <1>6 DEF TypeOK, GetBestOpenZoneMatch
  <2>4. at[t] \in Nat /\ hold[t] \in Nat /\ cand[t] \in Nat
    BY <1>0 DEF TypeOK, Zones
  <2> QED
    BY <1>0, <2>1, <2>2, <2>3, <2>4 DEF Control
<1>7. CASE UseMatch(t)
  <2>1. /\ hold' = hold /\ owe' = owe /\ extents' = extents /\ cand'[t] = 0
        /\ hold[t] = 0 /\ pc[t] = "match" /\ ~owe[t]
    BY <1>0, <1>7 DEF TypeOK, UseMatch, Through
  <2>2. \/ cand[t] # 0 /\ active_zone_'[t] = cand[t] /\ pc'[t] = "write"
        \/ active_zone_' = active_zone_ /\ pc'[t] = "empty" /\ at'[t] = 1
        \/ active_zone_' = active_zone_ /\ pc'[t] = "token"
    <3>1. CASE Matched(t)
      BY <1>0, <3>1 DEF TypeOK, Matched, Leave
    <3>2. CASE Unmatched(t)
      BY <1>0, <3>2 DEF TypeOK, Unmatched, Enter, Leave
    <3> QED
      BY <1>7, <3>1, <3>2, UseMatchCases
  <2> QED
    BY <1>0, <2>1, <2>2 DEF TypeOK, Control, Threads
<1>8. CASE GetActiveIOZoneToken(t)
  <2>1. \/ pc'[t] \in {"empty", "cheapest"} /\ at'[t] = 1 /\ t \notin WALThreads
        \/ pc'[t] = "groups" /\ at'[t] = IOZones + 1 /\ t \in WALThreads
    BY <1>0, <1>8 DEF TypeOK, GetActiveIOZoneToken, Enter
  <2>2. 0 % GroupZones = 0
    OBVIOUS
  <2>3. pc'[t] = "groups" => (at'[t] - IOZones - 1) % GroupZones = 0
    BY <2>1, <2>2
  <2> QED
    BY <1>0, <1>8, <2>1, <2>3 DEF TypeOK, Control, Threads, GetActiveIOZoneToken
<1>9. CASE FinishCheapestIOZone(t)
  <2>1. pc[t] = "cheapest" /\ ~owe[t] /\ hold[t] # 0
    BY <1>9 DEF FinishCheapestIOZone, Looking
  <2>2. /\ pc' = pc /\ owe' = owe /\ active_zone_' = active_zone_ /\ extents' = extents
        /\ hold'[t] = 0 /\ at'[t] = at[t] + 1
    BY <1>0, <1>9, <2>1 DEF TypeOK, FinishCheapestIOZone, Advance, Step
  <2>3. cand'[t] = cand[t] \/ cand'[t] = hold[t]
    BY <1>0, <1>9 DEF TypeOK, FinishCheapestIOZone
  <2>4. at[t] \in Nat /\ hold[t] \in Nat /\ cand[t] \in Nat
    BY <1>0 DEF TypeOK, Zones
  <2> QED
    BY <1>0, <2>1, <2>2, <2>3, <2>4 DEF Control
<1>10. CASE FinishVictim(t)
  BY <1>0, <1>10 DEF TypeOK, Control, Threads, Step, FinishVictim, Leave, Through
<1>11. CASE AllocateEmptyZone(t)
  <2>1. CASE IsEmpty(hold[t])
    BY <1>0, <1>11, <2>1 DEF TypeOK, Control, Threads, AllocateEmptyZone, Looking, Leave
  <2>2. CASE ~IsEmpty(hold[t])
    <3>1. /\ pc' = pc /\ owe' = owe /\ active_zone_' = active_zone_ /\ extents' = extents
          /\ hold'[t] = 0 /\ cand' = cand /\ at'[t] = at[t] + Step(pc[t])
      BY <1>0, <1>11, <2>2 DEF TypeOK, AllocateEmptyZone, Advance
    <3>2. pc[t] = "groups" => (at'[t] - IOZones - 1) % GroupZones = 0
      <4> SUFFICES ASSUME pc[t] = "groups" PROVE (at'[t] - IOZones - 1) % GroupZones = 0
        OBVIOUS
      <4>1. at'[t] - IOZones - 1 = at[t] + GroupZones - IOZones - 1
        BY <1>0, <3>1 DEF TypeOK, Step
      <4> QED
        BY <1>0, <4>1, GroupAfter
    <3>3. at[t] \in Nat /\ Step(pc[t]) \in Nat /\ hold'[t] = 0 /\ cand[t] \in Nat
      BY <1>0, <3>1 DEF TypeOK, Step, Zones
    <3>4. First(pc[t]) \in Nat
      OBVIOUS
    <3>5. /\ pc[t] \in Loops => First(pc[t]) <= at'[t]
          /\ cand[t] # 0 => cand[t] < at'[t]
      <4> HIDE DEF First
      <4> QED
        BY <1>0, <3>1, <3>3, <3>4 DEF Control
    <3> HIDE DEF First, Last, Loops
    <3> QED
      BY <1>0, <3>1, <3>2, <3>3, <3>5 DEF Control
  <2> QED
    BY <2>1, <2>2
<1>12. CASE NoEmptyZone(t)
  BY <1>0, <1>12 DEF TypeOK, Control, Threads, Step, NoEmptyZone, Leave, Through
<1>13. CASE ResetUnusedZones(t)
  BY <1>0, <1>13 DEF TypeOK, Control, Threads, Step, ResetUnusedZones, Advance, Looking
<1>14. CASE ResetDone(t)
  BY <1>0, <1>14 DEF TypeOK, Control, Threads, Step, ResetDone, Leave, Through
<1>15. CASE AllocateWALZone(t)
  <2>1. pc[t] = "release" /\ t \in WALThreads /\ t \notin IOThreads
    BY <1>0, <1>15 DEF AllocateWALZone, Through, Control, Threads
  <2>2. CASE GroupGoesOn(t)
    <3>1. LastZone(t) + 1 > IOZones /\ LastZone(t) + 1 \in Zones
      BY <2>1, <2>2, GroupGoesOnZone DEF Zones
    <3>2. active_zone_'[t] = LastZone(t) + 1 /\ pc'[t] = "write"
      BY <1>0, <1>15, <2>2 DEF TypeOK, AllocateWALZone, Leave
    <3>3. UNCHANGED <<hold, cand, owe, extents>>
      BY <1>15 DEF AllocateWALZone
    <3>4. hold[t] = 0 /\ ~owe[t]
      BY <1>15 DEF AllocateWALZone, Through
    <3>5. cand[t] = 0
      BY <1>0, <2>1 DEF Control
    <3>6. active_zone_'[t] # 0 /\ ~(active_zone_'[t] <= IOZones)
      BY <3>1, <3>2 DEF Zones
    <3>7. \A z \in Zones : extents'[t][z] > 0 => (t \in IOThreads <=> z <= IOZones)
      BY <1>0, <3>3 DEF Control
    <3> QED
      BY <2>1, <3>2, <3>3, <3>4, <3>5, <3>6, <3>7 DEF Control
  <2>3. CASE ~GroupGoesOn(t)
    BY <1>0, <1>15, <2>1, <2>3 DEF TypeOK, Control, AllocateWALZone, Leave, Through
  <2> QED
    BY <2>2, <2>3
<1>16. CASE WriteZone(t)
  BY <1>0, <1>16 DEF TypeOK, Control, Threads, Step, WriteZone
<1>17. CASE Account(t)
  BY <1>0, <1>17 DEF TypeOK, Control, Threads, Step, Account
<1>18. CASE CloseActiveZone(t)
  BY <1>0, <1>18 DEF TypeOK, Control, Threads, Step, CloseActiveZone
<1>19. CASE PutOpenIOZoneToken(t)
  BY <1>0, <1>19 DEF TypeOK, Control, Threads, Step, PutOpenIOZoneToken, Allocate, Enter
<1>20. CASE DropDone(t)
  BY <1>0, <1>20 DEF TypeOK, Control, Threads, Step, DropDone, Enter, ClearExtents, Through
<1>21. CASE CloseFile(t)
  BY <1>0, <1>21 DEF TypeOK, Control, Threads, Step, CloseFile
<1>22. CASE Retry(t)
  BY <1>0, <1>22 DEF TypeOK, Control, Threads, Step, Retry, Allocate, Enter
<1>23. CASE GiveUp(t)
  BY <1>0, <1>23 DEF TypeOK, Control, Threads, Step, GiveUp
<1>24. CASE DeleteFile(t)
  BY <1>0, <1>24 DEF TypeOK, Control, Threads, Step, DeleteFile, Enter, ClearExtents
<1>25. ASSUME NEW n \in WriteSizes, NEW l \in Lifetimes, Create(t, n, l)
       PROVE  Control(t)'
  BY <1>0, <1>25 DEF TypeOK, Control, Threads, Create, Allocate, Enter
<1> QED
  BY <1>1, <1>2, <1>3, <1>4, <1>5, <1>6, <1>7, <1>8, <1>9, <1>10, <1>11, <1>12, <1>13, <1>14, <1>15, <1>16, <1>17, <1>18, <1>19, <1>20, <1>21, <1>22, <1>23, <1>24, <1>25 DEF Acts, Run

\* The first write to a file keeps the types.
LEMMA TypeCreate ==
  ASSUME TypeInv, NEW t \in Threads, NEW n \in WriteSizes, NEW l \in Lifetimes, Create(t, n, l)
  PROVE  TypeOK'
<1> USE DEF zones, tokens
<1>1. TypeOK
  BY DEF TypeInv
<1>2. pc' \in [Threads -> PCs] /\ at' \in [Threads -> Nat]
  BY <1>1, AllocateTypes DEF Create
<1> QED
  BY <1>1, <1>2 DEF TypeOK, Create

\* Every step keeps the types and the control.
LEMMA TypeInductive == TypeInv /\ [Next]_vars => TypeInv'
<1> SUFFICES ASSUME TypeInv, [Next]_vars PROVE TypeInv'
  OBVIOUS
<1>1. CASE UNCHANGED vars
  <2>1. TypeOK'
    BY <1>1 DEF TypeInv, TypeOK, vars, zones, tokens, scan, files
  <2>2. ASSUME NEW t \in Threads PROVE Control(t)'
    BY <1>1, <2>2 DEF TypeInv, Control, vars, scan, files
  <2> QED
    BY <2>1, <2>2 DEF TypeInv
<1>2. ASSUME NEW t \in Threads, Acts(t) PROVE TypeInv'
  <2>1. TypeOK'
    BY <1>2, TypeStep, TypeCreate DEF Acts
  <2>2. Control(t)'
    BY <1>2, ControlStep
  <2>3. ASSUME NEW s \in Threads, s # t PROVE Control(s)'
    <3>1. Local(s)' = Local(s)
      BY <1>2, <2>3, Elsewhere
    <3> QED
      BY <2>3, <3>1 DEF TypeInv, Control, Local
  <2> QED
    BY <2>1, <2>2, <2>3 DEF TypeInv
<1> QED
  BY <1>1, <1>2 DEF Next, Acts

\* Every variable keeps to its type, for all constants; that no zone is written past its
\* capacity rests on WrSize and on a write having an active zone.
THEOREM TypeCorrect == Spec => []TypeOK
<1>1. TypeInv => TypeOK
  BY DEF TypeInv
<1> QED
  BY <1>1, TypeInit, TypeInductive, PTL DEF Spec

-----------------------------------------------------------------------------
(***************************************************************************)
(* One holder                                                              *)
(***************************************************************************)

\* How a thread comes to hold first zones and IO zones: those it holds are busy, the ones
\* it takes were not, and the ones it gives up are free again.
Handover(t) ==
  \A z \in Heads :
    /\ z \in Owned(t)' => z \in Owned(t) \/ ~busy_[z]
    /\ busy_'[z] <=> z \in Owned(t)' \/ (busy_[z] /\ z \notin Owned(t))

\* A thread that takes and gives up zones in this way keeps them exclusive.
LEMMA HandoverExclusive ==
  ASSUME TypeInv, ZonesExclusive, NEW t \in Threads, Acts(t), Handover(t)
  PROVE  ZonesExclusive'
<1>1. \A s \in Threads : s # t => Owned(s)' = Owned(s)
  BY Elsewhere DEF Local, Owned
<1>0. Heads' = Heads
  BY DEF Heads
<1>2. ASSUME NEW s \in Threads, s # t PROVE Owned(s)' \cap Owned(t)' \cap Heads = {}
  <2> SUFFICES ASSUME NEW z \in Heads, z \in Owned(s), z \in Owned(t)' PROVE FALSE
    BY <1>1, <1>2
  <2>1. busy_[z] /\ z \notin Owned(t)
    BY <1>2 DEF ZonesExclusive
  <2> QED
    BY <2>1 DEF Handover
<1>3. ASSUME NEW r \in Threads, NEW s \in Threads, r # s
      PROVE  Owned(r)' \cap Owned(s)' \cap Heads = {}
  <2>1. CASE r # t /\ s # t
    BY <1>1, <1>3, <2>1 DEF ZonesExclusive
  <2>2. CASE r = t
    BY <1>2, <1>3, <2>2
  <2>3. CASE s = t
    BY <1>2, <1>3, <2>3
  <2> QED
    BY <2>1, <2>2, <2>3
<1>4. ASSUME NEW z \in Heads
      PROVE  busy_'[z] <=> \E s \in Threads : z \in Owned(s)'
  <2>1. CASE z \in Owned(t)'
    BY <2>1 DEF Handover
  <2>2. CASE z \notin Owned(t)' /\ z \in Owned(t)
    <3>1. \A s \in Threads : s # t => z \notin Owned(s)
      BY <2>2 DEF ZonesExclusive
    <3> QED
      BY <1>1, <2>2, <3>1 DEF Handover
  <2>3. CASE z \notin Owned(t)' /\ z \notin Owned(t)
    <3>1. busy_'[z] <=> busy_[z]
      BY <2>3 DEF Handover
    <3>2. busy_[z] <=> \E s \in Threads : z \in Owned(s)
      BY DEF ZonesExclusive
    <3> QED
      BY <1>1, <2>3, <3>1, <3>2
  <2> QED
    BY <2>1, <2>2, <2>3
<1> QED
  BY <1>0, <1>3, <1>4 DEF ZonesExclusive

\* Every step hands zones over in this way.
LEMMA HandoverStep ==
  ASSUME TypeInv, ZonesExclusive, NEW t \in Threads, Acts(t)
  PROVE  Handover(t)
<1> USE DEF zones, tokens, scan, files
<1>0. TypeOK /\ Control(t)
  BY DEF TypeInv
<1>h. \A z \in Heads : z \in Zones /\ (z \in Owned(t) => busy_[z])
  BY DEF ZonesExclusive, Heads
<1>u. ASSUME UNCHANGED <<busy_, hold, cand, active_zone_>> PROVE Handover(t)
  BY <1>u, <1>h DEF Handover, Owned
<1>1. CASE WaitForOpenIOZoneToken(t)
  BY <1>u, <1>1 DEF WaitForOpenIOZoneToken
<1>2. CASE PutActiveIOZoneToken(t)
  BY <1>u, <1>2 DEF PutActiveIOZoneToken
<1>3. CASE Acquire(t)
  <2>1. CASE busy_[at[t]]
    BY <1>u, <1>3, <2>1 DEF Acquire
  <2>2. CASE ~busy_[at[t]]
    <3>1. at[t] # 0 /\ hold[t] = 0
      BY <1>0, <1>3 DEF Acquire, Control, First, Loops
    <3>2. Owned(t)' = Owned(t) \cup {at[t]}
      BY <1>0, <1>3, <2>2, <3>1 DEF Owned, Acquire, TypeOK
    <3>3. \A z \in Heads : busy_'[z] <=> busy_[z] \/ z = at[t]
      BY <1>0, <1>h, <1>3, <2>2 DEF Acquire, TypeOK
    <3> QED
      BY <1>h, <2>2, <3>2, <3>3 DEF Handover
  <2> QED
    BY <2>1, <2>2
<1>4. CASE ApplyFinishThreshold(t)
  BY <1>0, <1>h, <1>4 DEF Handover, Owned, TypeOK, Control, Loops, IOLoops, WALLoops, ApplyFinishThreshold, Advance, Looking
<1>5. CASE ThresholdDone(t)
  BY <1>u, <1>5 DEF ThresholdDone
<1>6. CASE GetBestOpenZoneMatch(t)
  <2>1. hold[t] # 0 /\ cand[t] # hold[t] /\ active_zone_[t] = 0
    BY <1>0, <1>6 DEF GetBestOpenZoneMatch, Looking, Control, TypeOK
  <2>2. PICK x \in {hold[t], cand[t]} :
          /\ busy_' = [y \in Zones |-> IF y = x THEN FALSE ELSE busy_[y]]
          /\ cand'[t] = IF x = hold[t] THEN cand[t] ELSE hold[t]
    BY <1>0, <1>6, <2>1 DEF GetBestOpenZoneMatch, TypeOK
  <2>3. Owned(t)' = Owned(t) \ {x}
    BY <1>0, <1>6, <2>1, <2>2 DEF Owned, GetBestOpenZoneMatch, Advance, TypeOK
  <2>4. \A z \in Heads : busy_'[z] <=> busy_[z] /\ z # x
    BY <1>h, <2>2
  <2>5. \A z \in Heads : z = x => z \in Owned(t)
    BY <2>2 DEF Heads, Zones, Owned
  <2> QED
    BY <1>h, <2>3, <2>4, <2>5 DEF Handover
<1>7. CASE UseMatch(t)
  <2>1. hold[t] = 0 /\ hold'[t] = 0 /\ cand'[t] = 0 /\ active_zone_[t] = 0
    BY <1>0, <1>7 DEF UseMatch, Through, Control, TypeOK
  <2>2. CASE Matched(t)
    <3>1. Owned(t)' = Owned(t) /\ busy_' = busy_
      BY <1>0, <2>1, <2>2 DEF Owned, Matched, TypeOK
    <3> QED
      BY <1>h, <3>1 DEF Handover
  <2>3. CASE Unmatched(t)
    <3>1. Owned(t)' = {} /\ Owned(t) = {cand[t]} \ {0}
      BY <1>0, <2>1, <2>3 DEF Owned, Unmatched, TypeOK
    <3>2. \A z \in Heads : busy_'[z] <=> busy_[z] /\ z # cand[t]
      BY <1>h, <2>3 DEF Unmatched
    <3>3. \A z \in Heads : z # 0
      BY DEF Heads, Zones
    <3> QED
      BY <1>h, <3>1, <3>2, <3>3 DEF Handover
  <2> QED
    BY <1>7, <2>2, <2>3, UseMatchCases
<1>8. CASE GetActiveIOZoneToken(t)
  BY <1>u, <1>8 DEF GetActiveIOZoneToken
<1>9. CASE FinishCheapestIOZone(t)
  <2>1. hold[t] # 0 /\ cand[t] # hold[t] /\ active_zone_[t] = 0
    BY <1>0, <1>9 DEF FinishCheapestIOZone, Looking, Control, TypeOK
  <2>2. PICK x \in {hold[t], cand[t]} :
          /\ busy_' = [y \in Zones |-> IF y = x THEN FALSE ELSE busy_[y]]
          /\ cand'[t] = IF x = hold[t] THEN cand[t] ELSE hold[t]
    BY <1>0, <1>9, <2>1 DEF FinishCheapestIOZone, TypeOK
  <2>3. Owned(t)' = Owned(t) \ {x}
    BY <1>0, <1>9, <2>1, <2>2 DEF Owned, FinishCheapestIOZone, Advance, TypeOK
  <2>4. \A z \in Heads : busy_'[z] <=> busy_[z] /\ z # x
    BY <1>h, <2>2
  <2>5. \A z \in Heads : z = x => z \in Owned(t)
    BY <2>2 DEF Heads, Zones, Owned
  <2> QED
    BY <1>h, <2>3, <2>4, <2>5 DEF Handover
<1>10. CASE FinishVictim(t)
  <2>1. hold[t] = 0 /\ hold' = hold /\ cand'[t] = 0 /\ active_zone_[t] = 0 /\ active_zone_' = active_zone_
    BY <1>0, <1>10 DEF FinishVictim, Through, Control, TypeOK
  <2>2. Owned(t)' = {} /\ Owned(t) = {cand[t]} \ {0}
    BY <2>1 DEF Owned
  <2>3. \A z \in Heads : busy_'[z] <=> busy_[z] /\ z # cand[t]
    BY <1>h, <1>10 DEF FinishVictim
  <2>4. \A z \in Heads : z # 0
    BY DEF Heads, Zones
  <2> QED
    BY <1>h, <2>2, <2>3, <2>4 DEF Handover
<1>11. CASE AllocateEmptyZone(t)
  BY <1>0, <1>h, <1>11 DEF Handover, Owned, TypeOK, Control, Loops, IOLoops, WALLoops, AllocateEmptyZone, Advance, Leave, Looking
<1>12. CASE NoEmptyZone(t)
  BY <1>u, <1>12 DEF NoEmptyZone
<1>13. CASE ResetUnusedZones(t)
  BY <1>0, <1>h, <1>13 DEF Handover, Owned, TypeOK, Control, Loops, IOLoops, WALLoops, ResetUnusedZones, Advance, Looking
<1>14. CASE ResetDone(t)
  BY <1>u, <1>14 DEF ResetDone
<1>15. CASE AllocateWALZone(t)
  <2>1. CASE GroupGoesOn(t)
    <3>1. t \in WALThreads
      BY <1>0, <1>15 DEF AllocateWALZone, Through, Control, Threads, WALLoops
    <3>2. LastZone(t) + 1 \notin Heads
      BY <2>1, <3>1, GroupGoesOnZone DEF Heads, Zones
    <3>3. hold[t] = 0 /\ cand[t] = 0 /\ active_zone_[t] = 0 /\ active_zone_'[t] = LastZone(t) + 1
      BY <1>0, <1>15, <2>1 DEF AllocateWALZone, Through, Control, TypeOK
    <3>4. Owned(t) = {} /\ Owned(t)' \subseteq {LastZone(t) + 1}
      BY <1>15, <3>3 DEF AllocateWALZone, Owned
    <3>5. busy_' = busy_
      BY <1>15 DEF AllocateWALZone
    <3> QED
      BY <3>2, <3>4, <3>5 DEF Handover
  <2>2. CASE ~GroupGoesOn(t)
    BY <1>u, <1>15, <2>2 DEF AllocateWALZone
  <2> QED
    BY <2>1, <2>2
<1>16. CASE WriteZone(t)
  BY <1>u, <1>16 DEF WriteZone
<1>17. CASE Account(t)
  BY <1>u, <1>17 DEF Account
<1>18. CASE CloseActiveZone(t)
  BY <1>0, <1>h, <1>18 DEF Handover, Owned, TypeOK, Control, Loops, IOLoops, WALLoops, CloseActiveZone
<1>19. CASE PutOpenIOZoneToken(t)
  BY <1>u, <1>19 DEF PutOpenIOZoneToken
<1>20. CASE DropDone(t)
  BY <1>u, <1>20 DEF DropDone
<1>21. CASE CloseFile(t)
  BY <1>u, <1>21 DEF CloseFile
<1>22. CASE Retry(t)
  BY <1>u, <1>22 DEF Retry
<1>23. CASE GiveUp(t)
  BY <1>u, <1>23 DEF GiveUp
<1>24. CASE DeleteFile(t)
  BY <1>u, <1>24 DEF DeleteFile
<1>25. ASSUME NEW n \in WriteSizes, NEW l \in Lifetimes, Create(t, n, l)
       PROVE  Handover(t)
  BY <1>u, <1>25 DEF Create
<1> QED
  BY <1>1, <1>2, <1>3, <1>4, <1>5, <1>6, <1>7, <1>8, <1>9, <1>10, <1>11, <1>12, <1>13, <1>14, <1>15, <1>16, <1>17, <1>18, <1>19, <1>20, <1>21, <1>22, <1>23, <1>24, <1>25 DEF Acts, Run

\* Nothing is held at first.
LEMMA ExclusiveInit == Init => ZonesExclusive
<1> SUFFICES ASSUME Init PROVE ZonesExclusive
  OBVIOUS
<1>1. \A t \in Threads : Owned(t) = {}
  BY DEF Init, Owned
<1>2. \A z \in Heads : ~busy_[z]
  BY DEF Init, Heads
<1> QED
  BY <1>1, <1>2 DEF ZonesExclusive

\* Every step keeps the IO zones and the first zones of groups exclusive.
LEMMA ExclusiveInductive == TypeInv /\ ZonesExclusive /\ [Next]_vars => ZonesExclusive'
<1> SUFFICES ASSUME TypeInv, ZonesExclusive, [Next]_vars PROVE ZonesExclusive'
  OBVIOUS
<1>1. CASE UNCHANGED vars
  BY <1>1 DEF ZonesExclusive, Owned, Heads, vars, zones, scan, files
<1>2. ASSUME NEW t \in Threads, Acts(t) PROVE ZonesExclusive'
  BY <1>2, HandoverStep, HandoverExclusive
<1> QED
  BY <1>1, <1>2 DEF Next, Acts

\* For every number of threads, zones and zones to a group: no two threads hold the same
\* IO zone or the same first zone of a group, and exactly the held ones are busy.
THEOREM ZonesAreExclusive == Spec => []ZonesExclusive
BY TypeInit, TypeInductive, ExclusiveInit, ExclusiveInductive, PTL DEF Spec

-----------------------------------------------------------------------------
(***************************************************************************)
(* Data                                                                    *)
(***************************************************************************)

\* What is written to a zone and not yet counted
Pending(t, z) == IF pc[t] = "account" /\ active_zone_[t] = z THEN at[t] ELSE 0

\* Between the write and the count a zone looks unused, but its writer holds it.
DataInv == \A t \in Threads, z \in Heads : extents[t][z] + Pending(t, z) <= wp_[z]

\* What is counted and what is pending are numbers of blocks.
LEMMA DataTypes ==
  ASSUME TypeOK, NEW t \in Threads, NEW z \in Zones
  PROVE  extents[t][z] \in Nat /\ Pending(t, z) \in Nat /\ wp_[z] \in Nat /\ wp_[z] <= Cap
BY DEF TypeOK, Pending

\* No step takes away the data of a file in an IO zone or a first zone.
LEMMA DataStep ==
  ASSUME TypeInv, ZonesExclusive, DataInv, NEW t \in Threads, Acts(t),
         NEW s \in Threads, NEW z \in Heads
  PROVE  extents'[s][z] + Pending(s, z)' <= wp_'[z]
<1> USE DEF zones, tokens, scan, files, Loops, IOLoops, WALLoops
<1>0. TypeOK /\ Control(t) /\ z \in Zones
  BY DEF TypeInv, Heads
<1>n. /\ extents[s][z] \in Nat /\ Pending(s, z) \in Nat /\ wp_[z] \in Nat
      /\ extents[t][z] \in Nat /\ Pending(t, z) \in Nat /\ wp_[z] <= Cap
  BY <1>0, DataTypes
<1>d. extents[s][z] + Pending(s, z) <= wp_[z] /\ extents[t][z] + Pending(t, z) <= wp_[z]
  BY DEF DataInv
<1>e. s # t => extents'[s] = extents[s] /\ Pending(s, z)' = Pending(s, z)
  BY Elsewhere DEF Local, Pending
<1>q. ASSUME wp_'[z] \in Nat, wp_[z] <= wp_'[z], extents'[t][z] \in {0, extents[t][z]}, pc'[t] # "account"
      PROVE  extents'[s][z] + Pending(s, z)' <= wp_'[z]
  <2>1. CASE s = t
    BY <1>n, <1>d, <1>q, <2>1 DEF Pending
  <2>2. CASE s # t
    BY <1>n, <1>d, <1>e, <1>q, <2>2
  <2> QED
    BY <2>1, <2>2
<1>1. CASE WaitForOpenIOZoneToken(t)
  BY <1>0, <1>n, <1>q, <1>1 DEF TypeOK, Control, WaitForOpenIOZoneToken, Enter
<1>2. CASE PutActiveIOZoneToken(t)
  BY <1>0, <1>n, <1>q, <1>2 DEF TypeOK, Control, PutActiveIOZoneToken
<1>3. CASE Acquire(t)
  BY <1>0, <1>n, <1>q, <1>3 DEF TypeOK, Control, Acquire
<1>4. CASE ApplyFinishThreshold(t)
  <2>1. wp_'[z] \in {wp_[z], Cap}
    BY <1>0, <1>4 DEF TypeOK, ApplyFinishThreshold
  <2> QED
    BY <1>0, <1>n, <1>q, <1>4, <2>1 DEF ApplyFinishThreshold, Looking
<1>5. CASE ThresholdDone(t)
  BY <1>0, <1>n, <1>q, <1>5 DEF TypeOK, Control, ThresholdDone, Leave, Through
<1>6. CASE GetBestOpenZoneMatch(t)
  BY <1>0, <1>n, <1>q, <1>6 DEF TypeOK, Control, GetBestOpenZoneMatch, Advance, Looking
<1>7. CASE UseMatch(t)
  <2>1. pc'[t] \in {"write", "empty", "token"}
    <3>1. CASE Matched(t)
      BY <1>0, <3>1 DEF TypeOK, Matched, Leave
    <3>2. CASE Unmatched(t)
      BY <1>0, <3>2 DEF TypeOK, Unmatched, Enter, Leave
    <3> QED
      BY <1>7, <3>1, <3>2, UseMatchCases
  <2> QED
    BY <1>n, <1>q, <1>7, <2>1 DEF UseMatch
<1>8. CASE GetActiveIOZoneToken(t)
  BY <1>0, <1>n, <1>q, <1>8 DEF TypeOK, Control, GetActiveIOZoneToken, Enter
<1>9. CASE FinishCheapestIOZone(t)
  BY <1>0, <1>n, <1>q, <1>9 DEF TypeOK, Control, FinishCheapestIOZone, Advance, Looking
<1>10. CASE FinishVictim(t)
  <2>1. wp_'[z] \in {wp_[z], Cap}
    BY <1>0, <1>10 DEF FinishVictim
  <2>2. pc'[t] = "token"
    BY <1>0, <1>10 DEF TypeOK, FinishVictim, Leave
  <2> QED
    BY <1>n, <1>q, <1>10, <2>1, <2>2 DEF FinishVictim
<1>11. CASE AllocateEmptyZone(t)
  BY <1>0, <1>n, <1>q, <1>11 DEF TypeOK, Control, AllocateEmptyZone, Advance, Leave, Looking
<1>12. CASE NoEmptyZone(t)
  BY <1>0, <1>n, <1>q, <1>12 DEF TypeOK, Control, NoEmptyZone, Leave, Through
<1>13. CASE ResetUnusedZones(t)
  <2>1. /\ pc' = pc /\ extents' = extents /\ pc[t] \in {"reset", "release", "drop"} /\ hold[t] # 0
    BY <1>13 DEF ResetUnusedZones, Looking
  <2>2. CASE z = hold[t] /\ Unused(z)
    <3>1. wp_'[z] = 0
      BY <1>0, <1>13, <2>2 DEF TypeOK, ResetUnusedZones
    <3>2. extents[s][z] = 0
      BY <1>n, <2>2 DEF Unused, IsUsed
    <3>3. s # t => active_zone_[s] # z
      BY <1>0, <2>1, <2>2 DEF ZonesExclusive, Owned, Zones
    <3>4. Pending(s, z)' = 0
      BY <1>e, <2>1, <3>3 DEF Pending
    <3> QED
      BY <2>1, <3>1, <3>2, <3>4
  <2>3. CASE ~(z = hold[t] /\ Unused(z))
    <3>1. wp_'[z] = wp_[z]
      BY <1>0, <1>13, <2>3 DEF TypeOK, ResetUnusedZones
    <3> QED
      BY <1>n, <1>q, <2>1, <3>1
  <2> QED
    BY <2>2, <2>3
<1>14. CASE ResetDone(t)
  BY <1>0, <1>n, <1>q, <1>14 DEF TypeOK, Control, ResetDone, Leave, Through
<1>15. CASE AllocateWALZone(t)
  BY <1>0, <1>n, <1>q, <1>15 DEF TypeOK, Control, AllocateWALZone, Leave, Through
<1>16. CASE WriteZone(t)
  <2>1. active_zone_[t] \in Zones /\ WrSize(t) \in Nat
    BY <1>0, <1>16, WriteSize
  <2>2. wp_'[z] = IF z = active_zone_[t] THEN wp_[z] + WrSize(t) ELSE wp_[z]
    BY <1>0, <1>16, <2>1 DEF TypeOK, WriteZone
  <2>3. CASE s = t
    <3>1. Pending(t, z) = 0 /\ extents' = extents
      BY <1>16 DEF Pending, WriteZone
    <3>2. Pending(t, z)' = IF z = active_zone_[t] THEN WrSize(t) ELSE 0
      BY <1>0, <1>16 DEF TypeOK, Pending, WriteZone
    <3> QED
      BY <1>n, <1>d, <2>1, <2>2, <2>3, <3>1, <3>2
  <2>4. CASE s # t
    BY <1>n, <1>d, <1>e, <2>1, <2>2, <2>4
  <2> QED
    BY <2>3, <2>4
<1>17. CASE Account(t)
  <2>1. active_zone_[t] \in Zones /\ wp_' = wp_
    BY <1>0, <1>17 DEF TypeOK, Account, Control
  <2>2. CASE s = t
    <3>1. extents'[t][z] = IF z = active_zone_[t] THEN extents[t][z] + at[t] ELSE extents[t][z]
      BY <1>0, <1>17, <2>1 DEF TypeOK, Account
    <3>2. Pending(t, z)' = 0
      BY <1>0, <1>17 DEF TypeOK, Pending, Account
    <3>3. z = active_zone_[t] => Pending(t, z) = at[t]
      BY <1>17 DEF Pending, Account
    <3> QED
      BY <1>n, <1>d, <2>1, <2>2, <3>1, <3>2, <3>3
  <2>3. CASE s # t
    BY <1>n, <1>d, <1>e, <2>1, <2>3
  <2> QED
    BY <2>2, <2>3
<1>18. CASE CloseActiveZone(t)
  BY <1>0, <1>n, <1>q, <1>18 DEF TypeOK, Control, CloseActiveZone
<1>19. CASE PutOpenIOZoneToken(t)
  BY <1>0, <1>n, <1>q, <1>19 DEF TypeOK, Control, PutOpenIOZoneToken, Allocate, Enter
<1>20. CASE DropDone(t)
  BY <1>0, <1>n, <1>q, <1>20 DEF TypeOK, Control, DropDone, Enter, ClearExtents, Through
<1>21. CASE CloseFile(t)
  BY <1>0, <1>n, <1>q, <1>21 DEF TypeOK, Control, CloseFile
<1>22. CASE Retry(t)
  BY <1>0, <1>n, <1>q, <1>22 DEF TypeOK, Control, Retry, Allocate, Enter
<1>23. CASE GiveUp(t)
  BY <1>0, <1>n, <1>q, <1>23 DEF TypeOK, Control, GiveUp
<1>24. CASE DeleteFile(t)
  BY <1>0, <1>n, <1>q, <1>24 DEF TypeOK, Control, DeleteFile, Enter, ClearExtents
<1>25. ASSUME NEW n \in WriteSizes, NEW l \in Lifetimes, Create(t, n, l)
       PROVE  extents'[s][z] + Pending(s, z)' <= wp_'[z]
  BY <1>0, <1>n, <1>q, <1>25 DEF TypeOK, Control, Create, Allocate, Enter
<1> QED
  BY <1>1, <1>2, <1>3, <1>4, <1>5, <1>6, <1>7, <1>8, <1>9, <1>10, <1>11, <1>12, <1>13, <1>14, <1>15, <1>16, <1>17, <1>18, <1>19, <1>20, <1>21, <1>22, <1>23, <1>24, <1>25 DEF Acts, Run

\* No data at first, and no step takes any away.
LEMMA DataInductive ==
  /\ Init => DataInv
  /\ TypeInv /\ ZonesExclusive /\ DataInv /\ [Next]_vars => DataInv'
<1>1. ASSUME Init PROVE DataInv
  <2> SUFFICES ASSUME NEW t \in Threads, NEW z \in Zones
               PROVE  extents[t][z] + Pending(t, z) <= wp_[z]
    BY DEF DataInv, Heads
  <2> QED
    BY <1>1 DEF Init, Pending
<1>2. ASSUME TypeInv, ZonesExclusive, DataInv, [Next]_vars PROVE DataInv'
  <2>0. Heads' = Heads
    BY DEF Heads
  <2>1. CASE UNCHANGED vars
    BY <1>2, <2>1 DEF DataInv, Heads, Pending, vars, zones, scan, files
  <2>2. ASSUME NEW t \in Threads, Acts(t) PROVE DataInv'
    BY <1>2, <2>0, <2>2, DataStep DEF DataInv
  <2> QED
    BY <1>2, <2>1, <2>2 DEF Next, Acts
<1> QED
  BY <1>1, <1>2

\* For all constants: no IO zone and no first zone of a group is reset, or given to
\* another file, while a file has data in it, although a zone that was just written looks
\* unused until its data is counted.
THEOREM DataIsKept == Spec => []DataKept
<1>1. TypeInv /\ DataInv => DataKept
  <2> SUFFICES ASSUME TypeInv, DataInv, NEW t \in Threads, NEW z \in Heads
               PROVE  extents[t][z] <= wp_[z]
    BY DEF DataKept
  <2>1. extents[t][z] + Pending(t, z) <= wp_[z]
    BY DEF DataInv
  <2>2. extents[t][z] \in Nat /\ Pending(t, z) \in Nat /\ wp_[z] \in Nat
    BY DataTypes DEF TypeInv, Heads
  <2> QED
    BY <2>1, <2>2
<1> QED
  BY <1>1, TypeInit, TypeInductive, ExclusiveInit, ExclusiveInductive, DataInductive, PTL DEF Spec

-----------------------------------------------------------------------------
(***************************************************************************)
(* Groups                                                                  *)
(***************************************************************************)

\* The first zone of a zone's group
Head(z) == IOZones + 1 + GroupZones * Group(z)

\* Two numbers of one group, the second not the first number of the next
LEMMA SameQuotient ==
  ASSUME NEW a \in Nat, (a + 1) % GroupZones # 0
  PROVE  (a + 1) \div GroupZones = a \div GroupZones
<1> DEFINE q == (a + 1) \div GroupZones
           r == (a + 1) % GroupZones
<1>1. q \in Nat /\ r \in 0..(GroupZones - 1) /\ a + 1 = GroupZones * q + r
  OBVIOUS
<1>2. r - 1 \in 0..(GroupZones - 1) /\ a = GroupZones * q + (r - 1)
  BY <1>1
<1> HIDE DEF q, r
<1>3. (GroupZones * q + (r - 1)) \div GroupZones = q
  BY <1>1, <1>2
<1> QED
  BY <1>2, <1>3 DEF q

\* Multiples of GroupZones
LEMMA Multiples ==
  ASSUME NEW q \in Nat
  PROVE  GroupZones * q \in Nat /\ (GroupZones * q) % GroupZones = 0
<1>1. GroupZones * q \in Nat
  OBVIOUS
<1>2. (GroupZones * q + 0) % GroupZones = 0
  OBVIOUS
<1> QED
  BY <1>1, <1>2

\* The first zone of a group is one of the first zones, and its own first zone.
LEMMA HeadIsFirst ==
  ASSUME NEW z \in Zones, z > IOZones
  PROVE  /\ Head(z) \in Heads /\ Head(z) > IOZones
         /\ z \in Heads => Head(z) = z
<1> DEFINE a == z - IOZones - 1
           q == a \div GroupZones
<1>1. a \in Nat /\ q \in Nat /\ a % GroupZones \in Nat /\ a = GroupZones * q + (a % GroupZones)
  BY DEF Zones
<1>2. Head(z) = IOZones + 1 + GroupZones * q
  BY DEF Head, Group
<1> HIDE DEF q
<1>3. GroupZones * q \in Nat /\ GroupZones * q <= a /\ (GroupZones * q) % GroupZones = 0
  <2>1. GroupZones * q \in Nat /\ (GroupZones * q) % GroupZones = 0
    BY <1>1, Multiples
  <2> QED
    BY <1>1, <2>1
<1>4. z \in Heads => a % GroupZones = 0
  BY DEF Heads, Zones
<1>5. Head(z) - IOZones - 1 = GroupZones * q
  BY <1>2, <1>3
<1>6. Head(z) \in Zones
  BY <1>2, <1>3 DEF Zones
<1> QED
  BY <1>1, <1>2, <1>3, <1>4, <1>5, <1>6 DEF Heads, Zones

\* A log that goes on in its group stays in it.
LEMMA HeadGoesOn ==
  ASSUME NEW z \in Zones, z > IOZones, (z - IOZones) % GroupZones # 0
  PROVE  Head(z + 1) = Head(z) /\ z + 1 \notin Heads
<1> DEFINE a == z - IOZones - 1
<1>1. a \in Nat /\ a + 1 = z - IOZones /\ a + 1 = (z + 1) - IOZones - 1 /\ z + 1 > IOZones
  BY DEF Zones
<1>2. (a + 1) % GroupZones # 0
  BY <1>1
<1> HIDE DEF a
<1>3. (a + 1) \div GroupZones = a \div GroupZones
  BY <1>1, <1>2, SameQuotient
<1>4. Group(z + 1) = Group(z)
  BY <1>1, <1>3 DEF Group, a
<1>5. z + 1 \notin Heads
  BY <1>1, <1>2 DEF Heads, Zones
<1> QED
  BY <1>4, <1>5 DEF Head

Uses(t, z) == active_zone_[t] = z \/ extents[t][z] > 0

\* A log that uses a zone of a group has data in its first zone, unless it is that zone it
\* uses; and no two logs use the same first zone.
GroupInv ==
  /\ \A t \in WALThreads, z \in Zones : Uses(t, z) => z \in Heads \/ extents[t][Head(z)] > 0
  /\ \A s, t \in WALThreads, z \in Heads : s # t /\ Uses(s, z) => ~Uses(t, z)

\* What the invariant says of zones in the same group
LEMMA GroupsApart == TypeInv /\ GroupInv => GroupsExclusive
<1> SUFFICES ASSUME TypeInv, GroupInv, NEW s \in WALThreads, NEW t \in WALThreads, s # t,
                    NEW y \in Zones, NEW z \in Zones, Uses(s, y), Uses(t, z), Group(y) = Group(z)
             PROVE  FALSE
  BY DEF GroupsExclusive, Uses
<1>0. s \in Threads \ IOThreads /\ t \in Threads \ IOThreads
  BY DEF Threads
<1>1. y > IOZones /\ z > IOZones
  BY <1>0 DEF TypeInv, Control, Uses, Zones
<1>2. Head(y) = Head(z) /\ Head(y) \in Heads
  BY <1>1, HeadIsFirst DEF Head
<1>3. Uses(s, Head(y))
  BY <1>1, HeadIsFirst DEF GroupInv, Uses
<1>4. Uses(t, Head(z))
  BY <1>1, HeadIsFirst DEF GroupInv, Uses
<1> QED
  BY <1>2, <1>3, <1>4 DEF GroupInv

\* A log may add to the zones it uses a first zone nobody uses, or a zone behind a first
\* zone it has data in.
LEMMA GroupGrows ==
  ASSUME TypeInv, GroupInv, NEW t \in WALThreads, Acts(t), NEW y,
         \A z \in Zones : Uses(t, z)' => Uses(t, z) \/ z = y,
         \A z \in Zones : extents[t][z] > 0 => extents'[t][z] > 0,
         y \in Zones => y > IOZones,
         y \in Heads => \A s \in WALThreads : s # t => ~Uses(s, y),
         y \in Zones \ Heads => extents[t][Head(y)] > 0
  PROVE  GroupInv'
<1>0. t \in Threads \ IOThreads /\ WALThreads \subseteq Threads /\ Heads \subseteq Zones
  BY DEF Threads, Heads
<1>1. \A s \in WALThreads : s # t => extents'[s] = extents[s] /\ \A z \in Zones : Uses(s, z)' = Uses(s, z)
  BY <1>0, Elsewhere DEF Local, Uses
<1>2. ASSUME NEW s \in WALThreads, NEW z \in Zones, Uses(s, z)'
      PROVE  z \in Heads \/ extents'[s][Head(z)] > 0
  <2>1. CASE s # t
    BY <1>1, <1>2, <2>1 DEF GroupInv
  <2>2. CASE s = t
    <3>1. z > IOZones
      BY <1>0, <1>2, <2>2 DEF TypeInv, Control, Uses, Zones
    <3>2. Head(z) \in Zones
      BY <1>0, <3>1, HeadIsFirst
    <3>3. z \in Heads \/ extents[t][Head(z)] > 0
      BY <1>2, <2>2 DEF GroupInv
    <3> QED
      BY <2>2, <3>2, <3>3
  <2> QED
    BY <2>1, <2>2
<1>3. ASSUME NEW s \in WALThreads, s # t, NEW z \in Heads, Uses(s, z), Uses(t, z)'
      PROVE  FALSE
  BY <1>0, <1>3 DEF GroupInv
<1>4. ASSUME NEW r \in WALThreads, NEW s \in WALThreads, r # s, NEW z \in Heads, Uses(r, z)'
      PROVE  ~Uses(s, z)'
  <2>1. CASE r # t /\ s # t
    BY <1>0, <1>1, <1>4, <2>1 DEF GroupInv
  <2>2. CASE r = t
    BY <1>0, <1>1, <1>3, <1>4, <2>2
  <2>3. CASE s = t
    BY <1>0, <1>1, <1>3, <1>4, <2>3
  <2> QED
    BY <2>1, <2>2, <2>3
<1>5. Heads' = Heads /\ \A z \in Zones : Head(z)' = Head(z)
  BY DEF Heads, Head, Group
<1> QED
  BY <1>2, <1>4, <1>5 DEF GroupInv, Uses

\* Every step keeps the groups apart.
LEMMA GroupStep ==
  ASSUME TypeInv, ZonesExclusive, DataInv, GroupInv, NEW t \in Threads, Acts(t)
  PROVE  GroupInv'
<1> USE DEF zones, tokens, scan, files, Loops, IOLoops, WALLoops
<1>0. TypeOK /\ Control(t)
  BY DEF TypeInv
<1>i. CASE t \in IOThreads
  <2>1. \A s \in WALThreads : s \in Threads /\ s # t
    BY <1>i DEF Threads
  <2>2. \A s \in WALThreads : extents'[s] = extents[s] /\ active_zone_'[s] = active_zone_[s]
    BY <2>1, Elsewhere DEF Local
  <2>3. Heads' = Heads /\ \A z \in Zones : Head(z)' = Head(z)
    BY DEF Heads, Head, Group
  <2>4. Heads \subseteq Zones
    BY DEF Heads
  <2> QED
    BY <2>2, <2>3, <2>4 DEF GroupInv, Uses
<1>w. t \notin IOThreads => t \in WALThreads
  BY DEF Threads
<1>z. 0 \notin Zones /\ Heads \subseteq Zones
  BY DEF Heads, Zones
<1>f. ASSUME t \in WALThreads, active_zone_'[t] \in {0, active_zone_[t]},
             \A z \in Zones : extents'[t][z] = extents[t][z]
      PROVE  GroupInv'
  <2>1. \A z \in Zones : Uses(t, z)' => Uses(t, z) \/ z = 0
    BY <1>f, <1>z DEF Uses
  <2> QED
    BY <1>f, <1>z, <2>1, GroupGrows
<1>g. ASSUME t \in WALThreads, active_zone_'[t] = 0, \A z \in Zones : extents'[t][z] = 0
      PROVE  GroupInv'
  <2>1. \A z \in Zones : ~Uses(t, z)'
    BY <1>g, <1>z DEF Uses
  <2>2. \A s \in WALThreads : s # t => s \in Threads /\ extents'[s] = extents[s] /\ active_zone_'[s] = active_zone_[s]
    BY Elsewhere DEF Local, Threads
  <2>3. Heads' = Heads /\ \A z \in Zones : Head(z)' = Head(z)
    BY DEF Heads, Head, Group
  <2> QED
    BY <1>z, <2>1, <2>2, <2>3 DEF GroupInv, Uses
<1>1. CASE WaitForOpenIOZoneToken(t) /\ t \in WALThreads
  BY <1>0, <1>f, <1>1 DEF TypeOK, WaitForOpenIOZoneToken
<1>2. CASE PutActiveIOZoneToken(t) /\ t \in WALThreads
  BY <1>0, <1>f, <1>2 DEF TypeOK, PutActiveIOZoneToken
<1>3. CASE Acquire(t) /\ t \in WALThreads
  BY <1>0, <1>f, <1>3 DEF TypeOK, Acquire
<1>4. CASE ApplyFinishThreshold(t) /\ t \in WALThreads
  BY <1>0, <1>f, <1>4 DEF TypeOK, ApplyFinishThreshold
<1>5. CASE ThresholdDone(t) /\ t \in WALThreads
  BY <1>0, <1>f, <1>5 DEF TypeOK, ThresholdDone
<1>6. CASE GetBestOpenZoneMatch(t) /\ t \in WALThreads
  BY <1>0, <1>f, <1>6 DEF TypeOK, GetBestOpenZoneMatch
<1>7. CASE UseMatch(t) /\ t \in WALThreads
  BY <1>0, <1>7 DEF UseMatch, Through, Control
<1>8. CASE GetActiveIOZoneToken(t) /\ t \in WALThreads
  BY <1>0, <1>f, <1>8 DEF TypeOK, GetActiveIOZoneToken
<1>9. CASE FinishCheapestIOZone(t) /\ t \in WALThreads
  BY <1>0, <1>f, <1>9 DEF TypeOK, FinishCheapestIOZone
<1>10. CASE FinishVictim(t) /\ t \in WALThreads
  BY <1>0, <1>f, <1>10 DEF TypeOK, FinishVictim
<1>11. CASE AllocateEmptyZone(t) /\ t \in WALThreads
  <2>1. extents' = extents
    BY <1>11 DEF AllocateEmptyZone
  <2>2. CASE IsEmpty(hold[t])
    <3>1. pc[t] = "groups" /\ hold[t] # 0
      BY <1>0, <1>11 DEF AllocateEmptyZone, Looking, Control
    <3>2. hold[t] \in Heads /\ hold[t] > IOZones
      BY <1>0, <3>1 DEF TypeOK, Control, Heads, First, Zones
    <3>3. active_zone_'[t] = hold[t]
      BY <1>0, <1>11, <2>2 DEF TypeOK, AllocateEmptyZone
    <3>4. ASSUME NEW s \in WALThreads, s # t PROVE ~Uses(s, hold[t])
      <4>1. s \in Threads
        BY DEF Threads
      <4>2. hold[t] \in Owned(t)
        BY <3>1 DEF Owned
      <4>3. active_zone_[s] # hold[t]
        BY <3>1, <3>2, <3>4, <4>1, <4>2 DEF ZonesExclusive, Owned
      <4>4. extents[s][hold[t]] + Pending(s, hold[t]) <= wp_[hold[t]]
        BY <3>2, <4>1 DEF DataInv
      <4>5. extents[s][hold[t]] \in Nat /\ Pending(s, hold[t]) \in Nat
        BY <1>0, <1>z, <3>2, <4>1, DataTypes
      <4> QED
        BY <2>2, <4>3, <4>4, <4>5 DEF Uses, IsEmpty
    <3>5. \A z \in Zones : Uses(t, z)' => Uses(t, z) \/ z = hold[t]
      BY <2>1, <3>3 DEF Uses
    <3> QED
      BY <1>11, <2>1, <3>2, <3>4, <3>5, GroupGrows
  <2>3. CASE ~IsEmpty(hold[t])
    BY <1>f, <1>11, <2>1, <2>3 DEF AllocateEmptyZone
  <2> QED
    BY <2>2, <2>3
<1>12. CASE NoEmptyZone(t) /\ t \in WALThreads
  BY <1>0, <1>f, <1>12 DEF TypeOK, NoEmptyZone
<1>13. CASE ResetUnusedZones(t) /\ t \in WALThreads
  BY <1>0, <1>f, <1>13 DEF TypeOK, ResetUnusedZones
<1>14. CASE ResetDone(t) /\ t \in WALThreads
  BY <1>0, <1>f, <1>14 DEF TypeOK, ResetDone
<1>15. CASE AllocateWALZone(t) /\ t \in WALThreads
  <2>1. extents' = extents
    BY <1>15 DEF AllocateWALZone
  <2>2. CASE GroupGoesOn(t)
    <3> DEFINE y == LastZone(t)
    <3>1. y \in Zones /\ extents[t][y] > 0 /\ y > IOZones /\ y + 1 \in Zones
          /\ (y - IOZones) % GroupZones # 0
      BY <1>15, <2>2, GroupGoesOnZone
    <3>2. active_zone_'[t] = y + 1
      BY <1>0, <1>15, <2>2 DEF TypeOK, AllocateWALZone
    <3> HIDE DEF y
    <3>3. Head(y + 1) = Head(y) /\ y + 1 \notin Heads
      BY <3>1, HeadGoesOn
    <3>4. extents[t][Head(y)] > 0
      BY <1>15, <3>1, HeadIsFirst DEF GroupInv, Uses
    <3>5. \A z \in Zones : Uses(t, z)' => Uses(t, z) \/ z = y + 1
      BY <2>1, <3>2 DEF Uses
    <3>6. y + 1 > IOZones
      BY <3>1 DEF Zones
    <3> QED
      BY <1>15, <2>1, <3>3, <3>4, <3>5, <3>6, GroupGrows
  <2>3. CASE ~GroupGoesOn(t)
    BY <1>f, <1>15, <2>1, <2>3 DEF AllocateWALZone
  <2> QED
    BY <2>2, <2>3
<1>16. CASE WriteZone(t) /\ t \in WALThreads
  BY <1>0, <1>f, <1>16 DEF TypeOK, WriteZone
<1>17. CASE Account(t) /\ t \in WALThreads
  <2>1. active_zone_[t] \in Zones /\ active_zone_' = active_zone_ /\ at[t] \in Nat
    BY <1>0, <1>17 DEF TypeOK, Account, Control
  <2>2. \A z \in Zones : /\ extents[t][z] \in Nat
                         /\ extents'[t][z] = IF z = active_zone_[t] THEN extents[t][z] + at[t]
                                             ELSE extents[t][z]
    BY <1>0, <1>17, <2>1 DEF TypeOK, Account
  <2>3. \A z \in Zones : Uses(t, z)' => Uses(t, z) \/ z = 0
    BY <2>1, <2>2 DEF Uses
  <2>4. \A z \in Zones : extents[t][z] > 0 => extents'[t][z] > 0
    BY <2>1, <2>2
  <2> QED
    BY <1>z, <1>17, <2>3, <2>4, GroupGrows
<1>18. CASE CloseActiveZone(t) /\ t \in WALThreads
  BY <1>0, <1>f, <1>18 DEF TypeOK, CloseActiveZone
<1>19. CASE PutOpenIOZoneToken(t) /\ t \in WALThreads
  BY <1>0, <1>f, <1>19 DEF TypeOK, PutOpenIOZoneToken
<1>20. CASE DropDone(t) /\ t \in WALThreads
  <2>1. active_zone_'[t] = 0
    BY <1>0, <1>20 DEF TypeOK, DropDone, Control, Through
  <2>2. extents' = extents \/ \A z \in Zones : extents'[t][z] = 0
    BY <1>0, <1>20 DEF TypeOK, DropDone, ClearExtents
  <2> QED
    BY <1>f, <1>g, <1>20, <2>1, <2>2
<1>21. CASE CloseFile(t) /\ t \in WALThreads
  BY <1>0, <1>f, <1>21 DEF TypeOK, CloseFile
<1>22. CASE Retry(t) /\ t \in WALThreads
  BY <1>0, <1>f, <1>22 DEF TypeOK, Retry
<1>23. CASE GiveUp(t) /\ t \in WALThreads
  BY <1>0, <1>f, <1>23 DEF TypeOK, GiveUp
<1>24. CASE DeleteFile(t) /\ t \in WALThreads
  <2>1. active_zone_'[t] = 0
    BY <1>0, <1>24 DEF TypeOK, DeleteFile, Control, Through
  <2>2. extents' = extents \/ \A z \in Zones : extents'[t][z] = 0
    BY <1>0, <1>24 DEF TypeOK, DeleteFile, ClearExtents
  <2> QED
    BY <1>f, <1>g, <1>24, <2>1, <2>2
<1>25. ASSUME NEW n \in WriteSizes, NEW l \in Lifetimes, Create(t, n, l), t \in WALThreads
       PROVE  GroupInv'
  BY <1>0, <1>f, <1>25 DEF TypeOK, Create
<1> QED
  BY <1>i, <1>w, <1>1, <1>2, <1>3, <1>4, <1>5, <1>6, <1>7, <1>8, <1>9, <1>10, <1>11, <1>12, <1>13, <1>14, <1>15, <1>16, <1>17, <1>18, <1>19, <1>20, <1>21, <1>22, <1>23, <1>24, <1>25 DEF Acts, Run

\* For every number of zones to a group: no two logs are given zones of the same group,
\* although only its first zone is ever acquired.  A group is found by its empty first
\* zone, and that stays written as long as a log has data in the group.
THEOREM GroupsAreExclusive == Spec => []GroupsExclusive
<1>1. Init => GroupInv
  <2> SUFFICES ASSUME Init PROVE GroupInv
    OBVIOUS
  <2>1. \A t \in WALThreads, z \in Zones : ~Uses(t, z)
    BY DEF Init, Uses, Threads, Zones
  <2> QED
    BY <2>1 DEF GroupInv, Heads
<1>2. TypeInv /\ ZonesExclusive /\ DataInv /\ GroupInv /\ [Next]_vars => GroupInv'
  <2> SUFFICES ASSUME TypeInv, ZonesExclusive, DataInv, GroupInv, [Next]_vars PROVE GroupInv'
    OBVIOUS
  <2>1. CASE UNCHANGED vars
    BY <2>1 DEF GroupInv, Uses, Heads, Head, Group, vars, files
  <2>2. ASSUME NEW t \in Threads, Acts(t) PROVE GroupInv'
    BY <2>2, GroupStep
  <2> QED
    BY <2>1, <2>2 DEF Next, Acts
<1> QED
  BY <1>1, <1>2, GroupsApart, TypeInit, TypeInductive, ExclusiveInit, ExclusiveInductive,
     DataInductive, PTL DEF Spec

-----------------------------------------------------------------------------
(***************************************************************************)
(* Open tokens                                                             *)
(***************************************************************************)

\* The places between taking an open token and giving one back
Holding(t) ==
  pc[t] \in {"match", "token", "cheapest", "empty", "groups", "write", "account", "full",
            "close", "put_full", "put", "giveup"}
OpenHolders == {t \in Threads : Holding(t)}

\* Every zone in use was acquired.
Single == WALThreads = {} \/ GroupZones = 1

\* A thread at such a place has a token, but for a log that goes on in its group.
OpenInv ==
  /\ open_io_zones_ <= Cardinality(OpenHolders)
  /\ open_io_zones_ <= MaxOpen
  /\ Single => open_io_zones_ = Cardinality(OpenHolders)

\* Threads are finitely many, and so are those with a token.
LEMMA HoldersFinite == IsFiniteSet(Threads) /\ IsFiniteSet(OpenHolders)
<1>1. IsFiniteSet(Threads)
  BY FS_Union DEF Threads
<1> QED
  BY <1>1, FS_Subset DEF OpenHolders

\* Without groups no log goes on in one.
LEMMA SingleGroups ==
  ASSUME TypeInv, Single, NEW t \in WALThreads
  PROVE  ~GroupGoesOn(t)
<1> SUFFICES ASSUME GroupGoesOn(t) PROVE FALSE
  OBVIOUS
<1>1. LastZone(t) \in Zones /\ (LastZone(t) - IOZones) % GroupZones # 0
  BY GroupGoesOnZone
<1>2. GroupZones = 1
  BY DEF Single
<1>3. LastZone(t) - IOZones \in Int
  BY <1>1 DEF Zones
<1> QED
  BY <1>1, <1>2, <1>3

\* A step takes an open token, gives one back, goes on in a group, or does none of this.
OpenMove(t) ==
  \/ (Holding(t)' <=> Holding(t)) /\ open_io_zones_' = open_io_zones_
  \/ /\ ~Holding(t) /\ Holding(t)'
     /\ open_io_zones_ < MaxOpen /\ open_io_zones_' = open_io_zones_ + 1
  \/ ~Single /\ ~Holding(t) /\ Holding(t)' /\ open_io_zones_' = open_io_zones_
  \/ Holding(t) /\ ~Holding(t)' /\ open_io_zones_' = open_io_zones_ - 1

\* Every step is of one of these kinds.
LEMMA OpenMoves ==
  ASSUME TypeInv, NEW t \in Threads, Acts(t)
  PROVE  OpenMove(t)
<1> USE DEF zones, tokens, scan, files, Loops, IOLoops, WALLoops, Holding
<1>0. TypeOK /\ Control(t)
  BY DEF TypeInv
<1>1. CASE WaitForOpenIOZoneToken(t)
  <2>1. CASE open_io_zones_ < OpenLimit(t)
    <3>1. open_io_zones_ < MaxOpen /\ open_io_zones_' = open_io_zones_ + 1
      BY <1>0, <1>1, <2>1 DEF TypeOK, WaitForOpenIOZoneToken, OpenLimit
    <3>2. pc[t] = "waitopen" /\ pc'[t] \in {"token", "match"}
      BY <1>0, <1>1, <2>1 DEF TypeOK, WaitForOpenIOZoneToken, Enter
    <3> QED
      BY <3>1, <3>2 DEF OpenMove
  <2>2. CASE ~(open_io_zones_ < OpenLimit(t))
    BY <1>1, <2>2 DEF OpenMove, WaitForOpenIOZoneToken
  <2> QED
    BY <2>1, <2>2
<1>2. CASE PutActiveIOZoneToken(t)
  BY <1>0, <1>2 DEF TypeOK, Control, OpenMove, PutActiveIOZoneToken
<1>3. CASE Acquire(t)
  BY <1>0, <1>3 DEF TypeOK, Control, OpenMove, Acquire
<1>4. CASE ApplyFinishThreshold(t)
  BY <1>0, <1>4 DEF TypeOK, Control, OpenMove, ApplyFinishThreshold, Advance, Looking
<1>5. CASE ThresholdDone(t)
  BY <1>0, <1>5 DEF TypeOK, Control, OpenMove, ThresholdDone, Leave, Through
<1>6. CASE GetBestOpenZoneMatch(t)
  BY <1>0, <1>6 DEF TypeOK, Control, OpenMove, GetBestOpenZoneMatch, Advance, Looking
<1>7. CASE UseMatch(t)
  <2>1. CASE Matched(t)
    BY <1>0, <1>7, <2>1 DEF TypeOK, OpenMove, UseMatch, Through, Matched, Leave
  <2>2. CASE Unmatched(t)
    BY <1>0, <1>7, <2>2 DEF TypeOK, OpenMove, UseMatch, Through, Unmatched, Enter, Leave
  <2> QED
    BY <1>7, <2>1, <2>2, UseMatchCases
<1>8. CASE GetActiveIOZoneToken(t)
  BY <1>0, <1>8 DEF TypeOK, Control, OpenMove, GetActiveIOZoneToken, Enter
<1>9. CASE FinishCheapestIOZone(t)
  BY <1>0, <1>9 DEF TypeOK, Control, OpenMove, FinishCheapestIOZone, Advance, Looking
<1>10. CASE FinishVictim(t)
  BY <1>0, <1>10 DEF TypeOK, Control, OpenMove, FinishVictim, Leave, Through
<1>11. CASE AllocateEmptyZone(t)
  BY <1>0, <1>11 DEF TypeOK, Control, OpenMove, AllocateEmptyZone, Advance, Leave, Looking
<1>12. CASE NoEmptyZone(t)
  BY <1>0, <1>12 DEF TypeOK, Control, OpenMove, NoEmptyZone, Leave, Through
<1>13. CASE ResetUnusedZones(t)
  BY <1>0, <1>13 DEF TypeOK, Control, OpenMove, ResetUnusedZones, Advance, Looking
<1>14. CASE ResetDone(t)
  BY <1>0, <1>14 DEF TypeOK, Control, OpenMove, ResetDone, Leave, Through
<1>15. CASE AllocateWALZone(t)
  <2>1. pc[t] = "release" /\ t \in WALThreads
    BY <1>0, <1>15 DEF AllocateWALZone, Through, Control, Threads
  <2>2. open_io_zones_' = open_io_zones_ /\ pc'[t] \in {"write", "waitopen"}
    BY <1>0, <1>15 DEF TypeOK, AllocateWALZone, Leave
  <2>3. Single => pc'[t] = "waitopen"
    BY <1>0, <1>15, <2>1, SingleGroups DEF TypeOK, AllocateWALZone, Leave
  <2> QED
    BY <2>1, <2>2, <2>3 DEF OpenMove
<1>16. CASE WriteZone(t)
  BY <1>0, <1>16 DEF TypeOK, Control, OpenMove, WriteZone
<1>17. CASE Account(t)
  BY <1>0, <1>17 DEF TypeOK, Control, OpenMove, Account
<1>18. CASE CloseActiveZone(t)
  BY <1>0, <1>18 DEF TypeOK, Control, OpenMove, CloseActiveZone
<1>19. CASE PutOpenIOZoneToken(t)
  BY <1>0, <1>19 DEF TypeOK, Control, OpenMove, PutOpenIOZoneToken, Allocate, Enter
<1>20. CASE DropDone(t)
  BY <1>0, <1>20 DEF TypeOK, Control, OpenMove, DropDone, Enter, ClearExtents, Through
<1>21. CASE CloseFile(t)
  BY <1>0, <1>21 DEF TypeOK, Control, OpenMove, CloseFile
<1>22. CASE Retry(t)
  BY <1>0, <1>22 DEF TypeOK, Control, OpenMove, Retry, Allocate, Enter
<1>23. CASE GiveUp(t)
  BY <1>0, <1>23 DEF TypeOK, Control, OpenMove, GiveUp
<1>24. CASE DeleteFile(t)
  BY <1>0, <1>24 DEF TypeOK, Control, OpenMove, DeleteFile, Enter, ClearExtents
<1>25. ASSUME NEW n \in WriteSizes, NEW l \in Lifetimes, Create(t, n, l)
       PROVE  OpenMove(t)
  BY <1>0, <1>25 DEF TypeOK, OpenMove, Create, Allocate, Enter
<1> QED
  BY <1>1, <1>2, <1>3, <1>4, <1>5, <1>6, <1>7, <1>8, <1>9, <1>10, <1>11, <1>12, <1>13, <1>14, <1>15, <1>16, <1>17, <1>18, <1>19, <1>20, <1>21, <1>22, <1>23, <1>24, <1>25 DEF Acts, Run

\* A step of such a kind keeps the count of open tokens.
LEMMA OpenStep ==
  ASSUME TypeInv, OpenInv, NEW t \in Threads, Acts(t), OpenMove(t)
  PROVE  OpenInv'
<1>0. \A s \in Threads : s # t => (Holding(s)' <=> Holding(s))
  BY Elsewhere DEF Local, Holding
<1>1. Single' = Single /\ open_io_zones_ \in Int
  BY DEF Single, TypeInv, TypeOK
<1>2. IsFiniteSet(OpenHolders) /\ Cardinality(OpenHolders) \in Nat
  BY HoldersFinite, FS_CardinalityType
<1>3. CASE (Holding(t)' <=> Holding(t)) /\ open_io_zones_' = open_io_zones_
  <2>1. OpenHolders' = OpenHolders
    BY <1>0, <1>3 DEF OpenHolders
  <2> QED
    BY <1>1, <1>3, <2>1 DEF OpenInv
<1>4. ASSUME ~Holding(t), Holding(t)'
      PROVE  Cardinality(OpenHolders)' = Cardinality(OpenHolders) + 1
  <2>1. OpenHolders' = OpenHolders \cup {t} /\ t \notin OpenHolders
    BY <1>0, <1>4 DEF OpenHolders
  <2> QED
    BY <1>2, <2>1, FS_AddElement
<1>5. ASSUME Holding(t), ~Holding(t)'
      PROVE  Cardinality(OpenHolders)' = Cardinality(OpenHolders) - 1
  <2>1. OpenHolders' = OpenHolders \ {t} /\ t \in OpenHolders
    BY <1>0, <1>5 DEF OpenHolders
  <2> QED
    BY <1>2, <2>1, FS_RemoveElement
<1>6. CASE ~Holding(t) /\ Holding(t)'
  <2>1. Cardinality(OpenHolders)' = Cardinality(OpenHolders) + 1
    BY <1>4, <1>6
  <2>2. \/ open_io_zones_ < MaxOpen /\ open_io_zones_' = open_io_zones_ + 1
        \/ ~Single /\ open_io_zones_' = open_io_zones_
    BY <1>6 DEF OpenMove
  <2> QED
    BY <1>1, <1>2, <2>1, <2>2 DEF OpenInv
<1>7. CASE Holding(t) /\ ~Holding(t)'
  <2>1. Cardinality(OpenHolders)' = Cardinality(OpenHolders) - 1
    BY <1>5, <1>7
  <2>2. open_io_zones_' = open_io_zones_ - 1
    BY <1>7 DEF OpenMove
  <2> QED
    BY <1>1, <1>2, <2>1, <2>2 DEF OpenInv
<1> QED
  BY <1>3, <1>6, <1>7 DEF OpenMove

\* The count of open tokens is an invariant.
LEMMA OpenInductive ==
  /\ Init => OpenInv
  /\ TypeInv /\ OpenInv /\ [Next]_vars => OpenInv'
<1>1. ASSUME Init PROVE OpenInv
  <2>1. OpenHolders = {}
    BY <1>1 DEF Init, OpenHolders, Holding
  <2> QED
    BY <1>1, <2>1, FS_EmptySet DEF Init, OpenInv
<1>2. ASSUME TypeInv, OpenInv, [Next]_vars PROVE OpenInv'
  <2>1. CASE UNCHANGED vars
    BY <1>2, <2>1 DEF OpenInv, OpenHolders, Holding, Single, vars, tokens
  <2>2. ASSUME NEW t \in Threads, Acts(t) PROVE OpenInv'
    BY <1>2, <2>2, OpenMoves, OpenStep
  <2> QED
    BY <1>2, <2>1, <2>2 DEF Next, Acts
<1> QED
  BY <1>1, <1>2

\* For all constants: when no call is running no open token is out, on whichever of its
\* error paths a call has ended; and with groups of one zone none too many has come back.
THEOREM OpenTokensComeBack == Spec => []OpenTokensReturned
<1>1. OpenInv => OpenTokensReturned
  <2> SUFFICES ASSUME OpenInv, Quiet
               PROVE  open_io_zones_ <= 0 /\ (Single => open_io_zones_ = 0)
    BY DEF OpenTokensReturned, Single
  <2>1. OpenHolders = {}
    BY DEF OpenHolders, Holding, Quiet
  <2> QED
    BY <2>1, FS_EmptySet DEF OpenInv
<1> QED
  BY <1>1, TypeInit, TypeInductive, OpenInductive, PTL DEF Spec
=============================================================================
