------------------------------ MODULE ZoneAlloc ------------------------------
(***************************************************************************)
(* Zone allocation (ZonedBlockDevice in zenfs-appends/fs/zbd_zenfs.cc and  *)
(* the parts of ZoneFile that take and give back zones): threads that      *)
(* write, close and delete buffered files compete for zones, for the open  *)
(* and active zone tokens that keep the device within its limits, and for  *)
(* each zone's busy flag.                                                  *)
(*                                                                         *)
(* Each thread works on one file at a time.  Some files are write-ahead    *)
(* logs, which have zones of their own in groups of GroupZones; the others *)
(* share the IO zones.  A loop over zones takes one step to acquire a zone *)
(* and one to look at it, so that a zone another thread is looking at is   *)
(* passed over as the code passes it over.                                 *)
(***************************************************************************)
EXTENDS Integers, FiniteSets

CONSTANTS
  IOThreads,          \* threads writing ordinary files
  WALThreads,         \* threads writing write-ahead logs
  IOZones,            \* number of IO zones: 1 .. IOZones
  WALZones,           \* number of WAL zones, numbered behind the IO zones
  GroupZones,         \* ZENFS_ZONES_FOREACH_WAL
  Cap,                \* max_capacity_ of a zone, in blocks
  MaxOpen,            \* max_nr_open_io_zones_
  MaxActive,          \* max_nr_active_io_zones_
  FinishBelow,        \* blocks left below which finish_threshold_ finishes a zone
  WriteSizes,         \* blocks a file may be given
  Lifetimes,          \* write life time hints, above WLTH_NONE
  MaxDrift            \* bound: tokens given back that were never taken

Threads == IOThreads \cup WALThreads
Zones == 1 .. (IOZones + WALZones)

ASSUME ThreadAssumption ==
  /\ IOThreads \cap WALThreads = {}
  /\ IsFiniteSet(IOThreads) /\ IsFiniteSet(WALThreads)
ASSUME ZoneAssumption ==
  /\ IOZones \in Nat /\ WALZones \in Nat /\ GroupZones \in Nat \ {0}
  /\ WALZones % GroupZones = 0
  /\ Cap \in Nat \ {0} /\ FinishBelow \in 0..Cap
ASSUME TokenAssumption == MaxOpen \in Nat \ {0} /\ MaxActive \in Nat \ {0}
ASSUME FileAssumption ==
  /\ WriteSizes \subseteq Nat \ {0}
  /\ Lifetimes \subseteq 2..5
  /\ MaxDrift \in Nat

VARIABLES
  \* Zone
  busy_, wp_, lifetime_,
  \* ZonedBlockDevice
  open_io_zones_, active_io_zones_,
  waiting,          \* threads asleep on zone_resources_
  \* one thread's call
  pc,
  at,               \* the zone the loop has come to
  hold,             \* the zone it has acquired to look at, or 0
  cand,             \* allocated_zone or finish_victim, or 0
  owe,              \* the next thing the thread does is PutActiveIOZoneToken
  \* its ZoneFile
  active_zone_, lifetime, extents,
  buffer_pos,       \* what its buffer holds, in blocks
  left              \* what the running BufferedAppend or SparseAppend has left

zones == <<busy_, wp_, lifetime_>>
tokens == <<open_io_zones_, active_io_zones_, waiting>>
scan == <<at, hold, cand>>
files == <<active_zone_, lifetime, extents, buffer_pos, left>>
vars == <<zones, tokens, pc, scan, owe, files>>

IOLoops == {"threshold", "match", "cheapest", "empty", "reset"}
WALLoops == {"release", "groups", "drop"}
Loops == IOLoops \cup WALLoops
PCs == Loops \cup {"idle", "waitopen", "token", "write", "account", "full", "close",
                   "put_full", "put", "giveup", "failed", "closed"}

First(loop) == IF loop \in IOLoops THEN 1 ELSE IOZones + 1
Last(loop) == IF loop \in IOLoops THEN IOZones ELSE IOZones + WALZones

MutStepEveryZone(loop) == 1
Step(loop) == IF loop = "groups" THEN GroupZones ELSE 1

-----------------------------------------------------------------------------
(***************************************************************************)
(* Zones                                                                   *)
(***************************************************************************)

IsUsed(z) == \E t \in Threads : extents[t][z] > 0
IsFull(z) == wp_[z] = Cap
IsEmpty(z) == wp_[z] = 0

MutUnusedIgnoresUse(z) == ~IsEmpty(z)
Unused(z) == ~IsEmpty(z) /\ ~IsUsed(z)

LIFETIME_DIFF_NOT_GOOD == 100
LIFETIME_DIFF_COULD_BE_WORSE == 50

GetLifeTimeDiff(zone_lifetime, file_lifetime) ==
  CASE zone_lifetime > file_lifetime -> zone_lifetime - file_lifetime
    [] zone_lifetime = file_lifetime -> LIFETIME_DIFF_COULD_BE_WORSE
    [] OTHER -> LIFETIME_DIFF_NOT_GOOD

-----------------------------------------------------------------------------
(***************************************************************************)
(* Tokens                                                                  *)
(***************************************************************************)

\* zone_resources_.notify_one() wakes any one sleeper.
NotifyOne ==
  IF waiting = {} THEN UNCHANGED waiting
  ELSE \E w \in waiting : waiting' = waiting \ {w}

\* GetActiveIOZoneTokenIfAvailable takes a token when there is one.
ActiveTokenAvailable == active_io_zones_ < MaxActive

OpenLimit(t) == IF t \in WALThreads THEN MaxOpen ELSE MaxOpen - 1

\* Start a loop over zones, or leave one for another place.
Enter(t, loop) ==
  /\ pc' = [pc EXCEPT ![t] = loop]
  /\ at' = [at EXCEPT ![t] = First(loop)]

Leave(t, place) ==
  /\ pc' = [pc EXCEPT ![t] = place]
  /\ at' = [at EXCEPT ![t] = 0]

\* A woken thread looks again; one that finds no token goes (back) to sleep.
WaitForOpenIOZoneToken(t) ==
  /\ pc[t] = "waitopen" /\ t \notin waiting /\ ~owe[t]
  /\ IF open_io_zones_ < OpenLimit(t)
     THEN /\ open_io_zones_' = open_io_zones_ + 1
          /\ IF t \in WALThreads THEN pc' = [pc EXCEPT ![t] = "token"] /\ UNCHANGED at
             ELSE Enter(t, "match")
          /\ UNCHANGED waiting
     ELSE /\ waiting' = waiting \cup {t}
          /\ UNCHANGED <<open_io_zones_, pc, at>>
  /\ UNCHANGED <<zones, active_io_zones_, hold, cand, owe, files>>

PutActiveIOZoneToken(t) ==
  /\ owe[t]
  /\ owe' = [owe EXCEPT ![t] = FALSE]
  /\ active_io_zones_' = active_io_zones_ - 1
  /\ NotifyOne
  /\ UNCHANGED <<zones, open_io_zones_, pc, scan, files>>

-----------------------------------------------------------------------------
(***************************************************************************)
(* Loops over zones                                                        *)
(***************************************************************************)

MutAcquireBusy(t) ==
  /\ pc[t] \in Loops /\ ~owe[t] /\ hold[t] = 0 /\ at[t] <= Last(pc[t])
  /\ busy_' = [busy_ EXCEPT ![at[t]] = TRUE]
  /\ hold' = [hold EXCEPT ![t] = at[t]]
  /\ UNCHANGED <<at, wp_, lifetime_, tokens, pc, cand, owe, files>>

\* Acquire fails on a busy zone, and the loop passes it over.
Acquire(t) ==
  /\ pc[t] \in Loops /\ ~owe[t] /\ hold[t] = 0 /\ at[t] <= Last(pc[t])
  /\ IF busy_[at[t]]
     THEN /\ at' = [at EXCEPT ![t] = @ + Step(pc[t])]
          /\ UNCHANGED <<busy_, hold>>
     ELSE /\ busy_' = [busy_ EXCEPT ![at[t]] = TRUE]
          /\ hold' = [hold EXCEPT ![t] = at[t]]
          /\ UNCHANGED at
  /\ UNCHANGED <<wp_, lifetime_, tokens, pc, cand, owe, files>>

Looking(t, loop) == pc[t] = loop /\ ~owe[t] /\ hold[t] # 0
Through(t, loop) == pc[t] = loop /\ ~owe[t] /\ hold[t] = 0 /\ at[t] > Last(loop)

Advance(t) ==
  /\ hold' = [hold EXCEPT ![t] = 0]
  /\ at' = [at EXCEPT ![t] = @ + Step(pc[t])]

\* ApplyFinishThreshold finishes a zone with little left.
ApplyFinishThreshold(t) ==
  /\ Looking(t, "threshold")
  /\ LET z == hold[t]
         finish == ~IsEmpty(z) /\ ~IsFull(z) /\ Cap - wp_[z] < FinishBelow
     IN  /\ wp_' = [wp_ EXCEPT ![z] = IF finish THEN Cap ELSE @]
         /\ busy_' = [busy_ EXCEPT ![z] = FALSE]
         /\ owe' = [owe EXCEPT ![t] = finish]
  /\ Advance(t)
  /\ UNCHANGED <<lifetime_, tokens, pc, cand, files>>

ThresholdDone(t) ==
  /\ Through(t, "threshold")
  /\ Leave(t, "waitopen")
  /\ UNCHANGED <<zones, tokens, hold, cand, owe, files>>

BestDiff(t) ==
  IF cand[t] = 0 THEN LIFETIME_DIFF_NOT_GOOD
  ELSE GetLifeTimeDiff(lifetime_[cand[t]], lifetime[t])

MutGetBestOpenZoneMatchReleases(t) ==
  /\ Looking(t, "match")
  /\ LET z == hold[t]
         better == /\ IsUsed(z) /\ ~IsFull(z)
                   /\ GetLifeTimeDiff(lifetime_[z], lifetime[t]) <= BestDiff(t)
     IN  /\ busy_' = [busy_ EXCEPT ![z] = FALSE]
         /\ cand' = [cand EXCEPT ![t] = IF better THEN z ELSE @]
  /\ Advance(t)
  /\ UNCHANGED <<wp_, lifetime_, tokens, pc, owe, files>>

\* GetBestOpenZoneMatch keeps the best zone acquired so far and releases the
\* others.
GetBestOpenZoneMatch(t) ==
  /\ Looking(t, "match")
  /\ LET z == hold[t]
         better == /\ IsUsed(z) /\ ~IsFull(z)
                   /\ GetLifeTimeDiff(lifetime_[z], lifetime[t]) <= BestDiff(t)
     IN  /\ busy_' = [y \in Zones |->
                        IF y = (IF better THEN cand[t] ELSE z) THEN FALSE
                        ELSE busy_[y]]
         /\ cand' = [cand EXCEPT ![t] = IF better THEN z ELSE @]
  /\ Advance(t)
  /\ UNCHANGED <<wp_, lifetime_, tokens, pc, owe, files>>

\* AllocateIOZone behind GetBestOpenZoneMatch: use the match, or look for an
\* active token to open an empty zone with.
UseMatch(t) ==
  /\ Through(t, "match")
  /\ LET got_token == ActiveTokenAvailable
         good == BestDiff(t) < LIFETIME_DIFF_COULD_BE_WORSE
         relaxed == ~got_token /\ BestDiff(t) = LIFETIME_DIFF_COULD_BE_WORSE
     IN  \/ /\ cand[t] # 0 /\ (good \/ relaxed)
            /\ active_zone_' = [active_zone_ EXCEPT ![t] = cand[t]]
            /\ Leave(t, "write")
            /\ UNCHANGED <<busy_, active_io_zones_>>
         \/ /\ ~(cand[t] # 0 /\ (good \/ relaxed))
            /\ busy_' = [y \in Zones |-> IF y = cand[t] THEN FALSE ELSE busy_[y]]
            /\ IF got_token
               THEN Enter(t, "empty") /\ active_io_zones_' = active_io_zones_ + 1
               ELSE Leave(t, "token") /\ UNCHANGED active_io_zones_
            /\ UNCHANGED active_zone_
  /\ cand' = [cand EXCEPT ![t] = 0]
  /\ UNCHANGED <<wp_, lifetime_, open_io_zones_, waiting, hold, owe, lifetime, extents,
                 buffer_pos, left>>

\* GetActiveIOZoneTokenIfAvailable in the loop of AllocateIOZone, which finishes a
\* zone and tries again, and in that of AllocateWALZone, which only tries again.
GetActiveIOZoneToken(t) ==
  /\ pc[t] = "token" /\ ~owe[t]
  /\ \/ /\ ActiveTokenAvailable
        /\ active_io_zones_' = active_io_zones_ + 1
        /\ Enter(t, IF t \in WALThreads THEN "groups" ELSE "empty")
     \/ /\ ~ActiveTokenAvailable /\ t \in IOThreads
        /\ Enter(t, "cheapest")
        /\ UNCHANGED active_io_zones_
  /\ UNCHANGED <<zones, open_io_zones_, waiting, hold, cand, owe, files>>

FinishCheapestIOZone(t) ==
  /\ Looking(t, "cheapest")
  /\ LET z == hold[t]
         better == ~IsEmpty(z) /\ ~IsFull(z) /\ (cand[t] = 0 \/ wp_[cand[t]] < wp_[z])
     IN  /\ busy_' = [y \in Zones |->
                        IF y = (IF better THEN cand[t] ELSE z) THEN FALSE
                        ELSE busy_[y]]
         /\ cand' = [cand EXCEPT ![t] = IF better THEN z ELSE @]
  /\ Advance(t)
  /\ UNCHANGED <<wp_, lifetime_, tokens, pc, owe, files>>

\* No victim is a success too, and the caller tries for a token again.
FinishVictim(t) ==
  /\ Through(t, "cheapest")
  /\ wp_' = [y \in Zones |-> IF y = cand[t] THEN Cap ELSE wp_[y]]
  /\ busy_' = [y \in Zones |-> IF y = cand[t] THEN FALSE ELSE busy_[y]]
  /\ owe' = [owe EXCEPT ![t] = cand[t] # 0]
  /\ cand' = [cand EXCEPT ![t] = 0]
  /\ Leave(t, "token")
  /\ UNCHANGED <<lifetime_, tokens, hold, files>>

\* AllocateEmptyZone, and the loop of AllocateWALZone over the groups' first zones
AllocateEmptyZone(t) ==
  /\ Looking(t, "empty") \/ Looking(t, "groups")
  /\ IF IsEmpty(hold[t])
     THEN /\ active_zone_' = [active_zone_ EXCEPT ![t] = hold[t]]
          /\ lifetime_' = IF t \in IOThreads
                          THEN [lifetime_ EXCEPT ![hold[t]] = lifetime[t]]
                          ELSE lifetime_
          /\ hold' = [hold EXCEPT ![t] = 0]
          /\ Leave(t, "write")
          /\ UNCHANGED busy_
     ELSE /\ busy_' = [busy_ EXCEPT ![hold[t]] = FALSE]
          /\ Advance(t)
          /\ UNCHANGED <<lifetime_, active_zone_, pc>>
  /\ UNCHANGED <<wp_, tokens, cand, owe, lifetime, extents,
                 buffer_pos, left>>

MutNoEmptyZoneKeepsOpenToken(t) ==
  /\ Through(t, "empty") \/ Through(t, "groups")
  /\ owe' = [owe EXCEPT ![t] = TRUE]
  /\ Leave(t, "failed")
  /\ UNCHANGED <<zones, tokens, hold, cand, files>>

\* No empty zone: both tokens go back, the active one first.
NoEmptyZone(t) ==
  /\ Through(t, "empty") \/ Through(t, "groups")
  /\ owe' = [owe EXCEPT ![t] = TRUE]
  /\ Leave(t, "giveup")
  /\ UNCHANGED <<zones, tokens, hold, cand, files>>

\* ResetUnusedIOZones after a file was deleted; ReleaseUnusedWALZones, before a WAL
\* zone is allocated and when a log is deleted, does the same to the WAL zones.
ResetUnusedZones(t) ==
  /\ \E loop \in {"reset", "release", "drop"} : Looking(t, loop)
  /\ LET z == hold[t]
         reset == Unused(z)
     IN  /\ wp_' = [wp_ EXCEPT ![z] = IF reset THEN 0 ELSE @]
         /\ lifetime_' = [lifetime_ EXCEPT ![z] =
                            IF reset /\ pc[t] = "reset" THEN 0 ELSE @]
         /\ busy_' = [busy_ EXCEPT ![z] = FALSE]
         /\ owe' = [owe EXCEPT ![t] = reset /\ ~IsFull(z)]
  /\ Advance(t)
  /\ UNCHANGED <<tokens, pc, cand, files>>

ResetDone(t) ==
  /\ Through(t, "reset")
  /\ Leave(t, "idle")
  /\ UNCHANGED <<zones, tokens, hold, cand, owe, files>>

-----------------------------------------------------------------------------
(***************************************************************************)
(* AllocateWALZone behind ReleaseUnusedWALZones                            *)
(***************************************************************************)

\* The last zone of the log, and whether the next one is of the same group
HasZone(t) == \E z \in Zones : extents[t][z] > 0
LastZone(t) == CHOOSE z \in Zones : /\ extents[t][z] > 0
                                    /\ \A y \in Zones : extents[t][y] > 0 => y <= z
GroupGoesOn(t) == HasZone(t) /\ (LastZone(t) - IOZones) % GroupZones # 0

\* The next zone of the group is used as it is: it is not acquired, and no token
\* is taken for it.
AllocateWALZone(t) ==
  /\ Through(t, "release")
  /\ IF GroupGoesOn(t)
     THEN /\ active_zone_' = [active_zone_ EXCEPT ![t] = LastZone(t) + 1]
          /\ Leave(t, "write")
     ELSE Leave(t, "waitopen") /\ UNCHANGED active_zone_
  /\ UNCHANGED <<zones, tokens, hold, cand, owe, lifetime, extents,
                 buffer_pos, left>>

-----------------------------------------------------------------------------
(***************************************************************************)
(* Files                                                                   *)
(***************************************************************************)

\* AllocateNewZone starts with this.
Allocate(t) ==
  CASE t \in WALThreads -> Enter(t, "release")
    [] t \in IOThreads /\ FinishBelow > 0 -> Enter(t, "threshold")
    [] OTHER -> pc' = [pc EXCEPT ![t] = "waitopen"] /\ UNCHANGED at

\* The first write to a new file
Create(t, n, l) ==
  /\ pc[t] = "idle"
  /\ open_io_zones_ >= -MaxDrift /\ active_io_zones_ >= -MaxDrift
  /\ buffer_pos' = [buffer_pos EXCEPT ![t] = n]
  /\ left' = [left EXCEPT ![t] = n]
  /\ lifetime' = [lifetime EXCEPT ![t] = l]
  /\ Allocate(t)
  /\ UNCHANGED <<zones, tokens, hold, cand, owe, active_zone_, extents>>

MutWrSizeIgnoresCapacity(t) == left[t]

WrSize(t) ==
  LET capacity_ == Cap - wp_[active_zone_[t]]
  IN  IF left[t] <= capacity_ THEN left[t] ELSE capacity_

\* BufferedAppend and SparseAppend: the zone's write pointer moves ...
WriteZone(t) ==
  /\ pc[t] = "write" /\ left[t] > 0
  /\ wp_' = [wp_ EXCEPT ![active_zone_[t]] = @ + WrSize(t)]
  /\ left' = [left EXCEPT ![t] = @ - WrSize(t)]
  /\ at' = [at EXCEPT ![t] = WrSize(t)]
  /\ pc' = [pc EXCEPT ![t] = "account"]
  /\ UNCHANGED <<busy_, lifetime_, tokens, hold, cand, owe, active_zone_, lifetime, extents,
                 buffer_pos>>

\* ... and then the extent is added and its length counted in used_capacity_.  A
\* full zone is closed at once and the next one allocated, with or without more
\* to write.
Account(t) ==
  /\ pc[t] = "account"
  /\ extents' = [extents EXCEPT ![t][active_zone_[t]] = @ + at[t]]
  /\ pc' = [pc EXCEPT ![t] = IF IsFull(active_zone_[t]) THEN "full" ELSE "write"]
  /\ at' = [at EXCEPT ![t] = 0]
  /\ UNCHANGED <<zones, tokens, hold, cand, owe, active_zone_, lifetime,
                 buffer_pos, left>>

\* FlushBuffer has returned; CloseWR
CloseFile(t) ==
  /\ pc[t] = "write" /\ left[t] = 0
  /\ pc' = [pc EXCEPT ![t] = "close"]
  /\ buffer_pos' = [buffer_pos EXCEPT ![t] = 0]
  /\ UNCHANGED <<zones, tokens, scan, owe, active_zone_, lifetime, extents, left>>

\* CloseActiveZone releases the zone first, then gives the tokens back.
CloseActiveZone(t) ==
  /\ pc[t] \in {"full", "close"}
  /\ busy_' = [busy_ EXCEPT ![active_zone_[t]] = FALSE]
  /\ active_zone_' = [active_zone_ EXCEPT ![t] = 0]
  /\ pc' = [pc EXCEPT ![t] = IF pc[t] = "full" THEN "put_full" ELSE "put"]
  /\ UNCHANGED <<wp_, lifetime_, tokens, scan, owe, lifetime, extents,
                 buffer_pos, left>>

\* PutOpenIOZoneToken; the active token of a full zone follows.
PutOpenIOZoneToken(t) ==
  /\ pc[t] \in {"put_full", "put", "giveup"} /\ ~owe[t]
  /\ open_io_zones_' = open_io_zones_ - 1
  /\ NotifyOne
  /\ CASE pc[t] = "put_full" -> Allocate(t) /\ owe' = [owe EXCEPT ![t] = TRUE]
       [] pc[t] = "put" -> pc' = [pc EXCEPT ![t] = "closed"] /\ UNCHANGED <<owe, at>>
       [] OTHER -> pc' = [pc EXCEPT ![t] = "failed"] /\ UNCHANGED <<owe, at>>
  /\ UNCHANGED <<zones, active_io_zones_, hold, cand, files>>

\* The caller of a failed write tries again, with all that is in the buffer (what
\* had been written of it included), or gives the file up.
Retry(t) ==
  /\ pc[t] = "failed"
  /\ left' = [left EXCEPT ![t] = buffer_pos[t]]
  /\ Allocate(t)
  /\ UNCHANGED <<zones, tokens, hold, cand, owe, active_zone_, lifetime, extents,
                 buffer_pos>>

GiveUp(t) ==
  /\ pc[t] = "failed"
  /\ pc' = [pc EXCEPT ![t] = "closed"]
  /\ left' = [left EXCEPT ![t] = 0]
  /\ buffer_pos' = [buffer_pos EXCEPT ![t] = 0]
  /\ UNCHANGED <<zones, tokens, scan, owe, active_zone_, lifetime, extents>>

\* The ZoneFile is destroyed.
ClearExtents(t) ==
  /\ extents' = [extents EXCEPT ![t] = [z \in Zones |-> 0]]
  /\ lifetime' = [lifetime EXCEPT ![t] = 0]

\* DeleteFile: ResetWALZones releases unused zones before the destructor drops the
\* extents of the log, if it ever had a zone; ResetUnusedIOZones comes last.
DeleteFile(t) ==
  /\ pc[t] = "closed"
  /\ IF t \in WALThreads /\ HasZone(t) THEN Enter(t, "drop") /\ UNCHANGED <<lifetime, extents>>
     ELSE Enter(t, "reset") /\ ClearExtents(t)
  /\ UNCHANGED <<zones, tokens, hold, cand, owe, active_zone_, buffer_pos,
                 left>>

DropDone(t) ==
  /\ Through(t, "drop")
  /\ ClearExtents(t)
  /\ Enter(t, "reset")
  /\ UNCHANGED <<zones, tokens, hold, cand, owe, active_zone_, buffer_pos,
                 left>>

-----------------------------------------------------------------------------

Init ==
  /\ busy_ = [z \in Zones |-> FALSE] /\ wp_ = [z \in Zones |-> 0]
  /\ lifetime_ = [z \in Zones |-> 0]
  /\ open_io_zones_ = 0 /\ active_io_zones_ = 0 /\ waiting = {}
  /\ pc = [t \in Threads |-> "idle"] /\ at = [t \in Threads |-> 0]
  /\ hold = [t \in Threads |-> 0] /\ cand = [t \in Threads |-> 0]
  /\ owe = [t \in Threads |-> FALSE]
  /\ active_zone_ = [t \in Threads |-> 0] /\ left = [t \in Threads |-> 0]
  /\ lifetime = [t \in Threads |-> 0] /\ buffer_pos = [t \in Threads |-> 0]
  /\ extents = [t \in Threads |-> [z \in Zones |-> 0]]

\* What a thread does inside a call
Run(t) ==
  \/ WaitForOpenIOZoneToken(t) \/ PutActiveIOZoneToken(t) \/ Acquire(t)
  \/ ApplyFinishThreshold(t) \/ ThresholdDone(t) \/ GetBestOpenZoneMatch(t)
  \/ UseMatch(t) \/ GetActiveIOZoneToken(t) \/ FinishCheapestIOZone(t)
  \/ FinishVictim(t) \/ AllocateEmptyZone(t) \/ NoEmptyZone(t)
  \/ ResetUnusedZones(t) \/ ResetDone(t) \/ AllocateWALZone(t)
  \/ WriteZone(t) \/ Account(t) \/ CloseActiveZone(t) \/ PutOpenIOZoneToken(t)
  \/ DropDone(t)

Next ==
  \E t \in Threads :
    \/ \E n \in WriteSizes, l \in Lifetimes : Create(t, n, l)
    \/ Run(t)
    \/ CloseFile(t)
    \/ Retry(t) \/ GiveUp(t)
    \/ DeleteFile(t)

Spec == Init /\ [][Next]_vars

-----------------------------------------------------------------------------
(***************************************************************************)
(* Properties                                                              *)
(***************************************************************************)

\* Every variable keeps to its type; no zone is written past its capacity.
TypeOK ==
  /\ busy_ \in [Zones -> BOOLEAN] /\ wp_ \in [Zones -> 0..Cap]
  /\ lifetime_ \in [Zones -> Lifetimes \cup {0}]
  /\ open_io_zones_ \in Int /\ active_io_zones_ \in Int
  /\ waiting \subseteq Threads
  /\ pc \in [Threads -> PCs] /\ at \in [Threads -> Nat]
  /\ hold \in [Threads -> Zones \cup {0}] /\ cand \in [Threads -> Zones \cup {0}]
  /\ owe \in [Threads -> BOOLEAN]
  /\ active_zone_ \in [Threads -> Zones \cup {0}]
  /\ left \in [Threads -> Nat] /\ buffer_pos \in [Threads -> Nat]
  /\ lifetime \in [Threads -> Lifetimes \cup {0}]
  /\ extents \in [Threads -> [Zones -> Nat]]

\* The zones a thread may write, finish or reset
Owned(t) == {hold[t], cand[t], active_zone_[t]} \ {0}

\* The zones that are only used by those who have acquired them: the IO zones and the
\* first zone of each group; all zones, when groups have one zone
Heads == {z \in Zones : z <= IOZones \/ (z - IOZones - 1) % GroupZones = 0}

\* No two threads hold the same one of these, and exactly the held ones are busy,
\* whatever the logs do with the other zones of their groups, which they write and
\* release without having acquired them: what the asserts in Reset, Finish, Close,
\* SetActiveZone and CheckRelease rely on.
ZonesExclusive ==
  /\ \A s, t \in Threads : s # t => Owned(s) \cap Owned(t) \cap Heads = {}
  /\ \A z \in Heads : busy_[z] <=> \E t \in Threads : z \in Owned(t)

Group(z) == (z - IOZones - 1) \div GroupZones

\* No two logs are given zones of the same group, although only its first zone is
\* ever acquired: a group is free again when its log is gone (AllocateWALZone,
\* ReleaseUnusedWALZones).
GroupsExclusive ==
  \A s, t \in WALThreads : \A y, z \in Zones :
    /\ s # t
    /\ active_zone_[s] = y \/ extents[s][y] > 0
    /\ active_zone_[t] = z \/ extents[t][z] > 0
    => Group(y) # Group(z)

\* None of these zones is reset while it holds data of a file, finished zones included
\* (ResetUnusedIOZones, ReleaseUnusedWALZones, AllocateEmptyZone).
DataKept == \A t \in Threads, z \in Heads : extents[t][z] <= wp_[z]

Quiet == \A t \in Threads : pc[t] \in {"idle", "closed", "failed"} /\ ~owe[t]

\* When no call is running, every open token has come back: "The callee is
\* responsible for calling a PutOpenIOZoneToken to return the resource", on the
\* error paths too (WaitForOpenIOZoneToken).  A log that goes on to the next zone
\* of its group gives back a token it never took.
OpenTokensReturned ==
  Quiet => /\ open_io_zones_ <= 0
           /\ (WALThreads = {} \/ GroupZones = 1) => open_io_zones_ = 0
=============================================================================
