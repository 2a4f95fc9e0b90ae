------------------------------ MODULE PlanLimits ------------------------------
(***************************************************************************)
(* The counters of a tenant's plan (services/pricing_service.py): a slot    *)
(* per agent (api/v1/agents.py) or space member (api/v1/spaces.py), called a *)
(* unit here, and the queries of the month (api/v1/ai.py,                   *)
(* workers/pricing_worker.py), columns of one row that share no transition. *)
(* The alerts at 80, 95 and 100 % are left out.                             *)
(*                                                                         *)
(* A unit is inserted or deleted by a transaction of its own, and its slot  *)
(* taken or released by the next of the same request; a request may die     *)
(* between any two steps. Other code inserts rows of the same tables without *)
(* check or slot: insight agents, the agents of a demo, the creator of a     *)
(* space. DELETE of an agent or a member does not tell them apart.           *)
(***************************************************************************)
EXTENDS Integers, FiniteSets

CONSTANTS
    Callers,      \* requests in flight
    Ceilings,     \* the ceilings of the tiers
    MaxUnits,     \* bound on the units ever inserted
    MaxMonth,     \* bound on the months
    MaxQueries    \* bound on the queries of a month

ASSUME PlanAssumption ==
    /\ Ceilings \subseteq Nat /\ Callers # {} /\ IsFiniteSet(Callers)
    /\ MaxUnits \in Nat /\ MaxMonth \in Nat /\ MaxQueries \in Nat

VARIABLES
    taken, ceiling,  \* current_agents, max_agents
    units,          \* the units there are
    free,           \* those inserted without a slot
    inserted,       \* how many were ever inserted
    doing,           \* doing[c]: a request in flight
    mishaps,        \* history: a request died owing a slot, a unit was deleted
                    \* twice or released before it was counted, or the ceiling
                    \* lowered under requests in flight
    unpaid,         \* history: slots released for units that never took one
    lost,           \* history: units that took a slot and went without a release
    queries, period,\* current_queries_this_month, queries_period_start
    metering,       \* metering[c]: a query, or the sweep of the worker, in flight
    month,          \* now
    counted         \* history: queries counted this month

slotVars == <<taken, ceiling, units, free, inserted, doing, mishaps, unpaid, lost>>
meterVars == <<queries, period, metering, month, counted>>

Idle == [at |-> "none"]
PlanCalls == [at : {"none", "insert", "take", "release"}] \cup [at : {"delete"}, unit : 1..MaxUnits]
Meterings == [at : {"none"}] \cup [at : {"query", "sweep"}, read : 0..MaxMonth, now : 0..MaxMonth]
             \cup [at : {"clock"}, now : 0..MaxMonth]

SlotsInit ==
    /\ taken = 0 /\ ceiling \in Ceilings
    /\ units = {} /\ free = {} /\ inserted = 0 /\ unpaid = 0 /\ lost = 0
    /\ doing = [c \in Callers |-> Idle]
    /\ mishaps = FALSE

Turns(c, next) == doing' = [doing EXCEPT ![c] = next]

(* mutant: the last unit is not counted *)
FullButOne == taken > ceiling

(* current_agents >= max_agents *)
Full == taken >= ceiling

(* check_can_create_agent, check_can_create_user *)
ChecksSlot(c) ==
    /\ doing[c] = Idle
    /\ ~Full
    /\ Turns(c, [at |-> "insert"])
    /\ UNCHANGED <<taken, ceiling, units, free, inserted, mishaps, unpaid, lost>>

InsertsUnit(c) ==
    /\ doing[c].at = "insert" /\ inserted < MaxUnits
    /\ inserted' = inserted + 1
    /\ units' = units \cup {inserted + 1}
    /\ Turns(c, [at |-> "take"])
    /\ UNCHANGED <<taken, ceiling, free, mishaps, unpaid, lost>>

(* InsightAgentService.create, a demo, the creator of a space *)
InsertsFree ==
    /\ inserted < MaxUnits
    /\ inserted' = inserted + 1
    /\ units' = units \cup {inserted + 1} /\ free' = free \cup {inserted + 1}
    /\ UNCHANGED <<taken, ceiling, doing, mishaps, unpaid, lost>>

(* record_agent_created: by one UPDATE *)
TakesSlot(c) ==
    /\ doing[c].at = "take"
    /\ taken' = taken + 1
    /\ Turns(c, Idle)
    /\ UNCHANGED <<ceiling, units, free, inserted, mishaps, unpaid, lost>>

LoadsUnit(c, u) ==
    /\ doing[c] = Idle
    /\ u \in units
    /\ Turns(c, [at |-> "delete", unit |-> u])
    /\ UNCHANGED <<taken, ceiling, units, free, inserted, mishaps, unpaid, lost>>

(* The DELETE of a unit another request has deleted only warns *)
DeletesUnit(c) ==
    /\ doing[c].at = "delete"
    /\ units' = units \ {doing[c].unit}
    /\ mishaps' = (mishaps \/ doing[c].unit \notin units)
    /\ unpaid' = IF doing[c].unit \in units \cap free THEN unpaid + 1 ELSE unpaid
    /\ Turns(c, [at |-> "release"])
    /\ UNCHANGED <<taken, ceiling, free, inserted, lost>>

(* With its author's account, its widget or its space: no slot is released *)
UnitVanishes(u) ==
    /\ units' = units \ {u}
    /\ lost' = IF u \in free THEN lost ELSE lost + 1
    /\ UNCHANGED <<taken, ceiling, free, inserted, doing, mishaps, unpaid>>

(* At zero there is none to release: one was released for a unit that never   *)
(* took it, or this one is released before it was taken                      *)
NoneTaken ==
    IF taken # 0 THEN UNCHANGED <<mishaps, unpaid>>
    ELSE IF unpaid # 0 THEN unpaid' = unpaid - 1 /\ UNCHANGED mishaps
    ELSE mishaps' = TRUE /\ UNCHANGED unpaid

(* mutant: not held at zero *)
ReleasesAnyway(c) ==
    /\ doing[c].at = "release"
    /\ taken' = taken - 1
    /\ NoneTaken
    /\ Turns(c, Idle)
    /\ UNCHANGED <<ceiling, units, free, inserted, lost>>

(* record_agent_deleted, held at zero *)
ReleasesSlot(c) ==
    /\ doing[c].at = "release"
    /\ taken' = IF taken = 0 THEN 0 ELSE taken - 1
    /\ NoneTaken
    /\ Turns(c, Idle)
    /\ UNCHANGED <<ceiling, units, free, inserted, lost>>

(* The request dies or is refused *)
CallDies(c) ==
    /\ doing[c] # Idle
    /\ mishaps' = (mishaps \/ doing[c].at \in {"take", "release"})
    /\ Turns(c, Idle)
    /\ UNCHANGED <<taken, ceiling, units, free, inserted, unpaid, lost>>

(* set_tier, after a check that the tenant fits in it (change of tier in the *)
(* console); the counters carry over, and requests in flight may pass a      *)
(* lower ceiling                                                             *)
SetTier(n) ==
    /\ n \in Ceilings \ {ceiling} /\ taken <= n
    /\ ceiling' = n
    /\ mishaps' = (mishaps \/ (n < ceiling /\ \E c \in Callers : doing[c] # Idle))
    /\ UNCHANGED <<taken, units, free, inserted, doing, unpaid, lost>>

SlotsNext ==
    \/ \E c \in Callers :
          \/ ChecksSlot(c) \/ InsertsUnit(c) \/ TakesSlot(c)
          \/ \E u \in units : LoadsUnit(c, u)
          \/ DeletesUnit(c) \/ ReleasesSlot(c) \/ CallDies(c)
    \/ InsertsFree \/ \E u \in units : UnitVanishes(u)
    \/ \E n \in Ceilings : SetTier(n)

SlotsSpec == SlotsInit /\ [][SlotsNext]_slotVars

-------------------------------------------------------------------------------
MeterInit ==
    /\ queries = 0 /\ period = 0 /\ month = 0 /\ counted = 0
    /\ metering = [c \in Callers |-> Idle]

(* A month ends at any time *)
MonthEnds ==
    /\ month < MaxMonth
    /\ month' = month + 1 /\ counted' = 0
    /\ UNCHANGED <<queries, period, metering>>

(* record_query_usage: the period as read, and now *)
ReadsPeriod(c) ==
    /\ metering[c] = Idle
    /\ metering' = [metering EXCEPT ![c] = [at |-> "query", read |-> period, now |-> month]]
    /\ UNCHANGED <<queries, period, month, counted>>

(* The worker takes now first, and a period of another month is stale for it, *)
(* also of a later one                                                       *)
SweepStarts(c) ==
    /\ metering[c] = Idle
    /\ metering' = [metering EXCEPT ![c] = [at |-> "clock", now |-> month]]
    /\ UNCHANGED <<queries, period, month, counted>>

SweepReads(c) ==
    /\ metering[c].at = "clock"
    /\ metering' = [metering EXCEPT ![c] =
                      IF period = metering[c].now THEN Idle ELSE [at |-> "sweep", read |-> period, now |-> metering[c].now]]
    /\ UNCHANGED <<queries, period, month, counted>>

(* mutant: the counter does not start again *)
KeepsCount(m) == queries

(* The row is rolled over when the period read was not of this month *)
RolledOver(m) == m.read # m.now
Count(m) == IF RolledOver(m) THEN 0 ELSE queries
Period(m) == IF RolledOver(m) THEN m.now ELSE period

(* ... and counts one more, in the same transaction *)
CountsQuery(c) ==
    /\ metering[c].at = "query" /\ counted < MaxQueries
    /\ queries' = Count(metering[c]) + 1
    /\ period' = Period(metering[c])
    /\ counted' = counted + 1
    /\ metering' = [metering EXCEPT ![c] = Idle]
    /\ UNCHANGED month

Sweeps(c) ==
    /\ metering[c].at = "sweep"
    /\ queries' = Count(metering[c])
    /\ period' = Period(metering[c])
    /\ metering' = [metering EXCEPT ![c] = Idle]
    /\ UNCHANGED <<month, counted>>

(* The query fails, or counting it does, which is only logged *)
MeteringFails(c) ==
    /\ metering[c] # Idle
    /\ metering' = [metering EXCEPT ![c] = Idle]
    /\ UNCHANGED <<queries, period, month, counted>>

MeterNext ==
    \/ \E c \in Callers :
          \/ ReadsPeriod(c) \/ CountsQuery(c)
          \/ SweepStarts(c) \/ SweepReads(c) \/ Sweeps(c) \/ MeteringFails(c)
    \/ MonthEnds

MeterSpec == MeterInit /\ [][MeterNext]_meterVars

-------------------------------------------------------------------------------
PlanTypeOK ==
    /\ taken \in 0..MaxUnits /\ ceiling \in Ceilings
    /\ units \subseteq 1..inserted /\ free \subseteq 1..inserted /\ inserted \in 0..MaxUnits
    /\ unpaid \in Nat /\ lost \in Nat
    /\ doing \in [Callers -> PlanCalls] /\ mishaps \in BOOLEAN
    /\ queries \in 0..(MaxMonth + 1) * MaxQueries /\ period \in 0..MaxMonth
    /\ metering \in [Callers -> Meterings]
    /\ month \in 0..MaxMonth /\ counted \in 0..MaxQueries

Owing(at) == Cardinality({c \in Callers : doing[c].at = at})

Slotted == units \ free

(* Slots are used by the units that took one, but for what requests in flight *)
(* still owe, the slots released for other units and the units gone without a *)
(* release, as long as none of the mishaps happened.                         *)
SlotsCounted ==
    ~mishaps => taken + Owing("take") + unpaid = Cardinality(Slotted) + Owing("release") + lost

(* Without a mishap the units that took a slot pass the ceiling only by       *)
(* requests that were in flight together and by slots released for others.   *)
OverByRaceOnly == ~mishaps => Cardinality(Slotted) < ceiling + Cardinality(Callers) + unpaid

(* A counter of this month has no query of an earlier one.                   *)
NeverOvercharged == period = month => queries <= counted

(* What a plan's counters promise whatever overlaps: each slot of difference  *)
(* with the units that took one is accounted for, the ceiling is passed by no *)
(* more than a race and the slots released too many, and no query of last     *)
(* month is charged to this one (pricing_service.py:33-35, 325-345).         *)
PlanHolds == SlotsCounted /\ OverByRaceOnly /\ NeverOvercharged

(* "if anything between here and the bump fails, the row is gone ... and the *)
(* counter stays consistent" (agents.py:285): no unit without its slot.      *)
SlotFollowsInsert ==
    [][\A c \in Callers : doing[c].at = "take" /\ doing'[c].at = "none" => taken' > taken]_slotVars

(* "so we don't race two concurrent requests" (pricing_service.py:439): a    *)
(* query of the month is counted once its period has begun.                  *)
EveryQueryCounted == [][period' = period => queries' >= queries]_meterVars

===============================================================================
