---------------------------- MODULE UptimeProofs ----------------------------
(***************************************************************************)
(* The uptime monitors for every value of the constants: any number of     *)
(* monitors, incidents, callers, faults and restarts; and the delivery of  *)
(* what they, the alerts and the tasks have to tell.                       *)
(***************************************************************************)
EXTENDS Uptime, Delivery, FiniteSetTheorems, SequenceTheorems, TLAPS

(***************************************************************************)
(* The inductive invariant.                                                *)
(***************************************************************************)

\* What the stage of a job says of its other fields
StagesMean ==
    \A j \in Jobs :
        /\ job[j].stage = "none" <=> job[j] = NoJob
        /\ job[j].stage = "update" => job[j].plan \in Plans
        /\ job[j].stage = "enable" => job[j].enabled \in BOOLEAN
        /\ job[j].stage \in {"tell", "persist"} => job[j].queue # <<>>

\* The probes that may open an incident have an id left to give it.
MayOpen(j) ==
    /\ job[j].stage = "apply" /\ ~job[j].cancelled
    /\ job[j].outcome \in {"down", "expiring"}
RoomLeft == lastIncident + Cardinality({j \in Jobs : MayOpen(j)}) <= MaxIncidents

EntriesInv == TypeOK /\ StagesMean /\ RoomLeft /\ EntriesExact

\* The AUTOINCREMENT counters are ahead of every row.
FreshIds ==
    /\ \A m \in Monitors : monitors[m] # NoRow => m <= lastMonitor
    /\ \A i \in Incidents : incidents[i] # NoRow => i <= lastIncident

\* Between its reading of the monitor and its transaction a check relies on the monitor being
\* enabled: nobody else edits it without the entry in Engine.active.
Loaded(j) == \/ job[j].stage \in {"probe", "apply"}
             \/ job[j].op # "sweep" /\ job[j].stage = "slot"
ProbesEnabled ==
    \A j \in Jobs : Loaded(j) => /\ monitors[job[j].monitor] # NoRow
                                 /\ monitors[job[j].monitor].enabled
                                 /\ job[j].plan = monitors[job[j].monitor].plan

OpenIncident(i) ==
    /\ incidents[i] # NoRow
    /\ incidents[i].active
OpenIsCurrent ==
    \A i \in Incidents : OpenIncident(i) =>
        LET m == incidents[i].monitor
        IN  /\ monitors[m] # NoRow /\ monitors[m].enabled
            /\ monitors[m].plan = about[i]
            /\ incidents[i].kind = "availability" => latest[m] = "down"

CurrentInv == EntriesInv /\ FreshIds /\ ProbesEnabled /\ OpenIsCurrent

\* Job j will still tell the k-th entry of its queue.
Awaits(j, k) ==
    /\ k \in 1..Len(job[j].queue)
    /\ \/ job[j].stage \in {"read", "tell"}
       \/ job[j].stage = "persist" /\ k > 1

\* Each notice is awaited once, by one job, and not told yet.
AwaitedOnce ==
    /\ \A i, j \in Jobs, k, l \in Nat :
          Awaits(i, k) /\ Awaits(j, l) /\ job[i].queue[k] = job[j].queue[l] => i = j /\ k = l
    /\ \A j \in Jobs, k \in Nat : Awaits(j, k) => told[job[j].queue[k]] = 0

\* A notice is about an incident that was opened, a recovery about one that has ended.
NoticesFollow ==
    /\ \A n \in Notice : told[n] <= 1 /\ (told[n] > 0 => n.incident <= lastIncident)
    /\ \A i \in Incidents : told[Recovery(i)] > 0 => ~OpenIncident(i)
    /\ \A j \in Jobs, k \in Nat : Awaits(j, k) => job[j].queue[k].incident <= lastIncident
    /\ \A j \in Jobs, k \in Nat, i \in Incidents :
          Awaits(j, k) /\ job[j].queue[k] = Recovery(i) => ~OpenIncident(i)

\* As long as the trigger of an incident waits, the job that has it holds the entry of the
\* monitor: nobody can end the incident and tell of it.
TriggersFirst ==
    \A j \in Jobs, k \in Nat, i \in Incidents :
        Awaits(j, k) /\ job[j].queue[k] = Trigger(i) =>
            /\ incidents[i] # NoRow => incidents[i].monitor = job[j].monitor
            /\ told[Recovery(i)] = 0
            /\ \A h \in Jobs, l \in Nat : Awaits(h, l) => job[h].queue[l] # Recovery(i)

TellingInv == CurrentInv /\ AwaitedOnce /\ NoticesFollow /\ TriggersFirst

(***************************************************************************)
(* Engine.active and the semaphore                                         *)
(***************************************************************************)

\* The parts of TypeOK: the memory of the engine, the tables, the rest
EngineType ==
    /\ active \subseteq Monitors /\ slots \in 0..MaxConcurrent
    /\ job \in [Jobs -> JobType]
    /\ \A j \in Jobs : job[j] # NoJob => job[j].monitor \in Monitors
TableType ==
    /\ monitors \in [Monitors -> Monitor \cup {NoRow}]
    /\ incidents \in [Incidents -> Incident \cup {NoRow}]
    /\ latest \in [Monitors -> Outcomes \cup {"none", "down"}]
    /\ lastMonitor \in 0..MaxMonitors /\ lastIncident \in 0..MaxIncidents
    /\ about \in [Incidents -> Plans \cup {Null}]
RestType ==
    /\ up \in BOOLEAN /\ due \subseteq Monitors
    /\ told \in [Notice -> Nat]
    /\ now \in 0..MaxTime /\ requests \in 0..MaxRequests /\ faults \in 0..MaxFaults

Exact ==
    /\ active = {job[j].monitor : j \in {i \in Jobs : job[i] # NoJob}}
    /\ \A i, j \in Jobs : job[i] # NoJob /\ job[i].monitor = job[j].monitor => i = j
    /\ slots = Cardinality({j \in Jobs : HasSlot(j)})

EngineInv == EngineType /\ StagesMean /\ RoomLeft /\ Exact

\* Both are the same invariant.
LEMMA Parts == EntriesInv <=> EngineInv /\ TableType /\ RestType
BY DEF EntriesInv, EntriesExact, EngineInv, Exact, TypeOK, EngineType, TableType, RestType

\* The goroutines of the sweeps and the requests are finitely many.
LEMMA JobsFinite == IsFiniteSet(Jobs)
<1>1. IsFiniteSet(Monitors)
  BY FS_Interval, BoundsAssumption DEF Monitors
<1>2. IsFiniteSet(Sweepers)
  BY <1>1, FS_Singleton, FS_Product DEF Sweepers
<1>3. IsFiniteSet({0} \X Callers)
  BY CallersAssumption, FS_Singleton, FS_Product
<1> QED
  BY <1>2, <1>3, FS_Union DEF Jobs

\* What holds of the record of a job at work
SlotIn(r) == \/ r.stage \in {"probe", "apply", "read", "tell", "persist"}
             \/ r.op = "sweep" /\ r.stage = "load"
OpenerIn(r) == r.stage = "apply" /\ ~r.cancelled /\ r.outcome \in {"down", "expiring"}
WorkRecord(r) ==
    /\ r \in JobType /\ r.stage # "none" /\ r.monitor \in Monitors
    /\ r.stage = "update" => r.plan \in Plans
    /\ r.stage = "enable" => r.enabled \in BOOLEAN
    /\ r.stage \in {"tell", "persist"} => r.queue # <<>>

LEMMA NoJobType == NoJob \in JobType /\ NoJob.stage = "none" /\ NoJob.monitor = 0
BY BoundsAssumption DEF NoJob, JobType

\* A job at work has a record that says so.
LEMMA WorkersRecord ==
    ASSUME EngineType, StagesMean, NEW j \in Jobs, job[j] # NoJob
    PROVE  WorkRecord(job[j])
BY DEF EngineType, StagesMean, WorkRecord, JobType

\* The sets of the jobs that hold a slot, and of those that may open an incident, after job j
\* has got another record
LEMMA SetsAfter ==
    ASSUME EngineType, NEW j \in Jobs, NEW r \in JobType, job' = [job EXCEPT ![j] = r]
    PROVE  /\ {i \in Jobs : HasSlot(i)}' =
                 IF SlotIn(r) THEN {i \in Jobs : HasSlot(i)} \cup {j}
                              ELSE {i \in Jobs : HasSlot(i)} \ {j}
           /\ {i \in Jobs : MayOpen(i)}' =
                 IF OpenerIn(r) THEN {i \in Jobs : MayOpen(i)} \cup {j}
                                ELSE {i \in Jobs : MayOpen(i)} \ {j}
           /\ \A i \in Jobs : job'[i] = IF i = j THEN r ELSE job[i]
           /\ job' \in [Jobs -> JobType]
BY DEF EngineType, HasSlot, SlotIn, MayOpen, OpenerIn

\* A job begins on a monitor that nobody works on.
LEMMA StartKeeps ==
    ASSUME EngineInv, NEW j \in Jobs, NEW m \in Monitors, NEW r, Start(j, m, r),
           IsFree(m), WorkRecord(r), r.monitor = m, ~SlotIn(r), ~OpenerIn(r),
           UNCHANGED lastIncident
    PROVE  EngineInv'
<1> USE DEF EngineInv
<1>1. job[j] = NoJob /\ job' = [job EXCEPT ![j] = r] /\ active' = active \cup {m} /\ slots' = slots
  BY DEF Start
<1>2. r \in JobType /\ r # NoJob
  BY NoJobType DEF WorkRecord
<1>3. ~HasSlot(j) /\ ~MayOpen(j)
  BY <1>1 DEF HasSlot, MayOpen, NoJob
<1>4. /\ {i \in Jobs : HasSlot(i)}' = {i \in Jobs : HasSlot(i)}
      /\ {i \in Jobs : MayOpen(i)}' = {i \in Jobs : MayOpen(i)}
      /\ \A i \in Jobs : job'[i] = IF i = j THEN r ELSE job[i]
      /\ job' \in [Jobs -> JobType]
  BY <1>1, <1>2, <1>3, SetsAfter
<1>5. EngineType'
  BY <1>1, <1>4 DEF EngineType, WorkRecord
<1>6. StagesMean'
  BY <1>2, <1>4 DEF StagesMean, WorkRecord
<1>7. RoomLeft'
  BY <1>4 DEF RoomLeft
<1>8. \A i, k \in Jobs : job'[i] # NoJob /\ job'[i].monitor = job'[k].monitor => i = k
  <2> SUFFICES ASSUME NEW i \in Jobs, NEW k \in Jobs, job'[i] # NoJob,
                      job'[i].monitor = job'[k].monitor
               PROVE  i = k
    OBVIOUS
  <2>1. job'[i].monitor \in Monitors
    BY <1>5 DEF EngineType
  <2>2. 0 \notin Monitors
    BY DEF Monitors
  <2>3. job'[k] # NoJob
    BY <2>1, <2>2, NoJobType
  <2>4. \A h \in Jobs : job[h] # NoJob => job[h].monitor # m
    BY DEF Exact, IsFree
  <2> QED
    BY <1>4, <2>3, <2>4 DEF Exact
<1>9. Exact'
  <2>1. active' = {job'[i].monitor : i \in {k \in Jobs : job'[k] # NoJob}}
    BY <1>1, <1>2, <1>4 DEF Exact
  <2>2. slots' = Cardinality({i \in Jobs : HasSlot(i)}')
    BY <1>1, <1>4 DEF Exact
  <2> QED
    BY <1>8, <2>1, <2>2 DEF Exact
<1> QED
  BY <1>5, <1>6, <1>7, <1>9

\* A job returns and releases what it has taken.
LEMMA EndKeeps ==
    ASSUME EngineInv, NEW j \in Jobs, job[j] # NoJob, End(j), UNCHANGED lastIncident,
           lastIncident \in Nat
    PROVE  EngineInv'
<1> USE DEF EngineInv
<1> DEFINE H == {i \in Jobs : HasSlot(i)}
           O == {i \in Jobs : MayOpen(i)}
<1>1. /\ job' = [job EXCEPT ![j] = NoJob] /\ active' = active \ {job[j].monitor}
      /\ slots' = IF HasSlot(j) THEN slots - 1 ELSE slots
  BY DEF End, Entries
<1>2. ~SlotIn(NoJob) /\ ~OpenerIn(NoJob)
  BY DEF SlotIn, OpenerIn, NoJob
<1>3. /\ H' = H \ {j} /\ O' = O \ {j}
      /\ \A i \in Jobs : job'[i] = IF i = j THEN NoJob ELSE job[i]
      /\ job' \in [Jobs -> JobType]
  BY <1>1, <1>2, NoJobType, SetsAfter
<1>4. IsFiniteSet(H) /\ IsFiniteSet(O)
  BY JobsFinite, FS_Subset
<1>5. /\ Cardinality(H) \in Nat /\ Cardinality(O) \in Nat /\ Cardinality(O') \in Nat
      /\ Cardinality(O') <= Cardinality(O)
      /\ Cardinality(H') = IF HasSlot(j) THEN Cardinality(H) - 1 ELSE Cardinality(H)
  BY <1>3, <1>4, FS_CardinalityType, FS_RemoveElement, FS_Subset, ZenonT(60)
<1>6. slots' = Cardinality(H')
  BY <1>1, <1>5 DEF Exact
<1>7. H' \subseteq H /\ Cardinality(H') \in Nat
  BY <1>3, <1>4, FS_Subset, FS_CardinalityType
<1>8. EngineType'
  BY <1>1, <1>3, <1>5, <1>6, <1>7, BoundsAssumption DEF EngineType, Exact
<1>9. StagesMean'
  BY <1>3, NoJobType DEF StagesMean
<1>10. RoomLeft'
  BY <1>5, BoundsAssumption DEF RoomLeft
<1>11. \A i \in Jobs : job[i] # NoJob => (job[i].monitor = job[j].monitor <=> i = j)
  BY DEF Exact
<1>12. active' = {job'[i].monitor : i \in {k \in Jobs : job'[k] # NoJob}}
  BY <1>1, <1>3, <1>11 DEF Exact
<1>13. \A i, k \in Jobs : job'[i] # NoJob /\ job'[i].monitor = job'[k].monitor => i = k
  <2>1. \A i \in Jobs : job'[i] # NoJob => job'[i].monitor \in Monitors
    BY <1>8 DEF EngineType
  <2>2. 0 \notin Monitors
    BY DEF Monitors
  <2> QED
    BY <1>3, <2>1, <2>2, NoJobType DEF Exact
<1> QED
  BY <1>6, <1>8, <1>9, <1>10, <1>12, <1>13 DEF Exact

\* A job goes on with its monitor.
LEMMA MoveKeeps ==
    ASSUME EngineInv, NEW j \in Jobs, job[j] # NoJob, NEW r, WorkRecord(r),
           r.monitor = job[j].monitor,
           job' = [job EXCEPT ![j] = r], active' = active,
           \/ (SlotIn(r) <=> HasSlot(j)) /\ slots' = slots
           \/ SlotIn(r) /\ ~HasSlot(j) /\ slots' = slots + 1 /\ slots < MaxConcurrent,
           RoomLeft'
    PROVE  EngineInv'
<1> USE DEF EngineInv
<1> DEFINE H == {i \in Jobs : HasSlot(i)}
<1>1. r \in JobType /\ r # NoJob
  BY NoJobType DEF WorkRecord
<1>2. /\ H' = IF SlotIn(r) THEN H \cup {j} ELSE H \ {j}
      /\ \A i \in Jobs : job'[i] = IF i = j THEN r ELSE job[i]
      /\ job' \in [Jobs -> JobType]
  BY <1>1, SetsAfter
<1>3. IsFiniteSet(H)
  BY JobsFinite, FS_Subset
<1>4. slots' = Cardinality(H')
  <2>1. CASE SlotIn(r) /\ ~HasSlot(j) /\ slots' = slots + 1
    <3>1. H' = H \cup {j} /\ j \notin H
      BY <1>2, <2>1
    <3> QED
      BY <1>3, <2>1, <3>1, FS_AddElement DEF Exact
  <2>2. CASE (SlotIn(r) <=> HasSlot(j)) /\ slots' = slots
    <3>1. H' = H
      BY <1>2, <2>2
    <3> QED
      BY <2>2, <3>1 DEF Exact
  <2> QED
    BY <2>1, <2>2
<1>5. EngineType'
  BY <1>1, <1>2, BoundsAssumption DEF EngineType, WorkRecord
<1>6. StagesMean'
  BY <1>1, <1>2 DEF StagesMean, WorkRecord
<1>7. active' = {job'[i].monitor : i \in {k \in Jobs : job'[k] # NoJob}}
  BY <1>1, <1>2 DEF Exact
<1>8. \A i, k \in Jobs : job'[i] # NoJob /\ job'[i].monitor = job'[k].monitor => i = k
  BY <1>2 DEF Exact
<1> QED
  BY <1>4, <1>5, <1>6, <1>7, <1>8 DEF Exact

\* No probe that may open an incident is added, nor an incident.
LEMMA RoomKept ==
    ASSUME EngineInv, NEW j \in Jobs, NEW r \in JobType, job' = [job EXCEPT ![j] = r],
           OpenerIn(r) => MayOpen(j), UNCHANGED lastIncident, lastIncident \in Nat
    PROVE  RoomLeft'
<1> DEFINE O == {i \in Jobs : MayOpen(i)}
<1>1. O' \subseteq O
  BY SetsAfter, ZenonT(60) DEF EngineInv
<1>2. IsFiniteSet(O)
  BY JobsFinite, FS_Subset
<1>3. /\ Cardinality(O') <= Cardinality(O)
      /\ Cardinality(O) \in Nat /\ Cardinality(O') \in Nat
  BY <1>1, <1>2, FS_Subset, FS_CardinalityType
<1> QED
  BY <1>3, BoundsAssumption DEF RoomLeft, EngineInv

LEMMA CountersType == TableType => lastMonitor \in Nat /\ lastIncident \in Nat
BY BoundsAssumption DEF TableType

\* A row of the table, where there is one
LEMMA RowType ==
    ASSUME TableType, NEW m \in Monitors, monitors[m] # NoRow
    PROVE  /\ monitors[m] \in Monitor /\ monitors[m].plan \in Plans
           /\ monitors[m].enabled \in BOOLEAN
BY DEF TableType, Monitor

\* A job whose stage is not "none" works.
LEMMA StagesWork ==
    ASSUME EngineInv, NEW j \in Jobs, job[j].stage # "none"
    PROVE  job[j] # NoJob /\ WorkRecord(job[j])
BY WorkersRecord DEF EngineInv, StagesMean

\* A record of which only the stage changes
LEMMA StageChanged ==
    ASSUME NEW r, WorkRecord(r), NEW s,
           s \in {"slot", "load", "probe", "apply", "read", "tell", "persist"},
           s \in {"tell", "persist"} => r.queue # <<>>,
           NEW n, n = [r EXCEPT !.stage = s]
    PROVE  /\ WorkRecord(n) /\ n.monitor = r.monitor /\ n.stage = s
           /\ n.op = r.op /\ n.queue = r.queue /\ n.plan = r.plan
           /\ n.outcome = r.outcome /\ n.cancelled = r.cancelled
BY DEF WorkRecord, JobType

\* The record of a check
LEMMA CheckRecord ==
    ASSUME NEW op, op \in {"none", "sweep", "now", "put", "toggle", "delete"}, NEW m \in Monitors,
           NEW s, s \in {"slot", "load", "read"}
    PROVE  /\ Check(op, m, s) \in JobType /\ WorkRecord(Check(op, m, s))
           /\ Check(op, m, s).op = op /\ Check(op, m, s).monitor = m
           /\ Check(op, m, s).stage = s
<1>1. NoJob \in JobType
  BY NoJobType
<1>2. /\ Check(op, m, s) \in JobType /\ Check(op, m, s).op = op
      /\ Check(op, m, s).monitor = m /\ Check(op, m, s).stage = s
  BY <1>1, ZenonT(60) DEF Check, JobType
<1> QED
  BY <1>2 DEF WorkRecord

\* Waiting for a place in the semaphore and getting it
LEMMA AcquireKeeps ==
    ASSUME EngineInv, TableType, NEW j \in Jobs, AcquireSlot(j)
    PROVE  EngineInv'
<1> DEFINE s == IF job[j].op = "sweep" THEN "load" ELSE "probe"
           r == [job[j] EXCEPT !.stage = s]
<1>1. /\ job[j].stage = "slot" /\ slots < MaxConcurrent /\ slots' = slots + 1
      /\ job' = [job EXCEPT ![j] = r] /\ active' = active /\ UNCHANGED lastIncident
  BY DEF AcquireSlot, dbVars
<1>2. job[j] # NoJob /\ WorkRecord(job[j])
  BY <1>1, StagesWork
<1>2a. s \in {"load", "probe"} /\ (job[j].op = "sweep" => s = "load") /\ (job[j].op # "sweep" => s = "probe")
  OBVIOUS
<1> HIDE DEF s
<1>3. WorkRecord(r) /\ r.monitor = job[j].monitor /\ r.stage = s /\ r.op = job[j].op
  BY <1>2, <1>2a, StageChanged, SMTT(30)
<1> HIDE DEF r
<1>4. SlotIn(r) /\ ~HasSlot(j) /\ ~OpenerIn(r) /\ r \in JobType
  BY <1>1, <1>2a, <1>3 DEF SlotIn, HasSlot, OpenerIn, WorkRecord
<1>5. RoomLeft'
  BY <1>1, <1>4, RoomKept, CountersType
<1> QED
  BY <1>1, <1>2, <1>3, <1>4, <1>5, MoveKeeps

\* A job that goes on to another stage without taking or returning a place
LEMMA GoesOn ==
    ASSUME EngineInv, TableType, NEW j \in Jobs, job[j] # NoJob, NEW r, WorkRecord(r),
           r.monitor = job[j].monitor, job' = [job EXCEPT ![j] = r],
           UNCHANGED <<active, slots, lastIncident>>,
           SlotIn(r) <=> HasSlot(j), OpenerIn(r) => MayOpen(j)
    PROVE  EngineInv'
<1>1. RoomLeft'
  BY RoomKept, CountersType DEF WorkRecord
<1> QED
  BY <1>1, MoveKeeps

\* Reading the monitor
LEMMA LoadKeeps ==
    ASSUME EngineInv, TableType, NEW j \in Jobs, Load(j)
    PROVE  EngineInv'
<1>1. job[j].stage = "load" /\ UNCHANGED lastIncident
  BY DEF Load, dbVars
<1>2. job[j] # NoJob /\ WorkRecord(job[j]) /\ job[j].monitor \in Monitors
  BY <1>1, StagesWork DEF WorkRecord
<1>3. CASE End(j)
  BY <1>1, <1>2, <1>3, EndKeeps, CountersType
<1>4. CASE MayCheck(j) /\ ~End(j)
  <2> DEFINE s == IF job[j].op = "sweep" THEN "probe" ELSE "slot"
             r == [job[j] EXCEPT !.stage = s, !.plan = monitors[job[j].monitor].plan]
  <2>1. job' = [job EXCEPT ![j] = r] /\ UNCHANGED <<active, slots>>
    BY <1>4 DEF Load
  <2>2. monitors[job[j].monitor].plan \in Plans
    BY <1>2, <1>4, RowType DEF MayCheck, StillDue, IsDue
  <2>3. /\ WorkRecord(r) /\ r.monitor = job[j].monitor
        /\ r.stage = s /\ r.op = job[j].op
    BY <1>2, <2>2, ZenonT(60) DEF WorkRecord, JobType
  <2> HIDE DEF r
  <2>4. (SlotIn(r) <=> HasSlot(j)) /\ ~OpenerIn(r)
    BY <1>1, <2>3 DEF SlotIn, HasSlot, OpenerIn
  <2> QED
    BY <1>1, <1>2, <2>1, <2>3, <2>4, GoesOn
<1> QED
  BY <1>3, <1>4 DEF Load

\* The probe: the bound on incidents leaves room for what it may open.
LEMMA ProbeKeeps ==
    ASSUME EngineInv, TableType, RestType, NEW j \in Jobs, Probe(j)
    PROVE  EngineInv'
<1>1. PICK o \in IF job[j].cancelled THEN {"down"} ELSE Found :
          job' = [job EXCEPT ![j].stage = "apply", ![j].outcome = o, ![j].at = now]
  BY DEF Probe
<1> DEFINE r == [job[j] EXCEPT !.stage = "apply", !.outcome = o, !.at = now]
           A == {i \in Jobs : job[i].stage = "apply"}
           O == {i \in Jobs : MayOpen(i)}
<1>2. /\ job[j].stage = "probe" /\ UNCHANGED <<active, slots, lastIncident>>
      /\ job' = [job EXCEPT ![j] = r]
  BY <1>1 DEF Probe, dbVars
<1>3. job[j] # NoJob /\ WorkRecord(job[j])
  BY <1>2, StagesWork
<1>4. o \in Outcomes \cup {"none", "down"}
  BY <1>1 DEF Found
<1>3a. now \in 0..MaxTime
  BY DEF RestType
<1>3b. job[j] \in JobType
  BY <1>3 DEF WorkRecord
<1>4a. r \in JobType
  BY <1>4, <1>3a, <1>3b DEF JobType
<1>5. /\ WorkRecord(r) /\ r.monitor = job[j].monitor /\ r.stage = "apply" /\ r.outcome = o
      /\ r.cancelled = job[j].cancelled
  <2>1. /\ r.monitor = job[j].monitor /\ r.stage = "apply" /\ r.outcome = o
        /\ r.cancelled = job[j].cancelled
    BY <1>3b DEF JobType
  <2> QED
    BY <1>3, <1>4a, <2>1 DEF WorkRecord
<1> HIDE DEF r
<1>6. SlotIn(r) /\ HasSlot(j)
  BY <1>2, <1>5 DEF SlotIn, HasSlot
<1>7. RoomLeft'
  <2>1. CASE ~OpenerIn(r)
    BY <1>2, <1>4a, <2>1, RoomKept, CountersType
  <2>2. CASE OpenerIn(r)
    <3>1. lastIncident + Cardinality(A) < MaxIncidents
      BY <1>1, <1>5, <2>2 DEF OpenerIn, Found
    <3>2. O \subseteq A /\ IsFiniteSet(A) /\ IsFiniteSet(O)
      BY JobsFinite, FS_Subset DEF MayOpen
    <3>3. /\ Cardinality(O) <= Cardinality(A)
          /\ Cardinality(O) \in Nat /\ Cardinality(A) \in Nat
      BY <3>2, FS_Subset, FS_CardinalityType
    <3>4. O' = O \cup {j} /\ j \notin O
      BY <1>2, <1>4a, <2>2, SetsAfter DEF EngineInv, MayOpen
    <3>5. Cardinality(O') = Cardinality(O) + 1
      BY <3>2, <3>4, FS_AddElement
    <3> QED
      BY <1>2, <3>1, <3>3, <3>5, BoundsAssumption DEF RoomLeft, TableType
  <2> QED
    BY <2>1, <2>2
<1> QED
  BY <1>2, <1>3, <1>5, <1>6, <1>7, MoveKeeps

(***************************************************************************)
(* What ApplyProbe reports: the notices of one check                       *)
(***************************************************************************)

LEMMA Notices ==
    /\ \A i \in Incidents : /\ Trigger(i) \in Notice /\ Trigger(i).incident = i
                            /\ Recovery(i) \in Notice /\ Recovery(i).incident = i
    /\ \A i, h : Trigger(i) # Recovery(h)
    /\ \A i, h : Trigger(i) = Trigger(h) => i = h
    /\ \A i, h : Recovery(i) = Recovery(h) => i = h
    /\ \A n \in Notice : n.incident \in Incidents /\ n \in {Trigger(n.incident), Recovery(n.incident)}
<1>1. /\ \A i \in Incidents : /\ Trigger(i) \in Notice /\ Trigger(i).incident = i
                            /\ Recovery(i) \in Notice /\ Recovery(i).incident = i
      /\ \A n \in Notice : n.incident \in Incidents /\ n \in {Trigger(n.incident), Recovery(n.incident)}
  BY DEF Notice, Trigger, Recovery
<1>2. \A i : /\ Trigger(i).what = "trigger" /\ Trigger(i).incident = i
            /\ Recovery(i).what = "recovery" /\ Recovery(i).incident = i
  BY DEF Trigger, Recovery
<1>3. \A i, h : Trigger(i) # Recovery(h)
  <2> SUFFICES ASSUME NEW i, NEW h, Trigger(i) = Recovery(h) PROVE FALSE
    OBVIOUS
  <2>1. Trigger(i).what = Recovery(h).what
    OBVIOUS
  <2> QED
    BY <1>2, <2>1
<1>4. \A i, h : Trigger(i) = Trigger(h) => i = h
  <2> SUFFICES ASSUME NEW i, NEW h, Trigger(i) = Trigger(h) PROVE i = h
    OBVIOUS
  <2>1. Trigger(i).incident = Trigger(h).incident
    OBVIOUS
  <2> QED
    BY <1>2, <2>1
<1>5. \A i, h : Recovery(i) = Recovery(h) => i = h
  <2> SUFFICES ASSUME NEW i, NEW h, Recovery(i) = Recovery(h) PROVE i = h
    OBVIOUS
  <2>1. Recovery(i).incident = Recovery(h).incident
    OBVIOUS
  <2> QED
    BY <1>2, <2>1
<1> QED
  BY <1>1, <1>3, <1>4, <1>5

Distinct(q) == \A k, l \in 1..Len(q) : q[k] = q[l] => k = l

\* One entry, or none, before a sequence that does not have it
LEMMA Joined ==
    ASSUME NEW S, NEW p, NEW q \in Seq(S), Distinct(q),
           p = <<>> \/ \E x \in S : p = <<x>> /\ \A k \in 1..Len(q) : q[k] # x
    PROVE  /\ p \o q \in Seq(S) /\ Distinct(p \o q)
           /\ \A k \in 1..Len(p \o q) :
                 \/ p # <<>> /\ (p \o q)[k] = p[1]
                 \/ \E l \in 1..Len(q) : (p \o q)[k] = q[l]
<1>1. CASE p = <<>>
  <2>1. p \o q = q
    BY <1>1
  <2> QED
    BY <2>1
<1>2. ASSUME NEW x \in S, p = <<x>>, \A k \in 1..Len(q) : q[k] # x
      PROVE  /\ p \o q \in Seq(S) /\ Distinct(p \o q)
             /\ \A k \in 1..Len(p \o q) :
                   \/ p # <<>> /\ (p \o q)[k] = p[1]
                   \/ \E l \in 1..Len(q) : (p \o q)[k] = q[l]
  <2>1. p \in Seq(S) /\ Len(p) = 1 /\ p[1] = x /\ p # <<>>
    BY <1>2
  <2>2. p \o q \in Seq(S) /\ Len(p \o q) = Len(q) + 1 /\ Len(q) \in Nat
    BY <2>1, ConcatProperties
  <2>3. \A k \in 1..Len(p \o q) : (p \o q)[k] = IF k = 1 THEN x ELSE q[k - 1]
    BY <2>1, <2>2, ConcatProperties
  <2>4. \A k \in 1..Len(p \o q) : k # 1 => k - 1 \in 1..Len(q)
    BY <2>2
  <2>5. Distinct(p \o q)
    BY <1>2, <2>2, <2>3, <2>4 DEF Distinct
  <2> QED
    BY <2>1, <2>2, <2>3, <2>4, <2>5
<1> QED
  BY <1>1, <1>2

\* The recoveries of a check are about incidents it closed, one of each kind.
LEMMA RecoveriesAre ==
    ASSUME NEW hs \in SUBSET Incidents
    PROVE  /\ Recoveries(hs) \in Seq(Notice) /\ Distinct(Recoveries(hs))
           /\ \A k \in 1..Len(Recoveries(hs)) :
                 \E i \in hs : Recoveries(hs)[k] = Recovery(i)
<1> DEFINE S(k) == {i \in hs : incidents[i].kind = k}
           Of(k) == IF S(k) = {} THEN <<>>
                    ELSE <<Recovery(CHOOSE i \in S(k) : TRUE)>>
           A == Of("availability")
           C == Of("certificate")
<1>1. Recoveries(hs) = A \o C
  BY DEF Recoveries
<1>2. \A k : Of(k) = <<>> \/ \E i \in S(k) : Of(k) = <<Recovery(i)>>
  <2> SUFFICES ASSUME NEW k, S(k) # {}
               PROVE  \E i \in S(k) : Of(k) = <<Recovery(i)>>
    OBVIOUS
  <2>1. (CHOOSE i \in S(k) : TRUE) \in S(k)
    OBVIOUS
  <2> QED
    BY <2>1
<1>3. \A i \in hs : Recovery(i) \in Notice
  BY Notices
<1>4. /\ A = <<>> \/ \E i \in S("availability") : A = <<Recovery(i)>>
      /\ C = <<>> \/ \E i \in S("certificate") : C = <<Recovery(i)>>
  BY <1>2
<1> HIDE DEF A, C, Of
<1>5. /\ C \in Seq(Notice) /\ Distinct(C)
      /\ \A k \in 1..Len(C) : \E i \in S("certificate") : C[k] = Recovery(i)
  <2>1. CASE C = <<>>
    BY <2>1 DEF Distinct
  <2>2. ASSUME NEW i \in S("certificate"), C = <<Recovery(i)>>
        PROVE  /\ C \in Seq(Notice) /\ Distinct(C)
               /\ \A k \in 1..Len(C) : C[k] = Recovery(i)
    BY <1>3, <2>2 DEF Distinct
  <2> QED
    BY <1>4, <2>1, <2>2
<1>6. \A i \in S("availability"), k \in 1..Len(C) : C[k] # Recovery(i)
  <2> SUFFICES ASSUME NEW i \in S("availability"), NEW k \in 1..Len(C),
                      C[k] = Recovery(i)
               PROVE  FALSE
    OBVIOUS
  <2>1. PICK h \in S("certificate") : C[k] = Recovery(h)
    BY <1>5
  <2>2. h = i
    BY <2>1, Notices
  <2> QED
    BY <2>2
<1>7. A = <<>> \/ \E x \in Notice : A = <<x>> /\ \A k \in 1..Len(C) : C[k] # x
  BY <1>3, <1>4, <1>6
<1>8. /\ A \o C \in Seq(Notice) /\ Distinct(A \o C)
      /\ \A k \in 1..Len(A \o C) :
            \/ A # <<>> /\ (A \o C)[k] = A[1]
            \/ \E l \in 1..Len(C) : (A \o C)[k] = C[l]
  <2>1. CASE A = <<>>
    BY <1>5, <2>1, Joined
  <2>2. CASE A # <<>>
    <3>1. PICK x \in Notice : A = <<x>> /\ \A k \in 1..Len(C) : C[k] # x
      BY <1>7, <2>2
    <3>2. \E y \in Notice : A = <<y>> /\ \A k \in 1..Len(C) : C[k] # y
      BY <3>1
    <3> QED
      BY <1>5, <3>2, Joined
  <2> QED
    BY <2>1, <2>2
<1>9. A # <<>> => \E i \in hs : A[1] = Recovery(i)
  BY <1>4
<1> QED
  BY <1>1, <1>5, <1>8, <1>9

\* A check opens at most one incident, and only after a failure.
LEMMA OpensOnFailure ==
    ASSUME NEW m, NEW outcome, Opens(m, outcome) # {}
    PROVE  outcome \in {"down", "expiring"}
BY DEF Opens, Kinds

\* The notices of a check are about the incident it opened and those it closed, each once.
LEMMA TransitionsAre ==
    ASSUME TableType, NEW m \in Monitors, NEW outcome,
           Opens(m, outcome) # {} => lastIncident + 1 \in Incidents
    PROVE  LET T == Transitions(m, outcome)
           IN  /\ T \in Seq(Notice) /\ Distinct(T)
               /\ \A k \in 1..Len(T) :
                     \/ /\ Opens(m, outcome) # {}
                        /\ T[k] = Trigger(lastIncident + 1)
                     \/ \E i \in ClosedBy(m, outcome) : T[k] = Recovery(i)
<1> DEFINE C == Recoveries(ClosedBy(m, outcome))
           n == Trigger(lastIncident + 1)
           A == IF Opens(m, outcome) = {} THEN <<>> ELSE <<n>>
<1>1. ClosedBy(m, outcome) \in SUBSET Incidents
  BY DEF ClosedBy, ActiveOf
<1>2. /\ C \in Seq(Notice) /\ Distinct(C)
      /\ \A k \in 1..Len(C) : \E i \in ClosedBy(m, outcome) : C[k] = Recovery(i)
  BY <1>1, RecoveriesAre
<1>3. Transitions(m, outcome) = A \o C
  BY DEF Transitions
<1> HIDE DEF C
<1>4. \A k \in 1..Len(C) : C[k] # n
  <2> SUFFICES ASSUME NEW k \in 1..Len(C), C[k] = n PROVE FALSE
    OBVIOUS
  <2>1. PICK i \in ClosedBy(m, outcome) : C[k] = Recovery(i)
    BY <1>2
  <2> QED
    BY <2>1, Notices
<1>5. Opens(m, outcome) # {} => n \in Notice
  BY Notices
<1>6. /\ Opens(m, outcome) = {} => A = <<>>
      /\ Opens(m, outcome) # {} => A = <<n>> /\ A # <<>> /\ A[1] = n
  OBVIOUS
<1> HIDE DEF n, A
<1>7. A = <<>> \/ \E x \in Notice : A = <<x>> /\ \A k \in 1..Len(C) : C[k] # x
  BY <1>4, <1>5, <1>6
<1>8. /\ A \o C \in Seq(Notice) /\ Distinct(A \o C)
      /\ \A k \in 1..Len(A \o C) :
            \/ A # <<>> /\ (A \o C)[k] = A[1]
            \/ \E l \in 1..Len(C) : (A \o C)[k] = C[l]
  <2>1. C \in Seq(Notice) /\ Distinct(C)
    BY <1>2
  <2>2. CASE A = <<>>
    BY <2>1, <2>2, Joined
  <2>3. CASE A # <<>>
    <3>1. PICK x \in Notice : A = <<x>> /\ \A k \in 1..Len(C) : C[k] # x
      BY <1>7, <2>3
    <3>2. \E y \in Notice : A = <<y>> /\ \A k \in 1..Len(C) : C[k] # y
      BY <3>1
    <3> QED
      BY <2>1, <3>2, Joined
  <2> QED
    BY <2>2, <2>3
<1> QED
  BY <1>2, <1>3, <1>6, <1>8 DEF n

\* ApplyProbe: the incident it may open has an id.
LEMMA RoomToOpen ==
    ASSUME EngineInv, TableType, NEW j \in Jobs, job[j].stage = "apply", ~job[j].cancelled,
           Opens(job[j].monitor, job[j].outcome) # {}
    PROVE  MayOpen(j) /\ lastIncident + 1 \in Incidents
<1> DEFINE O == {i \in Jobs : MayOpen(i)}
<1>1. j \in O
  BY OpensOnFailure DEF MayOpen
<1>2. IsFiniteSet(O)
  BY JobsFinite, FS_Subset
<1>3. Cardinality(O) \in Nat /\ Cardinality(O) # 0
  BY <1>1, <1>2, FS_CardinalityType, FS_EmptySet
<1>4. lastIncident \in Nat /\ lastIncident + Cardinality(O) <= MaxIncidents
  BY CountersType DEF EngineInv, RoomLeft
<1> QED
  BY <1>1, <1>3, <1>4, BoundsAssumption DEF Incidents

\* The step that stores what a probe has found
Stores(j) ==
    /\ job[j].stage = "apply" /\ ~job[j].cancelled
    /\ monitors[job[j].monitor] # NoRow
    /\ ApplyProbe(job[j].monitor, job[j].outcome, job[j].at)
    /\ job' = [job EXCEPT ![j] = [Check(job[j].op, job[j].monitor, "read") EXCEPT
                                     !.queue = Transitions(job[j].monitor, job[j].outcome)]]
    /\ UNCHANGED <<active, slots>>

\* What the job of such a step becomes
LEMMA StoredRecord ==
    ASSUME EngineInv, TableType, NEW j \in Jobs, Stores(j)
    PROVE  /\ job' \in [Jobs -> JobType] /\ \A i \in Jobs : i # j => job'[i] = job[i]
           /\ WorkRecord(job'[j]) /\ job'[j].monitor = job[j].monitor /\ job'[j].stage = "read"
           /\ job'[j].queue = Transitions(job[j].monitor, job[j].outcome)
           /\ job' = [job EXCEPT ![j] = job'[j]]
<1> DEFINE q == Transitions(job[j].monitor, job[j].outcome)
           c == Check(job[j].op, job[j].monitor, "read")
           r == [c EXCEPT !.queue = q]
<1>1. WorkRecord(job[j]) /\ job[j].monitor \in Monitors
  BY StagesWork DEF Stores, WorkRecord
<1>2. job' = [job EXCEPT ![j] = r]
  BY DEF Stores
<1>3. q \in Seq(Notice)
  BY <1>1, RoomToOpen, TransitionsAre DEF Stores
<1>4. c \in JobType /\ c.monitor = job[j].monitor /\ c.stage = "read"
  <2>1. job[j].op \in {"none", "sweep", "now", "put", "toggle", "delete"}
    BY <1>1 DEF WorkRecord, JobType
  <2> QED
    BY <1>1, <2>1, CheckRecord
<1> HIDE DEF q, c
<1>5. /\ r.monitor = job[j].monitor /\ r.stage = "read" /\ r.queue = q
      /\ r \in JobType
  BY <1>3, <1>4 DEF JobType, Notice
<1>6. WorkRecord(r)
  BY <1>1, <1>5 DEF WorkRecord
<1> HIDE DEF r
<1>7. job' \in [Jobs -> JobType] /\ \A i \in Jobs : job'[i] = IF i = j THEN r ELSE job[i]
  BY <1>2, <1>5 DEF EngineInv, EngineType
<1>8. job'[j] = r
  BY <1>7
<1> QED
  BY <1>2, <1>5, <1>6, <1>7, <1>8 DEF q

LEMMA StoresKeeps ==
    ASSUME EngineInv, TableType, NEW j \in Jobs, Stores(j)
    PROVE  EngineInv'
<1> DEFINE O == {i \in Jobs : MayOpen(i)}
           r == job'[j]
<1>1. /\ job[j].stage = "apply" /\ ~job[j].cancelled
      /\ UNCHANGED <<active, slots>>
  BY DEF Stores
<1>2. /\ WorkRecord(r) /\ r.monitor = job[j].monitor /\ r.stage = "read" /\ r \in JobType
      /\ job' = [job EXCEPT ![j] = r]
  BY StoredRecord DEF WorkRecord
<1>3. job[j] # NoJob
  BY <1>1, StagesWork
<1>4. SlotIn(r) /\ HasSlot(j) /\ ~OpenerIn(r)
  BY <1>1, <1>2 DEF SlotIn, HasSlot, OpenerIn
<1>5. IsFiniteSet(O) /\ O' = O \ {j}
  BY <1>2, <1>4, JobsFinite, FS_Subset, SetsAfter DEF EngineInv
<1>6. /\ Cardinality(O) \in Nat
      /\ Cardinality(O') = IF MayOpen(j) THEN Cardinality(O) - 1 ELSE Cardinality(O)
  BY <1>5, FS_CardinalityType, FS_RemoveElement
<1>7. lastIncident' = IF Opens(job[j].monitor, job[j].outcome) = {} THEN lastIncident
                      ELSE lastIncident + 1
  BY DEF Stores, ApplyProbe
<1>8. Opens(job[j].monitor, job[j].outcome) # {} => MayOpen(j)
  BY <1>1, RoomToOpen
<1>9. RoomLeft'
  BY <1>6, <1>7, <1>8, CountersType, BoundsAssumption DEF RoomLeft, EngineInv
<1> QED
  BY <1>1, <1>2, <1>3, <1>4, <1>9, MoveKeeps

\* A job that returns at an error or with nothing to tell, and one that goes on telling
LEMMA ApplyKeeps ==
    ASSUME EngineInv, TableType, NEW j \in Jobs, Apply(j)
    PROVE  EngineInv'
<1>1. job[j].stage = "apply" /\ job[j] # NoJob
  BY StagesWork DEF Apply
<1>2. CASE End(j) /\ UNCHANGED dbVars
  BY <1>1, <1>2, EndKeeps, CountersType DEF dbVars
<1>3. CASE Stores(j)
  BY <1>3, StoresKeeps
<1> QED
  BY <1>1, <1>2, <1>3 DEF Apply, Stores

LEMMA ReadBackKeeps ==
    ASSUME EngineInv, TableType, NEW j \in Jobs, ReadBack(j)
    PROVE  EngineInv'
<1>1. job[j].stage = "read" /\ job[j] # NoJob /\ WorkRecord(job[j]) /\ UNCHANGED lastIncident
  BY StagesWork DEF ReadBack, dbVars
<1>2. CASE End(j)
  BY <1>1, <1>2, EndKeeps, CountersType
<1>3. CASE Goto(j, "tell") /\ job[j].queue # <<>>
  <2> DEFINE r == [job[j] EXCEPT !.stage = "tell"]
  <2>1. WorkRecord(r) /\ r.monitor = job[j].monitor /\ r.stage = "tell"
    BY <1>1, <1>3, StageChanged
  <2>2. job' = [job EXCEPT ![j] = r] /\ UNCHANGED <<active, slots>>
    BY <1>3 DEF Goto
  <2> HIDE DEF r
  <2>3. (SlotIn(r) <=> HasSlot(j)) /\ ~OpenerIn(r)
    BY <1>1, <2>1 DEF SlotIn, HasSlot, OpenerIn
  <2> QED
    BY <1>1, <2>1, <2>2, <2>3, GoesOn
<1> QED
  BY <1>2, <1>3 DEF ReadBack

LEMMA TellKeeps ==
    ASSUME EngineInv, TableType, NEW j \in Jobs, Tell(j)
    PROVE  EngineInv'
<1>1. /\ job[j].stage = "tell" /\ job[j] # NoJob /\ WorkRecord(job[j])
      /\ UNCHANGED lastIncident /\ Goto(j, "persist")
  BY StagesWork DEF Tell, dbVars
<1> DEFINE r == [job[j] EXCEPT !.stage = "persist"]
<1>1a. job[j].queue # <<>>
  BY <1>1 DEF WorkRecord
<1>2. WorkRecord(r) /\ r.monitor = job[j].monitor /\ r.stage = "persist"
  BY <1>1, <1>1a, StageChanged
<1>3. job' = [job EXCEPT ![j] = r] /\ UNCHANGED <<active, slots>>
  BY <1>1 DEF Goto
<1> HIDE DEF r
<1>4. (SlotIn(r) <=> HasSlot(j)) /\ ~OpenerIn(r)
  BY <1>1, <1>2 DEF SlotIn, HasSlot, OpenerIn
<1> QED
  BY <1>1, <1>2, <1>3, <1>4, GoesOn

LEMMA PersistKeeps ==
    ASSUME EngineInv, TableType, NEW j \in Jobs, Persist(j)
    PROVE  EngineInv'
<1>1. /\ job[j].stage = "persist" /\ job[j] # NoJob /\ WorkRecord(job[j])
      /\ job[j].queue \in Seq(Notice) /\ UNCHANGED lastIncident
  BY StagesWork DEF Persist, dbVars, WorkRecord, JobType, Notice
<1>2. CASE End(j)
  BY <1>1, <1>2, EndKeeps, CountersType
<1>3. CASE Len(job[j].queue) > 1 /\ ~End(j)
  <2> DEFINE q == Tail(job[j].queue)
             r == [job[j] EXCEPT !.stage = "tell", !.queue = q]
  <2>1. q \in Seq(Notice) /\ q # <<>>
    BY <1>1, <1>3
  <2>2. job' = [job EXCEPT ![j] = r] /\ UNCHANGED <<active, slots>>
    BY <1>3 DEF Persist
  <2> HIDE DEF q
  <2>3. WorkRecord(r) /\ r.monitor = job[j].monitor /\ r.stage = "tell"
    BY <1>1, <2>1 DEF WorkRecord, JobType, Notice
  <2> HIDE DEF r
  <2>4. (SlotIn(r) <=> HasSlot(j)) /\ ~OpenerIn(r)
    BY <1>1, <2>3 DEF SlotIn, HasSlot, OpenerIn
  <2> QED
    BY <1>1, <2>2, <2>3, <2>4, GoesOn
<1> QED
  BY <1>2, <1>3 DEF Persist

\* Requests: what they begin with ...
LEMMA ToggleRecord ==
    ASSUME NEW m \in Monitors, NEW e \in BOOLEAN, NEW r,
           r = [NoJob EXCEPT !.op = "toggle", !.stage = "enable", !.monitor = m, !.enabled = e]
    PROVE  WorkRecord(r) /\ r.monitor = m /\ ~SlotIn(r) /\ ~OpenerIn(r) /\ r.stage = "enable"
BY NoJobType DEF WorkRecord, JobType, SlotIn, OpenerIn

LEMMA DeleteRecord ==
    ASSUME NEW m \in Monitors, NEW r,
           r = [NoJob EXCEPT !.op = "delete", !.stage = "delete", !.monitor = m]
    PROVE  WorkRecord(r) /\ r.monitor = m /\ ~SlotIn(r) /\ ~OpenerIn(r) /\ r.stage = "delete"
BY NoJobType DEF WorkRecord, JobType, SlotIn, OpenerIn

\* ... and how they end.  UpdateMonitor may go on to SetEnabled.
LEMMA MutationKeeps ==
    ASSUME EngineInv, TableType, NEW j \in Jobs,
           Update(j) \/ SetEnabled(j) \/ Delete(j) \/ MutationFails(j)
    PROVE  EngineInv'
<1>1. job[j].stage \in {"update", "enable", "delete"} /\ UNCHANGED lastIncident
  BY DEF Update, SetEnabled, Delete, MutationFails, dbVars
<1>2. job[j] # NoJob /\ WorkRecord(job[j])
  BY <1>1, StagesWork
<1>3. CASE End(j)
  BY <1>1, <1>2, <1>3, EndKeeps, CountersType
<1>4. CASE Update(j) /\ Goto(j, "enable") /\ job[j].enabled # Null
  <2> DEFINE r == [job[j] EXCEPT !.stage = "enable"]
  <2>1. job[j] \in JobType /\ job[j].enabled \in BOOLEAN /\ job[j].monitor \in Monitors
    BY <1>2, <1>4 DEF WorkRecord, JobType
  <2>2. r \in JobType /\ r.enabled = job[j].enabled /\ r.monitor = job[j].monitor /\ r.stage = "enable"
    BY <2>1 DEF JobType
  <2>3. job' = [job EXCEPT ![j] = r] /\ UNCHANGED <<active, slots>>
    BY <1>4 DEF Goto
  <2> HIDE DEF r
  <2>4. WorkRecord(r)
    BY <2>1, <2>2 DEF WorkRecord
  <2>5. (SlotIn(r) <=> HasSlot(j)) /\ ~OpenerIn(r)
    BY <1>1, <2>2 DEF SlotIn, HasSlot, OpenerIn
  <2> QED
    BY <1>1, <1>2, <2>2, <2>3, <2>4, <2>5, GoesOn
<1> QED
  BY <1>3, <1>4 DEF Update, SetEnabled, Delete, MutationFails

\* The caller of a check gives up; its check goes on until it notices.
LEMMA GiveUpKeeps ==
    ASSUME EngineInv, TableType, NEW j \in Jobs, GiveUp(j)
    PROVE  EngineInv'
<1> DEFINE r == [job[j] EXCEPT !.cancelled = TRUE]
<1>1. /\ job[j].stage \in {"load", "slot", "probe", "apply", "read"}
      /\ job' = [job EXCEPT ![j] = r] /\ UNCHANGED <<active, slots, lastIncident>>
  BY DEF GiveUp, dbVars
<1>2. job[j] # NoJob /\ WorkRecord(job[j])
  BY <1>1, StagesWork
<1>3. /\ r \in JobType /\ r.monitor = job[j].monitor /\ r.stage = job[j].stage
      /\ r.op = job[j].op /\ r.cancelled /\ r.queue = job[j].queue
  BY <1>2 DEF WorkRecord, JobType
<1> HIDE DEF r
<1>4. WorkRecord(r)
  BY <1>1, <1>2, <1>3 DEF WorkRecord
<1>5. (SlotIn(r) <=> HasSlot(j)) /\ ~OpenerIn(r)
  BY <1>3 DEF SlotIn, HasSlot, OpenerIn
<1> QED
  BY <1>1, <1>2, <1>3, <1>4, <1>5, GoesOn

\* A goroutine of a sweep, or a request, begins.
LEMMA BeginKeeps ==
    ASSUME EngineInv, TableType, RestType,
           \/ \E m \in Monitors : SweepTakes(m)
           \/ \E c \in Callers, m \in Monitors :
                \/ CheckNow(c, m) \/ BeginDelete(c, m)
                \/ \E enabled \in BOOLEAN : BeginToggle(c, m, enabled)
                \/ \E p \in Plans, enabled \in BOOLEAN \cup {Null} : BeginPut(c, m, p, enabled)
    PROVE  EngineInv'
<1>1. UNCHANGED lastIncident
  BY DEF SweepTakes, CheckNow, BeginDelete, BeginToggle, BeginPut, BeginMutation, dbVars
<1>2. /\ \A m \in Monitors : <<m, "sweep">> \in Jobs
      /\ \A c \in Callers : <<0, c>> \in Jobs
  BY DEF Jobs, Sweepers
<1>3. ASSUME NEW m \in Monitors, SweepTakes(m)
      PROVE  EngineInv'
  <2>1. CASE IsFree(m)
    <3> DEFINE r == Check("sweep", m, "slot")
    <3>1. Start(<<m, "sweep">>, m, r)
      BY <1>3, <2>1 DEF SweepTakes
    <3>2. WorkRecord(r) /\ r.monitor = m /\ r.stage = "slot"
      BY CheckRecord
    <3> HIDE DEF r
    <3>3. ~SlotIn(r) /\ ~OpenerIn(r)
      BY <3>2 DEF SlotIn, OpenerIn
    <3> QED
      BY <1>1, <1>2, <2>1, <3>1, <3>2, <3>3, StartKeeps
  <2>2. CASE ~IsFree(m)
    <3>1. UNCHANGED engineVars /\ UNCHANGED lastIncident
      BY <1>1, <1>3, <2>2 DEF SweepTakes
    <3> QED
      BY <3>1 DEF EngineInv, EngineType, StagesMean, RoomLeft, Exact, engineVars, HasSlot, MayOpen
  <2> QED
    BY <2>1, <2>2
<1>4. ASSUME NEW c \in Callers, NEW m \in Monitors, CheckNow(c, m)
      PROVE  EngineInv'
  <2> DEFINE r == Check("now", m, "load")
  <2>1. Start(<<0, c>>, m, r) /\ IsFree(m)
    BY <1>4 DEF CheckNow
  <2>2. WorkRecord(r) /\ r.monitor = m /\ r.stage = "load" /\ r.op = "now"
    BY CheckRecord
  <2> HIDE DEF r
  <2>3. ~SlotIn(r) /\ ~OpenerIn(r)
    BY <2>2 DEF SlotIn, OpenerIn
  <2> QED
    BY <1>1, <1>2, <2>1, <2>2, <2>3, StartKeeps
<1>5. ASSUME NEW c \in Callers, NEW m \in Monitors, NEW r, BeginMutation(c, m, r),
             WorkRecord(r), r.monitor = m, ~SlotIn(r), ~OpenerIn(r)
      PROVE  EngineInv'
  <2>1. Start(<<0, c>>, m, r) /\ IsFree(m)
    BY <1>5 DEF BeginMutation, MayMutate
  <2> QED
    BY <1>1, <1>2, <1>5, <2>1, StartKeeps
<1>6. ASSUME NEW c \in Callers, NEW m \in Monitors, BeginDelete(c, m)
      PROVE  EngineInv'
  <2> DEFINE r == [NoJob EXCEPT !.op = "delete", !.stage = "delete", !.monitor = m]
  <2>1. BeginMutation(c, m, r)
    BY <1>6 DEF BeginDelete
  <2>2. WorkRecord(r) /\ r.monitor = m /\ ~SlotIn(r) /\ ~OpenerIn(r)
    BY DeleteRecord
  <2> HIDE DEF r
  <2> QED
    BY <1>5, <2>1, <2>2
<1>7. ASSUME NEW c \in Callers, NEW m \in Monitors, NEW e \in BOOLEAN, BeginToggle(c, m, e)
      PROVE  EngineInv'
  <2> DEFINE r == [NoJob EXCEPT !.op = "toggle", !.stage = "enable", !.monitor = m, !.enabled = e]
  <2>1. BeginMutation(c, m, r)
    BY <1>7 DEF BeginToggle
  <2>2. WorkRecord(r) /\ r.monitor = m /\ ~SlotIn(r) /\ ~OpenerIn(r)
    BY ToggleRecord
  <2> HIDE DEF r
  <2> QED
    BY <1>5, <2>1, <2>2
<1>8. ASSUME NEW c \in Callers, NEW m \in Monitors, NEW p \in Plans,
             NEW e \in BOOLEAN \cup {Null}, BeginPut(c, m, p, e)
      PROVE  EngineInv'
  <2> DEFINE r == [NoJob EXCEPT !.op = "put", !.stage = "update", !.monitor = m,
                                !.plan = p, !.enabled = e]
  <2>1. BeginMutation(c, m, r)
    BY <1>8 DEF BeginPut
  <2>2. WorkRecord(r) /\ r.monitor = m /\ ~SlotIn(r) /\ ~OpenerIn(r)
    BY <1>8, NoJobType DEF WorkRecord, JobType, SlotIn, OpenerIn
  <2> HIDE DEF r
  <2> QED
    BY <1>5, <2>1, <2>2
<1> QED
  BY <1>3, <1>4, <1>6, <1>7, <1>8

\* The tables and the rest have their types after every step.
LEMMA StoresTable ==
    ASSUME EngineInv, TableType, NEW j \in Jobs, Stores(j)
    PROVE  TableType'
<1> DEFINE m == job[j].monitor
           o == job[j].outcome
           new == lastIncident + 1
           row == [monitors[m] EXCEPT !.status = Status(o), !.failures = Failures(m, o),
                                      !.checked = job[j].at]
<1>1. /\ job[j].stage = "apply" /\ ~job[j].cancelled /\ monitors[m] # NoRow
      /\ ApplyProbe(m, o, job[j].at)
  BY DEF Stores
<1>2. /\ m \in Monitors /\ o \in Outcomes \cup {"none", "down"} /\ job[j].at \in 0..MaxTime
  BY <1>1, StagesWork DEF WorkRecord, JobType
<1>3. monitors[m] \in Monitor
  BY <1>1, <1>2, RowType
<1>4. Opens(m, o) # {} => new \in Incidents
  BY <1>1, RoomToOpen
<1>5. row \in Monitor
  <2>1. Status(o) \in {"up", "warning", "down"} /\ Failures(m, o) \in Nat
    BY <1>3 DEF Status, Failures, Monitor
  <2> QED
    BY <1>2, <1>3, <2>1 DEF Monitor
<1>6. monitors' = [monitors EXCEPT ![m] = row]
  BY <1>1 DEF ApplyProbe
<1>7. monitors' \in [Monitors -> Monitor \cup {NoRow}]
  BY <1>2, <1>5, <1>6 DEF TableType
<1>8. latest' = [latest EXCEPT ![m] = o] /\ lastMonitor' = lastMonitor
  BY <1>1 DEF ApplyProbe
<1>9. latest' \in [Monitors -> Outcomes \cup {"none", "down"}] /\ lastMonitor' \in 0..MaxMonitors
  BY <1>2, <1>8 DEF TableType
<1>10. lastIncident' \in 0..MaxIncidents
  BY <1>1, <1>4, CountersType, BoundsAssumption DEF ApplyProbe, TableType, Incidents
<1>11. /\ incidents' = [i \in Incidents |->
              IF i \in ClosedBy(m, o) THEN [incidents[i] EXCEPT !.active = FALSE]
              ELSE IF Opens(m, o) # {} /\ i = new
                   THEN [monitor |-> m, kind |-> CHOOSE k \in Opens(m, o) : TRUE, active |-> TRUE]
                   ELSE incidents[i]]
       /\ about' = [i \in Incidents |->
              IF Opens(m, o) # {} /\ i = new THEN monitors[m].plan ELSE about[i]]
  BY <1>1 DEF ApplyProbe
<1>12. \A i \in ClosedBy(m, o) : incidents[i] \in Incident
  BY DEF ClosedBy, ActiveOf, TableType
<1>13. Opens(m, o) # {} => (CHOOSE k \in Opens(m, o) : TRUE) \in Kinds
  BY DEF Opens
<1>14. incidents' \in [Incidents -> Incident \cup {NoRow}]
  <2> SUFFICES ASSUME NEW i \in Incidents PROVE incidents'[i] \in Incident \cup {NoRow}
    BY <1>11
  <2>1. CASE i \in ClosedBy(m, o)
    <3>1. incidents'[i] = [incidents[i] EXCEPT !.active = FALSE]
      BY <1>11, <2>1
    <3> QED
      BY <1>12, <2>1, <3>1 DEF Incident
  <2>2. CASE i \notin ClosedBy(m, o) /\ Opens(m, o) # {} /\ i = new
    <3>1. incidents'[i] = [monitor |-> m, kind |-> CHOOSE k \in Opens(m, o) : TRUE, active |-> TRUE]
      BY <1>11, <2>2
    <3> QED
      BY <1>2, <1>13, <2>2, <3>1 DEF Incident
  <2>3. CASE i \notin ClosedBy(m, o) /\ ~(Opens(m, o) # {} /\ i = new)
    <3>1. incidents'[i] = incidents[i]
      BY <1>11, <2>3
    <3> QED
      BY <3>1 DEF TableType
  <2> QED
    BY <2>1, <2>2, <2>3
<1>15. about' \in [Incidents -> Plans \cup {Null}]
  BY <1>3, <1>11 DEF TableType, Monitor
<1> QED
  BY <1>7, <1>9, <1>10, <1>14, <1>15 DEF TableType

\* The incidents of a monitor that is edited or paused end.
LEMMA ResolvedType ==
    ASSUME TableType, NEW m
    PROVE  /\ Resolved(m) \in [Incidents -> Incident \cup {NoRow}]
           /\ \A i \in Incidents :
                 Resolved(m)[i] = IF incidents[i] # NoRow /\ incidents[i].monitor = m
                                  THEN [incidents[i] EXCEPT !.active = FALSE] ELSE incidents[i]
<1>1. \A i \in Incidents :
         Resolved(m)[i] = IF incidents[i] # NoRow /\ incidents[i].monitor = m
                          THEN [incidents[i] EXCEPT !.active = FALSE] ELSE incidents[i]
  BY DEF Resolved
<1>2. \A i \in Incidents : incidents[i] # NoRow =>
         [incidents[i] EXCEPT !.active = FALSE] \in Incident
  BY DEF TableType, Incident
<1>3. \A i \in Incidents : Resolved(m)[i] \in Incident \cup {NoRow}
  BY <1>1, <1>2 DEF TableType
<1> QED
  BY <1>1, <1>3 DEF Resolved

LEMMA MutationTable ==
    ASSUME EngineInv, TableType, NEW j \in Jobs, Update(j) \/ SetEnabled(j) \/ Delete(j)
    PROVE  TableType'
<1> DEFINE m == job[j].monitor
<1>1. job[j].stage \in {"update", "enable", "delete"}
  BY DEF Update, SetEnabled, Delete
<1>2. WorkRecord(job[j]) /\ m \in Monitors
  BY <1>1, StagesWork DEF WorkRecord
<1>3. CASE Update(j)
  <2>1. job[j].plan \in Plans /\ monitors[m] \in Monitor
    BY <1>2, <1>3, RowType DEF Update, WorkRecord
  <2>2. [monitors[m] EXCEPT !.plan = job[j].plan, !.status = "pending", !.failures = 0,
                            !.checked = Null] \in Monitor
    BY <2>1 DEF Monitor
  <2>3. monitors' \in [Monitors -> Monitor \cup {NoRow}]
    BY <1>2, <1>3, <2>2 DEF Update, TableType
  <2>4. incidents' \in [Incidents -> Incident \cup {NoRow}]
    BY <1>3, ResolvedType DEF Update, ResolvedByEdit, TableType
  <2> QED
    BY <1>3, <2>3, <2>4 DEF Update, TableType
<1>4. CASE SetEnabled(j)
  <2>1. monitors[m] \in Monitor
    BY <1>2, <1>4, RowType DEF SetEnabled
  <2>2. /\ [monitors[m] EXCEPT !.enabled = TRUE, !.status = "pending", !.failures = 0,
                               !.checked = Null] \in Monitor
        /\ [monitors[m] EXCEPT !.enabled = FALSE] \in Monitor
    BY <2>1 DEF Monitor
  <2>3. monitors' \in [Monitors -> Monitor \cup {NoRow}]
    BY <1>2, <1>4, <2>2 DEF SetEnabled, TableType
  <2>4. incidents' \in [Incidents -> Incident \cup {NoRow}]
    BY <1>4, ResolvedType DEF SetEnabled, TableType
  <2> QED
    BY <1>4, <2>3, <2>4 DEF SetEnabled, TableType
<1>5. CASE Delete(j)
  BY <1>2, <1>5 DEF Delete, TableType
<1> QED
  BY <1>3, <1>4, <1>5

LEMMA CreateTable ==
    ASSUME TableType, NEW new \in Created, CreateMonitor(new)
    PROVE  TableType'
<1> DEFINE row == [plan |-> new.plan, enabled |-> new.enabled, status |-> "pending",
                   failures |-> 0, checked |-> Null]
<1>1. row \in Monitor
  BY CreatedAssumption DEF Monitor
<1>2. lastMonitor' = lastMonitor + 1 /\ lastMonitor' \in 0..MaxMonitors
  BY CountersType, BoundsAssumption DEF CreateMonitor
<1>3. monitors' = [monitors EXCEPT ![lastMonitor'] = row]
  BY DEF CreateMonitor
<1> HIDE DEF row
<1>4. monitors' \in [Monitors -> Monitor \cup {NoRow}]
  BY <1>1, <1>3 DEF TableType
<1> QED
  BY <1>2, <1>4 DEF CreateMonitor, TableType

\* What Tell counts: the head of the queue
LEMMA Heads ==
    ASSUME EngineInv, NEW j \in Jobs, job[j].stage = "tell"
    PROVE  /\ job[j].queue \in Seq(Notice) /\ Len(job[j].queue) >= 1
           /\ Head(job[j].queue) = job[j].queue[1] /\ Head(job[j].queue) \in Notice
<1>1. job[j].queue \in Seq(Notice) /\ job[j].queue # <<>>
  BY StagesWork DEF WorkRecord, JobType, Notice
<1> QED
  BY <1>1

\* Steps that leave the tables, or the engine, alone
LEMMA TableSame == TableType /\ UNCHANGED dbVars => TableType'
BY DEF TableType, dbVars

LEMMA EngineSame == EngineInv /\ UNCHANGED engineVars /\ UNCHANGED lastIncident => EngineInv'
BY DEF EngineInv, EngineType, StagesMean, RoomLeft, Exact, engineVars, HasSlot, MayOpen

\* A round of deliveries is counted for the notice at the head of the queue.
LEMMA ToldAfter ==
    ASSUME EngineInv, RestType, NEW j \in Jobs, Tell(j)
    PROVE  /\ told' \in [Notice -> Nat]
           /\ \A n \in Notice : told'[n] = IF n = job[j].queue[1] THEN told[n] + 1 ELSE told[n]
<1>1. Head(job[j].queue) = job[j].queue[1] /\ Head(job[j].queue) \in Notice
  BY Heads DEF Tell
<1>2. told' = [told EXCEPT ![Head(job[j].queue)] = @ + 1]
  BY DEF Tell
<1> QED
  BY <1>1, <1>2 DEF RestType

\* A goroutine or request goes on: the engine
LEMMA WorkKeeps ==
    ASSUME EngineInv, TableType, RestType, NEW j \in Jobs, Work(j)
    PROVE  EngineInv' /\ TableType' /\ RestType'
<1>1. faults' \in 0..MaxFaults
  <2>1. UNCHANGED faults \/ Fault
    <3>1. CASE AcquireSlot(j) \/ AbandonSlot(j) \/ Probe(j) \/ Tell(j)
      BY <3>1 DEF AcquireSlot, AbandonSlot, Probe, Tell
    <3>2. CASE Update(j) \/ SetEnabled(j) \/ Delete(j) \/ MutationFails(j)
      BY <3>2 DEF Update, SetEnabled, Delete, MutationFails
    <3>3. CASE Load(j) \/ ReadBack(j)
      BY <3>3 DEF Load, ReadBack, GivesUp
    <3>4. CASE Apply(j)
      BY <3>4 DEF Apply, GivesUp
    <3>5. CASE Persist(j)
      BY <3>5 DEF Persist
    <3> QED
      BY <3>1, <3>2, <3>3, <3>4, <3>5 DEF Work
  <2> QED
    BY <2>1, BoundsAssumption DEF RestType, Fault
<1>2. UNCHANGED <<up, due, now, requests>>
  BY DEF Work, AcquireSlot, AbandonSlot, Load, Probe, Apply, ReadBack, Tell, Persist, Update,
         SetEnabled, Delete, MutationFails
<1>3. told' \in [Notice -> Nat]
  <2>1. CASE Tell(j)
    BY <2>1, ToldAfter
  <2>2. CASE ~Tell(j)
    BY <2>2 DEF Work, AcquireSlot, AbandonSlot, Load, Probe, Apply, ReadBack, Persist, Update,
                SetEnabled, Delete, MutationFails, RestType
  <2> QED
    BY <2>1, <2>2
<1>4. RestType'
  BY <1>1, <1>2, <1>3 DEF RestType
<1>5. CASE AcquireSlot(j)
  BY <1>5, AcquireKeeps, TableSame, <1>4 DEF AcquireSlot
<1>6. CASE AbandonSlot(j)
  <2>1. job[j] # NoJob /\ End(j) /\ UNCHANGED dbVars
    BY <1>6, StagesWork DEF AbandonSlot
  <2>2. UNCHANGED lastIncident
    BY <2>1 DEF dbVars
  <2> QED
    BY <1>4, <2>1, <2>2, EndKeeps, CountersType, TableSame
<1>7. CASE Load(j)
  BY <1>4, <1>7, LoadKeeps, TableSame DEF Load
<1>8. CASE Probe(j)
  BY <1>4, <1>8, ProbeKeeps, TableSame DEF Probe
<1>9. CASE Apply(j)
  <2>1. Stores(j) \/ UNCHANGED dbVars
    BY <1>9 DEF Apply, Stores
  <2> QED
    BY <1>4, <1>9, <2>1, ApplyKeeps, StoresTable, TableSame
<1>10. CASE ReadBack(j)
  BY <1>4, <1>10, ReadBackKeeps, TableSame DEF ReadBack
<1>11. CASE Tell(j)
  BY <1>4, <1>11, TellKeeps, TableSame DEF Tell
<1>12. CASE Persist(j)
  BY <1>4, <1>12, PersistKeeps, TableSame DEF Persist
<1>13. CASE Update(j) \/ SetEnabled(j) \/ Delete(j)
  BY <1>4, <1>13, MutationKeeps, MutationTable
<1>14. CASE MutationFails(j)
  BY <1>4, <1>14, MutationKeeps, TableSame DEF MutationFails
<1> QED
  BY <1>5, <1>6, <1>7, <1>8, <1>9, <1>10, <1>11, <1>12, <1>13, <1>14 DEF Work

\* The process ends: nothing is held any more.
LEMMA CrashKeeps ==
    ASSUME EngineInv, TableType, RestType, Crash
    PROVE  EngineInv' /\ TableType' /\ RestType'
<1>1. /\ UNCHANGED dbVars /\ UNCHANGED <<told, now, requests>>
      /\ up' = FALSE /\ due' = {} /\ active' = {} /\ slots' = 0 /\ job' = [j \in Jobs |-> NoJob]
      /\ faults' = faults + 1 /\ faults < MaxFaults
  BY DEF Crash, Fault
<1>2. TableType' /\ RestType'
  <2>1. up' \in BOOLEAN
    BY <1>1
  <2>2. faults' \in 0..MaxFaults
    BY <1>1, BoundsAssumption DEF RestType
  <2> QED
    BY <1>1, <2>1, <2>2, TableSame DEF RestType
<1>3. /\ \A j \in Jobs : job'[j] = NoJob
      /\ {j \in Jobs : HasSlot(j)}' = {} /\ {j \in Jobs : MayOpen(j)}' = {}
  BY <1>1 DEF HasSlot, MayOpen, NoJob
<1>4. EngineType'
  BY <1>1, <1>3, NoJobType, BoundsAssumption DEF EngineType
<1>5. StagesMean'
  BY <1>3, NoJobType DEF StagesMean
<1>6. RoomLeft'
  <2> DEFINE O == {j \in Jobs : MayOpen(j)}
  <2>1. Cardinality(O') = 0
    BY <1>3, FS_EmptySet
  <2>2. lastIncident' = lastIncident /\ lastIncident \in Nat /\ lastIncident <= MaxIncidents
    BY <1>1, CountersType DEF TableType, dbVars
  <2>3. lastIncident' + 0 <= MaxIncidents
    BY <2>2
  <2>4. lastIncident' + Cardinality(O') <= MaxIncidents
    BY <2>1, <2>3
  <2> QED
    BY <2>4 DEF RoomLeft
<1>7. Exact'
  <2>1. Cardinality({j \in Jobs : HasSlot(j)})' = 0
    BY <1>3, FS_EmptySet
  <2> QED
    BY <1>1, <1>3, <2>1 DEF Exact
<1> QED
  BY <1>2, <1>4, <1>5, <1>6, <1>7 DEF EngineInv

\* The other steps are the sweep's and the requests' beginnings, the clock and the start.
LEMMA OthersKeep ==
    ASSUME EngineInv, TableType, RestType,
           \/ BeginSweep \/ \E m \in Monitors : SweepTakes(m)
           \/ \E j \in Jobs : GiveUp(j)
           \/ Ask \/ Restart \/ Tick \/ UNCHANGED vars
    PROVE  EngineInv' /\ TableType' /\ RestType'
<1>1. CASE BeginSweep \/ Restart \/ Tick \/ UNCHANGED vars
  <2>1. UNCHANGED dbVars /\ UNCHANGED engineVars
    BY <1>1 DEF BeginSweep, Restart, Tick, vars
  <2>2. UNCHANGED lastIncident
    BY <2>1 DEF dbVars
  <2>3. RestType'
    <3>1. CASE BeginSweep
      BY <3>1 DEF BeginSweep, RestType
    <3>2. CASE Restart
      <4>1. up' \in BOOLEAN /\ UNCHANGED <<due, told, now, requests, faults>>
        BY <3>2 DEF Restart
      <4> QED
        BY <4>1 DEF RestType
    <3>3. CASE Tick
      <4>1. now' \in 0..MaxTime /\ UNCHANGED <<up, due, told, requests, faults>>
        BY <3>3, BoundsAssumption DEF Tick, RestType
      <4> QED
        BY <4>1 DEF RestType
    <3>4. CASE UNCHANGED vars
      BY <3>4 DEF vars, RestType
    <3> QED
      BY <1>1, <3>1, <3>2, <3>3, <3>4
  <2> QED
    BY <2>1, <2>2, <2>3, EngineSame, TableSame
<1>2. ASSUME NEW m \in Monitors, SweepTakes(m)
      PROVE  EngineInv' /\ TableType' /\ RestType'
  <2>1. UNCHANGED dbVars /\ RestType'
    BY <1>2 DEF SweepTakes, RestType
  <2> QED
    BY <1>2, <2>1, BeginKeeps, TableSame
<1>3. ASSUME NEW j \in Jobs, GiveUp(j)
      PROVE  EngineInv' /\ TableType' /\ RestType'
  <2>1. UNCHANGED dbVars /\ RestType'
    BY <1>3, BoundsAssumption DEF GiveUp, Fault, RestType
  <2> QED
    BY <1>3, <2>1, GiveUpKeeps, TableSame
<1>4. ASSUME NEW new \in Created, CreateMonitor(new)
      PROVE  EngineInv' /\ TableType' /\ RestType'
  <2>1. UNCHANGED engineVars /\ UNCHANGED lastIncident /\ RestType'
    BY <1>4 DEF CreateMonitor, RestType
  <2> QED
    BY <1>4, <2>1, EngineSame, CreateTable
<1>5. ASSUME NEW c \in Callers, NEW m \in Monitors,
             \/ CheckNow(c, m) \/ BeginDelete(c, m)
             \/ \E enabled \in BOOLEAN : BeginToggle(c, m, enabled)
             \/ \E p \in Plans, enabled \in BOOLEAN \cup {Null} : BeginPut(c, m, p, enabled)
      PROVE  EngineInv' /\ TableType' /\ RestType'
  <2>1. /\ UNCHANGED dbVars /\ UNCHANGED <<up, due, told, now, faults>>
        /\ requests < MaxRequests /\ requests' = requests + 1
    BY <1>5 DEF CheckNow, BeginDelete, BeginToggle, BeginPut, BeginMutation
  <2>2. RestType'
    BY <2>1, BoundsAssumption DEF RestType
  <2> QED
    BY <1>5, <2>1, <2>2, BeginKeeps, TableSame
<1> QED
  BY <1>1, <1>2, <1>3, <1>4, <1>5 DEF Ask

LEMMA InitEntries == Init => EntriesInv
<1> SUFFICES ASSUME Init PROVE EngineInv /\ TableType /\ RestType
  BY Parts
<1>1. \A j \in Jobs : job[j] = NoJob
  BY DEF Init
<1>2. {j \in Jobs : HasSlot(j)} = {} /\ {j \in Jobs : MayOpen(j)} = {}
  BY <1>1 DEF HasSlot, MayOpen, NoJob
<1>3. EngineType
  BY <1>1, NoJobType, BoundsAssumption DEF Init, EngineType
<1>4. StagesMean
  BY <1>1, NoJobType DEF StagesMean
<1>5. RoomLeft
  BY <1>2, FS_EmptySet, BoundsAssumption DEF RoomLeft, Init
<1>6. Exact
  BY <1>1, <1>2, FS_EmptySet DEF Exact, Init
<1>7. TableType /\ RestType
  BY BoundsAssumption DEF Init, TableType, RestType
<1> QED
  BY <1>3, <1>4, <1>5, <1>6, <1>7 DEF EngineInv

LEMMA StepEntries == EntriesInv /\ [Next]_vars => EntriesInv'
<1> SUFFICES ASSUME EngineInv, TableType, RestType, [Next]_vars
             PROVE  EngineInv' /\ TableType' /\ RestType'
  <2>1. EntriesInv' <=> EngineInv' /\ TableType' /\ RestType'
    BY DEF EntriesInv, EntriesExact, EngineInv, Exact, TypeOK, EngineType, TableType, RestType
  <2> QED
    BY <2>1, Parts
<1>1. \/ \E j \in Jobs : Work(j)
      \/ Crash
      \/ BeginSweep \/ \E m \in Monitors : SweepTakes(m)
      \/ \E j \in Jobs : GiveUp(j)
      \/ Ask \/ Restart \/ Tick \/ UNCHANGED vars
  BY DEF Next
<1> QED
  BY <1>1, WorkKeeps, CrashKeeps, OthersKeep

\* Engine.active and the semaphore hold exactly what the jobs at work have taken, one job per
\* monitor, by whatever path a check, a mutation or the process ends.
THEOREM EntriesCorrect == Spec => []EntriesExact
<1>1. EntriesInv => EntriesExact
  BY DEF EntriesInv
<1> QED
  BY <1>1, InitEntries, StepEntries, PTL DEF Spec

(***************************************************************************)
(* What a check relies on, and the open incidents                          *)
(***************************************************************************)

\* What job j will still tell, but for the first d entries of its queue, it was to tell before.
AwaitsLess ==
    \A j \in Jobs : \E d \in {0, 1} : \A k \in Nat :
        Awaits(j, k)' => /\ Awaits(j, k + d) /\ job'[j].queue[k] = job[j].queue[k + d]
                         /\ job'[j].monitor = job[j].monitor

\* Who probes has just read the monitor, or goes on with what it had read.
PlanRead(r) ==
    /\ monitors[r.monitor] # NoRow /\ monitors[r.monitor].enabled
    /\ r.plan = monitors[r.monitor].plan

LoadedIn(r) == \/ r.stage \in {"probe", "apply"}
               \/ r.op # "sweep" /\ r.stage = "slot"

ProbesFollow ==
    \A j \in Jobs : LoadedIn(job'[j]) =>
        \/ PlanRead(job'[j])
        \/ LoadedIn(job[j]) /\ job'[j].monitor = job[j].monitor /\ job'[j].plan = job[j].plan

\* Awaits of a record
Tells(r, k) ==
    /\ k \in 1..Len(r.queue)
    /\ \/ r.stage \in {"read", "tell"}
       \/ r.stage = "persist" /\ k > 1

LEMMA AwaitsTells ==
    /\ \A j \in Jobs, k \in Nat : Awaits(j, k) <=> Tells(job[j], k)
    /\ \A j \in Jobs, k \in Nat : Awaits(j, k)' <=> Tells(job'[j], k)
    /\ \A j \in Jobs : Loaded(j) <=> LoadedIn(job[j])
    /\ \A j \in Jobs : Loaded(j)' <=> LoadedIn(job'[j])
BY DEF Awaits, Tells, Loaded, LoadedIn

\* One job changes.
LEMMA OneJobQuiet ==
    ASSUME EngineInv, NEW j \in Jobs, NEW r \in JobType, NEW d \in {0, 1},
           job' = [job EXCEPT ![j] = r],
           LoadedIn(r) => \/ PlanRead(r)
                          \/ LoadedIn(job[j]) /\ r.monitor = job[j].monitor /\ r.plan = job[j].plan,
           \A k \in Nat : Tells(r, k) =>
               /\ Tells(job[j], k + d) /\ r.queue[k] = job[j].queue[k + d]
               /\ r.monitor = job[j].monitor
    PROVE  AwaitsLess /\ ProbesFollow
<1>1. \A i \in Jobs : job'[i] = IF i = j THEN r ELSE job[i]
  BY DEF EngineInv, EngineType
<1>2. ProbesFollow
  BY <1>1 DEF ProbesFollow
<1>3. AwaitsLess
  <2> SUFFICES ASSUME NEW i \in Jobs
               PROVE  \E e \in {0, 1} : \A k \in Nat : Tells(job'[i], k) =>
                          /\ Tells(job[i], k + e) /\ job'[i].queue[k] = job[i].queue[k + e]
                          /\ job'[i].monitor = job[i].monitor
    BY AwaitsTells DEF AwaitsLess
  <2>1. CASE i = j
    BY <1>1, <2>1
  <2>2. CASE i # j
    <3>1. \A k \in Nat : k + 0 = k
      OBVIOUS
    <3> QED
      BY <1>1, <2>2, <3>1
  <2> QED
    BY <2>1, <2>2
<1> QED
  BY <1>2, <1>3

\* A job that is over, or has nothing to tell and nothing loaded
LEMMA SilentQuiet ==
    ASSUME EngineInv, NEW j \in Jobs, NEW r \in JobType, job' = [job EXCEPT ![j] = r],
           r.stage \notin {"probe", "apply", "read", "tell", "persist"},
           r.stage = "slot" => r.op = "sweep"
    PROVE  AwaitsLess /\ ProbesFollow
<1>1. ~LoadedIn(r) /\ \A k \in Nat : ~Tells(r, k)
  BY DEF LoadedIn, Tells
<1> QED
  BY <1>1, OneJobQuiet

LEMMA EndQuiet ==
    ASSUME EngineInv, NEW j \in Jobs, End(j)
    PROVE  AwaitsLess /\ ProbesFollow
BY NoJobType, SilentQuiet DEF End

\* Nobody changes.
LEMMA IdleQuiet ==
    ASSUME EngineInv, UNCHANGED job
    PROVE  AwaitsLess /\ ProbesFollow
<1>1. \A k \in Nat : k + 0 = k
  OBVIOUS
<1> QED
  BY <1>1, AwaitsTells DEF AwaitsLess, ProbesFollow

\* Steps that change neither the tables nor what a job has read of them, nor add a notice
Quiet == UNCHANGED dbVars /\ AwaitsLess /\ ProbesFollow

LEMMA CheckQuiet ==
    ASSUME EngineInv, TableType, RestType, NEW j \in Jobs,
           AcquireSlot(j) \/ AbandonSlot(j) \/ Load(j) \/ Probe(j) \/ GiveUp(j)
    PROVE  Quiet
<1>1. UNCHANGED dbVars
  BY DEF AcquireSlot, AbandonSlot, Load, Probe, GiveUp
<1>2. job[j] # NoJob /\ WorkRecord(job[j]) /\ job[j] \in JobType
  BY StagesWork DEF AcquireSlot, AbandonSlot, Load, Probe, GiveUp, WorkRecord
<1>3. CASE End(j)
  BY <1>1, <1>3, EndQuiet DEF Quiet
<1>4. ASSUME NEW s \in {"load", "probe"}, job[j].stage = "slot",
             s = IF job[j].op = "sweep" THEN "load" ELSE "probe",
             job' = [job EXCEPT ![j].stage = s]
      PROVE  AwaitsLess /\ ProbesFollow
  <2> DEFINE r == [job[j] EXCEPT !.stage = s]
  <2>1. job' = [job EXCEPT ![j] = r]
    BY <1>4
  <2>2. /\ r \in JobType /\ r.monitor = job[j].monitor /\ r.plan = job[j].plan /\ r.stage = s
        /\ r.op = job[j].op
    BY <1>2 DEF JobType
  <2> HIDE DEF r
  <2>3. /\ LoadedIn(r) => LoadedIn(job[j])
        /\ \A k \in Nat : ~Tells(r, k)
    BY <1>4, <2>2 DEF LoadedIn, Tells
  <2> QED
    BY <2>1, <2>2, <2>3, OneJobQuiet
<1>5. CASE AcquireSlot(j)
  <2>1. (IF job[j].op = "sweep" THEN "load" ELSE "probe") \in {"load", "probe"}
    OBVIOUS
  <2> QED
    BY <1>1, <1>4, <1>5, <2>1 DEF AcquireSlot, Quiet
<1>6. CASE Load(j) /\ ~End(j)
  <2> DEFINE s == IF job[j].op = "sweep" THEN "probe" ELSE "slot"
             p == monitors[job[j].monitor].plan
             r == [job[j] EXCEPT !.stage = s, !.plan = p]
  <2>1. job' = [job EXCEPT ![j] = r] /\ MayCheck(j) /\ job[j].monitor \in Monitors
    BY <1>2, <1>6 DEF Load, WorkRecord
  <2>2. monitors[job[j].monitor] # NoRow /\ monitors[job[j].monitor].enabled /\ p \in Plans
    BY <2>1, RowType DEF MayCheck, StillDue, IsDue
  <2>3. s \in {"probe", "slot"}
    OBVIOUS
  <2> HIDE DEF s, p
  <2>4. r \in JobType /\ r.monitor = job[j].monitor /\ r.plan = p /\ r.stage = s
    BY <1>2, <2>2, <2>3 DEF JobType
  <2> HIDE DEF r
  <2>5. PlanRead(r) /\ \A k \in Nat : ~Tells(r, k)
    BY <2>2, <2>3, <2>4 DEF PlanRead, Tells, p
  <2> QED
    BY <1>1, <2>1, <2>4, <2>5, OneJobQuiet DEF Quiet
<1>7. CASE Probe(j)
  <2>1. PICK o \in IF job[j].cancelled THEN {"down"} ELSE Found :
            job' = [job EXCEPT ![j].stage = "apply", ![j].outcome = o, ![j].at = now]
    BY <1>7 DEF Probe
  <2> DEFINE r == [job[j] EXCEPT !.stage = "apply", !.outcome = o, !.at = now]
  <2>2. job' = [job EXCEPT ![j] = r] /\ job' \in [Jobs -> JobType]
    <3>1. EngineInv'
      BY <1>7, ProbeKeeps
    <3> QED
      BY <2>1, <3>1 DEF EngineInv, EngineType
  <2>3. r.monitor = job[j].monitor /\ r.plan = job[j].plan /\ r.stage = "apply"
    BY <1>2 DEF JobType
  <2> HIDE DEF r
  <2>4. r \in JobType
    <3>1. job'[j] = r
      BY <2>2 DEF EngineInv, EngineType
    <3> QED
      BY <2>2, <3>1
  <2>5. LoadedIn(job[j]) /\ \A k \in Nat : ~Tells(r, k)
    BY <1>7, <2>3 DEF LoadedIn, Tells, Probe
  <2> QED
    BY <1>1, <2>2, <2>3, <2>4, <2>5, OneJobQuiet DEF Quiet
<1>8. CASE GiveUp(j)
  <2> DEFINE r == [job[j] EXCEPT !.cancelled = TRUE]
  <2>1. job' = [job EXCEPT ![j] = r]
    BY <1>8 DEF GiveUp
  <2>2. /\ r \in JobType /\ r.monitor = job[j].monitor /\ r.plan = job[j].plan
        /\ r.stage = job[j].stage /\ r.op = job[j].op /\ r.queue = job[j].queue
    BY <1>2 DEF JobType
  <2> HIDE DEF r
  <2>3. /\ LoadedIn(r) => LoadedIn(job[j])
        /\ \A k \in Nat : Tells(r, k) => Tells(job[j], k + 0)
        /\ \A k \in Nat : r.queue[k] = job[j].queue[k + 0]
    BY <2>2 DEF LoadedIn, Tells
  <2> QED
    BY <1>1, <2>1, <2>2, <2>3, OneJobQuiet DEF Quiet
<1> QED
  BY <1>3, <1>5, <1>6, <1>7, <1>8 DEF AbandonSlot

LEMMA TellQuiet ==
    ASSUME EngineInv, TableType, NEW j \in Jobs,
           \/ ReadBack(j) \/ Tell(j) \/ Persist(j) \/ MutationFails(j) \/ Apply(j)
    PROVE  Stores(j) \/ Quiet
<1> SUFFICES ASSUME ~Stores(j) PROVE Quiet
  OBVIOUS
<1>1. UNCHANGED dbVars \/ Stores(j)
  BY DEF ReadBack, Tell, Persist, MutationFails, Apply, Stores
<1>2. job[j] # NoJob /\ WorkRecord(job[j]) /\ job[j] \in JobType /\ job[j].queue \in Seq(Notice)
  BY StagesWork DEF ReadBack, Tell, Persist, MutationFails, Apply, WorkRecord, JobType, Notice
<1>3. CASE End(j)
  BY <1>1, <1>3, EndQuiet DEF Quiet
<1>4. ASSUME NEW s \in {"tell", "persist"}, Goto(j, s),
             (job[j].stage = "read" /\ s = "tell") \/ job[j].stage = "tell"
      PROVE  Quiet
  <2> DEFINE r == [job[j] EXCEPT !.stage = s]
  <2>1. job' = [job EXCEPT ![j] = r]
    BY <1>4 DEF Goto
  <2>2. /\ r \in JobType /\ r.monitor = job[j].monitor /\ r.stage = s /\ r.queue = job[j].queue
    BY <1>2 DEF JobType
  <2> HIDE DEF r
  <2>3. /\ ~LoadedIn(r)
        /\ \A k \in Nat : Tells(r, k) => Tells(job[j], k + 0)
        /\ \A k \in Nat : r.queue[k] = job[j].queue[k + 0]
    BY <1>4, <2>2 DEF LoadedIn, Tells
  <2> QED
    BY <1>1, <2>1, <2>2, <2>3, OneJobQuiet DEF Quiet
<1>5. CASE Persist(j) /\ ~End(j)
  <2> DEFINE q == Tail(job[j].queue)
             r == [job[j] EXCEPT !.stage = "tell", !.queue = q]
  <2>1. job' = [job EXCEPT ![j] = r] /\ job[j].stage = "persist" /\ Len(job[j].queue) > 1
    BY <1>5 DEF Persist
  <2>2. /\ q \in Seq(Notice) /\ Len(q) = Len(job[j].queue) - 1 /\ Len(job[j].queue) \in Nat
        /\ \A k \in 1..Len(q) : q[k] = job[j].queue[k + 1]
    BY <1>2, <2>1
  <2> HIDE DEF q
  <2>3. r \in JobType /\ r.monitor = job[j].monitor /\ r.stage = "tell" /\ r.queue = q
    BY <1>2, <2>2 DEF JobType
  <2> HIDE DEF r
  <2>4. ~LoadedIn(r)
    BY <2>3 DEF LoadedIn
  <2>5. ASSUME NEW k \in Nat, Tells(r, k)
        PROVE  Tells(job[j], k + 1) /\ r.queue[k] = job[j].queue[k + 1]
    <3>1. k \in 1..Len(q)
      BY <2>3, <2>5 DEF Tells
    <3>2. k + 1 \in 1..Len(job[j].queue) /\ k + 1 > 1
      BY <2>2, <3>1
    <3> QED
      BY <2>1, <2>2, <2>3, <3>1, <3>2 DEF Tells
  <2>6. AwaitsLess /\ ProbesFollow
    <3>1. 1 \in {0, 1} /\ r \in JobType
      BY <2>3
    <3>2. \A k \in Nat : Tells(r, k) =>
             /\ Tells(job[j], k + 1) /\ r.queue[k] = job[j].queue[k + 1]
             /\ r.monitor = job[j].monitor
      BY <2>3, <2>5
    <3> QED
      BY <2>1, <2>4, <3>1, <3>2, OneJobQuiet
  <2> QED
    BY <1>1, <2>6 DEF Quiet
<1>6. CASE ReadBack(j)
  BY <1>3, <1>4, <1>6 DEF ReadBack
<1>7. CASE Tell(j)
  BY <1>4, <1>7 DEF Tell
<1>8. CASE Apply(j)
  BY <1>3, <1>8 DEF Apply, Stores
<1> QED
  BY <1>3, <1>5, <1>6, <1>7, <1>8 DEF MutationFails

\* Beginnings, the clock, the end and the start of the process
LEMMA OtherQuiet ==
    ASSUME EngineInv, TableType,
           \/ BeginSweep \/ Restart \/ Tick \/ UNCHANGED vars \/ Crash
           \/ \E m \in Monitors : SweepTakes(m)
           \/ \E c \in Callers, m \in Monitors :
                \/ CheckNow(c, m) \/ BeginDelete(c, m)
                \/ \E enabled \in BOOLEAN : BeginToggle(c, m, enabled)
                \/ \E p \in Plans, enabled \in BOOLEAN \cup {Null} : BeginPut(c, m, p, enabled)
    PROVE  Quiet
<1>1. CASE BeginSweep \/ Restart \/ Tick \/ UNCHANGED vars
  <2>1. UNCHANGED dbVars /\ UNCHANGED job
    BY <1>1 DEF BeginSweep, Restart, Tick, vars, engineVars
  <2> QED
    BY <2>1, IdleQuiet DEF Quiet
<1>2. CASE Crash
  <2>1. UNCHANGED dbVars /\ \A j \in Jobs : job'[j] = NoJob
    BY <1>2 DEF Crash
  <2>2. ~LoadedIn(NoJob) /\ \A k \in Nat : ~Tells(NoJob, k)
    BY NoJobType DEF LoadedIn, Tells
  <2> QED
    BY <2>1, <2>2, AwaitsTells DEF Quiet, AwaitsLess, ProbesFollow
<1>3. ASSUME NEW j \in Jobs, NEW m, NEW r, Start(j, m, r), WorkRecord(r),
             r.stage \notin {"probe", "apply", "read", "tell", "persist"},
             r.stage = "slot" => r.op = "sweep"
      PROVE  AwaitsLess /\ ProbesFollow
  BY <1>3, SilentQuiet DEF Start, WorkRecord
<1>4. /\ \A m \in Monitors : <<m, "sweep">> \in Jobs
      /\ \A c \in Callers : <<0, c>> \in Jobs
  BY DEF Jobs, Sweepers
<1>5. ASSUME NEW m \in Monitors, SweepTakes(m)
      PROVE  Quiet
  <2>1. UNCHANGED dbVars
    BY <1>5 DEF SweepTakes
  <2>2. CASE ~IsFree(m)
    <3>1. UNCHANGED job
      BY <1>5, <2>2 DEF SweepTakes, engineVars
    <3> QED
      BY <2>1, <3>1, IdleQuiet DEF Quiet
  <2>3. CASE IsFree(m)
    <3> DEFINE r == Check("sweep", m, "slot")
    <3>1. Start(<<m, "sweep">>, m, r)
      BY <1>5, <2>3 DEF SweepTakes
    <3>2. WorkRecord(r) /\ r.stage = "slot" /\ r.op = "sweep"
      BY CheckRecord
    <3> HIDE DEF r
    <3> QED
      BY <1>3, <1>4, <2>1, <3>1, <3>2 DEF Quiet
  <2> QED
    BY <2>2, <2>3
<1>6. ASSUME NEW c \in Callers, NEW m \in Monitors, CheckNow(c, m)
      PROVE  Quiet
  <2> DEFINE r == Check("now", m, "load")
  <2>1. Start(<<0, c>>, m, r) /\ UNCHANGED dbVars
    BY <1>6 DEF CheckNow
  <2>2. WorkRecord(r) /\ r.stage = "load"
    BY CheckRecord
  <2> HIDE DEF r
  <2> QED
    BY <1>3, <1>4, <2>1, <2>2 DEF Quiet
<1>7. ASSUME NEW c \in Callers, NEW m \in Monitors, NEW r, BeginMutation(c, m, r),
             WorkRecord(r), r.stage \in {"update", "enable", "delete"}
      PROVE  Quiet
  <2>1. Start(<<0, c>>, m, r) /\ UNCHANGED dbVars
    BY <1>7 DEF BeginMutation
  <2> QED
    BY <1>3, <1>4, <1>7, <2>1 DEF Quiet
<1>8. ASSUME NEW c \in Callers, NEW m \in Monitors, BeginDelete(c, m)
      PROVE  Quiet
  <2> DEFINE r == [NoJob EXCEPT !.op = "delete", !.stage = "delete", !.monitor = m]
  <2>1. BeginMutation(c, m, r)
    BY <1>8 DEF BeginDelete
  <2>2. WorkRecord(r) /\ r.stage = "delete"
    BY DeleteRecord
  <2> HIDE DEF r
  <2> QED
    BY <1>7, <2>1, <2>2
<1>9. ASSUME NEW c \in Callers, NEW m \in Monitors, NEW e \in BOOLEAN, BeginToggle(c, m, e)
      PROVE  Quiet
  <2> DEFINE r == [NoJob EXCEPT !.op = "toggle", !.stage = "enable", !.monitor = m, !.enabled = e]
  <2>1. BeginMutation(c, m, r)
    BY <1>9 DEF BeginToggle
  <2>2. WorkRecord(r) /\ r.stage = "enable"
    BY ToggleRecord
  <2> HIDE DEF r
  <2> QED
    BY <1>7, <2>1, <2>2
<1>10. ASSUME NEW c \in Callers, NEW m \in Monitors, NEW p \in Plans,
              NEW e \in BOOLEAN \cup {Null}, BeginPut(c, m, p, e)
       PROVE  Quiet
  <2> DEFINE r == [NoJob EXCEPT !.op = "put", !.stage = "update", !.monitor = m,
                                !.plan = p, !.enabled = e]
  <2>1. BeginMutation(c, m, r)
    BY <1>10 DEF BeginPut
  <2>2. WorkRecord(r) /\ r.stage = "update"
    BY <1>10, NoJobType DEF WorkRecord, JobType
  <2> HIDE DEF r
  <2> QED
    BY <1>7, <2>1, <2>2
<1> QED
  BY <1>1, <1>2, <1>5, <1>6, <1>8, <1>9, <1>10

\* The rows of the monitors stand as far as a check relies on them.
RowsStand ==
    \A m \in Monitors : monitors[m] # NoRow =>
        /\ monitors'[m] # NoRow
        /\ monitors'[m].enabled = monitors[m].enabled /\ monitors'[m].plan = monitors[m].plan

\* No incident begins.
IncidentsStand ==
    \A i \in Incidents : incidents'[i] # NoRow =>
        /\ incidents[i] # NoRow /\ incidents'[i].monitor = incidents[i].monitor
        /\ incidents'[i].active => incidents'[i] = incidents[i]

LEMMA StandProbes ==
    ASSUME CurrentInv, EntriesInv', RowsStand, ProbesFollow
    PROVE  ProbesEnabled'
<1> SUFFICES ASSUME NEW j \in Jobs, LoadedIn(job'[j])
             PROVE  /\ monitors'[job'[j].monitor] # NoRow /\ monitors'[job'[j].monitor].enabled
                    /\ job'[j].plan = monitors'[job'[j].monitor].plan
  BY AwaitsTells DEF ProbesEnabled
<1>1. job'[j].monitor \in Monitors
  <2>1. job'[j] # NoJob
    BY NoJobType DEF LoadedIn
  <2> QED
    BY <2>1 DEF EntriesInv, TypeOK
<1>2. CASE PlanRead(job'[j])
  BY <1>1, <1>2 DEF PlanRead, RowsStand
<1>3. CASE LoadedIn(job[j]) /\ job'[j].monitor = job[j].monitor /\ job'[j].plan = job[j].plan
  <2>1. /\ monitors[job[j].monitor] # NoRow /\ monitors[job[j].monitor].enabled
        /\ job[j].plan = monitors[job[j].monitor].plan
    BY <1>3, AwaitsTells DEF CurrentInv, ProbesEnabled
  <2> QED
    BY <1>1, <1>3, <2>1 DEF RowsStand
<1> QED
  BY <1>2, <1>3 DEF ProbesFollow

LEMMA QuietCurrent ==
    ASSUME CurrentInv, EntriesInv', Quiet
    PROVE  CurrentInv'
<1>1. UNCHANGED dbVars
  BY DEF Quiet
<1>2. FreshIds' /\ OpenIsCurrent' /\ RowsStand
  BY <1>1 DEF CurrentInv, FreshIds, OpenIsCurrent, OpenIncident, RowsStand, dbVars
<1>3. ProbesEnabled'
  BY <1>2, StandProbes DEF Quiet
<1> QED
  BY <1>2, <1>3 DEF CurrentInv

LEMMA CreateCurrent ==
    ASSUME CurrentInv, EntriesInv', NEW new \in Created, CreateMonitor(new)
    PROVE  CurrentInv'
<1>1. TableType /\ EngineInv
  BY Parts DEF CurrentInv
<1>2. lastMonitor' = lastMonitor + 1 /\ lastMonitor \in Nat
  BY <1>1, CountersType DEF CreateMonitor
<1>3. \A m \in Monitors : m # lastMonitor' => monitors'[m] = monitors[m]
  BY <1>1 DEF CreateMonitor, TableType
<1>4. \A m \in Monitors : monitors[m] # NoRow => m <= lastMonitor
  BY DEF CurrentInv, FreshIds
<1>5. \A m \in Monitors : monitors[m] # NoRow => monitors'[m] = monitors[m]
  BY <1>2, <1>3, <1>4 DEF Monitors
<1>6. UNCHANGED <<incidents, latest, lastIncident, about, job>>
  BY DEF CreateMonitor, engineVars
<1>7. \A m \in Monitors : monitors'[m] # NoRow => m <= lastMonitor'
  BY <1>2, <1>3, <1>4 DEF Monitors
<1>8. FreshIds'
  BY <1>6, <1>7 DEF CurrentInv, FreshIds
<1>9. OpenIsCurrent'
  <2> SUFFICES ASSUME NEW i \in Incidents, OpenIncident(i)
               PROVE  LET m == incidents[i].monitor
                      IN  /\ monitors'[m] # NoRow /\ monitors'[m].enabled
                          /\ monitors'[m].plan = about[i]
                          /\ incidents[i].kind = "availability" => latest[m] = "down"
    BY <1>6 DEF OpenIsCurrent, OpenIncident
  <2>1. incidents[i].monitor \in Monitors
    BY <1>1 DEF TableType, Incident, OpenIncident
  <2> QED
    BY <1>5, <2>1 DEF CurrentInv, OpenIsCurrent
<1>10. ProbesEnabled'
  BY <1>1, <1>5, <1>6, IdleQuiet, StandProbes DEF RowsStand
<1> QED
  BY <1>8, <1>9, <1>10 DEF CurrentInv

(***************************************************************************)
(* Storing the outcome of a probe                                          *)
(***************************************************************************)

\* What ApplyProbe does to the monitors and the incidents
LEMMA StoresRows ==
    ASSUME CurrentInv, NEW j \in Jobs, Stores(j), NEW m, m = job[j].monitor
    PROVE  /\ m \in Monitors /\ monitors[m].enabled /\ RowsStand
           /\ \A x \in Monitors : monitors'[x] # NoRow => monitors[x] # NoRow
           /\ latest'[m] = job[j].outcome /\ \A x \in Monitors : x # m => latest'[x] = latest[x]
           /\ lastMonitor' = lastMonitor
<1>1. TableType /\ EngineInv
  BY Parts DEF CurrentInv
<1>2. /\ job[j].stage = "apply" /\ monitors[m] # NoRow /\ ApplyProbe(m, job[j].outcome, job[j].at)
  BY DEF Stores
<1>3. m \in Monitors
  BY <1>1, <1>2, StagesWork DEF WorkRecord
<1>4. monitors[m].enabled
  BY <1>2 DEF CurrentInv, ProbesEnabled, Loaded
<1> DEFINE row == [monitors[m] EXCEPT !.status = Status(job[j].outcome),
                                      !.failures = Failures(m, job[j].outcome), !.checked = job[j].at]
<1>5. monitors' = [monitors EXCEPT ![m] = row]
  BY <1>2 DEF ApplyProbe
<1>6. row.enabled = monitors[m].enabled /\ row.plan = monitors[m].plan
  <2>1. monitors[m] \in Monitor
    BY <1>1, <1>2, <1>3, RowType
  <2> QED
    BY <2>1 DEF Monitor
<1>7. monitors'[m] # NoRow
  <2>1. monitors'[m] \in Monitor \cup {NoRow} /\ monitors'[m] = row
    BY <1>1, <1>3, <1>5, StoresTable DEF TableType
  <2>2. row \in Monitor
    <3>1. monitors[m] \in Monitor
      BY <1>1, <1>2, <1>3, RowType
    <3>2. job[j].outcome \in Outcomes \cup {"none", "down"} /\ job[j].at \in 0..MaxTime
      BY <1>1, <1>2, StagesWork DEF WorkRecord, JobType
    <3>3. Status(job[j].outcome) \in {"up", "warning", "down"} /\ Failures(m, job[j].outcome) \in Nat
      BY <3>1 DEF Status, Failures, Monitor
    <3> QED
      BY <3>1, <3>2, <3>3 DEF Monitor
  <2> QED
    BY <2>1, <2>2, NoRowAssumption
<1> HIDE DEF row
<1>8. \A x \in Monitors : monitors'[x] = IF x = m THEN row ELSE monitors[x]
  BY <1>1, <1>5 DEF TableType
<1>9. RowsStand /\ \A x \in Monitors : monitors'[x] # NoRow => monitors[x] # NoRow
  BY <1>2, <1>6, <1>7, <1>8 DEF RowsStand
<1>10. latest' = [latest EXCEPT ![m] = job[j].outcome] /\ lastMonitor' = lastMonitor
  BY <1>2 DEF ApplyProbe
<1> QED
  BY <1>1, <1>3, <1>4, <1>9, <1>10 DEF TableType

LEMMA StoresIncidents ==
    ASSUME CurrentInv, NEW j \in Jobs, Stores(j), NEW m, m = job[j].monitor,
           NEW o, o = job[j].outcome, NEW new, new = lastIncident + 1
    PROVE  /\ Opens(m, o) = {} => lastIncident' = lastIncident
           /\ Opens(m, o) # {} => /\ lastIncident' = new /\ new \in Incidents
                                  /\ incidents[new] = NoRow /\ OpenIncident(new)'
                                  /\ incidents'[new].monitor = m /\ incidents'[new].kind \in Opens(m, o)
                                  /\ about'[new] = monitors[m].plan
           /\ \A i \in Incidents : ~(Opens(m, o) # {} /\ i = new) =>
                 /\ about'[i] = about[i]
                 /\ i \in ClosedBy(m, o) => /\ incidents[i] # NoRow /\ OpenIncident(i)
                                            /\ incidents[i].monitor = m
                                            /\ incidents'[i] # NoRow /\ ~OpenIncident(i)'
                                            /\ incidents'[i].monitor = m
                 /\ i \notin ClosedBy(m, o) => incidents'[i] = incidents[i]
<1>1. TableType /\ EngineInv /\ TableType'
  BY Parts, StoresTable DEF CurrentInv
<1>2. /\ job[j].stage = "apply" /\ ~job[j].cancelled /\ ApplyProbe(m, o, job[j].at)
  BY DEF Stores
<1>3. /\ incidents' = [i \in Incidents |->
              IF i \in ClosedBy(m, o) THEN [incidents[i] EXCEPT !.active = FALSE]
              ELSE IF Opens(m, o) # {} /\ i = new
                   THEN [monitor |-> m, kind |-> CHOOSE k \in Opens(m, o) : TRUE, active |-> TRUE]
                   ELSE incidents[i]]
      /\ about' = [i \in Incidents |-> IF Opens(m, o) # {} /\ i = new THEN monitors[m].plan ELSE about[i]]
      /\ lastIncident' = IF Opens(m, o) = {} THEN lastIncident ELSE new
  BY <1>2 DEF ApplyProbe
<1>4. \A i \in ClosedBy(m, o) : /\ i \in Incidents /\ incidents[i] # NoRow /\ incidents[i].active
                                /\ incidents[i].monitor = m /\ incidents[i] \in Incident
  BY <1>1 DEF ClosedBy, ActiveOf, TableType
<1>5. ASSUME Opens(m, o) # {}
      PROVE  /\ new \in Incidents /\ incidents[new] = NoRow /\ new \notin ClosedBy(m, o)
             /\ incidents'[new].monitor = m /\ incidents'[new].kind \in Opens(m, o)
             /\ incidents'[new].active /\ incidents'[new] # NoRow
  <2>1. new \in Incidents
    BY <1>1, <1>2, <1>5, RoomToOpen
  <2>2. lastIncident \in Nat /\ ~(new <= lastIncident)
    BY <1>1, CountersType
  <2>3. incidents[new] = NoRow
    BY <2>1, <2>2 DEF CurrentInv, FreshIds
  <2>4. new \notin ClosedBy(m, o)
    BY <1>4, <2>3
  <2> DEFINE k == CHOOSE x \in Opens(m, o) : TRUE
  <2>5. k \in Opens(m, o) /\ k \in Kinds
    BY <1>5 DEF Opens
  <2> HIDE DEF k
  <2>6. incidents'[new] = [monitor |-> m, kind |-> k, active |-> TRUE]
    BY <1>3, <1>5, <2>1, <2>4 DEF k
  <2>7. m \in Monitors
    BY StoresRows
  <2>8. incidents'[new] \in Incident
    BY <2>5, <2>6, <2>7 DEF Incident
  <2>9. incidents'[new].monitor = m /\ incidents'[new].kind = k /\ incidents'[new].active
    BY <2>6
  <2>10. incidents'[new] # NoRow
    BY <2>8, NoRowAssumption
  <2> QED
    BY <2>1, <2>3, <2>4, <2>5, <2>9, <2>10
<1>6. ASSUME NEW i \in Incidents, i \in ClosedBy(m, o)
      PROVE  incidents'[i] # NoRow /\ ~incidents'[i].active /\ incidents'[i].monitor = m
  <2>1. incidents'[i] = [incidents[i] EXCEPT !.active = FALSE]
    BY <1>3, <1>6
  <2>2. incidents[i] \in Incident /\ incidents[i].monitor = m
    BY <1>4, <1>6
  <2>3. incidents'[i] \in Incident /\ ~incidents'[i].active /\ incidents'[i].monitor = m
    BY <2>1, <2>2 DEF Incident
  <2> QED
    BY <2>3, NoRowAssumption
<1>7. \A i \in Incidents : ~(Opens(m, o) # {} /\ i = new) /\ i \notin ClosedBy(m, o) =>
          incidents'[i] = incidents[i]
  BY <1>3
<1>8. \A i \in Incidents : about'[i] = IF Opens(m, o) # {} /\ i = new THEN monitors[m].plan ELSE about[i]
  BY <1>3
<1>9. \A i \in Incidents : OpenIncident(i)' <=> incidents'[i] # NoRow /\ incidents'[i].active
  BY DEF OpenIncident
<1>10. Opens(m, o) # {} => /\ lastIncident' = new /\ new \in Incidents
                           /\ incidents[new] = NoRow /\ OpenIncident(new)'
                           /\ incidents'[new].monitor = m /\ incidents'[new].kind \in Opens(m, o)
                           /\ about'[new] = monitors[m].plan
  BY <1>3, <1>5, <1>8, <1>9
<1>11. \A i \in Incidents : ~(Opens(m, o) # {} /\ i = new) =>
          /\ about'[i] = about[i]
          /\ i \in ClosedBy(m, o) => /\ incidents[i] # NoRow /\ OpenIncident(i)
                                     /\ incidents[i].monitor = m
                                     /\ incidents'[i] # NoRow /\ ~OpenIncident(i)'
                                     /\ incidents'[i].monitor = m
  BY <1>4, <1>6, <1>8, <1>9 DEF OpenIncident
<1> QED
  BY <1>3, <1>7, <1>10, <1>11

LEMMA StoresCurrent ==
    ASSUME CurrentInv, EntriesInv', NEW j \in Jobs, Stores(j)
    PROVE  CurrentInv'
<1> SUFFICES ASSUME NEW m, m = job[j].monitor, NEW o, o = job[j].outcome,
                    NEW new, new = lastIncident + 1
             PROVE  CurrentInv'
  OBVIOUS
<1>1. TableType /\ EngineInv
  BY Parts DEF CurrentInv
<1>2. /\ m \in Monitors /\ monitors[m].enabled /\ RowsStand
      /\ \A x \in Monitors : monitors'[x] # NoRow => monitors[x] # NoRow
      /\ latest'[m] = o /\ \A x \in Monitors : x # m => latest'[x] = latest[x]
      /\ lastMonitor' = lastMonitor
  BY StoresRows
<1>3. /\ Opens(m, o) = {} => lastIncident' = lastIncident
      /\ Opens(m, o) # {} => /\ lastIncident' = new /\ new \in Incidents
                             /\ incidents[new] = NoRow /\ OpenIncident(new)'
                             /\ incidents'[new].monitor = m /\ incidents'[new].kind \in Opens(m, o)
                             /\ about'[new] = monitors[m].plan
      /\ \A i \in Incidents : ~(Opens(m, o) # {} /\ i = new) =>
            /\ about'[i] = about[i]
            /\ i \in ClosedBy(m, o) => /\ incidents[i] # NoRow /\ OpenIncident(i)
                                       /\ incidents[i].monitor = m
                                       /\ incidents'[i] # NoRow /\ ~OpenIncident(i)'
                                       /\ incidents'[i].monitor = m
            /\ i \notin ClosedBy(m, o) => incidents'[i] = incidents[i]
  BY StoresIncidents
<1>4. monitors[m] # NoRow /\ lastIncident \in Nat
  BY <1>1, CountersType DEF Stores
<1>5. FreshIds'
  <2>1. \A x \in Monitors : monitors'[x] # NoRow => x <= lastMonitor'
    BY <1>2 DEF CurrentInv, FreshIds
  <2>2. \A i \in Incidents : incidents[i] # NoRow => i <= lastIncident
    BY DEF CurrentInv, FreshIds
  <2>3. \A i \in Incidents : incidents'[i] # NoRow => i <= lastIncident'
    BY <1>3, <1>4, <2>2 DEF Incidents
  <2> QED
    BY <2>1, <2>3 DEF FreshIds
<1>6. OpenIsCurrent'
  <2> SUFFICES ASSUME NEW i \in Incidents, OpenIncident(i)',
                      NEW x, x = incidents'[i].monitor
               PROVE  /\ monitors'[x] # NoRow /\ monitors'[x].enabled
                      /\ monitors'[x].plan = about'[i]
                      /\ incidents'[i].kind = "availability" => latest'[x] = "down"
    BY DEF OpenIsCurrent
  <2>1. CASE Opens(m, o) # {} /\ i = new
    <3>1. "availability" \in Opens(m, o) => o = "down"
      BY DEF Opens
    <3> QED
      BY <1>2, <1>3, <1>4, <2>1, <3>1 DEF RowsStand
  <2>2. CASE ~(Opens(m, o) # {} /\ i = new)
    <3>1. /\ i \notin ClosedBy(m, o) /\ incidents'[i] = incidents[i] /\ about'[i] = about[i]
          /\ incidents[i] # NoRow /\ incidents[i].active
      BY <1>3, <2>2 DEF OpenIncident
    <3>2. x \in Monitors
      BY <1>1, <3>1 DEF TableType, Incident
    <3>3. /\ monitors[x] # NoRow /\ monitors[x].enabled /\ monitors[x].plan = about[i]
          /\ incidents[i].kind = "availability" => latest[x] = "down"
      BY <3>1 DEF CurrentInv, OpenIsCurrent, OpenIncident
    <3>4. x = m /\ incidents[i].kind = "availability" => o = "down"
      BY <3>1 DEF ClosedBy, ActiveOf
    <3> QED
      BY <1>2, <3>1, <3>2, <3>3, <3>4 DEF RowsStand
  <2> QED
    BY <2>1, <2>2
<1>7. ProbesFollow
  <2>1. /\ \A i \in Jobs : i # j => job'[i] = job[i]
        /\ job'[j].stage = "read"
    BY <1>1, StoredRecord
  <2> QED
    BY <2>1 DEF ProbesFollow, LoadedIn
<1>8. ProbesEnabled'
  BY <1>2, <1>7, StandProbes
<1> QED
  BY <1>5, <1>6, <1>8 DEF CurrentInv

(***************************************************************************)
(* Edits                                                                   *)
(***************************************************************************)

\* An edit of monitor m: the others stand, and an incident of m that is still open is one of the
\* monitor as it now is.
EditOf(m) ==
    /\ \A x \in Monitors : x # m => monitors'[x] = monitors[x] /\ latest'[x] = latest[x]
    /\ monitors[m] = NoRow => monitors'[m] = NoRow
    /\ UNCHANGED <<lastMonitor, lastIncident, about>>
    /\ IncidentsStand
    /\ \A i \in Incidents : OpenIncident(i)' /\ incidents'[i].monitor = m =>
          /\ monitors'[m] # NoRow /\ monitors'[m].enabled
          /\ monitors'[m].plan = about[i] /\ latest' = latest

\* The incidents of a monitor that is edited or paused end.
LEMMA ResolvedEnd ==
    ASSUME TableType, NEW m, incidents' = Resolved(m)
    PROVE  /\ IncidentsStand
           /\ \A i \in Incidents : OpenIncident(i)' => incidents'[i].monitor # m
<1> SUFFICES ASSUME NEW i \in Incidents, incidents'[i] # NoRow
             PROVE  /\ incidents[i] # NoRow /\ incidents'[i].monitor = incidents[i].monitor
                    /\ incidents'[i].active => incidents'[i] = incidents[i] /\ incidents[i].monitor # m
  BY DEF IncidentsStand, OpenIncident
<1>1. incidents'[i] = IF incidents[i] # NoRow /\ incidents[i].monitor = m
                      THEN [incidents[i] EXCEPT !.active = FALSE] ELSE incidents[i]
  BY ResolvedType
<1>2. CASE incidents[i] # NoRow /\ incidents[i].monitor = m
  <2>1. incidents[i] \in Incident /\ incidents'[i] = [incidents[i] EXCEPT !.active = FALSE]
    BY <1>1, <1>2 DEF TableType
  <2>2. ~incidents'[i].active /\ incidents'[i].monitor = incidents[i].monitor
    BY <2>1 DEF Incident
  <2> QED
    BY <1>2, <2>2
<1>3. CASE ~(incidents[i] # NoRow /\ incidents[i].monitor = m)
  BY <1>1, <1>3
<1> QED
  BY <1>2, <1>3

\* What is open before a step
LEMMA OpenNow ==
    ASSUME CurrentInv, NEW i \in Incidents, OpenIncident(i)
    PROVE  /\ incidents[i].monitor \in Monitors
           /\ monitors[incidents[i].monitor] # NoRow /\ monitors[incidents[i].monitor].enabled
           /\ monitors[incidents[i].monitor].plan = about[i]
<1>1. incidents[i].monitor \in Monitors
  BY DEF CurrentInv, EntriesInv, TypeOK, Incident, OpenIncident
<1> QED
  BY <1>1 DEF CurrentInv, OpenIsCurrent

LEMMA UpdateEdits ==
    ASSUME CurrentInv, NEW j \in Jobs, Update(j)
    PROVE  EditOf(job[j].monitor)
<1> DEFINE m == job[j].monitor
<1>1. TableType /\ EngineInv
  BY Parts DEF CurrentInv
<1>2. /\ monitors[m] # NoRow /\ UNCHANGED <<lastMonitor, lastIncident, about, latest>>
  BY DEF Update
<1>3. CASE UNCHANGED <<monitors, incidents>>
  <2>1. IncidentsStand
    BY <1>3 DEF IncidentsStand
  <2>2. \A i \in Incidents : OpenIncident(i)' => OpenIncident(i)
    BY <1>3 DEF OpenIncident
  <2> QED
    BY <1>2, <1>3, <2>1, <2>2, OpenNow DEF EditOf
<1>4. CASE ~UNCHANGED <<monitors, incidents>>
  <2>1. /\ monitors' = [monitors EXCEPT ![m] = [@ EXCEPT !.plan = job[j].plan, !.status = "pending",
                                                         !.failures = 0, !.checked = Null]]
        /\ incidents' = Resolved(m)
    BY <1>4 DEF Update, ResolvedByEdit
  <2>2. \A x \in Monitors : x # m => monitors'[x] = monitors[x]
    BY <1>1, <2>1 DEF TableType
  <2> QED
    BY <1>1, <1>2, <2>1, <2>2, ResolvedEnd DEF EditOf
<1> QED
  BY <1>3, <1>4

LEMMA EnableEdits ==
    ASSUME CurrentInv, NEW j \in Jobs, SetEnabled(j)
    PROVE  EditOf(job[j].monitor)
<1> DEFINE m == job[j].monitor
<1>1. TableType /\ EngineInv
  BY Parts DEF CurrentInv
<1>2. /\ monitors[m] # NoRow /\ UNCHANGED <<lastMonitor, lastIncident, about, latest>>
      /\ job[j].stage = "enable"
  BY DEF SetEnabled
<1>3. m \in Monitors /\ monitors[m] \in Monitor
  BY <1>1, <1>2, StagesWork, RowType DEF WorkRecord
<1>4. CASE job[j].enabled
  <2> DEFINE row == [monitors[m] EXCEPT !.enabled = TRUE, !.status = "pending",
                                        !.failures = 0, !.checked = Null]
  <2>1. monitors' = [monitors EXCEPT ![m] = row] /\ UNCHANGED incidents
    BY <1>4 DEF SetEnabled
  <2>2. row \in Monitor /\ row.enabled /\ row.plan = monitors[m].plan
    BY <1>3 DEF Monitor
  <2> HIDE DEF row
  <2>3. /\ \A x \in Monitors : x # m => monitors'[x] = monitors[x]
        /\ monitors'[m] # NoRow /\ monitors'[m].enabled /\ monitors'[m].plan = monitors[m].plan
    BY <1>1, <1>3, <2>1, <2>2, NoRowAssumption DEF TableType
  <2>4. IncidentsStand /\ \A i \in Incidents : OpenIncident(i)' => OpenIncident(i)
    BY <2>1 DEF IncidentsStand, OpenIncident
  <2>5. \A i \in Incidents : OpenIncident(i) /\ incidents[i].monitor = m =>
           monitors[m].plan = about[i]
    BY OpenNow
  <2> QED
    BY <1>2, <2>1, <2>3, <2>4, <2>5 DEF EditOf
<1>5. CASE ~job[j].enabled
  <2>1. monitors' = [monitors EXCEPT ![m].enabled = FALSE] /\ incidents' = Resolved(m)
    BY <1>5 DEF SetEnabled
  <2>2. \A x \in Monitors : x # m => monitors'[x] = monitors[x]
    BY <1>1, <2>1 DEF TableType
  <2> QED
    BY <1>1, <1>2, <2>1, <2>2, ResolvedEnd DEF EditOf
<1> QED
  BY <1>4, <1>5

LEMMA DeleteEdits ==
    ASSUME CurrentInv, NEW j \in Jobs, Delete(j)
    PROVE  EditOf(job[j].monitor)
<1> DEFINE m == job[j].monitor
<1>1. TableType /\ EngineInv
  BY Parts DEF CurrentInv
<1>2. /\ UNCHANGED <<lastMonitor, lastIncident, about>>
      /\ monitors' = [monitors EXCEPT ![m] = NoRow] /\ latest' = [latest EXCEPT ![m] = "none"]
      /\ job[j].stage = "delete"
  BY DEF Delete
<1>3. m \in Monitors
  BY <1>1, <1>2, StagesWork DEF WorkRecord
<1>4. /\ \A x \in Monitors : x # m => monitors'[x] = monitors[x] /\ latest'[x] = latest[x]
      /\ monitors'[m] = NoRow
  BY <1>1, <1>2, <1>3 DEF TableType
<1>5. \A i \in Incidents : incidents'[i] # NoRow =>
         /\ incidents[i] # NoRow /\ incidents'[i] = incidents[i] /\ incidents[i].monitor # m
  BY DEF Delete
<1> QED
  BY <1>2, <1>4, <1>5 DEF EditOf, IncidentsStand, OpenIncident

LEMMA EditCurrent ==
    ASSUME CurrentInv, EntriesInv', NEW j \in Jobs, Update(j) \/ SetEnabled(j) \/ Delete(j)
    PROVE  CurrentInv' /\ IncidentsStand /\ lastIncident' = lastIncident /\ AwaitsLess
<1> DEFINE m == job[j].monitor
<1>1. TableType /\ EngineInv
  BY Parts DEF CurrentInv
<1>2. EditOf(m)
  BY UpdateEdits, EnableEdits, DeleteEdits
<1>3. job[j] # NoJob /\ m \in Monitors /\ job[j] \in JobType
  BY <1>1, StagesWork DEF Update, SetEnabled, Delete, WorkRecord
<1>4. ~LoadedIn(job'[j]) /\ (\A i \in Jobs : i # j => job'[i] = job[i]) /\ AwaitsLess
  <2>1. CASE End(j)
    <3>1. job' = [job EXCEPT ![j] = NoJob]
      BY <2>1 DEF End
    <3> QED
      BY <1>1, <2>1, <3>1, EndQuiet, NoJobType DEF LoadedIn, EngineInv, EngineType
  <2>2. CASE Goto(j, "enable")
    <3> DEFINE r == [job[j] EXCEPT !.stage = "enable"]
    <3>1. job' = [job EXCEPT ![j] = r]
      BY <2>2 DEF Goto
    <3>2. r \in JobType /\ r.stage = "enable"
      BY <1>3 DEF JobType
    <3> HIDE DEF r
    <3> QED
      BY <1>1, <3>1, <3>2, SilentQuiet DEF LoadedIn, EngineInv, EngineType
  <2> QED
    BY <2>1, <2>2 DEF Update, SetEnabled, Delete
<1> HIDE DEF m
<1>5. FreshIds'
  BY <1>2 DEF CurrentInv, FreshIds, EditOf, IncidentsStand
<1>6. OpenIsCurrent'
  <2> SUFFICES ASSUME NEW i \in Incidents, OpenIncident(i)',
                      NEW x, x = incidents'[i].monitor
               PROVE  /\ monitors'[x] # NoRow /\ monitors'[x].enabled
                      /\ monitors'[x].plan = about'[i]
                      /\ incidents'[i].kind = "availability" => latest'[x] = "down"
    BY DEF OpenIsCurrent
  <2>1. incidents'[i] = incidents[i] /\ OpenIncident(i) /\ about' = about
    BY <1>2 DEF EditOf, IncidentsStand, OpenIncident
  <2>2. /\ x \in Monitors /\ monitors[x] # NoRow /\ monitors[x].enabled
        /\ monitors[x].plan = about[i]
        /\ incidents[i].kind = "availability" => latest[x] = "down"
    BY <2>1, OpenNow DEF CurrentInv, OpenIsCurrent
  <2>3. CASE x = m
    BY <1>2, <2>1, <2>2, <2>3 DEF EditOf
  <2>4. CASE x # m
    BY <1>2, <2>1, <2>2, <2>4 DEF EditOf
  <2> QED
    BY <2>3, <2>4
<1>7. ProbesEnabled'
  <2> SUFFICES ASSUME NEW i \in Jobs, LoadedIn(job'[i])
               PROVE  /\ monitors'[job'[i].monitor] # NoRow /\ monitors'[job'[i].monitor].enabled
                      /\ job'[i].plan = monitors'[job'[i].monitor].plan
    BY AwaitsTells DEF ProbesEnabled
  <2>1. i # j /\ job'[i] = job[i] /\ Loaded(i)
    BY <1>4, AwaitsTells
  <2>2. job[i] # NoJob
    BY <2>1, NoJobType DEF Loaded
  <2>3. job[i].monitor \in Monitors /\ job[i].monitor # m
    BY <1>1, <1>3, <2>1, <2>2 DEF EngineInv, EngineType, Exact, m
  <2>4. monitors'[job[i].monitor] = monitors[job[i].monitor]
    BY <1>2, <2>3 DEF EditOf
  <2> QED
    BY <2>1, <2>4 DEF CurrentInv, ProbesEnabled
<1> QED
  BY <1>2, <1>4, <1>5, <1>6, <1>7 DEF CurrentInv, EditOf

LEMMA InitCurrent == Init => CurrentInv
<1> SUFFICES ASSUME Init PROVE CurrentInv
  OBVIOUS
<1>1. EntriesInv
  BY InitEntries
<1>2. FreshIds /\ OpenIsCurrent
  BY DEF Init, FreshIds, OpenIsCurrent, OpenIncident
<1>3. ProbesEnabled
  BY NoJobType DEF Init, ProbesEnabled, Loaded
<1> QED
  BY <1>1, <1>2, <1>3 DEF CurrentInv

\* Every step is one of these.
LEMMA Steps ==
    ASSUME EntriesInv, [Next]_vars
    PROVE  \/ Quiet
           \/ \E new \in Created : CreateMonitor(new)
           \/ \E j \in Jobs : Stores(j) \/ Update(j) \/ SetEnabled(j) \/ Delete(j)
<1>1. EngineInv /\ TableType /\ RestType
  BY Parts
<1>2. ASSUME NEW j \in Jobs, Work(j) \/ GiveUp(j)
      PROVE  Quiet \/ Stores(j) \/ Update(j) \/ SetEnabled(j) \/ Delete(j)
  BY <1>1, <1>2, CheckQuiet, TellQuiet DEF Work
<1>3. \/ \E j \in Jobs : Work(j) \/ GiveUp(j)
      \/ \E new \in Created : CreateMonitor(new)
      \/ BeginSweep \/ Restart \/ Tick \/ UNCHANGED vars \/ Crash
      \/ \E m \in Monitors : SweepTakes(m)
      \/ \E c \in Callers, m \in Monitors :
           \/ CheckNow(c, m) \/ BeginDelete(c, m)
           \/ \E enabled \in BOOLEAN : BeginToggle(c, m, enabled)
           \/ \E p \in Plans, enabled \in BOOLEAN \cup {Null} : BeginPut(c, m, p, enabled)
  BY DEF Next, Ask
<1> QED
  BY <1>1, <1>2, <1>3, OtherQuiet

LEMMA StepCurrent == CurrentInv /\ [Next]_vars => CurrentInv'
<1> SUFFICES ASSUME CurrentInv, [Next]_vars PROVE CurrentInv'
  OBVIOUS
<1>1. EntriesInv /\ EntriesInv'
  BY StepEntries DEF CurrentInv
<1> QED
  BY <1>1, Steps, QuietCurrent, CreateCurrent, StoresCurrent, EditCurrent

\* An open incident is about the monitor as it is: enabled, with the plan it was opened under, and
\* failing if it says so.
THEOREM OpenIncidentCorrect == Spec => []OpenIncidentIsCurrent
<1>1. CurrentInv => OpenIncidentIsCurrent
  BY DEF CurrentInv, OpenIsCurrent, OpenIncident, OpenIncidentIsCurrent
<1> QED
  BY <1>1, InitCurrent, StepCurrent, PTL DEF Spec

(***************************************************************************)
(* What is told of an incident                                             *)
(***************************************************************************)

LEMMA AwaitedNotice ==
    ASSUME EngineInv, NEW j \in Jobs, NEW k, Awaits(j, k)
    PROVE  job[j].queue[k] \in Notice /\ k \in Nat /\ job[j] # NoJob
<1>1. job[j].queue \in Seq(Notice) /\ job[j] # NoJob
  BY StagesWork DEF Awaits, WorkRecord, JobType, Notice
<1> QED
  BY <1>1 DEF Awaits

\* An incident that is open after such a step was so before.
LEMMA StillOpen ==
    ASSUME IncidentsStand, NEW i \in Incidents, OpenIncident(i)'
    PROVE  OpenIncident(i)
BY DEF IncidentsStand, OpenIncident

\* Steps that tell nothing, open no incident and add nothing to tell
LEMMA NothingNew ==
    ASSUME TellingInv, CurrentInv', AwaitsLess, IncidentsStand, told' = told,
           lastIncident' = lastIncident
    PROVE  TellingInv'
<1>1. AwaitedOnce'
  <2>1. ASSUME NEW i \in Jobs, NEW j \in Jobs, NEW k \in Nat, NEW l \in Nat,
               Awaits(i, k)', Awaits(j, l)', job'[i].queue[k] = job'[j].queue[l]
        PROVE  i = j /\ k = l
    <3>1. PICK d \in {0, 1} : \A n \in Nat : Awaits(i, n)' =>
              Awaits(i, n + d) /\ job'[i].queue[n] = job[i].queue[n + d]
      BY DEF AwaitsLess
    <3>2. PICK e \in {0, 1} : \A n \in Nat : Awaits(j, n)' =>
              Awaits(j, n + e) /\ job'[j].queue[n] = job[j].queue[n + e]
      BY DEF AwaitsLess
    <3>3. k + d \in Nat /\ l + e \in Nat /\ l + d \in Nat
      OBVIOUS
    <3>4. i = j
      BY <2>1, <3>1, <3>2, <3>3 DEF TellingInv, AwaitedOnce
    <3>5. Awaits(i, k + d) /\ Awaits(i, l + d) /\ job[i].queue[k + d] = job[i].queue[l + d]
      BY <2>1, <3>1, <3>4
    <3>6. k + d = l + d
      BY <3>3, <3>5 DEF TellingInv, AwaitedOnce
    <3> QED
      BY <3>4, <3>6
  <2>2. ASSUME NEW j \in Jobs, NEW k \in Nat, Awaits(j, k)'
        PROVE  told'[job'[j].queue[k]] = 0
    <3>1. PICK d \in {0, 1} : Awaits(j, k + d) /\ job'[j].queue[k] = job[j].queue[k + d]
      BY <2>2 DEF AwaitsLess
    <3>2. k + d \in Nat
      OBVIOUS
    <3> QED
      BY <3>1, <3>2 DEF TellingInv, AwaitedOnce
  <2> QED
    BY <2>1, <2>2 DEF AwaitedOnce
<1>2. \A j \in Jobs, k \in Nat : Awaits(j, k)' =>
         \E l \in Nat : /\ Awaits(j, l) /\ job'[j].queue[k] = job[j].queue[l]
                        /\ job'[j].monitor = job[j].monitor
  <2> SUFFICES ASSUME NEW j \in Jobs, NEW k \in Nat, Awaits(j, k)'
               PROVE  \E l \in Nat : /\ Awaits(j, l) /\ job'[j].queue[k] = job[j].queue[l]
                                     /\ job'[j].monitor = job[j].monitor
    OBVIOUS
  <2>1. PICK d \in {0, 1} : /\ Awaits(j, k + d) /\ job'[j].queue[k] = job[j].queue[k + d]
                            /\ job'[j].monitor = job[j].monitor
    BY DEF AwaitsLess
  <2>2. k + d \in Nat
    OBVIOUS
  <2> QED
    BY <2>1, <2>2
<1>3. NoticesFollow'
  BY <1>2, StillOpen DEF TellingInv, NoticesFollow
<1>4. TriggersFirst'
  <2> SUFFICES ASSUME NEW j \in Jobs, NEW k \in Nat, NEW i \in Incidents,
                      Awaits(j, k)', job'[j].queue[k] = Trigger(i)
               PROVE  /\ incidents'[i] # NoRow => incidents'[i].monitor = job'[j].monitor
                      /\ told'[Recovery(i)] = 0
                      /\ \A h \in Jobs, l \in Nat : Awaits(h, l)' => job'[h].queue[l] # Recovery(i)
    BY DEF TriggersFirst
  <2>1. /\ incidents[i] # NoRow => incidents[i].monitor = job[j].monitor
        /\ job'[j].monitor = job[j].monitor /\ told[Recovery(i)] = 0
        /\ \A h \in Jobs, l \in Nat : Awaits(h, l) => job[h].queue[l] # Recovery(i)
    BY <1>2 DEF TellingInv, TriggersFirst
  <2> QED
    BY <1>2, <2>1 DEF IncidentsStand
<1> QED
  BY <1>1, <1>3, <1>4 DEF TellingInv

\* A round of deliveries: the notice is no longer awaited.
LEMMA TellTelling ==
    ASSUME TellingInv, CurrentInv', NEW j \in Jobs, Tell(j)
    PROVE  TellingInv'
<1>1. EngineInv /\ TableType /\ RestType
  BY Parts DEF TellingInv, CurrentInv
<1> SUFFICES ASSUME NEW n, n = job[j].queue[1] PROVE TellingInv'
  OBVIOUS
<1>2. /\ job[j].stage = "tell" /\ n \in Notice
      /\ Awaits(j, 1) /\ 1 \in Nat
  BY <1>1, Heads DEF Tell, Awaits
<1>3. \A x \in Notice : told'[x] = IF x = n THEN 1 ELSE told[x]
  <2>1. \A x \in Notice : told'[x] = IF x = n THEN told[x] + 1 ELSE told[x]
    BY <1>1, ToldAfter
  <2>2. told[n] = 0
    BY <1>2 DEF TellingInv, AwaitedOnce
  <2> QED
    BY <2>1, <2>2
<1>4. UNCHANGED <<incidents, lastIncident>>
  BY DEF Tell, dbVars
<1>5. \A h \in Jobs, l \in Nat : Awaits(h, l)' =>
         /\ Awaits(h, l) /\ job'[h].queue[l] = job[h].queue[l] /\ job[h].queue[l] # n
         /\ job'[h].monitor = job[h].monitor
  <2> SUFFICES ASSUME NEW h \in Jobs, NEW l \in Nat, Awaits(h, l)'
               PROVE  /\ Awaits(h, l) /\ job'[h].queue[l] = job[h].queue[l] /\ job[h].queue[l] # n
                      /\ job'[h].monitor = job[h].monitor
    OBVIOUS
  <2> DEFINE r == [job[j] EXCEPT !.stage = "persist"]
  <2>1. job' = [job EXCEPT ![j] = r]
    BY DEF Tell, Goto
  <2>2. job[j] \in JobType
    BY <1>1 DEF EngineInv, EngineType
  <2>3. r.stage = "persist" /\ r.queue = job[j].queue /\ r.monitor = job[j].monitor
    BY <2>2 DEF JobType
  <2> HIDE DEF r
  <2>4. \A i \in Jobs : job'[i] = IF i = j THEN r ELSE job[i]
    BY <1>1, <2>1 DEF EngineInv, EngineType
  <2>5. /\ Awaits(h, l) /\ job'[h].queue[l] = job[h].queue[l] /\ job'[h].monitor = job[h].monitor
        /\ h = j => l # 1
    BY <1>2, <2>3, <2>4 DEF Awaits
  <2>6. job[h].queue[l] # n
    BY <1>2, <2>5 DEF TellingInv, AwaitedOnce
  <2> QED
    BY <2>5, <2>6
<1>6. \A h \in Jobs, l \in Nat : Awaits(h, l) => job[h].queue[l] \in Notice
  BY <1>1, AwaitedNotice
<1>7. AwaitedOnce'
  <2>1. \A i, h \in Jobs, k, l \in Nat :
           Awaits(i, k)' /\ Awaits(h, l)' /\ job'[i].queue[k] = job'[h].queue[l] => i = h /\ k = l
    BY <1>5 DEF TellingInv, AwaitedOnce
  <2>2. \A h \in Jobs, k \in Nat : Awaits(h, k)' => told'[job'[h].queue[k]] = 0
    BY <1>3, <1>5, <1>6 DEF TellingInv, AwaitedOnce
  <2> QED
    BY <2>1, <2>2 DEF AwaitedOnce
<1>8. NoticesFollow'
  <2>1. \A x \in Notice : told'[x] <= 1 /\ (told'[x] > 0 => x.incident <= lastIncident')
    BY <1>2, <1>3, <1>4 DEF TellingInv, NoticesFollow
  <2>2. \A i \in Incidents : told'[Recovery(i)] > 0 => ~OpenIncident(i)'
    <3> SUFFICES ASSUME NEW i \in Incidents, told'[Recovery(i)] > 0 PROVE ~OpenIncident(i)
      BY <1>4 DEF OpenIncident
    <3>1. Recovery(i) \in Notice
      BY Notices
    <3> QED
      BY <1>2, <1>3, <3>1 DEF TellingInv, NoticesFollow
  <2>3. \A h \in Jobs, k \in Nat : Awaits(h, k)' => job'[h].queue[k].incident <= lastIncident'
    BY <1>4, <1>5 DEF TellingInv, NoticesFollow
  <2>4. \A h \in Jobs, k \in Nat, i \in Incidents :
           Awaits(h, k)' /\ job'[h].queue[k] = Recovery(i) => ~OpenIncident(i)'
    <3>1. \A i \in Incidents : OpenIncident(i)' <=> OpenIncident(i)
      BY <1>4 DEF OpenIncident
    <3> QED
      BY <1>5, <3>1 DEF TellingInv, NoticesFollow
  <2> QED
    BY <2>1, <2>2, <2>3, <2>4 DEF NoticesFollow
<1>9. TriggersFirst'
  <2> SUFFICES ASSUME NEW h \in Jobs, NEW k \in Nat, NEW i \in Incidents,
                      Awaits(h, k)', job'[h].queue[k] = Trigger(i)
               PROVE  /\ incidents'[i] # NoRow => incidents'[i].monitor = job'[h].monitor
                      /\ told'[Recovery(i)] = 0
                      /\ \A g \in Jobs, l \in Nat : Awaits(g, l)' => job'[g].queue[l] # Recovery(i)
    BY DEF TriggersFirst
  <2>1. /\ incidents[i] # NoRow => incidents[i].monitor = job[h].monitor
        /\ job'[h].monitor = job[h].monitor /\ told[Recovery(i)] = 0
        /\ \A g \in Jobs, l \in Nat : Awaits(g, l) => job[g].queue[l] # Recovery(i)
    BY <1>5 DEF TellingInv, TriggersFirst
  <2>2. Recovery(i) \in Notice /\ Recovery(i) # n
    BY <1>2, <2>1, Notices
  <2> QED
    BY <1>3, <1>4, <1>5, <2>1, <2>2
<1> QED
  BY <1>7, <1>8, <1>9 DEF TellingInv

\* The outcome of a probe: an incident with a new id begins, and those that end were open, so
\* nobody has told of their end or is about to.
LEMMA StoresTelling ==
    ASSUME TellingInv, CurrentInv', NEW j \in Jobs, Stores(j), told' = told
    PROVE  TellingInv'
<1>1. EngineInv /\ TableType /\ RestType /\ CurrentInv
  BY Parts DEF TellingInv, CurrentInv
<1> SUFFICES ASSUME NEW m, m = job[j].monitor, NEW o, o = job[j].outcome,
                    NEW new, new = lastIncident + 1
             PROVE  TellingInv'
  OBVIOUS
<1>2. /\ Opens(m, o) = {} => lastIncident' = lastIncident
      /\ Opens(m, o) # {} => /\ lastIncident' = new /\ new \in Incidents
                             /\ incidents[new] = NoRow /\ OpenIncident(new)'
                             /\ incidents'[new].monitor = m /\ incidents'[new].kind \in Opens(m, o)
                             /\ about'[new] = monitors[m].plan
      /\ \A i \in Incidents : ~(Opens(m, o) # {} /\ i = new) =>
            /\ about'[i] = about[i]
            /\ i \in ClosedBy(m, o) => /\ incidents[i] # NoRow /\ OpenIncident(i)
                                       /\ incidents[i].monitor = m
                                       /\ incidents'[i] # NoRow /\ ~OpenIncident(i)'
                                       /\ incidents'[i].monitor = m
            /\ i \notin ClosedBy(m, o) => incidents'[i] = incidents[i]
  BY <1>1, StoresIncidents
<1>3. lastIncident \in Nat /\ ~(new <= lastIncident) /\ lastIncident <= lastIncident' /\ lastIncident' \in Nat
  BY <1>1, <1>2, CountersType
<1>4. m \in Monitors /\ job[j] # NoJob /\ job[j].stage = "apply"
  BY <1>1, StagesWork, StoresRows DEF Stores
<1>5. \A i \in ClosedBy(m, o) : /\ i \in Incidents /\ incidents[i] # NoRow /\ OpenIncident(i)
                                /\ ~OpenIncident(i)' /\ i <= lastIncident /\ i # new
                                /\ incidents[i].monitor = m
  <2>1. \A i \in ClosedBy(m, o) : i \in Incidents /\ incidents[i] # NoRow
    BY DEF ClosedBy, ActiveOf
  <2> QED
    BY <1>1, <1>2, <1>3, <2>1 DEF CurrentInv, FreshIds
<1> SUFFICES ASSUME NEW T, T = Transitions(m, o) PROVE TellingInv'
  OBVIOUS
<1>6. /\ \A k, l \in 1..Len(T) : T[k] = T[l] => k = l
      /\ \A k \in 1..Len(T) : \/ Opens(m, o) # {} /\ T[k] = Trigger(new)
                              \/ \E i \in ClosedBy(m, o) : T[k] = Recovery(i)
  BY <1>2, <1>1, <1>4, TransitionsAre DEF Distinct
<1>7. /\ \A i \in Jobs : i # j => job'[i] = job[i]
      /\ job'[j].monitor = m /\ job'[j].stage = "read" /\ job'[j].queue = T
  BY <1>1, StoredRecord
<1>8. /\ \A k \in Nat : ~Awaits(j, k)
      /\ \A k \in Nat : Awaits(j, k)' => k \in 1..Len(T) /\ job'[j].queue[k] = T[k]
      /\ \A h \in Jobs, k \in Nat : h # j /\ Awaits(h, k)' =>
            /\ Awaits(h, k) /\ job'[h].queue[k] = job[h].queue[k] /\ job'[h].monitor = job[h].monitor
  BY <1>4, <1>7 DEF Awaits
<1>9. \A h \in Jobs, k \in Nat : Awaits(h, k) =>
         /\ job[h].queue[k] \in Notice /\ job[h].queue[k].incident <= lastIncident
         /\ \A i \in Incidents : job[h].queue[k] = Recovery(i) => ~OpenIncident(i)
         /\ told[job[h].queue[k]] = 0
  BY <1>1, AwaitedNotice DEF TellingInv, NoticesFollow, AwaitedOnce
<1>10. \A h \in Jobs, k \in Nat : Awaits(h, k) => /\ job[h].queue[k] # Trigger(new)
                                                     /\ job[h].queue[k] # Recovery(new)
  <2>1. Trigger(new).incident = new /\ Recovery(new).incident = new
    BY DEF Trigger, Recovery
  <2> QED
    BY <1>3, <1>9, <2>1
<1>11. \A h \in Jobs, k \in Nat, l \in 1..Len(T) : Awaits(h, k) => job[h].queue[k] # T[l]
  BY <1>5, <1>6, <1>9, <1>10
<1>12. \A x \in Notice : told[x] \in Nat /\ (told[x] > 0 => x.incident <= lastIncident)
  BY <1>1 DEF RestType, TellingInv, NoticesFollow
<1>13. \A i \in Incidents : told[Recovery(i)] > 0 => ~OpenIncident(i) /\ i <= lastIncident
  BY <1>12, Notices DEF TellingInv, NoticesFollow
<1>14. \A k \in 1..Len(T) : told[T[k]] = 0
  <2> SUFFICES ASSUME NEW k \in 1..Len(T) PROVE told[T[k]] = 0
    OBVIOUS
  <2>1. CASE Opens(m, o) # {} /\ T[k] = Trigger(new)
    <3>1. Trigger(new) \in Notice /\ Trigger(new).incident = new
      BY <1>2, <2>1, Notices
    <3> QED
      BY <1>3, <1>12, <2>1, <3>1
  <2>2. ASSUME NEW i \in ClosedBy(m, o), T[k] = Recovery(i)
        PROVE  told[T[k]] = 0
    <3>1. Recovery(i) \in Notice /\ i \in Incidents
      BY <1>5, Notices
    <3> QED
      BY <1>5, <1>12, <1>13, <2>2, <3>1
  <2> QED
    BY <1>6, <2>1, <2>2
<1>15. AwaitedOnce'
  <2>1. ASSUME NEW i \in Jobs, NEW h \in Jobs, NEW k \in Nat, NEW l \in Nat,
               Awaits(i, k)', Awaits(h, l)', job'[i].queue[k] = job'[h].queue[l]
        PROVE  i = h /\ k = l
    <3>1. CASE i = j /\ h = j
      BY <1>6, <1>8, <2>1, <3>1
    <3>2. CASE i # j /\ h # j
      BY <1>8, <2>1, <3>2 DEF TellingInv, AwaitedOnce
    <3>3. CASE (i = j /\ h # j) \/ (i # j /\ h = j)
      BY <1>8, <1>11, <2>1, <3>3
    <3> QED
      BY <3>1, <3>2, <3>3
  <2>2. \A h \in Jobs, k \in Nat : Awaits(h, k)' => told'[job'[h].queue[k]] = 0
    BY <1>8, <1>9, <1>14
  <2> QED
    BY <2>1, <2>2 DEF AwaitedOnce
<1>16. \A i \in Incidents : i <= lastIncident /\ OpenIncident(i)' =>
           OpenIncident(i) /\ i \notin ClosedBy(m, o)
  <2> SUFFICES ASSUME NEW i \in Incidents, i <= lastIncident, OpenIncident(i)'
               PROVE  OpenIncident(i) /\ i \notin ClosedBy(m, o)
    OBVIOUS
  <2>1. i # new
    BY <1>3
  <2>2. i \notin ClosedBy(m, o) /\ incidents'[i] = incidents[i]
    BY <1>2, <2>1
  <2> QED
    BY <2>2 DEF OpenIncident
<1>17. NoticesFollow'
  <2>1. \A x \in Notice : told'[x] <= 1 /\ (told'[x] > 0 => x.incident <= lastIncident')
    <3> SUFFICES ASSUME NEW x \in Notice, told[x] > 0 PROVE x.incident <= lastIncident'
      BY DEF TellingInv, NoticesFollow
    <3>1. x.incident <= lastIncident /\ x.incident \in Nat
      BY <1>12, Notices DEF Incidents
    <3> QED
      BY <1>3, <3>1
  <2>2. \A i \in Incidents : told'[Recovery(i)] > 0 => ~OpenIncident(i)'
    BY <1>13, <1>16
  <2>3. \A h \in Jobs, k \in Nat : Awaits(h, k)' => job'[h].queue[k].incident <= lastIncident'
    <3> SUFFICES ASSUME NEW h \in Jobs, NEW k \in Nat, Awaits(h, k)'
                 PROVE  job'[h].queue[k].incident <= lastIncident'
      OBVIOUS
    <3>1. CASE h # j
      <4>1. job'[h].queue[k] \in Notice /\ job'[h].queue[k].incident <= lastIncident
        BY <1>8, <1>9, <3>1
      <4>2. job'[h].queue[k].incident \in Nat
        BY <4>1, Notices DEF Incidents
      <4> QED
        BY <1>3, <4>1, <4>2
    <3>2. CASE h = j /\ Opens(m, o) # {} /\ job'[h].queue[k] = Trigger(new)
      <4>1. Trigger(new).incident = new /\ new \in Nat
        BY <1>3 DEF Trigger
      <4> QED
        BY <1>2, <3>2, <4>1
    <3>3. ASSUME h = j, NEW i \in ClosedBy(m, o), job'[h].queue[k] = Recovery(i)
          PROVE  job'[h].queue[k].incident <= lastIncident'
      <4>1. Recovery(i).incident = i /\ i \in Nat /\ i <= lastIncident
        BY <1>5, Notices DEF Incidents
      <4> QED
        BY <1>3, <3>3, <4>1
    <3> QED
      BY <1>6, <1>8, <3>1, <3>2, <3>3
  <2>4. \A h \in Jobs, k \in Nat, i \in Incidents :
           Awaits(h, k)' /\ job'[h].queue[k] = Recovery(i) => ~OpenIncident(i)'
    <3> SUFFICES ASSUME NEW h \in Jobs, NEW k \in Nat, NEW i \in Incidents,
                        Awaits(h, k)', job'[h].queue[k] = Recovery(i)
                 PROVE  ~OpenIncident(i)'
      OBVIOUS
    <3>1. CASE h # j
      <4>1. ~OpenIncident(i) /\ i <= lastIncident
        BY <1>8, <1>9, <3>1, Notices
      <4> QED
        BY <1>16, <4>1
    <3>2. CASE h = j
      <4>1. i \in ClosedBy(m, o)
        BY <1>6, <1>8, <3>2, Notices
      <4> QED
        BY <1>5, <4>1
    <3> QED
      BY <3>1, <3>2
  <2> QED
    BY <2>1, <2>2, <2>3, <2>4 DEF NoticesFollow
<1>18. TriggersFirst'
  <2> SUFFICES ASSUME NEW h \in Jobs, NEW k \in Nat, NEW i \in Incidents,
                      Awaits(h, k)', job'[h].queue[k] = Trigger(i)
               PROVE  /\ incidents'[i] # NoRow => incidents'[i].monitor = job'[h].monitor
                      /\ told'[Recovery(i)] = 0
                      /\ \A g \in Jobs, l \in Nat : Awaits(g, l)' => job'[g].queue[l] # Recovery(i)
    BY DEF TriggersFirst
  <2>1. CASE h = j
    <3>1. Opens(m, o) # {} /\ i = new
      BY <1>6, <1>8, <2>1, Notices
    <3>2. Recovery(new) \in Notice /\ told[Recovery(new)] = 0
      BY <1>2, <1>3, <1>12, <1>13, <3>1, Notices
    <3>3. \A g \in Jobs, l \in Nat : Awaits(g, l)' => job'[g].queue[l] # Recovery(new)
      <4> SUFFICES ASSUME NEW g \in Jobs, NEW l \in Nat, Awaits(g, l)',
                          job'[g].queue[l] = Recovery(new)
                   PROVE  FALSE
        OBVIOUS
      <4>1. g = j
        BY <1>8, <1>10
      <4>2. new \in ClosedBy(m, o)
        BY <1>6, <1>8, <4>1, Notices
      <4> QED
        BY <1>5, <4>2
    <3> QED
      BY <1>2, <1>7, <2>1, <3>1, <3>2, <3>3
  <2>2. CASE h # j
    <3>1. /\ Awaits(h, k) /\ job[h].queue[k] = Trigger(i) /\ job'[h].monitor = job[h].monitor
          /\ job[h] # NoJob
      BY <1>1, <1>8, <2>2, AwaitedNotice
    <3>2. /\ incidents[i] # NoRow => incidents[i].monitor = job[h].monitor
          /\ told[Recovery(i)] = 0
          /\ \A g \in Jobs, l \in Nat : Awaits(g, l) => job[g].queue[l] # Recovery(i)
      BY <3>1 DEF TellingInv, TriggersFirst
    <3>3. i <= lastIncident /\ i # new
      BY <1>3, <1>9, <3>1, Notices
    <3>4. i \notin ClosedBy(m, o)
      <4>1. job[h].monitor # m
        BY <1>1, <1>4, <2>2, <3>1 DEF EngineInv, Exact
      <4> QED
        BY <1>5, <3>2, <4>1
    <3>5. incidents'[i] = incidents[i]
      BY <1>2, <3>3, <3>4
    <3>6. \A g \in Jobs, l \in Nat : Awaits(g, l)' => job'[g].queue[l] # Recovery(i)
      <4> SUFFICES ASSUME NEW g \in Jobs, NEW l \in Nat, Awaits(g, l)',
                          job'[g].queue[l] = Recovery(i)
                   PROVE  FALSE
        OBVIOUS
      <4>1. g = j
        BY <1>8, <3>2
      <4>2. i \in ClosedBy(m, o)
        BY <1>6, <1>8, <4>1, Notices
      <4> QED
        BY <3>4, <4>2
    <3> QED
      BY <3>1, <3>2, <3>5, <3>6
  <2> QED
    BY <2>1, <2>2
<1> QED
  BY <1>15, <1>17, <1>18 DEF TellingInv

LEMMA InitTelling == Init => TellingInv
<1> SUFFICES ASSUME Init PROVE TellingInv
  OBVIOUS
<1>1. \A j \in Jobs, k \in Nat : ~Awaits(j, k)
  BY NoJobType DEF Init, Awaits
<1>2. \A n \in Notice : told[n] = 0
  BY DEF Init
<1>3. \A i \in Incidents : Recovery(i) \in Notice
  BY Notices
<1> QED
  BY <1>1, <1>2, <1>3, InitCurrent DEF TellingInv, AwaitedOnce, NoticesFollow, TriggersFirst

\* Only a round of deliveries is counted.
LEMMA OnlyTellTells ==
    ASSUME [Next]_vars
    PROVE  told' = told \/ \E j \in Jobs : Tell(j)
<1>1. ASSUME NEW j \in Jobs, Work(j), ~Tell(j)
      PROVE  told' = told
  BY <1>1 DEF Work, AcquireSlot, AbandonSlot, Load, Probe, Apply, ReadBack, Persist, Update,
              SetEnabled, Delete, MutationFails
<1>2. ASSUME NEW j \in Jobs, GiveUp(j)
      PROVE  told' = told
  BY <1>2 DEF GiveUp
<1>3. CASE Ask
  BY <1>3 DEF Ask, CreateMonitor, CheckNow, BeginDelete, BeginToggle, BeginPut, BeginMutation
<1>4. CASE BeginSweep \/ (\E m \in Monitors : SweepTakes(m)) \/ Crash \/ Restart \/ Tick \/ UNCHANGED vars
  BY <1>4 DEF BeginSweep, SweepTakes, Crash, Restart, Tick, vars
<1> QED
  BY <1>1, <1>2, <1>3, <1>4 DEF Next

LEMMA StepTelling == TellingInv /\ [Next]_vars => TellingInv'
<1> SUFFICES ASSUME TellingInv, [Next]_vars PROVE TellingInv'
  OBVIOUS
<1>1. CurrentInv /\ CurrentInv' /\ EntriesInv /\ EntriesInv'
  BY StepCurrent DEF TellingInv, CurrentInv
<1>2. CASE \E j \in Jobs : Tell(j)
  BY <1>1, <1>2, TellTelling
<1>3. CASE told' = told
  <2>1. CASE Quiet
    <3>1. UNCHANGED dbVars
      BY <2>1 DEF Quiet
    <3>2. IncidentsStand /\ lastIncident' = lastIncident
      BY <3>1 DEF IncidentsStand, dbVars
    <3> QED
      BY <1>1, <1>3, <2>1, <3>2, NothingNew DEF Quiet
  <2>2. ASSUME NEW new \in Created, CreateMonitor(new)
        PROVE  TellingInv'
    <3>1. UNCHANGED <<incidents, lastIncident, job>>
      BY <2>2 DEF CreateMonitor, engineVars
    <3>2. AwaitsLess
      BY <1>1, <3>1, IdleQuiet, Parts
    <3> QED
      BY <1>1, <1>3, <3>1, <3>2, NothingNew DEF IncidentsStand
  <2>3. ASSUME NEW j \in Jobs, Stores(j)
        PROVE  TellingInv'
    BY <1>1, <1>3, <2>3, StoresTelling
  <2>4. ASSUME NEW j \in Jobs, Update(j) \/ SetEnabled(j) \/ Delete(j)
        PROVE  TellingInv'
    BY <1>1, <1>3, <2>4, EditCurrent, NothingNew
  <2> QED
    BY <1>1, <2>1, <2>2, <2>3, <2>4, Steps
<1> QED
  BY <1>2, <1>3, OnlyTellTells

\* No incident is told twice, and its recovery is never told while its trigger still waits.
THEOREM ToldOnceInOrderCorrect == Spec => []ToldOnceInOrder
<1>1. TellingInv => ToldOnceInOrder
  <2> SUFFICES ASSUME TellingInv PROVE ToldOnceInOrder
    OBVIOUS
  <2>1. EngineInv
    BY Parts DEF TellingInv, CurrentInv
  <2>2. ASSUME NEW i \in Incidents, told[Recovery(i)] = 1, NEW j \in Jobs, job[j].stage = "tell",
               Head(job[j].queue) = Trigger(i)
        PROVE  FALSE
    <3>1. Awaits(j, 1) /\ job[j].queue[1] = Trigger(i) /\ 1 \in Nat
      BY <2>1, <2>2, Heads DEF Awaits
    <3> QED
      BY <2>2, <3>1 DEF TellingInv, TriggersFirst
  <2> QED
    BY <2>2 DEF ToldOnceInOrder, TellingInv, NoticesFollow
<1> QED
  BY <1>1, InitTelling, StepTelling, PTL DEF Spec
-----------------------------------------------------------------------------
(***************************************************************************)
(* The delivery of a notification, to any number of channels and for any   *)
(* number of attempts.                                                     *)
(***************************************************************************)

Verdicts == {"none", "ok", "busy", "lost", "rejected", "refused", "invalid", "canceled"}
DeliveryTyped ==
    /\ DeliveryTypeOK /\ copies \in [Channels -> Nat]
    /\ verdict \in [Channels -> Verdicts]

\* How far the sender of a channel has come bounds what it has sent, and says what made it
\* send again.  A request under way is one attempt more than has arrived.
SendersAccount ==
    \A c \in Channels :
        /\ copies[c] <= attempts[c]
        /\ sender[c] = "idle" <=> c \notin target
        /\ sender[c] = "idle" => attempts[c] = 0 /\ verdict[c] = "none"
        /\ sender[c] \in {"ready", "pausing"} => attempts[c] < Attempts
        /\ sender[c] = "sending" => copies[c] < attempts[c]
        /\ sender[c] = "arrived" => copies[c] > 0
        /\ sender[c] \in {"pausing", "ready", "sending", "arrived"} =>
              verdict[c] \in {"none", "busy", "lost"}
        /\ verdict[c] = "ok" => copies[c] > 0

\* The report is given last and says what has come of every channel.
ReportIsLast ==
    /\ payload = "none" => target = {} /\ ~report.given
    /\ report.given =>
          /\ \A c \in target : sender[c] = "done"
          /\ report.failed = {c \in target : verdict[c] # "ok"}
          /\ report.sent => target # {} /\ report.failed = {}

DeliveryInv == DeliveryTyped /\ SendersAccount /\ ReportIsLast

LEMMA DeliveryStarts == DeliveryInit => DeliveryInv
<1> USE TypesAssumption, AttemptsAssumption
<1> QED
  BY DEF DeliveryInit, DeliveryInv, DeliveryTyped, DeliveryTypeOK, SendersAccount, ReportIsLast,
         NoReport, Verdicts

\* One sender moves, and the delivery it works for is unchanged.
LEMMA SenderMoves ==
    ASSUME DeliveryInv, NEW c \in Channels, sender[c] \notin {"idle", "done"},
           UNCHANGED <<payload, target, report>>,
           NEW s \in {"ready", "sending", "arrived", "judging", "pausing", "done"},
           NEW a \in 0 .. Attempts, NEW n \in 0 .. Attempts, NEW v \in Verdicts,
           sender' = [sender EXCEPT ![c] = s], attempts' = [attempts EXCEPT ![c] = a],
           copies' = [copies EXCEPT ![c] = n], verdict' = [verdict EXCEPT ![c] = v],
           n <= a,
           s \in {"ready", "pausing"} => a < Attempts,
           s = "sending" => n < a,
           s = "arrived" => n > 0,
           s \in {"pausing", "ready", "sending", "arrived"} => v \in {"none", "busy", "lost"},
           v = "ok" => n > 0
    PROVE  DeliveryInv'
<1> USE AttemptsAssumption DEF DeliveryInv
<1>1. DeliveryTyped'
  BY DEF DeliveryTyped, DeliveryTypeOK
<1>2. SendersAccount'
  BY DEF SendersAccount, DeliveryTyped, DeliveryTypeOK
<1>3. c \in target
  BY DEF SendersAccount
<1>4. ReportIsLast'
  BY <1>3 DEF ReportIsLast
<1> QED
  BY <1>1, <1>2, <1>4

LEMMA DeliverySteps == DeliveryInv /\ [DeliveryNext]_deliveryVars => DeliveryInv'
<1> SUFFICES ASSUME DeliveryInv, [DeliveryNext]_deliveryVars PROVE DeliveryInv'
  OBVIOUS
<1> USE TypesAssumption, AttemptsAssumption DEF DeliveryInv
<1>1. CASE UNCHANGED deliveryVars
  BY <1>1 DEF deliveryVars, DeliveryTyped, DeliveryTypeOK, SendersAccount, ReportIsLast
<1>2. CASE Deliver
  <2>1. \A c \in Channels : sender[c] = "idle" /\ attempts[c] = 0 /\ copies[c] = 0 /\ verdict[c] = "none"
    BY <1>2 DEF Deliver, SendersAccount, ReportIsLast, DeliveryTyped, DeliveryTypeOK
  <2>2. DeliveryTyped'
    BY <1>2 DEF Deliver, DeliveryTyped, DeliveryTypeOK
  <2>3. SendersAccount'
    BY <1>2, <2>1 DEF Deliver, SendersAccount, DeliveryTyped, DeliveryTypeOK
  <2>4. ReportIsLast'
    BY <1>2 DEF Deliver, ReportIsLast, NoReport
  <2> QED
    BY <2>2, <2>3, <2>4
<1>3. CASE ContextEnds
  BY <1>3 DEF ContextEnds, DeliveryTyped, DeliveryTypeOK, SendersAccount, ReportIsLast
<1>4. CASE Report
  <2>1. payload # "none"
    BY <1>4 DEF Report, ReportIsLast
  <2>2. ReportIsLast'
    BY <1>4, <2>1 DEF Report, ReportIsLast
  <2> QED
    BY <1>4, <2>2 DEF Report, DeliveryTyped, DeliveryTypeOK, SendersAccount
<1>5. ASSUME NEW c \in Channels, Sends(c)
      PROVE  DeliveryInv'
  <2> DEFINE at == attempts[c]
             there == copies[c]
             what == verdict[c]
  <2>1. /\ at \in 0 .. Attempts /\ there \in 0 .. Attempts /\ what \in Verdicts
        /\ there <= at /\ at + 1 \in Nat /\ there + 1 \in Nat
        /\ what = "ok" => there > 0
        /\ attempts = [attempts EXCEPT ![c] = at] /\ copies = [copies EXCEPT ![c] = there]
        /\ verdict = [verdict EXCEPT ![c] = what]
    BY DEF DeliveryTyped, DeliveryTypeOK, SendersAccount
  <2>2. CASE Attempt(c)
    <3>1. /\ sender[c] = "ready" /\ at + 1 \in 0 .. Attempts /\ what \in {"none", "busy", "lost"}
          /\ there < at + 1 /\ there <= at + 1
      BY <1>5, <2>1, <2>2 DEF Attempt, SendersAccount, DeliveryTyped, DeliveryTypeOK
    <3>2. UNCHANGED <<payload, target, report, copies>> /\ attempts' = [attempts EXCEPT ![c] = at + 1]
      BY <2>2 DEF Attempt
    <3>3. CASE TypeOf[c] = "unknown"
      <4>1. sender' = [sender EXCEPT ![c] = "judging"] /\ verdict' = [verdict EXCEPT ![c] = "invalid"]
        BY <2>2, <3>3 DEF Attempt
      <4>2. "invalid" \in Verdicts
        BY DEF Verdicts
      <4> HIDE DEF at, there, what, DeliveryInv
      <4> QED
        BY <2>1, <3>1, <3>2, <4>1, <4>2, SenderMoves
    <3>4. CASE TypeOf[c] # "unknown"
      <4>1. sender' = [sender EXCEPT ![c] = "sending"] /\ verdict' = [verdict EXCEPT ![c] = what]
        BY <2>1, <2>2, <3>4 DEF Attempt
      <4> HIDE DEF at, there, what, DeliveryInv
      <4> QED
        BY <2>1, <3>1, <3>2, <4>1, SenderMoves
    <3> QED
      BY <3>3, <3>4
  <2>3. CASE Arrives(c)
    <3>1. sender[c] = "sending" /\ there < at /\ what \in {"none", "busy", "lost"}
      BY <2>3 DEF Arrives, SendersAccount
    <3>2. there + 1 \in 0 .. Attempts /\ there + 1 <= at /\ there + 1 > 0
      BY <2>1, <3>1
    <3>3. /\ UNCHANGED <<payload, target, report, attempts, verdict>>
          /\ sender' = [sender EXCEPT ![c] = "arrived"] /\ copies' = [copies EXCEPT ![c] = there + 1]
      BY <2>3 DEF Arrives
    <3> HIDE DEF at, there, what, DeliveryInv
    <3> QED
      BY <2>1, <3>1, <3>2, <3>3, SenderMoves
  <2>4. ASSUME NEW v \in Verdicts, ComesTo(c, v), v = "ok" => there > 0,
               sender[c] \in {"sending", "arrived"}
        PROVE  DeliveryInv'
    <3>1. /\ UNCHANGED <<payload, target, report, attempts, copies>>
          /\ sender' = [sender EXCEPT ![c] = "judging"] /\ verdict' = [verdict EXCEPT ![c] = v]
      BY <2>4 DEF ComesTo
    <3> HIDE DEF at, there, what, DeliveryInv
    <3> QED
      BY <2>1, <2>4, <3>1, SenderMoves
  <2>5. CASE IsAnswered(c)
    <3>1. PICK v \in AnswersTo(c) : ComesTo(c, v)
      BY <2>5 DEF IsAnswered
    <3>2. v \in Verdicts
      BY DEF AnswersTo, AlertAnswers, UptimeAnswers, TaskAnswers, Answers, Statuses, Verdicts
    <3>3. sender[c] = "arrived" /\ there > 0
      BY <2>5 DEF IsAnswered, SendersAccount
    <3> QED
      BY <2>4, <3>1, <3>2, <3>3
  <2>6. CASE NoAnswer(c) \/ Interrupted(c)
    BY <2>4, <2>6 DEF NoAnswer, Interrupted, Verdicts
  <2>7. ASSUME NEW s \in {"pausing", "done"}, Judges(c, s),
               s = "pausing" => what \in {"busy", "lost"} /\ at < Attempts
        PROVE  DeliveryInv'
    <3>1. /\ UNCHANGED <<payload, target, report, attempts, copies, verdict>>
          /\ sender[c] = "judging" /\ sender' = [sender EXCEPT ![c] = s]
      BY <2>7 DEF Judges
    <3> HIDE DEF at, there, what, DeliveryInv
    <3> QED
      BY <2>1, <2>7, <3>1, SenderMoves
  <2>8. CASE RetryLater(c) \/ GiveUpChannel(c)
    BY <2>7, <2>8 DEF RetryLater, GiveUpChannel, Retryable
  <2>9. CASE PauseEnds(c)
    <3>1. /\ sender[c] = "pausing" /\ at < Attempts /\ what \in {"none", "busy", "lost"}
          /\ UNCHANGED <<payload, target, report, attempts, copies, verdict>>
          /\ sender' = [sender EXCEPT ![c] = "ready"]
      BY <2>9 DEF PauseEnds, SendersAccount
    <3> HIDE DEF at, there, what, DeliveryInv
    <3> QED
      BY <2>1, <3>1, SenderMoves
  <2>10. CASE PauseCancelled(c)
    <3>1. /\ sender[c] = "pausing" /\ UNCHANGED <<payload, target, report, attempts, copies>>
          /\ sender' = [sender EXCEPT ![c] = "done"] /\ verdict' = [verdict EXCEPT ![c] = "canceled"]
          /\ "canceled" \in Verdicts
      BY <2>10 DEF PauseCancelled, Verdicts
    <3> HIDE DEF at, there, what, DeliveryInv
    <3> QED
      BY <2>1, <3>1, SenderMoves
  <2> QED
    BY <1>5, <2>2, <2>3, <2>5, <2>6, <2>8, <2>9, <2>10 DEF Sends
<1> QED
  BY <1>1, <1>2, <1>3, <1>4, <1>5 DEF DeliveryNext

\* What is persisted of a delivery is true of every channel, and only a channel that may not
\* have understood is sent another copy.
THEOREM ReportDelivered == DeliverySpec => []ReportTruthful
<1>1. DeliveryInv => ReportTruthful
  BY DEF DeliveryInv, ReportTruthful, SendersAccount, ReportIsLast, DeliveryTyped, DeliveryTypeOK
<1> QED
  BY <1>1, DeliveryStarts, DeliverySteps, PTL DEF DeliverySpec
=============================================================================
