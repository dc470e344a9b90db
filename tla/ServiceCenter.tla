--------------------------- MODULE ServiceCenter ---------------------------
(***************************************************************************)
(* Application services and their health:                                  *)
(* internal/server/servicecenter and internal/server/api/services.go.  A   *)
(* service is a set of resources.  A request reads its definition, then    *)
(* the rows of its resources kind by kind, then asks the Agents and the    *)
(* clusters within a deadline, a few at a time, and projects what it has   *)
(* read on one health.  Meanwhile everything it reads may change.          *)
(*                                                                         *)
(* Resources are their identities, already normalised.  Names, reasons and *)
(* the recent activity of a detail are left out.                           *)
(*                                                                         *)
(* A definition marked "deviation" is not the code: it is a mistake the    *)
(* next definition could have contained, which a property must detect.     *)
(***************************************************************************)
EXTENDS Naturals, FiniteSets, Sequences

CONSTANTS
    Services, Names,
    Resources,       \* records [type, scope, kind, key]
    Definitions,     \* sets of resources administrators ask for
    Signals,         \* what a resource may be like, by resource
    Worlds,          \* bound: what the resources are like at first
    Absent, Unavailable,
    Slots,           \* the semaphore of loadRemoteSignals, 6 in the code
    MaxResources,    \* maxResourcesPerService, 200 in the code
    MaxEdits,        \* bound: requests of administrators
    MaxChanges       \* bound: changes of what is read

ASSUME ServiceAssumption == Slots \in Nat \ {0} /\ MaxResources \in Nat
                            /\ MaxEdits \in Nat /\ MaxChanges \in Nat
ASSUME ResourceAssumption ==
    /\ \A r \in Resources :
          r.type \in {"node", "uptime_monitor", "alert_rule", "scheduled_task",
                     "compose_project", "systemd_service", "k8s_workload"}
    /\ Definitions \subseteq SUBSET Resources
    /\ Absent # "row"

VARIABLES
    services,   \* application_services with their resources, by identifier
    world,      \* what each resource is like, Absent if it does not exist
    places,     \* the rows of nodes and k8s_clusters
    request,    \* the request that is being served
    held,       \* history: what each resource has been since the request began
    edits, changes

serviceVars == <<services, world, places, request, held, edits, changes>>

IsRemote(r) == r.type \in {"compose_project", "systemd_service", "k8s_workload"}

\* One reading of the Agent of a node lists all its projects or units; one of a cluster
\* lists all its workloads of a kind.
SourceOf(r) == [type |-> r.type, scope |-> r.scope,
                kind |-> IF r.type = "k8s_workload" THEN r.kind ELSE ""]

\* A node is the resource that is its own place.
PlaceOf(r) == IF r.type = "node" THEN r.key ELSE r.scope
HasPlace(r) == r.type = "node" \/ IsRemote(r)

Places == {PlaceOf(r) : r \in {s \in Resources : HasPlace(s)}}

\* What the resource is at this moment, for the panel
Truth(r) == IF HasPlace(r) /\ PlaceOf(r) \notin places THEN Absent ELSE world[r]

NoRequest == [at |-> "idle", id |-> "", resources |-> {}, kinds |-> <<>>, rows |-> <<>>,
              waiting |-> {}, running |-> {}, entries |-> <<>>, ended |-> FALSE,
              shown |-> <<>>, health |-> ""]

ServiceInit ==
    /\ services = <<>> /\ places = Places
    /\ world \in Worlds
    /\ request = NoRequest /\ held = [r \in Resources |-> {}]
    /\ edits = 0 /\ changes = 0
-----------------------------------------------------------------------------
(* Health                                                                  *)

NodeHealth(s) == IF s = "online" THEN "healthy" ELSE "unhealthy"

UptimeHealth(s) ==
    IF ~s.enabled THEN "degraded"
    ELSE CASE s.status = "up" -> "healthy" [] s.status = "warning" -> "degraded"
           [] s.status = "down" -> "unhealthy" [] OTHER -> "unknown"

AlertHealth(s) ==
    IF ~s.enabled THEN "degraded" ELSE IF s.active > 0 THEN "unhealthy" ELSE "healthy"

TaskHealth(s) ==
    IF ~s.enabled THEN "degraded"
    ELSE CASE s.latest \in {"queued", "running", "success"} -> "healthy"
           [] s.latest \in {"partial", "failed", "skipped", "interrupted"} -> "degraded"
           [] OTHER -> "unknown"

ComposeHealth(s) ==
    IF s.status \in {"stopped", "exited", "dead"} \/ s.services = {}
       \/ \E c \in s.services : c.state \in {"exited", "dead"} \/ c.health = "unhealthy"
    THEN "unhealthy"
    ELSE IF \E c \in s.services : c.state # "running" \/ c.health = "starting"
    THEN "degraded" ELSE "healthy"

SystemdHealth(s) ==
    CASE s.active = "active" /\ s.sub = "running" -> "healthy"
      [] s.active \in {"activating", "reloading"} -> "degraded"
      [] s.active \in {"failed", "inactive", "deactivating"} -> "unhealthy"
      [] OTHER -> "unknown"

\* For a stateful set, which has no count of available replicas, available = current.
WorkloadHealth(s) ==
    IF s.desired = 0 THEN "unknown"
    ELSE IF s.current = 0 THEN "unhealthy"
    ELSE IF s.current < s.desired \/ s.available < s.desired THEN "degraded"
    ELSE "healthy"

HealthOf(r, s) ==
    CASE r.type = "node" -> NodeHealth(s)
      [] r.type = "uptime_monitor" -> UptimeHealth(s)
      [] r.type = "alert_rule" -> AlertHealth(s)
      [] r.type = "scheduled_task" -> TaskHealth(s)
      [] r.type = "compose_project" -> ComposeHealth(s)
      [] r.type = "systemd_service" -> SystemdHealth(s)
      [] r.type = "k8s_workload" -> WorkloadHealth(s)

\* A Compose project may itself say that it could not be read completely.
Project(r, s) ==
    IF s = Absent THEN [health |-> "unknown", state |-> "missing"]
    ELSE IF s = Unavailable \/ (r.type = "compose_project" /\ s.error)
    THEN [health |-> "degraded", state |-> "unavailable"]
    ELSE [health |-> HealthOf(r, s), state |-> "available"]

AggregateOf(shown) ==
    LET healths == {shown[r].health : r \in DOMAIN shown}
    IN  IF "unhealthy" \in healths THEN "unhealthy"
        ELSE IF "degraded" \in healths \/ {"unknown", "healthy"} \subseteq healths
        THEN "degraded"
        ELSE IF "healthy" \in healths THEN "healthy" ELSE "unknown"
-----------------------------------------------------------------------------
(* The requests of administrators                                          *)

\* normalizeInput and the unique index on the lower-cased name
Accepts(id, name, resources) ==
    /\ Cardinality(resources) <= MaxResources
    /\ \A other \in DOMAIN services \ {id} : services[other].name # name

Stores(id, name, resources) ==
    /\ edits < MaxEdits /\ Accepts(id, name, resources)
    /\ services' = [i \in DOMAIN services \cup {id} |->
                      IF i = id THEN [name |-> name, resources |-> resources]
                      ELSE services[i]]
    /\ edits' = edits + 1

\* A request starts: the rows come kind by kind, in this order.
Kinds == <<"node", "uptime_monitor", "alert_rule", "scheduled_task", "k8s_cluster">>

Serves(id, resources) ==
    /\ request' = [NoRequest EXCEPT !.at = "local", !.id = id, !.resources = resources,
                                    !.kinds = Kinds]
    /\ held' = [r \in Resources |-> {Truth(r), world[r]}]

\* Create and Update project what they have stored.  One request is followed; the edits
\* of others go on meanwhile.
ServesOne(id, resources) ==
    IF request.at = "idle" THEN Serves(id, resources) ELSE UNCHANGED <<request, held>>

CreateService(id, name, resources) ==
    /\ id \notin DOMAIN services /\ Stores(id, name, resources)
    /\ ServesOne(id, resources)
    /\ UNCHANGED <<world, places, changes>>

UpdateService(id, name, resources) ==
    /\ id \in DOMAIN services /\ Stores(id, name, resources)
    /\ ServesOne(id, resources)
    /\ UNCHANGED <<world, places, changes>>

\* The resources go with the service, by a foreign key.
DeleteService(id) ==
    /\ id \in DOMAIN services /\ edits < MaxEdits
    /\ services' = [i \in DOMAIN services \ {id} |-> services[i]] /\ edits' = edits + 1
    /\ UNCHANGED <<world, places, request, held, changes>>

GetService(id) ==
    /\ request.at = "idle" /\ id \in DOMAIN services
    /\ Serves(id, services[id].resources)
    /\ UNCHANGED <<services, world, places, edits, changes>>
-----------------------------------------------------------------------------
(* The projection                                                          *)

\* One of the five queries of loadLocalSignals.  Nodes and clusters are also read for
\* what is on them.
LoadRows ==
    /\ request.at = "local" /\ request.kinds # <<>>
    /\ LET kind == Head(request.kinds)
           read == {r \in request.resources :
                      CASE kind = "node" -> r.type \in {"node", "compose_project", "systemd_service"}
                        [] kind = "k8s_cluster" -> r.type = "k8s_workload"
                        [] OTHER -> r.type = kind}
           row(r) == IF IsRemote(r) THEN (IF r.scope \in places THEN "row" ELSE Absent)
                     ELSE Truth(r)
       IN  request' = [request EXCEPT
               !.kinds = Tail(@),
               !.rows = [r \in read \cup DOMAIN @ |->
                           IF r \in read THEN row(r) ELSE request.rows[r]]]
    /\ UNCHANGED <<services, world, places, held, edits, changes>>

\* loadRemoteSignals starts a worker for each source, whether or not its row was there.
StartReading ==
    /\ request.at = "local" /\ request.kinds = <<>>
    /\ request' = [request EXCEPT
           !.at = "remote",
           !.waiting = {SourceOf(r) : r \in {s \in request.resources : IsRemote(s)}}]
    /\ UNCHANGED <<services, world, places, held, edits, changes>>

TakeSlot(source) ==
    /\ source \in request.waiting /\ Cardinality(request.running) < Slots
    /\ request' = [request EXCEPT !.waiting = @ \ {source}, !.running = @ \cup {source}]
    /\ UNCHANGED <<services, world, places, held, edits, changes>>

\* The eight seconds are over, or the client has gone.
Deadline ==
    /\ request.at = "remote" /\ ~request.ended
    /\ request' = [request EXCEPT !.ended = TRUE]
    /\ UNCHANGED <<services, world, places, held, edits, changes>>

\* A worker that has not got a slot by then leaves no entry.
GiveUp(source) ==
    /\ source \in request.waiting /\ request.ended
    /\ request' = [request EXCEPT !.waiting = @ \ {source}]
    /\ UNCHANGED <<services, world, places, held, edits, changes>>

\* The list has everything there is at the source, or the call failed; an answer of an
\* Agent that reports an error or does not support it is a failure.
Answer(source) ==
    /\ source \in request.running
    /\ \E fails \in BOOLEAN :
          LET listed == {r \in request.resources : SourceOf(r) = source}
              entry  == IF fails THEN [r \in listed |-> Unavailable]
                        ELSE [r \in listed |-> world[r]]
          IN  request' = [request EXCEPT
                  !.running = @ \ {source},
                  !.entries = [r \in DOMAIN @ \cup listed |->
                                 IF r \in listed THEN entry[r] ELSE request.entries[r]]]
    /\ UNCHANGED <<services, world, places, held, edits, changes>>

\* deviation: a source that left no entry listed nothing
ReadingOf_(r) ==
    IF ~IsRemote(r) \/ request.rows[r] = Absent THEN request.rows[r]
    ELSE IF r \in DOMAIN request.entries THEN request.entries[r] ELSE Absent
ReadingOf(r) ==
    IF ~IsRemote(r) \/ request.rows[r] = Absent THEN request.rows[r]
    ELSE IF r \in DOMAIN request.entries THEN request.entries[r] ELSE Unavailable

Projected == [r \in request.resources |-> Project(r, ReadingOf(r))]

\* wg.Wait returns when the last worker has ended.
Publish ==
    /\ request.at = "remote" /\ request.waiting = {} /\ request.running = {}
    /\ request' = [request EXCEPT
           !.at = "shown",
           !.shown = Projected, !.health = AggregateOf(Projected)]
    /\ UNCHANGED <<services, world, places, held, edits, changes>>

\* A query failed, or the client has its answer: the next request may come.
EndRequest ==
    /\ request.at \in {"local", "shown"}
    /\ request' = NoRequest /\ held' = [r \in Resources |-> {}]
    /\ UNCHANGED <<services, world, places, edits, changes>>
-----------------------------------------------------------------------------
(* Everything that is read changes on its own                              *)

Follow == held' = [r \in Resources |->
                     IF request.at = "idle" THEN {} ELSE held[r] \cup {Truth(r)', world'[r]}]

ResourceChanges(r) ==
    /\ changes < MaxChanges /\ changes' = changes + 1
    /\ \E s \in Signals[r] \cup IF r.type = "node" THEN {} ELSE {Absent} :
          s # world[r] /\ world' = [world EXCEPT ![r] = s]
    /\ places' = places /\ Follow
    /\ UNCHANGED <<services, request, edits>>

\* A node or a cluster is deleted, or registers again.
PlaceChanges(p) ==
    /\ changes < MaxChanges /\ changes' = changes + 1
    /\ places' = IF p \in places THEN places \ {p} ELSE places \cup {p}
    /\ world' = world /\ Follow
    /\ UNCHANGED <<services, request, edits>>

ServiceNext ==
    \/ \E id \in Services, name \in Names, resources \in Definitions :
          CreateService(id, name, resources) \/ UpdateService(id, name, resources)
    \/ \E id \in Services : DeleteService(id) \/ GetService(id)
    \/ LoadRows \/ StartReading \/ Deadline \/ Publish \/ EndRequest
    \/ \E source \in {SourceOf(r) : r \in Resources} :
          TakeSlot(source) \/ GiveUp(source) \/ Answer(source)
    \/ \E r \in Resources : ResourceChanges(r)
    \/ \E p \in Places : PlaceChanges(p)

ServiceSpec == ServiceInit /\ [][ServiceNext]_serviceVars
-----------------------------------------------------------------------------
(* Properties                                                              *)

\* No two services have the same name, and the workers of a request keep to the slots.
WithinLimits ==
    /\ \A i, j \in DOMAIN services : services[i].name = services[j].name => i = j
    /\ \A i \in DOMAIN services : Cardinality(services[i].resources) <= MaxResources
    /\ Cardinality(request.running) <= Slots

\* What is shown of a resource is what it was at some moment of the request: a reading
\* that failed, or was never made for want of a slot before the deadline, is shown as
\* unavailable, and never as a resource that is gone, well or broken.
ShownWasTrue ==
    \A r \in DOMAIN request.shown :
       \/ \E s \in held[r] : request.shown[r] = Project(r, s)
       \/ /\ request.shown[r] = Project(r, Unavailable)
          /\ request.ended \/ r \in DOMAIN request.entries

\* The health of a service claims no more than the resources: healthy only if all of
\* them are, unhealthy only if one of them is, unknown only if nothing is known.
HealthIsEarned ==
    request.at = "shown" =>
       LET of(h) == {r \in request.resources : request.shown[r].health = h}
       IN  /\ (request.health = "healthy") <=>
                 (of("healthy") = request.resources /\ request.resources # {})
           /\ (request.health = "unhealthy") <=> (of("unhealthy") # {})
           /\ (request.health = "unknown") <=> (of("unknown") = request.resources)

\* service.go:161: the health that is published of a service is one its resources gave
\* at moments of the request, however late or incomplete the readings were.
HealthTruthful == WithinLimits /\ ShownWasTrue /\ HealthIsEarned
=============================================================================
