------------------------------ MODULE MCStorage ------------------------------
(***************************************************************************)
(* Small instances of what the database must keep in order: the runs of    *)
(* the automation engine over a crash and a new start, the groups and tags *)
(* of the nodes while administrators edit them at once, the schema with    *)
(* the data that every start converts, and the health of the application   *)
(* services, read from many tables.  A behaviour follows one of them.      *)
(***************************************************************************)
EXTENDS MCTaskEngine, NodeOrganization, Migrations, ServiceCenter

CONSTANTS g1, g2, t1, t2, x, y, m1, v1, v2, s1, s2

VARIABLE focus

storageVars == <<focus, vars, orgVars, migrationVars, serviceVars>>

\* A new database, one with the tables of any one part of an earlier version, and two
\* with them all, but for those of the AI models or of the uptime incidents.
EarlierVersions ==
    {{}} \cup {{part} : part \in DOMAIN Earlier}
         \cup {DOMAIN Earlier \ {part} : part \in {"ai", "uptime"}}

Local(type, key) == [type |-> type, scope |-> "", kind |-> "", key |-> key]
On(type, scope, kind, key) == [type |-> type, scope |-> scope, kind |-> kind, key |-> key]
Host     == Local("node", "n1")
Watch    == Local("uptime_monitor", "1")
Rule     == Local("alert_rule", "1")
Job      == Local("scheduled_task", "1")
Stack    == On("compose_project", "n1", "external", "shop")
Unit     == On("systemd_service", "n1", "", "shop")
Workload == On("k8s_workload", "c1", "deployment", "shop")
EveryResource == {Host, Watch, Rule, Job, Stack, Unit, Workload}

\* Well first, then what else it may be like
Likes(r) ==
    CASE r = Host -> <<"online", "offline">>
      [] r = Watch -> <<[enabled |-> TRUE, status |-> "up"], [enabled |-> TRUE, status |-> "warning"],
                        [enabled |-> TRUE, status |-> "down"]>>
      [] r = Rule -> <<[enabled |-> TRUE, active |-> 0], [enabled |-> TRUE, active |-> 1]>>
      [] r = Job -> <<[enabled |-> TRUE, latest |-> "success"], [enabled |-> TRUE, latest |-> "partial"],
                      [enabled |-> TRUE, latest |-> ""]>>
      [] r = Stack -> <<[error |-> FALSE, status |-> "running",
                         services |-> {[state |-> "running", health |-> ""]}],
                        [error |-> FALSE, status |-> "running",
                         services |-> {[state |-> "running", health |-> "starting"]}],
                        [error |-> TRUE, status |-> "running", services |-> {}]>>
      [] r = Unit -> <<[active |-> "active", sub |-> "running"], [active |-> "failed", sub |-> "failed"]>>
      [] r = Workload -> <<[current |-> 2, desired |-> 2, available |-> 2],
                           [current |-> 1, desired |-> 2, available |-> 1],
                           [current |-> 0, desired |-> 2, available |-> 0]>>

SomeSignals == [r \in EveryResource |-> {Likes(r)[i] : i \in DOMAIN Likes(r)}]
AllWell == [r \in EveryResource |-> Likes(r)[1]]
TwoWorlds == {AllWell, [r \in EveryResource |-> Likes(r)[Len(Likes(r))]]}
SomeDefinitions == {{}, {Host, Stack}, {Stack, Workload}, {Unit, Rule}, {Watch, Job}, {Host, Stack, Unit}}

StorageInit ==
    /\ focus \in {"engine", "nodes", "schema", "services"}
    /\ Init /\ OrgInit /\ MigrationsInit /\ ServiceInit
    /\ focus # "nodes" => dialect = "sqlite"
    /\ focus # "schema" => driver = "sqlite" /\ schema = {} /\ line.vendor = v1
    /\ focus # "services" => world = AllWell

\* The second tick comes before the first run: that is when a period is missed.
MissedFirst == now' = 2 /\ now = 1 => \A r \in RunIds : runs[r] = NoRow

StorageNext ==
    /\ UNCHANGED focus
    /\ \/ focus = "engine" /\ Next /\ MissedFirst /\ UNCHANGED <<orgVars, migrationVars, serviceVars>>
       \/ focus = "nodes" /\ OrgNext /\ UNCHANGED <<vars, migrationVars, serviceVars>>
       \/ focus = "schema" /\ MigrationsNext /\ UNCHANGED <<vars, orgVars, serviceVars>>
       \/ focus = "services" /\ ServiceNext /\ UNCHANGED <<vars, orgVars, migrationVars>>

StorageSpec == StorageInit /\ [][StorageNext]_storageVars
=============================================================================
