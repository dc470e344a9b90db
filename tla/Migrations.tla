------------------------------ MODULE Migrations ------------------------------
(***************************************************************************)
(* The schema migration of internal/server/db/migrations.go, which every   *)
(* start runs from its first statement, and the data it converts: uptime   *)
(* incidents, AI models and the references to them.  There is no version   *)
(* number: a statement must bear being repeated, after a crash anywhere    *)
(* and on data the Server has changed since, and find the tables and       *)
(* columns it names in a database of any earlier version.                  *)
(*                                                                         *)
(* A table is the pair <<table, "id">> of the schema; of the columns only  *)
(* those a later version has added are kept.  Indexes on other columns     *)
(* cannot fail once their table exists and are left out with the table.    *)
(*                                                                         *)
(* A definition marked "deviation" is not the code: it is a mistake the    *)
(* next definition could have contained, which a property must detect.     *)
(***************************************************************************)
EXTENDS Naturals, Sequences, FiniteSets

CONSTANTS
    Legacies,       \* what of the schema an earlier version may have left behind
    Watches,       \* pairs of a monitor and an incident kind
    Vendors,        \* AI providers; each names one model of its own
    MaxCases,       \* bound: incidents
    MaxStarts,      \* bound: starts of the Server
    NoModel

ASSUME MigrationsAssumption ==
    MaxCases \in Nat \ {0} /\ NoModel \notin Vendors \X {0, 1}

VARIABLES
    driver, schema,
    upTo,           \* number of statements this start has executed
    server,         \* "down", "migrating", "serving" or "broken" (OpenStorage has failed)
    starts,
    cases,          \* uptime_incidents: [of, open, marker], by identifier
    current,         \* ghost: the incident of a monitor that is current
    vendors,        \* ai_providers: [named, default]
    models,         \* ai_provider_models: [id, vendor, default]
    chat, line,     \* model_id of a conversation; [vendor, model, requested] of a turn
    marked,         \* the setting migration.ai_provider_models_v1
    wanted,         \* ghost: the providers that should have a model
    unset           \* ghost: what the Server did left the conversation without a model

migrationVars == <<driver, schema, upTo, server, starts, cases, current, vendors, models,
                   chat, line, marked, wanted, unset>>
-----------------------------------------------------------------------------
Create(t, late, refs) == [op |-> "create", table |-> t, cols |-> late, refs |-> refs]
Add(t, c)     == [op |-> "add", table |-> t, cols |-> {c}, refs |-> {}]
Index(t, cols) == [op |-> "index", table |-> t, cols |-> cols, refs |-> {}]
Change(op, t, cols, refs) == [op |-> op, table |-> t, cols |-> cols, refs |-> refs]
Plain(t) == Create(t, {}, {})
Under(t, parent) == Create(t, {}, {parent})
Adds(t, names) == [i \in 1..Len(names) |-> Add(t, names[i])]

NodeColumns == <<"group_id", "agent_mode", "agent_user", "terminal_enabled">>
SpeedColumns == <<"uptime", "disk_read_speed", "disk_write_speed">>
RecoveryColumns == <<"attempted_at", "recovery_sent", "recovery_error", "recovery_attempted_at">>
ClusterColumns == <<"version", "node_count", "namespace_count", "kubeconfig_content">>
DiscoveryColumns == <<"enabled", "discovery_status", "discovery_latency_ms", "discovered_at",
                      "discovery_error">>
TurnColumns == <<"model_id", "requested_provider_id", "requested_provider_name",
                 "requested_model_id", "requested_model", "fallback_used">>
CallColumns == <<"operation_id", "step_index", "policy_decision", "policy_reason",
                 "policy_revision", "verification_status", "impact_json">>
ScheduleColumns == <<"schedule_type", "run_at">>

Set(names) == {names[i] : i \in 1..Len(names)}

NodeTagLinks == Create("node_tag_links", {}, {"nodes", "node_tags"})

\* deviation: the links of the tags are created before the tags
NodeTables_ == <<Create("nodes", {"group_id", "agent_mode", "agent_user"}, {}), NodeTagLinks,
                 Plain("node_groups"), Plain("node_tags")>>
\* sqliteMigrationStatements: the tables of the nodes and what hangs on them
NodeTables == <<
    Create("nodes", {"group_id", "agent_mode", "agent_user"}, {}),
    Plain("node_groups"), Plain("node_tags"), NodeTagLinks,
    Create("node_metrics", Set(SpeedColumns), {}),
    Under("node_process_snapshots", "nodes"), Under("node_docker_snapshots", "nodes"),
    Plain("install_tokens"), Plain("deleted_nodes"), Plain("node_tokens"),
    Under("node_connection_events", "nodes"),
    Plain("settings"), Plain("ai_control_policy")>>

WatchTables == <<
    Plain("alert_rules"), Create("alert_history", Set(RecoveryColumns), {"alert_rules"}),
    Create("k8s_clusters", {"kubeconfig_content"}, {"nodes"}),
    Plain("uptime_monitors"), Under("uptime_results", "uptime_monitors"),
    Create("uptime_incidents", {"active_marker"}, {"uptime_monitors"}),
    Plain("audit_events")>>

AutomationTables == <<
    Plain("automation_scripts"),
    Create("scheduled_tasks", Set(ScheduleColumns), {"automation_scripts"}),
    Under("scheduled_task_nodes", "scheduled_tasks"),
    Create("task_runs", {}, {"scheduled_tasks", "automation_scripts"}),
    Under("task_run_targets", "task_runs"),
    Plain("application_services"), Under("application_service_resources", "application_services")>>

AiTables == <<
    Create("ai_providers", Set(DiscoveryColumns), {}),
    Under("ai_provider_models", "ai_providers"),
    Create("ai_conversations", {"model_id"}, {"ai_provider_models"}),
    Create("ai_turns", Set(TurnColumns), {"ai_conversations", "ai_provider_models"}),
    Create("ai_messages", {}, {"ai_conversations", "ai_turns"}),
    Create("ai_tool_calls", Set(CallColumns), {"ai_turns"})>>

\* mysqlMigrationStatements: the same tables, with their indexes, but a provider gets its
\* default marker, and no conversation or turn refers to a model yet
MySQLNodeTables == NodeTables
MySQLWatchTables == WatchTables
MySQLAutomationTables == AutomationTables
MySQLAiTables == <<
    Create("ai_providers", Set(DiscoveryColumns), {}),
    Add("ai_providers", "default_marker"),
    Change("mark_default", "ai_providers", {"default_marker"}, {}),
    Index("ai_providers", {"default_marker"}),
    Under("ai_provider_models", "ai_providers"),
    Create("ai_conversations", {"model_id"}, {}),
    Create("ai_turns", Set(TurnColumns), {"ai_conversations"}),
    Create("ai_messages", {}, {"ai_conversations", "ai_turns"}),
    Create("ai_tool_calls", Set(CallColumns), {"ai_turns"})>>
-----------------------------------------------------------------------------
nodeCompatibilityColumnStatements == Adds("nodes", NodeColumns)
organizationIndexStatements == <<Index("nodes", {"group_id"})>>
metricCompatibilityColumnStatements == Adds("node_metrics", SpeedColumns)
alertHistoryCompatibilityColumnStatements == Adds("alert_history", RecoveryColumns)
k8sClusterCompatibilityColumnStatements == Adds("k8s_clusters", ClusterColumns)
uptimeIncidentCompatibilityColumnStatements == Adds("uptime_incidents", <<"active_marker">>)

uptimeIncidentInvariantStatements == <<
    Change("resolve_duplicates", "uptime_incidents", {}, {}),
    Change("clear_markers", "uptime_incidents", {"active_marker"}, {}),
    Change("set_markers", "uptime_incidents", {"active_marker"}, {}),
    Change("one_active", "uptime_incidents", {"active_marker"}, {})>>

aiCompatibilityColumnStatements ==
    Adds("ai_providers", DiscoveryColumns) \o Adds("ai_conversations", <<"model_id">>)
        \o Adds("ai_turns", TurnColumns) \o Adds("ai_tool_calls", CallColumns)

aiPlanIndexStatements == <<Index("ai_tool_calls", {"step_index"})>>

aiUpgradeTail ==
    <<Index("ai_conversations", {"model_id"}), Index("ai_turns", {"model_id"})>>
    \o IF driver = "sqlite" THEN <<>>
       ELSE <<Change("link", "ai_conversations", {"model_id"}, {"ai_provider_models"}),
              Change("link", "ai_turns", {"model_id"}, {"ai_provider_models"})>>

aiUpgradeStatements == <<
    Change("insert_models", "ai_provider_models", {}, {"ai_providers", "settings"}),
    Change("backfill_conversations", "ai_conversations", {"model_id"},
           {"ai_provider_models", "settings"}),
    Change("backfill_turns", "ai_turns", Set(TurnColumns), {"ai_provider_models"}),
    Change("mark_complete", "settings", {}, {})>>
    \o aiUpgradeTail

scheduledTaskCompatibilityColumnStatements == Adds("scheduled_tasks", ScheduleColumns)

\* migrateStatements: everything, in this order
Statements ==
    (IF driver = "sqlite" THEN NodeTables \o WatchTables \o AutomationTables \o AiTables
     ELSE MySQLNodeTables \o MySQLWatchTables \o MySQLAutomationTables \o MySQLAiTables)
    \o nodeCompatibilityColumnStatements \o organizationIndexStatements
    \o metricCompatibilityColumnStatements \o alertHistoryCompatibilityColumnStatements
    \o k8sClusterCompatibilityColumnStatements
    \o uptimeIncidentCompatibilityColumnStatements \o uptimeIncidentInvariantStatements
    \o aiCompatibilityColumnStatements \o aiPlanIndexStatements \o aiUpgradeStatements
    \o scheduledTaskCompatibilityColumnStatements
    \o <<Change("default_schedule", "scheduled_tasks", {"schedule_type"}, {}),
         Change("default_mode", "nodes", {"agent_mode", "agent_user"}, {})>>
-----------------------------------------------------------------------------
(* What an earlier version has left behind: tables without the later       *)
(* columns, and rows of them.                                              *)

Earlier == [nodes   |-> {"nodes", "node_metrics"},
            watch   |-> {"nodes", "alert_rules", "alert_history", "k8s_clusters"},
            uptime  |-> {"uptime_monitors", "uptime_incidents"},
            tasks   |-> {"automation_scripts", "scheduled_tasks"},
            ai      |-> {"settings", "ai_providers", "ai_conversations", "ai_turns",
                         "ai_messages", "ai_tool_calls"}]

CaseOf(m, o) == [of |-> m, open |-> o, marker |-> TRUE]
Newest(rows, m) ==
    LET open == {i \in DOMAIN rows : rows[i].of = m /\ rows[i].open}
    IN  IF open = {} THEN 0 ELSE CHOOSE i \in open : \A j \in open : j <= i

\* Before the models had a table, a provider named its one model and could be the default
Unnamed == [named |-> FALSE, default |-> FALSE]
LegacyVendors ==
    {v \in [Vendors -> {Unnamed, [named |-> TRUE, default |-> FALSE],
                        [named |-> TRUE, default |-> TRUE]}] :
        Cardinality({p \in Vendors : v[p].default}) <= 1}

MigrationsInit ==
    /\ driver \in {"sqlite", "mysql"}
    /\ \E left \in Legacies :
        /\ schema = {<<t, "id">> : t \in UNION {Earlier[d] : d \in left}}
        /\ cases \in IF "uptime" \notin left THEN {<<>>}
                     ELSE UNION {[1..n -> {CaseOf(m, o) : m \in Watches, o \in BOOLEAN}] :
                                 n \in 1..(MaxCases - 1)}
        /\ vendors \in IF "ai" \in left THEN LegacyVendors ELSE {[v \in Vendors |-> Unnamed]}
    /\ line \in [vendor : Vendors, model : {NoModel}, requested : {NoModel}]
    /\ current = [m \in Watches |-> Newest(cases, m)]
    /\ wanted = {v \in Vendors : vendors[v].named}
    /\ upTo = 0 /\ server = "down" /\ starts = 0 /\ models = {} /\ chat = NoModel
    /\ marked = FALSE /\ unset = FALSE
-----------------------------------------------------------------------------
Has(t, names) == {<<t, c>> : c \in names} \subseteq schema
OldIncident(i) == \E j \in DOMAIN cases : j > i /\ cases[j].of = cases[i].of /\ cases[j].open

\* What the database answers without an error, isIgnorableMigrationError included
Accepted(s) ==
    /\ s.op = "create" \/ Has(s.table, {"id"})
    /\ s.op \in {"create", "add"} \/ Has(s.table, s.cols)
    /\ (s.op = "create" /\ (driver = "sqlite" \/ Has(s.table, {"id"})))
          \/ \A t \in s.refs : Has(t, {"id"})
    /\ s.op = "one_active" =>
          \A i, j \in DOMAIN cases : cases[i].marker /\ cases[j].marker
                                        /\ cases[i].of = cases[j].of => i = j

After(s) == schema \cup (CASE s.op = "add" -> {s.table} \X s.cols
                           [] s.op = "create" /\ ~Has(s.table, {"id"}) ->
                                  {s.table} \X ({"id"} \cup s.cols)
                           [] OTHER -> {})

CasesAfter(op) ==
    [i \in DOMAIN cases |->
        CASE op = "resolve_duplicates" -> [cases[i] EXCEPT !.open = @ /\ ~OldIncident(i)]
          [] op = "clear_markers" -> [cases[i] EXCEPT !.marker = @ /\ cases[i].open]
          [] op = "set_markers" -> [cases[i] EXCEPT !.marker = @ \/ cases[i].open]
          [] OTHER -> cases[i]]

\* A legacy model takes the identifier of its provider
ModelsAfter(op) ==
    IF op # "insert_models" \/ marked THEN models
    ELSE models \cup {[id |-> <<v, 0>>, vendor |-> v, default |-> vendors[v].default] :
                      v \in {p \in Vendors : vendors[p].named
                                             /\ \A m \in models : m.vendor # p}}

ModelOf(candidates) == IF candidates = {} THEN NoModel ELSE (CHOOSE m \in candidates : TRUE).id

ChatAfter(op) ==
    IF op = "backfill_conversations" /\ ~marked /\ chat = NoModel
    THEN ModelOf({m \in models : m.default}) ELSE chat

\* Not conditional on the marker: every start repeats it
LineAfter(op) ==
    LET known == ModelOf({m \in models : m.vendor = line.vendor}) IN
    IF op # "backfill_turns" THEN line
    ELSE [line EXCEPT !.model = IF @ = NoModel THEN known ELSE @,
                      !.requested = IF @ = NoModel THEN known ELSE @]

\* MigrateDialect: one statement, a transaction of its own
Execute ==
    /\ server = "migrating" /\ upTo < Len(Statements)
    /\ LET s == Statements[upTo + 1] IN
       IF Accepted(s)
       THEN /\ upTo' = upTo + 1 /\ schema' = After(s) /\ cases' = CasesAfter(s.op)
            /\ models' = ModelsAfter(s.op) /\ chat' = ChatAfter(s.op) /\ line' = LineAfter(s.op)
            /\ marked' = (marked \/ s.op = "mark_complete") /\ server' = server
       ELSE /\ server' = "broken"
            /\ UNCHANGED <<upTo, schema, cases, models, chat, line, marked>>
    /\ UNCHANGED <<driver, starts, current, vendors, wanted, unset>>

Opened ==
    /\ server = "migrating" /\ upTo = Len(Statements) /\ server' = "serving"
    /\ UNCHANGED <<driver, schema, upTo, starts, cases, current, vendors, models, chat, line,
                   marked, wanted, unset>>

OpenStorage ==
    /\ server = "down" /\ starts < MaxStarts
    /\ server' = "migrating" /\ starts' = starts + 1 /\ upTo' = 0
    /\ UNCHANGED <<driver, schema, cases, current, vendors, models, chat, line, marked, wanted,
                   unset>>

\* The process ends, between two statements or while it serves
Crashes ==
    /\ server \in {"migrating", "serving"} /\ server' = "down" /\ upTo' = 0
    /\ UNCHANGED <<driver, schema, starts, cases, current, vendors, models, chat, line, marked,
                   wanted, unset>>
-----------------------------------------------------------------------------
(* What the Server does with the converted data between two starts.        *)

\* syncProviderCompatibilityTx: a provider names a model it still has
Mirror(rows) == [v \in Vendors |->
    [named |-> \E m \in rows : m.vendor = v,
     default |-> \E m \in rows : m.vendor = v /\ m.default]]

DropModel(m) ==
    /\ server = "serving" /\ ~m.default
    /\ models' = models \ {m} /\ vendors' = Mirror(models') /\ wanted' = wanted \ {m.vendor}
    /\ chat' = IF chat = m.id THEN NoModel ELSE chat
    /\ unset' = (unset \/ chat = m.id)
    /\ line' = [line EXCEPT !.model = IF @ = m.id THEN NoModel ELSE @]
    /\ UNCHANGED <<driver, schema, upTo, server, starts, cases, current, marked>>

\* SetRouting: the default moves, and is moved away from a model to be deleted
Reroute(m) ==
    /\ server = "serving" /\ ~m.default
    /\ models' = {[n EXCEPT !.default = (n = m)] : n \in models}
    /\ vendors' = Mirror(models') /\ unset' = (unset \/ chat = NoModel)
    /\ UNCHANGED <<driver, schema, upTo, server, starts, cases, current, chat, line, marked,
                   wanted>>

AddModel(v) ==
    /\ server = "serving" /\ \A m \in models : m.vendor # v
    /\ models' = models \cup {[id |-> <<v, 1>>, vendor |-> v, default |-> FALSE]}
    /\ vendors' = Mirror(models') /\ wanted' = wanted \cup {v}
    /\ UNCHANGED <<driver, schema, upTo, server, starts, cases, current, chat, line, marked,
                   unset>>

OpenCase(m) ==
    /\ server = "serving" /\ Len(cases) < MaxCases
    /\ ~\E i \in DOMAIN cases : cases[i].of = m /\ cases[i].marker
    /\ cases' = Append(cases, CaseOf(m, TRUE))
    /\ current' = [current EXCEPT ![m] = Len(cases')]
    /\ UNCHANGED <<driver, schema, upTo, server, starts, vendors, models, chat, line, marked,
                   wanted, unset>>

ResolveCase(i) ==
    /\ server = "serving" /\ cases[i].marker
    /\ cases' = [cases EXCEPT ![i].open = FALSE, ![i].marker = FALSE]
    /\ current' = [current EXCEPT ![cases[i].of] = 0]
    /\ UNCHANGED <<driver, schema, upTo, server, starts, vendors, models, chat, line, marked,
                   wanted, unset>>

MigrationsNext ==
    \/ Execute \/ Opened \/ OpenStorage \/ Crashes
    \/ \E m \in models : DropModel(m) \/ Reroute(m)
    \/ \E v \in Vendors : AddModel(v)
    \/ \E m \in Watches : OpenCase(m)
    \/ \E i \in DOMAIN cases : ResolveCase(i)

MigrationsSpec == MigrationsInit /\ [][MigrationsNext]_migrationVars
-----------------------------------------------------------------------------
MigrationsTypeOK ==
    /\ server \in {"down", "migrating", "serving", "broken"}
    /\ upTo \in 0..Len(Statements) /\ starts \in 0..MaxStarts
    /\ current \in [Watches -> 0..MaxCases] /\ DOMAIN cases = 1..Len(cases)

(* No start fails on a database of any earlier version, wherever an        *)
(* earlier start was interrupted and whatever was changed since; and a     *)
(* Server that serves finds every column, the one incident of a monitor    *)
(* still open being its newest, exactly the models of the providers with   *)
(* the legacy default kept, the conversation and the turn on them, and no  *)
(* deleted model assigned again to the conversation that lost it.          *)
MigrationSound ==
    /\ server # "broken"
    /\ server = "serving" =>
        /\ \A i \in 1..Len(Statements) :
              Statements[i].op \in {"create", "add"} =>
                  Has(Statements[i].table, {"id"} \cup Statements[i].cols)
        /\ \A i \in DOMAIN cases : cases[i].open <=> i = current[cases[i].of]
        /\ {m.vendor : m \in models} = wanted
        /\ vendors = Mirror(models)
        /\ chat = NoModel => unset \/ \A m \in models : ~m.default
        /\ unset => chat = NoModel
        /\ line.model # NoModel => \E m \in models : m.id = line.model /\ m.vendor = line.vendor
=============================================================================
