---------------------------- MODULE StorageProofs ----------------------------
(***************************************************************************)
(* What is kept and read in the database beside the automation: first the  *)
(* groups and tags of the nodes, OrganizationSound for any number of       *)
(* nodes, groups, tags and batch updates, with SQLite and with MySQL; then *)
(* the health of the services, HealthTruthful for any services, resources, *)
(* slots and changes; and the migration, MigrationSound for any database   *)
(* of an earlier version.                                                  *)
(***************************************************************************)
EXTENDS NodeOrganization, ServiceCenter, Migrations, FiniteSetTheorems, WellFoundedInduction, TLAPS

(***************************************************************************)
(* What is between a batch update's checks and its writes keeps what it    *)
(* has checked, under SQLite, where nobody else writes meanwhile.          *)
(***************************************************************************)
RowsOK ==
    /\ hosts \subseteq Hosts /\ groupOf \in [Hosts -> GroupIds \cup {NoGroup}]
    /\ Groups \subseteq GroupIds /\ Tags \subseteq TagIds
    /\ bulk \in [at : {"idle", "begun", "checked"}, nodes : SUBSET Hosts,
                 group : GroupIds \cup {NoGroup}, setsGroup : BOOLEAN,
                 add : SUBSET TagIds, remove : SUBSET TagIds, count : Nat]

NamesUnique ==
    /\ \A g, h \in Groups : groupName[g] = groupName[h] => g = h
    /\ \A t, u \in Tags : tagName[t] = tagName[u] => t = u

LinksJoin == links \subseteq hosts \X Tags

GoneHasNoGroup == \A n \in Hosts \ hosts : groupOf[n] = NoGroup

GroupsExist == dialect = "sqlite" => \A n \in Hosts : groupOf[n] \in Groups \cup {NoGroup}

WithinLimit == dialect = "sqlite" => \A n \in Hosts : Cardinality(TagsOf(n)) <= MaxTags

CheckHolds ==
    dialect = "sqlite" /\ bulk.at = "checked" =>
       /\ bulk.group \in Groups \cup {NoGroup}
       /\ bulk.add \subseteq Tags
       /\ \A n \in bulk.nodes : Within(n)

OrgInv ==
    /\ RowsOK /\ NamesUnique /\ LinksJoin /\ GoneHasNoGroup
    /\ GroupsExist /\ WithinLimit /\ CheckHolds

\* A transaction that is not the batch update's: it finds the connection free.
Elsewhere == MayWrite /\ bulk' = bulk /\ dialect' = dialect

-----------------------------------------------------------------------------
\* Fewer tags of a node are still within the limit.
LEMMA FewerTags ==
    ASSUME NEW S, NEW T, T \subseteq S, S \subseteq TagIds, Cardinality(S) <= MaxTags
    PROVE  Cardinality(T) <= MaxTags
<1>1. IsFiniteSet(S)
  BY TagsAssumption, FS_Subset
<1>2. IsFiniteSet(T) /\ Cardinality(T) <= Cardinality(S)
  BY <1>1, FS_Subset
<1> QED
  BY <1>1, <1>2, FS_CardinalityType, LimitAssumption

\* A transaction elsewhere leaves the facts of the batch update alone.
LEMMA ElsewhereKeepsCheck == CheckHolds /\ Elsewhere => CheckHolds'
BY DEF CheckHolds, Elsewhere, MayWrite

\* CreateGroup and UpdateGroup.
LEMMA GroupStep ==
    ASSUME OrgInv, NEW g \in GroupIds, NEW name \in Labels,
           CreateGroup(g, name) \/ UpdateGroup(g, name)
    PROVE  OrgInv'
<1>1. Elsewhere /\ UNCHANGED <<hosts, tagName, links>>
  BY DEF CreateGroup, UpdateGroup, Elsewhere
<1>2. groupName' = With(groupName, g, name) /\ groupOf' = groupOf
      /\ IsFreeName(groupName, g, name)
  BY DEF CreateGroup, UpdateGroup
<1>3. Groups' = Groups \cup {g}
  BY <1>2 DEF Groups, With
<1>4. NamesUnique'
  BY <1>1, <1>2 DEF OrgInv, NamesUnique, With, IsFreeName, Groups, Tags
<1>5. RowsOK' /\ GoneHasNoGroup' /\ GroupsExist'
  BY <1>1, <1>2, <1>3 DEF OrgInv, RowsOK, GoneHasNoGroup, GroupsExist, Elsewhere, Tags
<1> QED
  BY <1>1, <1>4, <1>5, ElsewhereKeepsCheck
  DEF OrgInv, LinksJoin, WithinLimit, TagsOf, Tags, Elsewhere

\* DeleteGroup takes the group from its nodes in the same transaction.
LEMMA GroupDeletion ==
    ASSUME OrgInv, NEW g \in GroupIds, DeleteGroup(g)
    PROVE  OrgInv'
<1>1. Elsewhere /\ UNCHANGED <<hosts, tagName, links>>
  BY DEF DeleteGroup, Elsewhere
<1>2. groupName' = Without(groupName, g)
      /\ groupOf' = [n \in Hosts |-> IF groupOf[n] = g THEN NoGroup ELSE groupOf[n]]
  BY DEF DeleteGroup
<1>3. Groups' = Groups \ {g}
  BY <1>2 DEF Groups, Without
<1>4. NamesUnique'
  BY <1>1, <1>2 DEF OrgInv, NamesUnique, Without, Groups, Tags
<1>5. RowsOK' /\ GoneHasNoGroup' /\ GroupsExist'
  BY <1>1, <1>2, <1>3 DEF OrgInv, RowsOK, GoneHasNoGroup, GroupsExist, Elsewhere, Tags
<1> QED
  BY <1>1, <1>4, <1>5, ElsewhereKeepsCheck
  DEF OrgInv, LinksJoin, WithinLimit, TagsOf, Tags, Elsewhere

\* CreateTag and UpdateTag.
LEMMA TagStep ==
    ASSUME OrgInv, NEW t \in TagIds, NEW name \in Labels,
           CreateTag(t, name) \/ UpdateTag(t, name)
    PROVE  OrgInv'
<1>1. Elsewhere /\ UNCHANGED <<hosts, groupOf, groupName>>
  BY DEF CreateTag, UpdateTag, Elsewhere
<1>2. tagName' = With(tagName, t, name) /\ links' = links /\ IsFreeName(tagName, t, name)
  BY DEF CreateTag, UpdateTag
<1>3. Tags' = Tags \cup {t}
  BY <1>2 DEF Tags, With
<1>4. NamesUnique'
  BY <1>1, <1>2 DEF OrgInv, NamesUnique, With, IsFreeName, Groups, Tags
<1>5. RowsOK' /\ LinksJoin'
  BY <1>1, <1>2, <1>3 DEF OrgInv, RowsOK, LinksJoin, Elsewhere, Groups
<1> QED
  BY <1>1, <1>2, <1>4, <1>5, ElsewhereKeepsCheck
  DEF OrgInv, GoneHasNoGroup, GroupsExist, WithinLimit, TagsOf, Groups, Elsewhere

\* DeleteTag takes its links away in the same transaction.
LEMMA TagDeletion ==
    ASSUME OrgInv, NEW t \in TagIds, DeleteTag(t)
    PROVE  OrgInv'
<1>1. Elsewhere /\ UNCHANGED <<hosts, groupOf, groupName>>
  BY DEF DeleteTag, Elsewhere
<1>2. tagName' = Without(tagName, t) /\ links' = {l \in links : l[2] # t}
  BY DEF DeleteTag
<1>3. Tags' = Tags \ {t}
  BY <1>2 DEF Tags, Without
<1>4. NamesUnique'
  BY <1>1, <1>2 DEF OrgInv, NamesUnique, Without, Groups, Tags
<1>5. RowsOK' /\ LinksJoin'
  BY <1>1, <1>2, <1>3 DEF OrgInv, RowsOK, LinksJoin, Elsewhere, Groups
<1>6. WithinLimit'
  <2>1. \A n \in Hosts : TagsOf(n)' \subseteq TagsOf(n) /\ TagsOf(n) \subseteq TagIds
    BY <1>2 DEF TagsOf
  <2> QED
    BY <1>1, <2>1, FewerTags DEF OrgInv, WithinLimit, Elsewhere
<1> QED
  BY <1>1, <1>4, <1>5, <1>6, ElsewhereKeepsCheck
  DEF OrgInv, GoneHasNoGroup, GroupsExist, Groups, Elsewhere

\* NodeStore.Delete.
LEMMA HostStep ==
    ASSUME OrgInv, NEW n \in Hosts, DeleteHost(n)
    PROVE  OrgInv'
<1>1. Elsewhere /\ UNCHANGED <<groupName, tagName>>
  BY DEF DeleteHost, Elsewhere
<1>2. /\ hosts' = hosts \ {n} /\ groupOf' = [groupOf EXCEPT ![n] = NoGroup]
      /\ links' = {l \in links : l[1] # n}
  BY DEF DeleteHost
<1>3. RowsOK' /\ NamesUnique' /\ LinksJoin' /\ GoneHasNoGroup' /\ GroupsExist'
  BY <1>1, <1>2 DEF OrgInv, RowsOK, NamesUnique, LinksJoin, GoneHasNoGroup, GroupsExist,
                    Elsewhere, Groups, Tags
<1>4. WithinLimit'
  <2>1. \A m \in Hosts : TagsOf(m)' \subseteq TagsOf(m) /\ TagsOf(m) \subseteq TagIds
    BY <1>2 DEF TagsOf
  <2> QED
    BY <1>1, <2>1, FewerTags DEF OrgInv, WithinLimit, Elsewhere
<1> QED
  BY <1>1, <1>3, <1>4, ElsewhereKeepsCheck DEF OrgInv

-----------------------------------------------------------------------------
\* The steps of BatchUpdateMetadata before its writes.
LEMMA BatchBegins ==
    ASSUME OrgInv, BeginBatch \/ CheckBatch \/ RefuseBatch
    PROVE  OrgInv'
<1>1. UNCHANGED <<dialect, hosts, groupOf, groupName, tagName, links>>
  BY DEF BeginBatch, CheckBatch, RefuseBatch
<1>2. bulk' \in [at : {"idle", "begun", "checked"}, nodes : SUBSET Hosts,
                 group : GroupIds \cup {NoGroup}, setsGroup : BOOLEAN,
                 add : SUBSET TagIds, remove : SUBSET TagIds, count : Nat]
  <2>1. CASE BeginBatch
    BY <2>1 DEF OrgInv, RowsOK, BeginBatch
  <2>2. CASE CheckBatch
    BY <2>2 DEF OrgInv, RowsOK, CheckBatch
  <2>3. CASE RefuseBatch
    BY <2>3 DEF OrgInv, RowsOK, RefuseBatch, NoBulk
  <2> QED
    BY <2>1, <2>2, <2>3
<1>3. CheckHolds'
  <2>1. CASE BeginBatch
    BY <2>1 DEF CheckHolds, BeginBatch
  <2>2. CASE CheckBatch
    <3>1. bulk' = [bulk EXCEPT !.at = "checked"]
      BY <2>2 DEF CheckBatch
    <3>2. /\ bulk'.group = bulk.group /\ bulk'.nodes = bulk.nodes
          /\ bulk'.add = bulk.add /\ bulk'.remove = bulk.remove
      BY <3>1 DEF OrgInv, RowsOK
    <3>3. \A n \in bulk'.nodes : Within(n)'
      BY <1>1, <2>2, <3>2 DEF CheckBatch, Within, TagsOf
    <3> QED
      BY <1>1, <2>2, <3>2, <3>3 DEF CheckHolds, CheckBatch, Groups, Tags
  <2>3. CASE RefuseBatch
    BY <2>3 DEF CheckHolds, RefuseBatch, NoBulk
  <2> QED
    BY <2>1, <2>2, <2>3
<1> QED
  BY <1>1, <1>2, <1>3 DEF OrgInv, RowsOK, NamesUnique, LinksJoin, GoneHasNoGroup,
                          GroupsExist, WithinLimit, TagsOf, Groups, Tags

\* Its writes: under SQLite what was checked still holds.
LEMMA BatchCommits ==
    ASSUME OrgInv, CommitBatch
    PROVE  OrgInv'
<1>1. UNCHANGED <<dialect, hosts, groupName, tagName>> /\ bulk.at = "checked"
  BY DEF CommitBatch
<1>2. bulk' = [NoBulk EXCEPT !.count = bulk.count]
  BY DEF CommitBatch
<1>3. links' = (links \ (bulk.nodes \X bulk.remove))
                 \cup ((bulk.nodes \cap hosts) \X (bulk.add \cap Tags))
  BY DEF CommitBatch
<1>4. groupOf' = [n \in Hosts |-> IF bulk.setsGroup /\ n \in bulk.nodes \cap hosts
                                    THEN bulk.group ELSE groupOf[n]]
  BY DEF CommitBatch
<1>5. RowsOK' /\ NamesUnique' /\ CheckHolds'
  BY <1>1, <1>2, <1>4 DEF OrgInv, RowsOK, NamesUnique, CheckHolds, NoBulk, Groups, Tags
<1>6. LinksJoin'
  BY <1>1, <1>3 DEF OrgInv, LinksJoin, Tags
<1>7. GoneHasNoGroup' /\ GroupsExist'
  BY <1>1, <1>4 DEF OrgInv, RowsOK, GoneHasNoGroup, GroupsExist, CheckHolds, Groups
<1>8. WithinLimit'
  <2> SUFFICES ASSUME dialect = "sqlite", NEW n \in Hosts
               PROVE  Cardinality(TagsOf(n)') <= MaxTags
    BY <1>1 DEF WithinLimit
  <2>1. CASE n \in bulk.nodes
    <3> DEFINE TagsAfter == (TagsOf(n) \ bulk.remove) \cup bulk.add
    <3>1. TagsAfter \subseteq TagIds /\ Cardinality(TagsAfter) <= MaxTags
      BY <1>1, <2>1 DEF OrgInv, RowsOK, CheckHolds, Within, TagsOf
    <3>2. TagsOf(n)' \subseteq TagsAfter
      BY <1>3, <2>1 DEF TagsOf
    <3> QED
      BY <3>1, <3>2, FewerTags
  <2>2. CASE n \notin bulk.nodes
    <3>1. TagsOf(n)' = TagsOf(n)
      BY <1>3, <2>2 DEF TagsOf
    <3> QED
      BY <3>1 DEF OrgInv, WithinLimit
  <2> QED
    BY <2>1, <2>2
<1> QED
  BY <1>5, <1>6, <1>7, <1>8 DEF OrgInv

-----------------------------------------------------------------------------
\* Every step keeps the invariant.
LEMMA OrgStep == OrgInv /\ [OrgNext]_orgVars => OrgInv'
<1> SUFFICES ASSUME OrgInv, [OrgNext]_orgVars PROVE OrgInv'
  OBVIOUS
<1>1. CASE \E name \in Labels, g \in GroupIds : CreateGroup(g, name) \/ UpdateGroup(g, name)
  BY <1>1, GroupStep
<1>2. CASE \E name \in Labels, t \in TagIds : CreateTag(t, name) \/ UpdateTag(t, name)
  BY <1>2, TagStep
<1>3. CASE \E g \in GroupIds : DeleteGroup(g)
  BY <1>3, GroupDeletion
<1>4. CASE \E t \in TagIds : DeleteTag(t)
  BY <1>4, TagDeletion
<1>5. CASE \E n \in Hosts : DeleteHost(n)
  BY <1>5, HostStep
<1>6. CASE BeginBatch \/ CheckBatch \/ RefuseBatch
  BY <1>6, BatchBegins
<1>7. CASE CommitBatch
  BY <1>7, BatchCommits
<1>8. CASE UNCHANGED orgVars
  BY <1>8 DEF orgVars, OrgInv, RowsOK, NamesUnique, LinksJoin, GoneHasNoGroup,
              GroupsExist, WithinLimit, CheckHolds, Within, TagsOf, Groups, Tags
<1> QED
  BY <1>1, <1>2, <1>3, <1>4, <1>5, <1>6, <1>7, <1>8 DEF OrgNext

\* Every step keeps the types of the tables.
LEMMA OrgTypesKept == OrgTypeOK /\ OrgInv /\ [OrgNext]_orgVars => OrgTypeOK'
<1> SUFFICES ASSUME OrgTypeOK, OrgInv, [OrgNext]_orgVars PROVE OrgTypeOK'
  OBVIOUS
<1>1. CASE \E name \in Labels, g \in GroupIds : CreateGroup(g, name) \/ UpdateGroup(g, name)
  BY <1>1 DEF CreateGroup, UpdateGroup, With, OrgTypeOK, Groups, Tags
<1>2. CASE \E name \in Labels, t \in TagIds : CreateTag(t, name) \/ UpdateTag(t, name)
  BY <1>2 DEF CreateTag, UpdateTag, With, OrgTypeOK, Groups, Tags
<1>3. CASE \E g \in GroupIds : DeleteGroup(g)
  BY <1>3 DEF DeleteGroup, Without, OrgTypeOK, Groups, Tags
<1>4. CASE \E t \in TagIds : DeleteTag(t)
  BY <1>4 DEF DeleteTag, Without, OrgTypeOK, Groups, Tags
<1>5. CASE \E n \in Hosts : DeleteHost(n)
  BY <1>5 DEF DeleteHost, OrgTypeOK, Groups, Tags
<1>6. CASE BeginBatch \/ CheckBatch \/ RefuseBatch \/ UNCHANGED orgVars
  BY <1>6 DEF BeginBatch, CheckBatch, RefuseBatch, orgVars, OrgTypeOK, Groups, Tags
<1>7. CASE CommitBatch
  <2>1. groupOf' \in [Hosts -> GroupIds \cup {NoGroup}]
    BY <1>7 DEF CommitBatch, OrgTypeOK, OrgInv, RowsOK
  <2>2. links' \subseteq Hosts \X TagIds
    BY <1>7 DEF CommitBatch, OrgTypeOK, OrgInv, RowsOK
  <2> QED
    BY <1>7, <2>1, <2>2 DEF CommitBatch, OrgTypeOK, Groups, Tags
<1> QED
  BY <1>1, <1>2, <1>3, <1>4, <1>5, <1>6, <1>7 DEF OrgNext

\* The invariant holds of a new database.
LEMMA OrgStart == OrgInit => OrgTypeOK /\ OrgInv
<1> SUFFICES ASSUME OrgInit PROVE OrgTypeOK /\ OrgInv
  OBVIOUS
<1>1. Groups = {} /\ Tags = {}
  BY DEF OrgInit, Groups, Tags
<1>2. \A n \in Hosts : TagsOf(n) = {}
  BY DEF OrgInit, TagsOf
<1>3. WithinLimit
  BY <1>2, FS_EmptySet, LimitAssumption DEF WithinLimit
<1>4. OrgTypeOK
  BY <1>1 DEF OrgInit, OrgTypeOK, Groups, Tags
<1> QED
  BY <1>1, <1>3, <1>4 DEF OrgInit, OrgInv, RowsOK, NamesUnique, LinksJoin, GoneHasNoGroup,
                    GroupsExist, CheckHolds, NoBulk

\* Nothing the panel keeps about groups and tags refers to a row that is gone, but a
\* group with MySQL, whose batch update does not lock what it has checked
\* (node_organizations.go:375); with SQLite the limit of tags is kept as well.
THEOREM OrganizationCorrect == OrgSpec => []OrganizationSound
<1>1. OrgTypeOK /\ OrgInv => OrganizationSound
  <2> SUFFICES ASSUME OrgTypeOK, OrgInv PROVE OrganizationSound
    OBVIOUS
  <2>1. \A g \in Groups :
           {n \in hosts : groupOf[n] = g} = {n \in hosts : ShownGroup(n) = g}
    BY LimitAssumption DEF OrgInv, RowsOK, ShownGroup
  <2>2. \A g \in Groups : NodeCount(g) = Cardinality({n \in hosts : ShownGroup(n) = g})
    BY <2>1 DEF NodeCount
  <2>3. \A n \in hosts : ShownTags(n) = TagsOf(n)
    BY DEF OrgInv, RowsOK, LinksJoin, ShownTags, TagsOf
  <2>4. dialect = "sqlite" => \A n \in hosts : ShownGroup(n) = groupOf[n]
    BY DEF OrgInv, RowsOK, GroupsExist, ShownGroup
  <2> QED
    BY <2>2, <2>3, <2>4 DEF OrganizationSound, OrgInv, RowsOK, NamesUnique, LinksJoin,
                            GoneHasNoGroup, WithinLimit
<1> QED
  BY <1>1, OrgStart, OrgStep, OrgTypesKept, PTL DEF OrgSpec

-----------------------------------------------------------------------------
(* The services *)

Healths == {"healthy", "degraded", "unhealthy", "unknown"}

-----------------------------------------------------------------------------
(* Health                                                                  *)

LEMMA ProjectedHealth ==
    ASSUME NEW r \in Resources, NEW s
    PROVE  Project(r, s).health \in Healths
<1>1. NodeHealth(s) \in Healths /\ UptimeHealth(s) \in Healths /\ AlertHealth(s) \in Healths
  BY DEF NodeHealth, UptimeHealth, AlertHealth, Healths
<1>2. TaskHealth(s) \in Healths /\ ComposeHealth(s) \in Healths
  BY DEF TaskHealth, ComposeHealth, Healths
<1>3. SystemdHealth(s) \in Healths /\ WorkloadHealth(s) \in Healths
  BY DEF SystemdHealth, WorkloadHealth, Healths
<1>4. HealthOf(r, s) \in Healths
  BY <1>1, <1>2, <1>3, ResourceAssumption DEF HealthOf
<1> QED
  BY <1>4 DEF Project, Healths

\* The aggregate claims no more than what is projected of each resource.
LEMMA AggregateIsEarned ==
    ASSUME NEW shown, \A r \in DOMAIN shown : shown[r].health \in Healths
    PROVE  LET of(h) == {r \in DOMAIN shown : shown[r].health = h}
           IN  /\ (AggregateOf(shown) = "healthy") <=>
                     (of("healthy") = DOMAIN shown /\ DOMAIN shown # {})
               /\ (AggregateOf(shown) = "unhealthy") <=> (of("unhealthy") # {})
               /\ (AggregateOf(shown) = "unknown") <=> (of("unknown") = DOMAIN shown)
<1> DEFINE healths == {shown[r].health : r \in DOMAIN shown}
<1> DEFINE of(h) == {r \in DOMAIN shown : shown[r].health = h}
<1>1. healths \subseteq Healths
  OBVIOUS
<1>2. \A h \in Healths : h \in healths <=> of(h) # {}
  OBVIOUS
<1>3. AggregateOf(shown) =
        IF "unhealthy" \in healths THEN "unhealthy"
        ELSE IF "degraded" \in healths \/ {"unknown", "healthy"} \subseteq healths
        THEN "degraded"
        ELSE IF "healthy" \in healths THEN "healthy" ELSE "unknown"
  BY DEF AggregateOf
<1>4. \A h \in Healths : of(h) = DOMAIN shown <=> healths \subseteq {h}
  OBVIOUS
<1>5. DOMAIN shown = {} <=> healths = {}
  OBVIOUS
<1> HIDE DEF healths, of
<1>6. (AggregateOf(shown) = "unhealthy") <=> (of("unhealthy") # {})
  BY <1>2, <1>3 DEF Healths
<1>7. (AggregateOf(shown) = "unknown") <=> (of("unknown") = DOMAIN shown)
  BY <1>1, <1>3, <1>4 DEF Healths
<1>8. (AggregateOf(shown) = "healthy") <=> (of("healthy") = DOMAIN shown /\ DOMAIN shown # {})
  BY <1>1, <1>3, <1>4, <1>5 DEF Healths
<1> QED
  BY <1>6, <1>7, <1>8 DEF of

-----------------------------------------------------------------------------
(* The inductive invariant                                                 *)

\* What reads the row of a resource, and what is still to be read
QueryOf(r) ==
    IF r.type \in {"node", "compose_project", "systemd_service"} THEN "node"
    ELSE IF r.type = "k8s_workload" THEN "k8s_cluster" ELSE r.type

Remaining == {<<"node", "uptime_monitor", "alert_rule", "scheduled_task", "k8s_cluster">>,
              <<"uptime_monitor", "alert_rule", "scheduled_task", "k8s_cluster">>,
              <<"alert_rule", "scheduled_task", "k8s_cluster">>,
              <<"scheduled_task", "k8s_cluster">>, <<"k8s_cluster">>, <<>>}

\* A row says what was true at some moment of the request; that of a place, that it was
\* there, or that nothing on it was.
RowTrue(x, r) ==
    IF IsRemote(r) THEN x = "row" \/ (x = Absent /\ Absent \in held[r]) ELSE x \in held[r]

IsRequest ==
    /\ request = [at |-> request.at, id |-> request.id, resources |-> request.resources,
                  kinds |-> request.kinds, rows |-> request.rows, waiting |-> request.waiting,
                  running |-> request.running, entries |-> request.entries,
                  ended |-> request.ended, shown |-> request.shown, health |-> request.health]
    /\ request.at \in {"idle", "local", "remote", "shown"}
    /\ request.resources \subseteq Resources
    /\ request.at = "idle" => request.resources = {}

ServicesOK ==
    /\ \A i, j \in DOMAIN services : services[i].name = services[j].name => i = j
    /\ \A i \in DOMAIN services : Cardinality(services[i].resources) <= MaxResources
                                /\ services[i].resources \subseteq Resources

SlotsOK == IsFiniteSet(request.running) /\ Cardinality(request.running) <= Slots

HeldOK ==
    /\ DOMAIN held = Resources
    /\ request.at # "idle" => \A r \in Resources : Truth(r) \in held[r] /\ world[r] \in held[r]

ReadingOK ==
    /\ request.kinds \in Remaining
    /\ request.at = "remote" => request.kinds = <<>>
    /\ request.at \in {"local", "remote"} => \A r \in request.resources :
          \/ \E k \in DOMAIN request.kinds : request.kinds[k] = QueryOf(r)
          \/ r \in DOMAIN request.rows /\ RowTrue(request.rows[r], r)

EntriesOK ==
    /\ request.at = "idle" => DOMAIN request.entries = {}
    /\ \A r \in DOMAIN request.entries :
          r \in Resources /\ (request.entries[r] \in held[r] \/ request.entries[r] = Unavailable)
    /\ request.at = "remote" => \A r \in request.resources : IsRemote(r) =>
          \/ SourceOf(r) \in request.waiting \cup request.running
          \/ r \in DOMAIN request.entries \/ request.ended

ShownOK == (request.at = "shown" => DOMAIN request.shown = request.resources)
           /\ (request.at # "shown" => request.shown = <<>>)

ServiceInv ==
    /\ IsRequest /\ ServicesOK /\ SlotsOK /\ HeldOK /\ ReadingOK /\ EntriesOK /\ ShownOK
    /\ ShownWasTrue /\ HealthIsEarned

\* What is projected depends on nothing that changes.
LEMMA ProjectionIsFixed ==
    ASSUME NEW r \in Resources, NEW s
    PROVE  Project(r, s)' = Project(r, s)
BY DEF Project, HealthOf, NodeHealth, UptimeHealth, AlertHealth, TaskHealth, ComposeHealth,
       SystemdHealth, WorkloadHealth

\* Between requests nothing is held.
LEMMA NoRequestOK ==
    ASSUME request' = NoRequest, held' = [r \in Resources |-> {}]
    PROVE  IsRequest' /\ SlotsOK' /\ HeldOK' /\ ReadingOK' /\ EntriesOK' /\ ShownOK'
           /\ ShownWasTrue' /\ HealthIsEarned'
<1>1. IsRequest'
  BY DEF IsRequest, NoRequest
<1>2. request'.at = "idle" /\ request'.running = {} /\ request'.kinds = <<>>
      /\ request'.entries = <<>> /\ request'.shown = <<>>
  BY DEF NoRequest
<1>3. SlotsOK'
  BY <1>2, FS_EmptySet, ServiceAssumption DEF SlotsOK
<1>4. HeldOK' /\ ReadingOK' /\ ShownOK' /\ HealthIsEarned'
  BY <1>2 DEF HeldOK, ReadingOK, Remaining, ShownOK, HealthIsEarned
<1>5. EntriesOK' /\ ShownWasTrue'
  BY <1>2 DEF EntriesOK, ShownWasTrue
<1> QED
  BY <1>1, <1>3, <1>4, <1>5

\* A request begins.
LEMMA RequestBegins ==
    ASSUME NEW id, NEW resources \in SUBSET Resources, Serves(id, resources),
           world' = world, places' = places
    PROVE  IsRequest' /\ SlotsOK' /\ HeldOK' /\ ReadingOK' /\ EntriesOK' /\ ShownOK'
           /\ ShownWasTrue' /\ HealthIsEarned'
<1>1. request' = [at |-> "local", id |-> id, resources |-> resources, kinds |-> Kinds,
                  rows |-> <<>>, waiting |-> {}, running |-> {}, entries |-> <<>>,
                  ended |-> FALSE, shown |-> <<>>, health |-> ""]
  BY DEF Serves, NoRequest
<1>2. IsRequest'
  BY <1>1 DEF IsRequest
<1>3. SlotsOK'
  <2>1. request'.running = {}
    BY <1>1
  <2> QED
    BY <2>1, FS_EmptySet, ServiceAssumption DEF SlotsOK
<1>4. \A r \in Resources : Truth(r)' = Truth(r)
  BY DEF Truth, PlaceOf, HasPlace, IsRemote
<1>5. HeldOK'
  BY <1>4 DEF HeldOK, Serves
<1>6. ReadingOK'
  <2>1. ASSUME NEW r \in resources PROVE \E k \in DOMAIN Kinds : Kinds[k] = QueryOf(r)
    <3>1. QueryOf(r) \in {"node", "uptime_monitor", "alert_rule", "scheduled_task", "k8s_cluster"}
      BY ResourceAssumption DEF QueryOf
    <3>2. /\ DOMAIN Kinds = 1 .. 5
          /\ Kinds[1] = "node" /\ Kinds[2] = "uptime_monitor" /\ Kinds[3] = "alert_rule"
          /\ Kinds[4] = "scheduled_task" /\ Kinds[5] = "k8s_cluster"
      BY DEF Kinds
    <3> QED
      BY <3>1, <3>2
  <2>2. Kinds \in Remaining
    BY DEF Kinds, Remaining
  <2> QED
    BY <1>1, <2>1, <2>2 DEF ReadingOK
<1>7. EntriesOK' /\ ShownOK' /\ ShownWasTrue' /\ HealthIsEarned'
  <2>1. request'.at = "local" /\ request'.entries = <<>> /\ request'.shown = <<>>
    BY <1>1
  <2> QED
    BY <2>1 DEF EntriesOK, ShownOK, ShownWasTrue, HealthIsEarned
<1> QED
  BY <1>2, <1>3, <1>5, <1>6, <1>7

-----------------------------------------------------------------------------
(* The requests of administrators                                          *)

\* What is known of the request while nothing it has read or shown changes.
LEMMA RequestUntouched ==
    ASSUME ServiceInv, UNCHANGED <<world, places, request, held>>
    PROVE  IsRequest' /\ SlotsOK' /\ HeldOK' /\ ReadingOK' /\ EntriesOK' /\ ShownOK'
           /\ ShownWasTrue' /\ HealthIsEarned'
<1>1. \A r : Truth(r)' = Truth(r)
  BY DEF Truth, PlaceOf, HasPlace, IsRemote
<1>2. \A x, r : RowTrue(x, r)' = RowTrue(x, r)
  BY DEF RowTrue, IsRemote
<1>3. HeldOK' /\ ReadingOK'
  BY <1>1, <1>2 DEF ServiceInv, HeldOK, ReadingOK
<1>4. IsRequest' /\ SlotsOK' /\ ShownOK' /\ ShownWasTrue' /\ HealthIsEarned'
  BY DEF ServiceInv, IsRequest, SlotsOK, ShownOK, ShownWasTrue, HealthIsEarned
<1>5. EntriesOK'
  BY DEF ServiceInv, EntriesOK
<1> QED
  BY <1>3, <1>4, <1>5

LEMMA DefinitionStored ==
    ASSUME ServiceInv, NEW id \in Services, NEW name \in Names, NEW resources \in Definitions,
           CreateService(id, name, resources) \/ UpdateService(id, name, resources)
    PROVE  ServiceInv'
<1>1. Stores(id, name, resources) /\ ServesOne(id, resources) /\ UNCHANGED <<world, places>>
  BY DEF CreateService, UpdateService
<1>2. ServicesOK'
  <2>1. resources \subseteq Resources /\ Cardinality(resources) <= MaxResources
        /\ \A other \in DOMAIN services \ {id} : services[other].name # name
    BY <1>1, ResourceAssumption DEF Stores, Accepts
  <2> QED
    BY <1>1, <2>1 DEF Stores, ServicesOK, ServiceInv
<1>3. CASE request.at = "idle"
  <2>1. Serves(id, resources) /\ resources \in SUBSET Resources
    BY <1>1, <1>3, ResourceAssumption DEF ServesOne
  <2> QED
    BY <1>1, <1>2, <2>1, RequestBegins DEF ServiceInv
<1>4. CASE request.at # "idle"
  <2>1. UNCHANGED <<request, held>>
    BY <1>1, <1>4 DEF ServesOne
  <2> QED
    BY <1>1, <1>2, <2>1, RequestUntouched DEF ServiceInv
<1> QED
  BY <1>3, <1>4

LEMMA ServiceDeleted ==
    ASSUME ServiceInv, NEW id \in Services, DeleteService(id)
    PROVE  ServiceInv'
<1>1. services' = [i \in DOMAIN services \ {id} |-> services[i]]
      /\ UNCHANGED <<world, places, request, held>>
  BY DEF DeleteService
<1>2. ServicesOK'
  BY <1>1 DEF ServicesOK, ServiceInv
<1> QED
  BY <1>1, <1>2, RequestUntouched DEF ServiceInv

LEMMA ServiceAsked ==
    ASSUME ServiceInv, NEW id \in Services, GetService(id)
    PROVE  ServiceInv'
<1>1. Serves(id, services[id].resources) /\ UNCHANGED <<services, world, places>>
      /\ id \in DOMAIN services
  BY DEF GetService
<1>2. ServicesOK' /\ services[id].resources \in SUBSET Resources
  BY <1>1 DEF ServicesOK, ServiceInv
<1> DEFINE resources == services[id].resources
<1> HIDE DEF resources
<1>3. Serves(id, resources) /\ resources \in SUBSET Resources
  BY <1>1, <1>2 DEF resources
<1> QED
  BY <1>1, <1>2, <1>3, RequestBegins DEF ServiceInv

-----------------------------------------------------------------------------
(* The projection                                                          *)

\* What is true does not move with the request.
LEMMA SameTruth ==
    ASSUME UNCHANGED <<world, places, held>>
    PROVE  /\ \A r : Truth(r)' = Truth(r)
           /\ \A x, r : RowTrue(x, r)' = RowTrue(x, r)
BY DEF Truth, PlaceOf, HasPlace, IsRemote, RowTrue

LEMMA RowsLoaded ==
    ASSUME ServiceInv, LoadRows
    PROVE  ServiceInv'
<1> DEFINE kind == Head(request.kinds)
<1> DEFINE read == {r \in request.resources :
                      CASE kind = "node" -> r.type \in {"node", "compose_project", "systemd_service"}
                        [] kind = "k8s_cluster" -> r.type = "k8s_workload"
                        [] OTHER -> r.type = kind}
<1> DEFINE row(r) == IF IsRemote(r) THEN (IF r.scope \in places THEN "row" ELSE Absent)
                     ELSE Truth(r)
<1> DEFINE rows == [r \in read \cup DOMAIN request.rows |->
                      IF r \in read THEN row(r) ELSE request.rows[r]]
<1>1. /\ request.at = "local" /\ request.kinds # <<>>
      /\ request' = [request EXCEPT !.kinds = Tail(request.kinds), !.rows = rows]
      /\ UNCHANGED <<services, world, places, held>>
  BY DEF LoadRows
<1>2. /\ request'.kinds = Tail(request.kinds) /\ request'.rows = rows
      /\ request'.at = "local" /\ request'.resources = request.resources
      /\ request'.running = request.running /\ request'.entries = request.entries
      /\ request'.shown = request.shown
  BY <1>1 DEF ServiceInv, IsRequest
<1>3. IsRequest'
  BY <1>1 DEF ServiceInv, IsRequest
<1>4. Tail(request.kinds) \in Remaining
      /\ \A k \in DOMAIN request.kinds : request.kinds[k] # kind =>
            \E j \in DOMAIN Tail(request.kinds) : Tail(request.kinds)[j] = request.kinds[k]
  <2>1. request.kinds \in Remaining \ {<<>>}
    BY <1>1 DEF ServiceInv, ReadingOK
  <2>2. CASE request.kinds = <<"node", "uptime_monitor", "alert_rule", "scheduled_task", "k8s_cluster">>
    BY <2>2 DEF Remaining
  <2>3. CASE request.kinds = <<"uptime_monitor", "alert_rule", "scheduled_task", "k8s_cluster">>
    BY <2>3 DEF Remaining
  <2>4. CASE request.kinds = <<"alert_rule", "scheduled_task", "k8s_cluster">>
    BY <2>4 DEF Remaining
  <2>5. CASE request.kinds = <<"scheduled_task", "k8s_cluster">>
    BY <2>5 DEF Remaining
  <2>6. CASE request.kinds = <<"k8s_cluster">>
    BY <2>6 DEF Remaining
  <2> QED
    BY <2>1, <2>2, <2>3, <2>4, <2>5, <2>6 DEF Remaining
<1>8. kind \in {"node", "uptime_monitor", "alert_rule", "scheduled_task", "k8s_cluster"}
  BY <1>1 DEF ServiceInv, ReadingOK, Remaining
<1> HIDE DEF kind
<1>5. \A r \in request.resources : r \in read <=> QueryOf(r) = kind
  <2>1. \A r \in request.resources :
           r.type \in {"node", "uptime_monitor", "alert_rule", "scheduled_task",
                      "compose_project", "systemd_service", "k8s_workload"}
    BY ResourceAssumption DEF ServiceInv, IsRequest
  <2>2. CASE kind = "node"
    BY <2>1, <2>2 DEF QueryOf
  <2>3. CASE kind = "k8s_cluster"
    BY <2>1, <2>3 DEF QueryOf
  <2>4. CASE kind \in {"uptime_monitor", "alert_rule", "scheduled_task"}
    <3>1. \A r \in request.resources : r \in read <=> r.type = kind
      BY <2>4
    <3>2. \A r \in request.resources : QueryOf(r) = kind <=> r.type = kind
      BY <2>1, <2>4 DEF QueryOf
    <3> QED
      BY <3>1, <3>2
  <2> HIDE DEF read
  <2> QED
    BY <1>8, <2>2, <2>3, <2>4
<1>6. \A r \in read : RowTrue(row(r), r)
  <2> SUFFICES ASSUME NEW r \in read PROVE RowTrue(row(r), r)
    OBVIOUS
  <2>1. r \in Resources /\ Truth(r) \in held[r]
    BY <1>1 DEF ServiceInv, IsRequest, HeldOK
  <2>2. CASE IsRemote(r)
    <3>1. HasPlace(r) /\ PlaceOf(r) = r.scope
      BY <2>2 DEF IsRemote, HasPlace, PlaceOf
    <3> QED
      BY <2>1, <2>2, <3>1 DEF RowTrue, Truth
  <2>3. CASE ~ IsRemote(r)
    BY <2>1, <2>3 DEF RowTrue
  <2> QED
    BY <2>2, <2>3
<1>7. ReadingOK'
  <2>1. ASSUME NEW r \in request.resources
        PROVE  \/ \E k \in DOMAIN Tail(request.kinds) : Tail(request.kinds)[k] = QueryOf(r)
               \/ r \in DOMAIN rows /\ RowTrue(rows[r], r)
    <3>1. CASE r \in read
      BY <1>6, <3>1
    <3>2. CASE r \notin read
      <4>1. QueryOf(r) # kind
        BY <1>5, <3>2
      <4>2. \/ \E k \in DOMAIN request.kinds : request.kinds[k] = QueryOf(r)
            \/ r \in DOMAIN request.rows /\ RowTrue(request.rows[r], r)
        BY <1>1 DEF ServiceInv, ReadingOK
      <4> HIDE DEF read, row
      <4> QED
        BY <1>4, <3>2, <4>1, <4>2
    <3> QED
      BY <3>1, <3>2
  <2> HIDE DEF rows
  <2> QED
    BY <1>1, <1>2, <1>4, <2>1, SameTruth DEF ReadingOK
<1> HIDE DEF rows
<1> QED
  BY <1>1, <1>2, <1>3, <1>7, SameTruth
  DEF ServiceInv, ServicesOK, SlotsOK, HeldOK, EntriesOK, ShownOK, ShownWasTrue, HealthIsEarned

LEMMA ReadingStarts ==
    ASSUME ServiceInv, StartReading
    PROVE  ServiceInv'
<1> DEFINE sources == {SourceOf(r) : r \in {s \in request.resources : IsRemote(s)}}
<1>1. /\ request.at = "local" /\ request.kinds = <<>>
      /\ request' = [request EXCEPT !.at = "remote", !.waiting = sources]
      /\ UNCHANGED <<services, world, places, held>>
  BY DEF StartReading
<1>2. \A r \in request.resources : IsRemote(r) => SourceOf(r) \in sources
  OBVIOUS
<1> HIDE DEF sources
<1>3. /\ request'.kinds = request.kinds /\ request'.rows = request.rows
      /\ request'.at = "remote" /\ request'.resources = request.resources
      /\ request'.running = request.running /\ request'.entries = request.entries
      /\ request'.shown = request.shown /\ request'.waiting = sources
  BY <1>1 DEF ServiceInv, IsRequest
<1>4. IsRequest'
  BY <1>1 DEF ServiceInv, IsRequest
<1>5. ReadingOK'
  BY <1>1, <1>3, SameTruth DEF ServiceInv, ReadingOK
<1>6. EntriesOK'
  BY <1>1, <1>2, <1>3 DEF ServiceInv, EntriesOK
<1> QED
  BY <1>1, <1>3, <1>4, <1>5, <1>6, SameTruth
  DEF ServiceInv, ServicesOK, SlotsOK, HeldOK, ShownOK, ShownWasTrue, HealthIsEarned

LEMMA SlotTaken ==
    ASSUME ServiceInv, NEW source, TakeSlot(source)
    PROVE  ServiceInv'
<1>1. /\ Cardinality(request.running) < Slots
      /\ request' = [request EXCEPT !.waiting = request.waiting \ {source},
                                    !.running = request.running \cup {source}]
      /\ UNCHANGED <<services, world, places, held>>
  BY DEF TakeSlot
<1>2. /\ request'.kinds = request.kinds /\ request'.rows = request.rows
      /\ request'.at = request.at /\ request'.resources = request.resources
      /\ request'.running = request.running \cup {source} /\ request'.entries = request.entries
      /\ request'.shown = request.shown /\ request'.waiting = request.waiting \ {source}
      /\ request'.ended = request.ended /\ request'.health = request.health
  BY <1>1 DEF ServiceInv, IsRequest
<1>3. IsRequest'
  BY <1>1 DEF ServiceInv, IsRequest
<1>4. SlotsOK'
  <2>1. IsFiniteSet(request.running) /\ Cardinality(request.running) \in Nat
    BY FS_CardinalityType DEF ServiceInv, SlotsOK
  <2> DEFINE before == request.running
  <2> HIDE DEF before
  <2>2. IsFiniteSet(before) /\ Cardinality(before) \in Nat
    BY <2>1 DEF before
  <2>3. IsFiniteSet(before \cup {source})
        /\ Cardinality(before \cup {source}) \in {Cardinality(before), Cardinality(before) + 1}
    BY <2>2, FS_AddElement
  <2>4. Cardinality(before \cup {source}) <= Slots
    BY <1>1, <2>2, <2>3, ServiceAssumption DEF before
  <2> QED
    BY <1>2, <2>3, <2>4 DEF SlotsOK, before
<1>5. ReadingOK'
  BY <1>1, <1>2, SameTruth DEF ServiceInv, ReadingOK
<1>6. EntriesOK'
  BY <1>1, <1>2 DEF ServiceInv, EntriesOK
<1> QED
  BY <1>1, <1>2, <1>3, <1>4, <1>5, <1>6, SameTruth
  DEF ServiceInv, ServicesOK, HeldOK, ShownOK, ShownWasTrue, HealthIsEarned

\* A worker that leaves the queue at the deadline
LEMMA SlotNotTaken ==
    ASSUME ServiceInv, NEW source, GiveUp(source)
    PROVE  ServiceInv'
<1>1. /\ request.ended
      /\ request' = [request EXCEPT !.waiting = request.waiting \ {source}]
      /\ UNCHANGED <<services, world, places, held>>
  BY DEF GiveUp
<1>2. /\ request'.kinds = request.kinds /\ request'.rows = request.rows
      /\ request'.at = request.at /\ request'.resources = request.resources
      /\ request'.running = request.running /\ request'.entries = request.entries
      /\ request'.shown = request.shown /\ request'.ended = request.ended
      /\ request'.health = request.health
  BY <1>1 DEF ServiceInv, IsRequest
<1>3. IsRequest'
  BY <1>1 DEF ServiceInv, IsRequest
<1>4. ReadingOK'
  BY <1>1, <1>2, SameTruth DEF ServiceInv, ReadingOK
<1>5. EntriesOK'
  BY <1>1, <1>2 DEF ServiceInv, EntriesOK
<1> QED
  BY <1>1, <1>2, <1>3, <1>4, <1>5, SameTruth
  DEF ServiceInv, ServicesOK, SlotsOK, HeldOK, ShownOK, ShownWasTrue, HealthIsEarned

LEMMA DeadlinePasses ==
    ASSUME ServiceInv, Deadline
    PROVE  ServiceInv'
<1>1. /\ request.at = "remote" /\ request' = [request EXCEPT !.ended = TRUE]
      /\ UNCHANGED <<services, world, places, held>>
  BY DEF Deadline
<1>2. /\ request'.kinds = request.kinds /\ request'.rows = request.rows
      /\ request'.at = request.at /\ request'.resources = request.resources
      /\ request'.running = request.running /\ request'.entries = request.entries
      /\ request'.shown = request.shown /\ request'.ended
  BY <1>1 DEF ServiceInv, IsRequest
<1>3. IsRequest'
  BY <1>1 DEF ServiceInv, IsRequest
<1>4. ReadingOK'
  BY <1>1, <1>2, SameTruth DEF ServiceInv, ReadingOK
<1>5. EntriesOK'
  BY <1>1, <1>2 DEF ServiceInv, EntriesOK
<1> QED
  BY <1>1, <1>2, <1>3, <1>4, <1>5, SameTruth
  DEF ServiceInv, ServicesOK, SlotsOK, HeldOK, ShownOK, ShownWasTrue, HealthIsEarned

\* The Agent or the cluster answers, or does not.
LEMMA SourceAnswers ==
    ASSUME ServiceInv, NEW source, Answer(source)
    PROVE  ServiceInv'
<1> DEFINE listed == {r \in request.resources : SourceOf(r) = source}
<1>1. PICK fails \in BOOLEAN :
         LET entry == IF fails THEN [r \in listed |-> Unavailable] ELSE [r \in listed |-> world[r]]
         IN  request' = [request EXCEPT
                 !.running = @ \ {source},
                 !.entries = [r \in DOMAIN @ \cup listed |->
                                IF r \in listed THEN entry[r] ELSE request.entries[r]]]
  BY DEF Answer
<1>2. UNCHANGED <<services, world, places, held>>
  BY DEF Answer
<1> DEFINE entry == IF fails THEN [r \in listed |-> Unavailable] ELSE [r \in listed |-> world[r]]
<1> DEFINE entries == [r \in DOMAIN request.entries \cup listed |->
                         IF r \in listed THEN entry[r] ELSE request.entries[r]]
<1>3. request' = [request EXCEPT !.running = request.running \ {source}, !.entries = entries]
  BY <1>1
<1>4. \A r \in listed : entry[r] = Unavailable \/ entry[r] = world[r]
  OBVIOUS
<1> HIDE DEF entry
<1>5. DOMAIN entries = DOMAIN request.entries \cup listed
      /\ \A r \in DOMAIN entries : r \in Resources /\
            (entries[r] \in held[r] \/ entries[r] = Unavailable)
  <2>1. request.at # "idle" \/ listed = {}
    BY DEF ServiceInv, IsRequest
  <2> QED
    BY <1>4, <2>1 DEF ServiceInv, IsRequest, EntriesOK, HeldOK
<1> HIDE DEF entries
<1>6. /\ request'.kinds = request.kinds /\ request'.rows = request.rows
      /\ request'.at = request.at /\ request'.resources = request.resources
      /\ request'.running = request.running \ {source} /\ request'.entries = entries
      /\ request'.shown = request.shown /\ request'.waiting = request.waiting
      /\ request'.ended = request.ended /\ request'.health = request.health
  BY <1>3 DEF ServiceInv, IsRequest
<1>7. IsRequest'
  BY <1>3 DEF ServiceInv, IsRequest
<1>8. SlotsOK'
  <2>1. IsFiniteSet(request.running) /\ Cardinality(request.running) <= Slots
    BY DEF ServiceInv, SlotsOK
  <2>2. /\ IsFiniteSet(request.running \ {source})
        /\ Cardinality(request.running \ {source}) <= Cardinality(request.running)
        /\ Cardinality(request.running \ {source}) \in Nat
        /\ Cardinality(request.running) \in Nat
    BY <2>1, FS_Subset, FS_CardinalityType
  <2> QED
    BY <1>6, <2>1, <2>2, ServiceAssumption DEF SlotsOK
<1>9. ReadingOK'
  BY <1>2, <1>6, SameTruth DEF ServiceInv, ReadingOK
<1>10. EntriesOK'
  <2>1. ASSUME request.at = "remote", NEW r \in request.resources, IsRemote(r)
        PROVE  \/ SourceOf(r) \in request.waiting \cup (request.running \ {source})
               \/ r \in DOMAIN entries \/ request.ended
    BY <1>5, <2>1 DEF ServiceInv, EntriesOK
  <2>2. request.at = "idle" => DOMAIN entries = {}
    BY <1>5 DEF ServiceInv, IsRequest, EntriesOK
  <2> QED
    BY <1>2, <1>5, <1>6, <2>1, <2>2 DEF EntriesOK
<1>11. ShownWasTrue'
  BY <1>2, <1>5, <1>6 DEF ServiceInv, ShownWasTrue
<1> QED
  BY <1>2, <1>6, <1>7, <1>8, <1>9, <1>10, <1>11, SameTruth
  DEF ServiceInv, ServicesOK, HeldOK, ShownOK, HealthIsEarned

\* What was read of a resource was true at some moment, or it could not be read.
LEMMA ReadingIsTrue ==
    ASSUME ServiceInv, request.at = "remote", request.waiting = {}, request.running = {},
           NEW r \in request.resources
    PROVE  \/ ReadingOf(r) \in held[r]
           \/ ReadingOf(r) = Unavailable /\ (request.ended \/ r \in DOMAIN request.entries)
<1>1. RowTrue(request.rows[r], r)
  BY DEF ServiceInv, ReadingOK
<1>2. CASE ~ IsRemote(r)
  BY <1>1, <1>2 DEF RowTrue, ReadingOf
<1>3. CASE IsRemote(r) /\ request.rows[r] = Absent
  BY <1>1, <1>3, ResourceAssumption DEF RowTrue, ReadingOf
<1>4. CASE IsRemote(r) /\ request.rows[r] # Absent
  <2>1. r \in DOMAIN request.entries \/ request.ended
    BY <1>4 DEF ServiceInv, EntriesOK
  <2>2. r \in DOMAIN request.entries =>
           request.entries[r] \in held[r] \/ request.entries[r] = Unavailable
    BY DEF ServiceInv, EntriesOK
  <2> QED
    BY <1>4, <2>1, <2>2 DEF ReadingOf
<1> QED
  BY <1>2, <1>3, <1>4

LEMMA HealthPublished ==
    ASSUME ServiceInv, Publish
    PROVE  ServiceInv'
<1> DEFINE shown == Projected
<1> DEFINE health == AggregateOf(Projected)
<1>1. /\ request.at = "remote" /\ request.waiting = {} /\ request.running = {}
      /\ request' = [request EXCEPT !.at = "shown", !.shown = shown, !.health = health]
      /\ UNCHANGED <<services, world, places, held>>
  BY DEF Publish
<1>2. DOMAIN shown = request.resources
      /\ \A r \in request.resources : shown[r] = Project(r, ReadingOf(r))
  BY DEF Projected
<1>3. \A r \in DOMAIN shown : shown[r].health \in Healths
  BY <1>2, ProjectedHealth DEF ServiceInv, IsRequest
<1> DEFINE of(h) == {r \in DOMAIN shown : shown[r].health = h}
<1>4. /\ (health = "healthy") <=> (of("healthy") = DOMAIN shown /\ DOMAIN shown # {})
      /\ (health = "unhealthy") <=> (of("unhealthy") # {})
      /\ (health = "unknown") <=> (of("unknown") = DOMAIN shown)
  BY <1>3, AggregateIsEarned
<1> HIDE DEF shown, health
<1>5. /\ request'.kinds = request.kinds /\ request'.rows = request.rows
      /\ request'.at = "shown" /\ request'.resources = request.resources
      /\ request'.running = request.running /\ request'.entries = request.entries
      /\ request'.shown = shown /\ request'.waiting = request.waiting
      /\ request'.ended = request.ended /\ request'.health = health
  BY <1>1 DEF ServiceInv, IsRequest
<1>6. IsRequest'
  BY <1>1 DEF ServiceInv, IsRequest
<1>7. ReadingOK'
  BY <1>1, <1>5 DEF ServiceInv, ReadingOK
<1>8. EntriesOK' /\ ShownOK'
  BY <1>1, <1>2, <1>5 DEF ServiceInv, EntriesOK, ShownOK
<1>9. ShownWasTrue'
  <2> SUFFICES ASSUME NEW r \in request.resources
               PROVE  \/ \E s \in held[r] : shown[r] = Project(r, s)
                      \/ /\ shown[r] = Project(r, Unavailable)
                         /\ request.ended \/ r \in DOMAIN request.entries
    <3>1. \A r \in request.resources : \A s : Project(r, s)' = Project(r, s)
      BY ProjectionIsFixed DEF ServiceInv, IsRequest
    <3>2. Unavailable' = Unavailable
      OBVIOUS
    <3> QED
      BY <1>1, <1>2, <1>5, <3>1, <3>2 DEF ShownWasTrue
  <2> QED
    BY <1>1, <1>2, ReadingIsTrue
<1>10. HealthIsEarned'
  BY <1>2, <1>4, <1>5 DEF HealthIsEarned
<1> QED
  BY <1>1, <1>5, <1>6, <1>7, <1>8, <1>9, <1>10, SameTruth
  DEF ServiceInv, ServicesOK, SlotsOK, HeldOK

LEMMA RequestEnded ==
    ASSUME ServiceInv, EndRequest
    PROVE  ServiceInv'
<1>1. request' = NoRequest /\ held' = [r \in Resources |-> {}] /\ services' = services
  BY DEF EndRequest
<1> QED
  BY <1>1, NoRequestOK DEF ServiceInv, ServicesOK

-----------------------------------------------------------------------------
(* What is read changes meanwhile                                          *)

LEMMA WorldMoves ==
    ASSUME ServiceInv, Follow, UNCHANGED <<services, request>>
    PROVE  ServiceInv'
<1>1. DOMAIN held' = Resources
  BY DEF Follow
<1>2. request.at # "idle" => \A r \in Resources :
         held[r] \subseteq held'[r] /\ Truth(r)' \in held'[r] /\ world'[r] \in held'[r]
  BY DEF Follow
<1>3. HeldOK' /\ IsRequest' /\ ServicesOK' /\ SlotsOK' /\ ShownOK' /\ HealthIsEarned'
  BY <1>1, <1>2
  DEF ServiceInv, HeldOK, IsRequest, ServicesOK, SlotsOK, ShownOK, HealthIsEarned
<1>4. ReadingOK'
  <2>1. ASSUME request.at # "idle", NEW r \in Resources, NEW x, RowTrue(x, r)
        PROVE  RowTrue(x, r)'
    BY <1>2, <2>1 DEF RowTrue, IsRemote
  <2> QED
    BY <2>1 DEF ServiceInv, ReadingOK, IsRequest
<1>5. CASE request.at = "idle"
  <2>1. request.resources = {} /\ request.shown = <<>>
    BY <1>5 DEF ServiceInv, IsRequest, ShownOK
  <2>2. ShownWasTrue'
    BY <2>1 DEF ShownWasTrue
  <2>3. EntriesOK'
    BY <1>5 DEF ServiceInv, EntriesOK
  <2> QED
    BY <1>3, <1>4, <2>2, <2>3 DEF ServiceInv
<1>6. CASE request.at # "idle"
  <2>1. ShownWasTrue'
    <3>1. \A r \in DOMAIN request.shown : r \in Resources
      BY DEF ServiceInv, ShownOK, IsRequest
    <3>2. \A r \in DOMAIN request.shown : \A s : Project(r, s)' = Project(r, s)
      BY <3>1, ProjectionIsFixed
    <3>3. \A r \in DOMAIN request.shown : held[r] \subseteq held'[r]
      BY <1>2, <1>6, <3>1
    <3> QED
      BY <3>2, <3>3 DEF ServiceInv, ShownWasTrue
  <2>2. EntriesOK'
    BY <1>2, <1>6 DEF ServiceInv, EntriesOK
  <2> QED
    BY <1>3, <1>4, <2>1, <2>2 DEF ServiceInv
<1> QED
  BY <1>5, <1>6

-----------------------------------------------------------------------------
(* The theorem                                                             *)

\* Every step keeps the invariant.
LEMMA ServiceStep == ServiceInv /\ [ServiceNext]_serviceVars => ServiceInv'
<1> SUFFICES ASSUME ServiceInv, [ServiceNext]_serviceVars PROVE ServiceInv'
  OBVIOUS
<1>1. CASE \E id \in Services, name \in Names, resources \in Definitions :
              CreateService(id, name, resources) \/ UpdateService(id, name, resources)
  BY <1>1, DefinitionStored
<1>2. CASE \E id \in Services : DeleteService(id) \/ GetService(id)
  BY <1>2, ServiceDeleted, ServiceAsked
<1>3. CASE LoadRows \/ StartReading \/ Deadline \/ Publish \/ EndRequest
  BY <1>3, RowsLoaded, ReadingStarts, DeadlinePasses, HealthPublished, RequestEnded
<1>4. CASE \E source \in {SourceOf(r) : r \in Resources} :
              TakeSlot(source) \/ GiveUp(source) \/ Answer(source)
  BY <1>4, SlotTaken, SlotNotTaken, SourceAnswers
<1>5. CASE \E r \in Resources : ResourceChanges(r)
  BY <1>5, WorldMoves DEF ResourceChanges
<1>6. CASE \E p \in Places : PlaceChanges(p)
  BY <1>6, WorldMoves DEF PlaceChanges
<1>7. CASE UNCHANGED serviceVars
  <2>1. UNCHANGED <<services, world, places, request, held>>
    BY <1>7 DEF serviceVars
  <2>2. ServicesOK'
    BY <2>1 DEF ServiceInv, ServicesOK
  <2> QED
    BY <2>1, <2>2, RequestUntouched DEF ServiceInv
<1> QED
  BY <1>1, <1>2, <1>3, <1>4, <1>5, <1>6, <1>7 DEF ServiceNext

\* The invariant holds before the first request.
LEMMA ServiceStart == ServiceInit => ServiceInv
<1> SUFFICES ASSUME ServiceInit PROVE ServiceInv
  OBVIOUS
<1>1. request = NoRequest /\ held = [r \in Resources |-> {}] /\ services = <<>>
  BY DEF ServiceInit
<1>2. IsRequest
  BY <1>1 DEF IsRequest, NoRequest
<1>3. request.at = "idle" /\ request.running = {} /\ request.kinds = <<>>
      /\ request.entries = <<>> /\ request.shown = <<>>
  BY <1>1 DEF NoRequest
<1>4. SlotsOK
  BY <1>3, FS_EmptySet, ServiceAssumption DEF SlotsOK
<1>5. ServicesOK /\ HeldOK /\ ReadingOK /\ ShownOK /\ HealthIsEarned
  BY <1>1, <1>3 DEF ServicesOK, HeldOK, ReadingOK, Remaining, ShownOK, HealthIsEarned
<1>6. EntriesOK /\ ShownWasTrue
  BY <1>3 DEF EntriesOK, ShownWasTrue
<1> QED
  BY <1>2, <1>4, <1>5, <1>6 DEF ServiceInv

\* However the readings are interleaved with what they read, and however many of them
\* fail or come too late, the health that is published (service.go:161) is one the
\* resources gave during the request.
THEOREM HealthCorrect == ServiceSpec => []HealthTruthful
<1>1. ServiceInv => HealthTruthful
  BY DEF ServiceInv, HealthTruthful, WithinLimits, ServicesOK, SlotsOK
<1> QED
  BY <1>1, ServiceStart, ServiceStep, PTL DEF ServiceSpec
-----------------------------------------------------------------------------
(***************************************************************************)
(* The schema migration.  The statements of a driver are a list put        *)
(* together from parts; a statement needs tables, columns and earlier      *)
(* statements, and each part is shown to find them in what comes before.   *)
(* The invariant says what the statements executed so far have made of     *)
(* the schema and of the converted rows.                                   *)
(***************************************************************************)
\* A table, one of its columns, and a statement that has been executed
Table(t) == <<"has", t, "id">>
Column(t, c) == <<"has", t, c>>
Did(op) == <<"did", op, "id">>

Follows(op) ==
    CASE op = "clear_markers" -> {"resolve_duplicates"}
      [] op = "one_active" -> {"resolve_duplicates", "clear_markers"}
      [] op = "backfill_conversations" -> {"insert_models"}
      [] op = "mark_complete" -> {"backfill_conversations"}
      [] OTHER -> {}

\* What statement x relies on, and what has happened when it has been executed
Needs(x, n) ==
    \/ x.op # "create" /\ n = Table(x.table)
    \/ x.op \notin {"create", "add"} /\ \E c \in x.cols : n = Column(x.table, c)
    \/ \E t \in x.refs : n = Table(t)
    \/ \E o \in Follows(x.op) : n = Did(o)

Gives(x, n) ==
    \/ n = Did(x.op)
    \/ x.op = "create" /\ n = Table(x.table)
    \/ x.op = "add" /\ \E c \in x.cols : n = Column(x.table, c)

Got(s, n) == \E i \in 1..Len(s) : Gives(s[i], n)

\* Each statement of a list finds what it needs: in what there is before, or by the list
Ready(have, s) ==
    \A i \in 1..Len(s) : \A n :
        Needs(s[i], n) => n \in have \/ \E j \in 1..(i - 1) : Gives(s[j], n)

\* A later start adds the columns that a new table has from the beginning
Completed(s, have) ==
    \A i \in 1..Len(s) : s[i].op = "create" => \A c \in s[i].cols : Column(s[i].table, c) \in have

List(s) == \E S : s \in Seq(S)

\* A function on 1..n is a list of n elements.
LEMMA Listed ==
    ASSUME NEW n \in Nat, NEW s, s = [i \in 1..n |-> s[i]]
    PROVE  List(s) /\ Len(s) = n
<1> DEFINE S == {s[i] : i \in 1..n}
<1>1. s \in Seq(S) /\ Len(s) = n
  OBVIOUS
<1> QED BY <1>1 DEF List

\* What one list after another is.
LEMMA Joined ==
    ASSUME NEW s, NEW t, List(s), List(t)
    PROVE  /\ List(s \o t) /\ Len(s \o t) = Len(s) + Len(t) /\ Len(s) \in Nat /\ Len(t) \in Nat
           /\ \A i \in 1..Len(s) : (s \o t)[i] = s[i]
           /\ \A i \in 1..Len(t) : (s \o t)[Len(s) + i] = t[i]
<1>1. PICK A : s \in Seq(A)
  BY DEF List
<1>2. PICK B : t \in Seq(B)
  BY DEF List
<1>3. s \in Seq(A \cup B) /\ t \in Seq(A \cup B)
  BY <1>1, <1>2
<1>4. /\ s \o t \in Seq(A \cup B) /\ Len(s \o t) = Len(s) + Len(t)
      /\ Len(s) \in Nat /\ Len(t) \in Nat
  BY <1>3
<1> QED BY <1>3, <1>4 DEF List

\* A list that is ready after what another gives is ready behind it.
LEMMA Concatenated ==
    ASSUME NEW s, NEW t, List(s), List(t), NEW first, NEW have, Ready(first, s), Ready(have, t),
           \A n \in have : n \in first \/ Got(s, n)
    PROVE  /\ List(s \o t) /\ Ready(first, s \o t)
           /\ \A n : Got(s, n) \/ Got(t, n) => Got(s \o t, n)
           /\ \A all : Completed(s, all) /\ Completed(t, all) => Completed(s \o t, all)
<1> DEFINE u == s \o t
<1>1. /\ List(u) /\ Len(u) = Len(s) + Len(t) /\ Len(s) \in Nat /\ Len(t) \in Nat
      /\ \A i \in 1..Len(s) : u[i] = s[i]
      /\ \A i \in 1..Len(t) : u[Len(s) + i] = t[i]
  BY Joined
<1> HIDE DEF u
<1>2. ASSUME NEW i \in 1..Len(u)
      PROVE  \/ i \in 1..Len(s) /\ u[i] = s[i]
             \/ \E k \in 1..Len(t) : i = Len(s) + k /\ u[i] = t[k]
  <2>1. CASE i <= Len(s)
    BY <1>1, <2>1
  <2>2. CASE ~(i <= Len(s))
    <3>1. i - Len(s) \in 1..Len(t) /\ i = Len(s) + (i - Len(s))
      BY <1>1, <2>2
    <3> QED BY <1>1, <3>1
  <2> QED BY <2>1, <2>2
<1>3. ASSUME NEW n, Got(s, n) \/ Got(t, n) PROVE Got(u, n)
  <2>1. ASSUME NEW i \in 1..Len(s), Gives(s[i], n) PROVE Got(u, n)
    BY <1>1, <2>1 DEF Got
  <2>2. ASSUME NEW i \in 1..Len(t), Gives(t[i], n) PROVE Got(u, n)
    <3>1. Len(s) + i \in 1..Len(u) /\ u[Len(s) + i] = t[i]
      BY <1>1
    <3> QED BY <2>2, <3>1 DEF Got
  <2> QED BY <1>3, <2>1, <2>2 DEF Got
<1>4. ASSUME NEW i \in 1..Len(u), NEW n, Needs(u[i], n)
      PROVE  n \in first \/ \E j \in 1..(i - 1) : Gives(u[j], n)
  <2>1. CASE i \in 1..Len(s) /\ u[i] = s[i]
    <3>1. n \in first \/ \E j \in 1..(i - 1) : Gives(s[j], n)
      BY <1>4, <2>1 DEF Ready
    <3> QED BY <1>1, <2>1, <3>1
  <2>2. ASSUME NEW k \in 1..Len(t), i = Len(s) + k, u[i] = t[k]
        PROVE  n \in first \/ \E j \in 1..(i - 1) : Gives(u[j], n)
    <3>1. n \in have \/ \E j \in 1..(k - 1) : Gives(t[j], n)
      BY <1>4, <2>2 DEF Ready
    <3>2. ASSUME NEW j \in 1..Len(s), Gives(s[j], n)
          PROVE  \E m \in 1..(i - 1) : Gives(u[m], n)
      <4>1. j \in 1..(i - 1) /\ u[j] = s[j]
        BY <1>1, <2>2
      <4> QED BY <3>2, <4>1
    <3>3. ASSUME NEW j \in 1..(k - 1), Gives(t[j], n)
          PROVE  \E m \in 1..(i - 1) : Gives(u[m], n)
      <4>1. j \in 1..Len(t) /\ Len(s) + j \in 1..(i - 1)
        BY <1>1, <2>2
      <4>2. u[Len(s) + j] = t[j]
        BY <1>1, <4>1
      <4> QED BY <3>3, <4>1, <4>2
    <3> QED BY <3>1, <3>2, <3>3 DEF Got
  <2> QED BY <1>2, <2>1, <2>2
<1>5. Ready(first, u)
  BY <1>4 DEF Ready
<1>6. ASSUME NEW all, Completed(s, all), Completed(t, all) PROVE Completed(u, all)
  BY <1>2, <1>6 DEF Completed
<1> QED BY <1>1, <1>3, <1>5, <1>6 DEF u

\* Columns are added once their table is there.
LEMMA Adding ==
    ASSUME NEW t, NEW names, List(names)
    PROVE  /\ List(Adds(t, names)) /\ Ready({Table(t)}, Adds(t, names))
           /\ \A c \in Set(names) : Got(Adds(t, names), Column(t, c))
           /\ \A all : Completed(Adds(t, names), all)
<1> DEFINE s == Adds(t, names)
<1>1. Len(names) \in Nat
  BY DEF List
<1>2. List(s) /\ Len(s) = Len(names)
  <2>1. s = [i \in 1..Len(names) |-> s[i]]
    BY DEF Adds
  <2> QED BY <1>1, <2>1, Listed
<1>3. ASSUME NEW i \in 1..Len(names)
      PROVE  /\ s[i].op = "add" /\ s[i].table = t /\ s[i].cols = {names[i]} /\ s[i].refs = {}
  BY DEF Adds, Add
<1> HIDE DEF s
<1>4. Ready({Table(t)}, s)
  BY <1>2, <1>3 DEF Ready, Needs, Follows
<1>5. ASSUME NEW c \in Set(names) PROVE Got(s, Column(t, c))
  <2>1. PICK i \in 1..Len(names) : c = names[i]
    BY DEF Set
  <2>2. Gives(s[i], Column(t, c))
    BY <1>3, <2>1 DEF Gives
  <2> QED BY <1>2, <2>2 DEF Got
<1>6. ASSUME NEW all PROVE Completed(s, all)
  BY <1>2, <1>3 DEF Completed
<1> QED BY <1>2, <1>4, <1>5, <1>6 DEF s

\* The columns that were added to tables of an earlier version
Later ==
    {Column("nodes", c) : c \in Set(NodeColumns)}
    \cup {Column("node_metrics", c) : c \in Set(SpeedColumns)}
    \cup {Column("alert_history", c) : c \in Set(RecoveryColumns)}
    \cup {Column("k8s_clusters", c) : c \in Set(ClusterColumns)}
    \cup {Column("uptime_incidents", "active_marker")}
    \cup {Column("ai_providers", c) : c \in Set(DiscoveryColumns)}
    \cup {Column("ai_conversations", "model_id")}
    \cup {Column("ai_turns", c) : c \in Set(TurnColumns)}
    \cup {Column("ai_tool_calls", c) : c \in Set(CallColumns)}
    \cup {Column("scheduled_tasks", c) : c \in Set(ScheduleColumns)}

\* The parts of the migration, each ready after what it is said to need.
LEMMA NodePart ==
    /\ List(NodeTables) /\ Ready({}, NodeTables) /\ Completed(NodeTables, Later)
    /\ \A n \in {Table("nodes"), Table("node_metrics"), Table("settings")} : Got(NodeTables, n)
<1>1. List(NodeTables) /\ Len(NodeTables) = 13
  <2>1. NodeTables = [i \in 1..13 |-> NodeTables[i]]
    BY DEF NodeTables
  <2> QED BY <2>1, Listed
<1>2. \A i \in 1..13 : NodeTables[i].op = "create" /\ NodeTables[i].refs \subseteq {"nodes", "node_tags"}
  BY DEF NodeTables, Create, Plain, Under, NodeTagLinks
<1>3. /\ NodeTables[1].refs = {} /\ NodeTables[2].refs = {} /\ NodeTables[3].refs = {}
      /\ NodeTables[1].table = "nodes" /\ NodeTables[3].table = "node_tags"
      /\ NodeTables[5].table = "node_metrics" /\ NodeTables[12].table = "settings"
  BY DEF NodeTables, Create, Plain, Under, NodeTagLinks
<1>4. Ready({}, NodeTables)
  BY <1>1, <1>2, <1>3 DEF Ready, Needs, Gives, Follows
<1>5. \A n \in {Table("nodes"), Table("node_metrics"), Table("settings")} : Got(NodeTables, n)
  BY <1>1, <1>2, <1>3 DEF Got, Gives
<1>6. \A i \in 1..13 : NodeTables[i].cols # {} => i \in {1, 5}
  BY DEF NodeTables, Create, Plain, Under, NodeTagLinks
<1>7. NodeTables[1].cols \subseteq Set(NodeColumns) /\ NodeTables[5].cols = Set(SpeedColumns)
  BY DEF NodeTables, Create, Set, NodeColumns
<1>8. Completed(NodeTables, Later)
  BY <1>1, <1>3, <1>6, <1>7 DEF Completed, Later
<1> QED BY <1>1, <1>4, <1>5, <1>8

LEMMA WatchPart ==
    /\ List(WatchTables) /\ Ready({Table("nodes")}, WatchTables) /\ Completed(WatchTables, Later)
    /\ \A n \in {Table("alert_history"), Table("k8s_clusters"), Table("uptime_incidents")} :
          Got(WatchTables, n)
<1>1. List(WatchTables) /\ Len(WatchTables) = 7
  <2>1. WatchTables = [i \in 1..7 |-> WatchTables[i]]
    BY DEF WatchTables
  <2> QED BY <2>1, Listed
<1>2. \A i \in 1..7 : WatchTables[i].op = "create"
  BY DEF WatchTables, Create, Plain, Under
<1>3. /\ WatchTables[1].table = "alert_rules" /\ WatchTables[2].table = "alert_history"
      /\ WatchTables[3].table = "k8s_clusters" /\ WatchTables[4].table = "uptime_monitors"
      /\ WatchTables[6].table = "uptime_incidents"
      /\ WatchTables[1].refs = {} /\ WatchTables[2].refs = {"alert_rules"}
      /\ WatchTables[3].refs = {"nodes"} /\ WatchTables[4].refs = {}
      /\ WatchTables[5].refs = {"uptime_monitors"} /\ WatchTables[6].refs = {"uptime_monitors"}
      /\ WatchTables[7].refs = {}
  BY DEF WatchTables, Create, Plain, Under
<1>4. Ready({Table("nodes")}, WatchTables)
  BY <1>1, <1>2, <1>3 DEF Ready, Needs, Gives, Follows
<1>5. \A n \in {Table("alert_history"), Table("k8s_clusters"), Table("uptime_incidents")} :
          Got(WatchTables, n)
  BY <1>1, <1>2, <1>3 DEF Got, Gives
<1>6. \A i \in 1..7 : WatchTables[i].cols # {} => i \in {2, 3, 6}
  BY DEF WatchTables, Create, Plain, Under
<1>7. /\ WatchTables[2].cols = Set(RecoveryColumns) /\ WatchTables[6].cols = {"active_marker"}
      /\ WatchTables[3].cols \subseteq Set(ClusterColumns)
  BY DEF WatchTables, Create, Set, ClusterColumns
<1>8. Completed(WatchTables, Later)
  BY <1>1, <1>3, <1>6, <1>7 DEF Completed, Later
<1> QED BY <1>1, <1>4, <1>5, <1>8

LEMMA AutomationPart ==
    /\ List(AutomationTables) /\ Ready({}, AutomationTables) /\ Completed(AutomationTables, Later)
    /\ Got(AutomationTables, Table("scheduled_tasks"))
<1>1. List(AutomationTables) /\ Len(AutomationTables) = 7
  <2>1. AutomationTables = [i \in 1..7 |-> AutomationTables[i]]
    BY DEF AutomationTables
  <2> QED BY <2>1, Listed
<1>2. \A i \in 1..7 : AutomationTables[i].op = "create"
  BY DEF AutomationTables, Create, Plain, Under
<1>3. /\ AutomationTables[1].table = "automation_scripts"
      /\ AutomationTables[2].table = "scheduled_tasks" /\ AutomationTables[4].table = "task_runs"
      /\ AutomationTables[6].table = "application_services"
      /\ AutomationTables[1].refs = {} /\ AutomationTables[2].refs = {"automation_scripts"}
      /\ AutomationTables[3].refs = {"scheduled_tasks"}
      /\ AutomationTables[4].refs = {"scheduled_tasks", "automation_scripts"}
      /\ AutomationTables[5].refs = {"task_runs"} /\ AutomationTables[6].refs = {}
      /\ AutomationTables[7].refs = {"application_services"}
  BY DEF AutomationTables, Create, Plain, Under
<1>4. Ready({}, AutomationTables)
  BY <1>1, <1>2, <1>3 DEF Ready, Needs, Gives, Follows
<1>5. Got(AutomationTables, Table("scheduled_tasks"))
  BY <1>1, <1>2, <1>3 DEF Got, Gives
<1>6. \A i \in 1..7 : AutomationTables[i].cols # {} => i = 2
  BY DEF AutomationTables, Create, Plain, Under
<1>7. AutomationTables[2].cols = Set(ScheduleColumns)
  BY DEF AutomationTables, Create
<1>8. Completed(AutomationTables, Later)
  BY <1>1, <1>3, <1>6, <1>7 DEF Completed, Later
<1> QED BY <1>1, <1>4, <1>5, <1>8

AiTokens ==
    {Table("ai_providers"), Table("ai_provider_models"), Table("ai_conversations"),
     Table("ai_turns"), Table("ai_tool_calls")}

LEMMA AiPart ==
    /\ List(AiTables) /\ Ready({}, AiTables) /\ Completed(AiTables, Later)
    /\ \A n \in AiTokens : Got(AiTables, n)
<1>1. List(AiTables) /\ Len(AiTables) = 6
  <2>1. AiTables = [i \in 1..6 |-> AiTables[i]]
    BY DEF AiTables
  <2> QED BY <2>1, Listed
<1>2. \A i \in 1..6 : AiTables[i].op = "create"
  BY DEF AiTables, Create, Plain, Under
<1>3. /\ AiTables[1].table = "ai_providers" /\ AiTables[2].table = "ai_provider_models"
      /\ AiTables[3].table = "ai_conversations" /\ AiTables[4].table = "ai_turns"
      /\ AiTables[6].table = "ai_tool_calls"
      /\ AiTables[1].refs = {} /\ AiTables[2].refs = {"ai_providers"}
      /\ AiTables[3].refs = {"ai_provider_models"}
      /\ AiTables[4].refs = {"ai_conversations", "ai_provider_models"}
      /\ AiTables[5].refs = {"ai_conversations", "ai_turns"} /\ AiTables[6].refs = {"ai_turns"}
  BY DEF AiTables, Create, Plain, Under
<1>4. Ready({}, AiTables)
  BY <1>1, <1>2, <1>3 DEF Ready, Needs, Gives, Follows
<1>5. \A n \in AiTokens : Got(AiTables, n)
  BY <1>1, <1>2, <1>3 DEF Got, Gives, AiTokens
<1>6. /\ AiTables[1].cols = Set(DiscoveryColumns) /\ AiTables[2].cols = {}
      /\ AiTables[3].cols = {"model_id"} /\ AiTables[4].cols = Set(TurnColumns)
      /\ AiTables[5].cols = {} /\ AiTables[6].cols = Set(CallColumns)
  BY DEF AiTables, Create, Plain, Under
<1>7. Completed(AiTables, Later)
  BY <1>1, <1>3, <1>6 DEF Completed, Later
<1> QED BY <1>1, <1>4, <1>5, <1>7

LEMMA MySQLAiPart ==
    /\ List(MySQLAiTables) /\ Ready({}, MySQLAiTables) /\ Completed(MySQLAiTables, Later)
    /\ \A n \in AiTokens : Got(MySQLAiTables, n)
<1> DEFINE s == MySQLAiTables
<1>1. List(s) /\ Len(s) = 9
  <2>1. s = [i \in 1..9 |-> s[i]]
    BY DEF MySQLAiTables
  <2> QED BY <2>1, Listed
<1>2. /\ \A i \in 1..9 : i \notin {2, 3, 4} => s[i].op = "create"
      /\ s[2].op = "add" /\ s[3].op = "mark_default" /\ s[4].op = "index"
  BY DEF MySQLAiTables, Create, Plain, Under, Add, Change, Index
<1>3. /\ \A i \in 1..4 : s[i].table = "ai_providers" /\ s[i].refs = {}
      /\ \A i \in 2..4 : s[i].cols = {"default_marker"}
      /\ s[5].table = "ai_provider_models" /\ s[5].refs = {"ai_providers"}
  BY DEF MySQLAiTables, Create, Plain, Under, Add, Change, Index
<1>4. /\ s[6].table = "ai_conversations" /\ s[7].table = "ai_turns"
      /\ s[9].table = "ai_tool_calls" /\ s[6].refs = {}
      /\ s[7].refs = {"ai_conversations"} /\ s[8].refs = {"ai_conversations", "ai_turns"}
      /\ s[9].refs = {"ai_turns"}
  BY DEF MySQLAiTables, Create, Plain, Under, Add, Change, Index
<1>5. /\ s[1].cols = Set(DiscoveryColumns) /\ s[5].cols = {}
      /\ s[6].cols = {"model_id"} /\ s[7].cols = Set(TurnColumns)
      /\ s[8].cols = {} /\ s[9].cols = Set(CallColumns)
  BY DEF MySQLAiTables, Create, Plain, Under, Add, Change, Index
<1> HIDE DEF s
<1>6. Ready({}, s)
  BY <1>1, <1>2, <1>3, <1>4 DEF Ready, Needs, Gives, Follows
<1>7. \A n \in AiTokens : Got(s, n)
  BY <1>1, <1>2, <1>3, <1>4 DEF Got, Gives, AiTokens
<1>8. Completed(s, Later)
  BY <1>1, <1>2, <1>3, <1>4, <1>5 DEF Completed, Later
<1> QED BY <1>1, <1>6, <1>7, <1>8 DEF s

LEMMA Lists ==
    /\ List(NodeColumns) /\ List(SpeedColumns) /\ List(RecoveryColumns) /\ List(ClusterColumns)
    /\ List(DiscoveryColumns) /\ List(TurnColumns) /\ List(CallColumns) /\ List(ScheduleColumns)
    /\ List(<<"active_marker">>) /\ List(<<"model_id">>)
<1>1. /\ NodeColumns = [i \in 1..4 |-> NodeColumns[i]]
      /\ SpeedColumns = [i \in 1..3 |-> SpeedColumns[i]]
      /\ RecoveryColumns = [i \in 1..4 |-> RecoveryColumns[i]]
      /\ ClusterColumns = [i \in 1..4 |-> ClusterColumns[i]]
  BY DEF NodeColumns, SpeedColumns, RecoveryColumns, ClusterColumns
<1>2. /\ DiscoveryColumns = [i \in 1..5 |-> DiscoveryColumns[i]]
      /\ TurnColumns = [i \in 1..6 |-> TurnColumns[i]]
      /\ CallColumns = [i \in 1..7 |-> CallColumns[i]]
      /\ ScheduleColumns = [i \in 1..2 |-> ScheduleColumns[i]]
  BY DEF DiscoveryColumns, TurnColumns, CallColumns, ScheduleColumns
<1>3. /\ <<"active_marker">> = [i \in 1..1 |-> <<"active_marker">>[i]]
      /\ <<"model_id">> = [i \in 1..1 |-> <<"model_id">>[i]]
  OBVIOUS
<1> QED BY <1>1, <1>2, <1>3, Listed

Incidents == {Table("uptime_incidents"), Column("uptime_incidents", "active_marker")}

LEMMA IncidentPart ==
    /\ List(uptimeIncidentInvariantStatements)
    /\ Ready(Incidents, uptimeIncidentInvariantStatements)
    /\ Completed(uptimeIncidentInvariantStatements, Later)
    /\ \A n \in {Did("resolve_duplicates"), Did("clear_markers"), Did("set_markers")} :
          Got(uptimeIncidentInvariantStatements, n)
<1> DEFINE s == uptimeIncidentInvariantStatements
<1>1. List(s) /\ Len(s) = 4
  <2>1. s = [i \in 1..4 |-> s[i]]
    BY DEF uptimeIncidentInvariantStatements
  <2> QED BY <2>1, Listed
<1>2. /\ s[1].op = "resolve_duplicates" /\ s[2].op = "clear_markers" /\ s[3].op = "set_markers"
      /\ s[4].op = "one_active"
      /\ \A i \in 1..4 : s[i].table = "uptime_incidents" /\ s[i].refs = {}
                         /\ s[i].cols \subseteq {"active_marker"}
  BY DEF uptimeIncidentInvariantStatements, Change
<1> HIDE DEF s
<1>3. Ready(Incidents, s)
  BY <1>1, <1>2 DEF Ready, Needs, Gives, Follows, Incidents
<1>4. \A n \in {Did("resolve_duplicates"), Did("clear_markers"), Did("set_markers")} : Got(s, n)
  BY <1>1, <1>2 DEF Got, Gives
<1>5. Completed(s, Later)
  BY <1>1, <1>2 DEF Completed
<1> QED BY <1>1, <1>3, <1>4, <1>5 DEF s

LEMMA OneIndex ==
    ASSUME NEW t, NEW cols
    PROVE  /\ List(<<Index(t, cols)>>) /\ Completed(<<Index(t, cols)>>, Later)
           /\ Ready({Table(t)} \cup {Column(t, c) : c \in cols}, <<Index(t, cols)>>)
<1> DEFINE s == <<Index(t, cols)>>
<1>1. List(s) /\ Len(s) = 1
  <2>1. s = [i \in 1..1 |-> s[i]]
    OBVIOUS
  <2> QED BY <2>1, Listed
<1>2. s[1].op = "index" /\ s[1].table = t /\ s[1].cols = cols /\ s[1].refs = {}
  BY DEF Index
<1> HIDE DEF s
<1>3. Ready({Table(t)} \cup {Column(t, c) : c \in cols}, s)
  BY <1>1, <1>2 DEF Ready, Needs, Follows
<1>4. Completed(s, Later)
  BY <1>1, <1>2 DEF Completed
<1> QED BY <1>1, <1>3, <1>4 DEF s

AiHas ==
    AiTokens \cup {Table("settings"), Column("ai_conversations", "model_id")}
             \cup {Column("ai_turns", c) : c \in Set(TurnColumns)}

LEMMA TailPart ==
    ASSUME driver \in {"sqlite", "mysql"}
    PROVE  /\ List(aiUpgradeTail) /\ Ready(AiHas, aiUpgradeTail) /\ Completed(aiUpgradeTail, Later)
<1> DEFINE s == <<Index("ai_conversations", {"model_id"}), Index("ai_turns", {"model_id"})>>
           t == <<Change("link", "ai_conversations", {"model_id"}, {"ai_provider_models"}),
                  Change("link", "ai_turns", {"model_id"}, {"ai_provider_models"})>>
<1>1. Column("ai_turns", "model_id") \in AiHas
  BY DEF AiHas, Set, TurnColumns
<1>2. List(s) /\ Len(s) = 2 /\ List(t) /\ Len(t) = 2 /\ List(<<>>) /\ Len(<<>>) = 0
  <2>1. s = [i \in 1..2 |-> s[i]] /\ t = [i \in 1..2 |-> t[i]]
    OBVIOUS
  <2>2. <<>> \in Seq({})
    OBVIOUS
  <2> QED BY <2>1, <2>2, Listed DEF List
<1>3. /\ \A i \in 1..2 : s[i].op = "index" /\ s[i].cols = {"model_id"} /\ s[i].refs = {}
      /\ \A i \in 1..2 : t[i].op = "link" /\ t[i].cols = {"model_id"}
                         /\ t[i].refs = {"ai_provider_models"}
      /\ \A i \in 1..2 : /\ s[i].table \in {"ai_conversations", "ai_turns"}
                         /\ t[i].table \in {"ai_conversations", "ai_turns"}
  BY DEF Index, Change
<1>4. aiUpgradeTail = s \o (IF driver = "sqlite" THEN <<>> ELSE t)
  BY DEF aiUpgradeTail
<1> HIDE DEF s, t
<1>5. Ready(AiHas, s) /\ Ready(AiHas, t) /\ Ready(AiHas, <<>>)
  BY <1>1, <1>2, <1>3 DEF Ready, Needs, Follows, AiHas, AiTokens
<1>6. Completed(s, Later) /\ Completed(t, Later) /\ Completed(<<>>, Later)
  BY <1>2, <1>3 DEF Completed
<1> QED BY <1>2, <1>4, <1>5, <1>6, Concatenated

\* The conversion of the models, in the order that makes its repetition harmless.
LEMMA UpgradePart ==
    ASSUME driver \in {"sqlite", "mysql"}
    PROVE  /\ List(aiUpgradeStatements) /\ Ready(AiHas, aiUpgradeStatements)
           /\ Completed(aiUpgradeStatements, Later)
           /\ \A n \in {Did("insert_models"), Did("backfill_conversations"), Did("mark_complete")} :
                 Got(aiUpgradeStatements, n)
<1> DEFINE s == <<
        Change("insert_models", "ai_provider_models", {}, {"ai_providers", "settings"}),
        Change("backfill_conversations", "ai_conversations", {"model_id"},
               {"ai_provider_models", "settings"}),
        Change("backfill_turns", "ai_turns", Set(TurnColumns), {"ai_provider_models"}),
        Change("mark_complete", "settings", {}, {})>>
<1>1. List(s) /\ Len(s) = 4
  <2>1. s = [i \in 1..4 |-> s[i]]
    OBVIOUS
  <2> QED BY <2>1, Listed
<1>2. /\ s[1].op = "insert_models" /\ s[2].op = "backfill_conversations"
      /\ s[3].op = "backfill_turns" /\ s[4].op = "mark_complete"
      /\ s[1].table = "ai_provider_models" /\ s[2].table = "ai_conversations"
      /\ s[3].table = "ai_turns" /\ s[4].table = "settings"
      /\ s[1].cols = {} /\ s[2].cols = {"model_id"} /\ s[3].cols = Set(TurnColumns)
      /\ s[4].cols = {}
      /\ \A i \in 1..4 : s[i].refs \subseteq {"ai_providers", "ai_provider_models", "settings"}
  BY DEF Change
<1>3. aiUpgradeStatements = s \o aiUpgradeTail
  BY DEF aiUpgradeStatements
<1> HIDE DEF s
<1>4. Ready(AiHas, s)
  BY <1>1, <1>2 DEF Ready, Needs, Gives, Follows, AiHas, AiTokens
<1>5. \A n \in {Did("insert_models"), Did("backfill_conversations"), Did("mark_complete")} :
         Got(s, n)
  BY <1>1, <1>2 DEF Got, Gives
<1>6. Completed(s, Later)
  BY <1>1, <1>2 DEF Completed
<1> QED BY <1>1, <1>3, <1>4, <1>5, <1>6, TailPart, Concatenated

LEMMA LastPart ==
    LET s == <<Change("default_schedule", "scheduled_tasks", {"schedule_type"}, {}),
               Change("default_mode", "nodes", {"agent_mode", "agent_user"}, {})>>
    IN  /\ List(s) /\ Completed(s, Later)
        /\ Ready({Table("scheduled_tasks"), Column("scheduled_tasks", "schedule_type"), Table("nodes"),
                  Column("nodes", "agent_mode"), Column("nodes", "agent_user")}, s)
<1> DEFINE s == <<Change("default_schedule", "scheduled_tasks", {"schedule_type"}, {}),
                  Change("default_mode", "nodes", {"agent_mode", "agent_user"}, {})>>
<1>1. List(s) /\ Len(s) = 2
  <2>1. s = [i \in 1..2 |-> s[i]]
    OBVIOUS
  <2> QED BY <2>1, Listed
<1>2. /\ s[1].op = "default_schedule" /\ s[2].op = "default_mode"
      /\ s[1].table = "scheduled_tasks" /\ s[2].table = "nodes" /\ s[1].refs = {} /\ s[2].refs = {}
      /\ s[1].cols = {"schedule_type"} /\ s[2].cols = {"agent_mode", "agent_user"}
  BY DEF Change
<1> HIDE DEF s
<1>3. Ready({Table("scheduled_tasks"), Column("scheduled_tasks", "schedule_type"), Table("nodes"),
             Column("nodes", "agent_mode"), Column("nodes", "agent_user")}, s)
  BY <1>1, <1>2 DEF Ready, Needs, Follows
<1>4. Completed(s, Later)
  BY <1>1, <1>2 DEF Completed
<1> QED BY <1>1, <1>3, <1>4 DEF s

AiColumns ==
    {Column("ai_providers", c) : c \in Set(DiscoveryColumns)}
    \cup {Column("ai_conversations", "model_id")}
    \cup {Column("ai_turns", c) : c \in Set(TurnColumns)}
    \cup {Column("ai_tool_calls", c) : c \in Set(CallColumns)}

\* The columns a database with the AI tables of an earlier version lacks.
LEMMA CompatibilityPart ==
    LET s == aiCompatibilityColumnStatements
    IN  /\ List(s) /\ Ready(AiTokens, s) /\ Completed(s, Later)
        /\ \A n \in AiColumns : Got(s, n)
<1> DEFINE p == Adds("ai_providers", DiscoveryColumns)
           q == Adds("ai_conversations", <<"model_id">>)
           r == Adds("ai_turns", TurnColumns)
           t == Adds("ai_tool_calls", CallColumns)
<1>1. /\ List(p) /\ Ready({Table("ai_providers")}, p) /\ Completed(p, Later)
      /\ \A c \in Set(DiscoveryColumns) : Got(p, Column("ai_providers", c))
  BY Adding, Lists
<1>2. /\ List(q) /\ Ready({Table("ai_conversations")}, q) /\ Completed(q, Later)
      /\ Got(q, Column("ai_conversations", "model_id"))
  <2>1. "model_id" \in Set(<<"model_id">>)
    BY DEF Set
  <2> QED BY <2>1, Adding, Lists
<1>3. /\ List(r) /\ Ready({Table("ai_turns")}, r) /\ Completed(r, Later)
      /\ \A c \in Set(TurnColumns) : Got(r, Column("ai_turns", c))
  BY Adding, Lists
<1>4. /\ List(t) /\ Ready({Table("ai_tool_calls")}, t) /\ Completed(t, Later)
      /\ \A c \in Set(CallColumns) : Got(t, Column("ai_tool_calls", c))
  BY Adding, Lists
<1>5. aiCompatibilityColumnStatements = ((p \o q) \o r) \o t
  BY DEF aiCompatibilityColumnStatements
<1> HIDE DEF p, q, r, t
<1>6. Ready(AiTokens, p) /\ Ready(AiTokens, q) /\ Ready(AiTokens, r) /\ Ready(AiTokens, t)
  BY <1>1, <1>2, <1>3, <1>4 DEF Ready, AiTokens
<1>7. /\ List(p \o q) /\ Ready(AiTokens, p \o q) /\ Completed(p \o q, Later)
      /\ \A n : Got(p, n) \/ Got(q, n) => Got(p \o q, n)
  BY <1>1, <1>2, <1>6, Concatenated
<1> DEFINE u == p \o q
<1> HIDE DEF u
<1>8. /\ List(u \o r) /\ Ready(AiTokens, u \o r) /\ Completed(u \o r, Later)
      /\ \A n : Got(u, n) \/ Got(r, n) => Got(u \o r, n)
  BY <1>7, <1>3, <1>6, Concatenated DEF u
<1> DEFINE v == u \o r
<1> HIDE DEF v
<1>9. /\ List(v \o t) /\ Ready(AiTokens, v \o t) /\ Completed(v \o t, Later)
      /\ \A n : Got(v, n) \/ Got(t, n) => Got(v \o t, n)
  BY <1>8, <1>4, <1>6, Concatenated DEF v
<1>10. \A n \in AiColumns : Got(v \o t, n)
  BY <1>1, <1>2, <1>3, <1>4, <1>7, <1>8, <1>9 DEF AiColumns, u, v
<1> QED BY <1>5, <1>9, <1>10 DEF u, v

\* A list from the beginning, and the next part of it
Good(s) == List(s) /\ Ready({}, s) /\ Completed(s, Later)

LEMMA Extended ==
    ASSUME NEW s, NEW t, Good(s), List(t), Completed(t, Later), NEW have, Ready(have, t),
           \A n \in have : Got(s, n)
    PROVE  Good(s \o t) /\ \A n : Got(s, n) \/ Got(t, n) => Got(s \o t, n)
BY Concatenated DEF Good

LEMMA AddedNext ==
    ASSUME NEW s, Good(s), NEW t, NEW names, List(names), Got(s, Table(t))
    PROVE  /\ Good(s \o Adds(t, names))
           /\ \A n : Got(s, n) => Got(s \o Adds(t, names), n)
           /\ \A c \in Set(names) : Got(s \o Adds(t, names), Column(t, c))
<1>1. /\ List(Adds(t, names)) /\ Ready({Table(t)}, Adds(t, names)) /\ Completed(Adds(t, names), Later)
      /\ \A c \in Set(names) : Got(Adds(t, names), Column(t, c))
  BY Adding
<1> QED BY <1>1, Extended

TableTokens ==
    AiTokens \cup {Table("nodes"), Table("node_metrics"), Table("settings"), Table("alert_history"),
                   Table("k8s_clusters"), Table("uptime_incidents"), Table("scheduled_tasks")}

\* The tables, in an order that their references allow.
LEMMA TablesPart ==
    ASSUME NEW last, last \in {AiTables, MySQLAiTables}
    PROVE  LET s == NodeTables \o WatchTables \o AutomationTables \o last
           IN  Good(s) /\ \A n \in TableTokens : Got(s, n)
<1>1. /\ List(last) /\ Ready({}, last) /\ Completed(last, Later)
      /\ \A n \in AiTokens : Got(last, n)
  BY AiPart, MySQLAiPart
<1> DEFINE a == NodeTables
           b == a \o WatchTables
           c == b \o AutomationTables
<1>2. Good(a) /\ Got(a, Table("nodes"))
  BY NodePart DEF Good
<1>3. Good(b) /\ \A n : Got(a, n) \/ Got(WatchTables, n) => Got(b, n)
  <2> HIDE DEF a
  <2> QED BY <1>2, WatchPart, Extended
<1>4. Good(c) /\ \A n : Got(b, n) \/ Got(AutomationTables, n) => Got(c, n)
  <2> HIDE DEF b
  <2> QED BY <1>3, AutomationPart, Extended
<1>5. Good(c \o last) /\ \A n : Got(c, n) \/ Got(last, n) => Got(c \o last, n)
  <2> HIDE DEF c
  <2> QED BY <1>1, <1>4, Extended
<1>6. \A n \in TableTokens : Got(a, n) \/ Got(WatchTables, n) \/ Got(AutomationTables, n) \/ Got(last, n)
  BY <1>1, NodePart, WatchPart, AutomationPart DEF TableTokens
<1> HIDE DEF b, c
<1>7. \A n \in TableTokens : Got(c \o last, n)
  BY <1>3, <1>4, <1>5, <1>6
<1> QED BY <1>5, <1>7 DEF b, c

\* The whole migration is ready on any database, and gives every later column.
LEMMA StatementsInOrder ==
    ASSUME driver \in {"sqlite", "mysql"}
    PROVE  /\ Good(Statements) /\ \A n \in Later : Got(Statements, n)
           /\ \A op \in {"resolve_duplicates", "clear_markers", "set_markers", "insert_models",
                         "backfill_conversations", "mark_complete"} : Got(Statements, Did(op))
<1> DEFINE last == IF driver = "sqlite" THEN AiTables ELSE MySQLAiTables
           a == NodeTables \o WatchTables \o AutomationTables \o last
           b == a \o Adds("nodes", NodeColumns)
           c == b \o <<Index("nodes", {"group_id"})>>
           d == c \o Adds("node_metrics", SpeedColumns)
           e == d \o Adds("alert_history", RecoveryColumns)
           f == e \o Adds("k8s_clusters", ClusterColumns)
           g == f \o Adds("uptime_incidents", <<"active_marker">>)
           h == g \o uptimeIncidentInvariantStatements
           i == h \o aiCompatibilityColumnStatements
           j == i \o <<Index("ai_tool_calls", {"step_index"})>>
           k == j \o aiUpgradeStatements
           l == k \o Adds("scheduled_tasks", ScheduleColumns)
           z == <<Change("default_schedule", "scheduled_tasks", {"schedule_type"}, {}),
                  Change("default_mode", "nodes", {"agent_mode", "agent_user"}, {})>>
<1>0. Statements = l \o z
  BY DEF Statements, MySQLNodeTables, MySQLWatchTables, MySQLAutomationTables,
         nodeCompatibilityColumnStatements, organizationIndexStatements,
         metricCompatibilityColumnStatements, alertHistoryCompatibilityColumnStatements,
         k8sClusterCompatibilityColumnStatements, uptimeIncidentCompatibilityColumnStatements,
         aiPlanIndexStatements, scheduledTaskCompatibilityColumnStatements
<1>1. Good(a) /\ \A n \in TableTokens : Got(a, n)
  <2>1. last \in {AiTables, MySQLAiTables}
    OBVIOUS
  <2> HIDE DEF last
  <2> QED BY <2>1, TablesPart
<1> HIDE DEF a, z
<1>2. /\ Good(b) /\ \A n : Got(a, n) => Got(b, n)
      /\ \A m \in Set(NodeColumns) : Got(b, Column("nodes", m))
  BY <1>1, AddedNext, Lists DEF TableTokens
<1> HIDE DEF b
<1>3. Good(c) /\ \A n : Got(b, n) => Got(c, n)
  <2>1. "group_id" \in Set(NodeColumns)
    BY DEF Set, NodeColumns
  <2>2. \A n \in {Table("nodes")} \cup {Column("nodes", m) : m \in {"group_id"}} : Got(b, n)
    BY <1>1, <1>2, <2>1 DEF TableTokens
  <2> QED BY <1>2, <2>2, OneIndex, Extended
<1> HIDE DEF c
<1>4. /\ Good(d) /\ \A n : Got(c, n) => Got(d, n)
      /\ \A m \in Set(SpeedColumns) : Got(d, Column("node_metrics", m))
  <2>1. Got(c, Table("node_metrics"))
    BY <1>1, <1>2, <1>3 DEF TableTokens
  <2> QED BY <1>3, <2>1, AddedNext, Lists
<1> HIDE DEF d
<1>5. /\ Good(e) /\ \A n : Got(d, n) => Got(e, n)
      /\ \A m \in Set(RecoveryColumns) : Got(e, Column("alert_history", m))
  <2>1. Got(d, Table("alert_history"))
    BY <1>1, <1>2, <1>3, <1>4 DEF TableTokens
  <2> QED BY <1>4, <2>1, AddedNext, Lists
<1> HIDE DEF e
<1>6. /\ Good(f) /\ \A n : Got(e, n) => Got(f, n)
      /\ \A m \in Set(ClusterColumns) : Got(f, Column("k8s_clusters", m))
  <2>1. Got(e, Table("k8s_clusters"))
    BY <1>1, <1>2, <1>3, <1>4, <1>5 DEF TableTokens
  <2> QED BY <1>5, <2>1, AddedNext, Lists
<1> HIDE DEF f
<1>7. /\ Good(g) /\ \A n : Got(f, n) => Got(g, n)
      /\ Got(g, Column("uptime_incidents", "active_marker"))
  <2>1. Got(f, Table("uptime_incidents"))
    BY <1>1, <1>2, <1>3, <1>4, <1>5, <1>6 DEF TableTokens
  <2>2. "active_marker" \in Set(<<"active_marker">>)
    BY DEF Set
  <2> QED BY <1>6, <2>1, <2>2, AddedNext, Lists
<1> HIDE DEF g
<1>8. Good(h) /\ \A n : Got(g, n) \/ Got(uptimeIncidentInvariantStatements, n) => Got(h, n)
  <2>1. \A n \in Incidents : Got(g, n)
    BY <1>1, <1>2, <1>3, <1>4, <1>5, <1>6, <1>7 DEF TableTokens, Incidents
  <2> QED BY <1>7, <2>1, IncidentPart, Extended
<1> HIDE DEF h
<1>9. Good(i) /\ \A n : Got(h, n) \/ Got(aiCompatibilityColumnStatements, n) => Got(i, n)
  <2>1. \A n \in AiTokens : Got(h, n)
    BY <1>1, <1>2, <1>3, <1>4, <1>5, <1>6, <1>7, <1>8 DEF TableTokens
  <2> QED BY <1>8, <2>1, CompatibilityPart, Extended
<1> HIDE DEF i
<1>10. /\ \A n : Got(a, n) => Got(i, n)
       /\ \A n \in AiColumns : Got(i, n)
  BY <1>2, <1>3, <1>4, <1>5, <1>6, <1>7, <1>8, <1>9, CompatibilityPart
<1>11. Good(j) /\ \A n : Got(i, n) => Got(j, n)
  <2>1. "step_index" \in Set(CallColumns)
    BY DEF Set, CallColumns
  <2>2. \A n \in {Table("ai_tool_calls")} \cup {Column("ai_tool_calls", m) : m \in {"step_index"}} :
           Got(i, n)
    BY <1>1, <1>10, <2>1 DEF TableTokens, AiTokens, AiColumns
  <2> QED BY <1>9, <2>2, OneIndex, Extended
<1> HIDE DEF j
<1>12. Good(k) /\ \A n : Got(j, n) \/ Got(aiUpgradeStatements, n) => Got(k, n)
  <2>1. \A n \in AiHas : Got(j, n)
    BY <1>1, <1>10, <1>11 DEF TableTokens, AiColumns, AiHas
  <2> QED BY <1>11, <2>1, UpgradePart, Extended
<1> HIDE DEF k
<1>13. /\ Good(l) /\ \A n : Got(k, n) => Got(l, n)
       /\ \A m \in Set(ScheduleColumns) : Got(l, Column("scheduled_tasks", m))
  <2>1. Got(k, Table("scheduled_tasks"))
    BY <1>1, <1>10, <1>11, <1>12 DEF TableTokens
  <2> QED BY <1>12, <2>1, AddedNext, Lists
<1> HIDE DEF l
<1>14. Good(l \o z) /\ \A n : Got(l, n) => Got(l \o z, n)
  <2> DEFINE have == {Table("scheduled_tasks"), Column("scheduled_tasks", "schedule_type"),
                      Table("nodes"), Column("nodes", "agent_mode"), Column("nodes", "agent_user")}
  <2>1. List(z) /\ Completed(z, Later) /\ Ready(have, z)
    BY LastPart DEF z
  <2>2. /\ "schedule_type" \in Set(ScheduleColumns)
        /\ "agent_mode" \in Set(NodeColumns) /\ "agent_user" \in Set(NodeColumns)
    BY DEF Set, ScheduleColumns, NodeColumns
  <2>3. \A n : Got(b, n) => Got(l, n)
    BY <1>3, <1>4, <1>5, <1>6, <1>7, <1>8, <1>9, <1>11, <1>12, <1>13
  <2>4. \A n \in have : Got(l, n)
    BY <1>1, <1>2, <1>13, <2>2, <2>3 DEF TableTokens
  <2> HIDE DEF have
  <2> QED BY <1>13, <2>1, <2>4, Extended
<1>15. \A n \in Later : Got(l \o z, n)
  BY <1>2, <1>3, <1>4, <1>5, <1>6, <1>7, <1>8, <1>9, <1>10, <1>11, <1>12, <1>13, <1>14
     DEF Later, AiColumns
<1>16. \A op \in {"resolve_duplicates", "clear_markers", "set_markers", "insert_models",
                  "backfill_conversations", "mark_complete"} : Got(l \o z, Did(op))
  BY <1>8, <1>9, <1>11, <1>12, <1>13, <1>14, IncidentPart, UpgradePart
<1> QED BY <1>0, <1>14, <1>15, <1>16

\* This start has executed the statement op.
Done(op) == \E i \in 1..upTo : Statements[i].op = op

Incident == [of : Watches, open : BOOLEAN, marker : BOOLEAN]
Vendor == [named : BOOLEAN, default : BOOLEAN]
Model == [id : Vendors \X {0, 1}, vendor : Vendors, default : BOOLEAN]
Ids == (Vendors \X {0, 1}) \cup {NoModel}

\* The types, the migration of a Server that serves being complete
MigTyped ==
    /\ driver \in {"sqlite", "mysql"} /\ server \in {"down", "migrating", "serving"}
    /\ upTo \in 0..Len(Statements)
    /\ cases \in Seq(Incident) /\ current \in [Watches -> Nat]
    /\ vendors \in [Vendors -> Vendor] /\ models \subseteq Model /\ wanted \subseteq Vendors
    /\ chat \in Ids /\ line \in [vendor : Vendors, model : Ids, requested : Ids]
    /\ marked \in BOOLEAN /\ unset \in BOOLEAN
    /\ server = "serving" => upTo = Len(Statements)

\* What the statements executed so far have created and added is there
SchemaHolds ==
    \A i \in 1..upTo : \A t, c : Gives(Statements[i], Column(t, c)) => <<t, c>> \in schema

\* The current incident is the newest open one; each statement that was executed has done its part
CasesHold ==
    /\ \A m \in Watches : current[m] # 0 =>
          current[m] \in DOMAIN cases /\ cases[current[m]].of = m /\ cases[current[m]].open
    /\ \A i \in DOMAIN cases : cases[i].open => i <= current[cases[i].of]
    /\ Done("resolve_duplicates") =>
          \A i \in DOMAIN cases : cases[i].open => i = current[cases[i].of]
    /\ Done("clear_markers") => \A i \in DOMAIN cases : cases[i].marker => cases[i].open
    /\ Done("set_markers") => \A i \in DOMAIN cases : cases[i].open => cases[i].marker

\* The model a provider of an earlier version becomes
Converted(v) == [id |-> <<v, 0>>, vendor |-> v, default |-> vendors[v].default]

\* Until the conversion is marked the models are those of the earlier version, some or all
\* of them; from then on they are mirrored by their providers
ModelsHold ==
    /\ \A m, n \in models : m.vendor = n.vendor => m = n
    /\ ~marked =>
          /\ wanted = {v \in Vendors : vendors[v].named}
          /\ \A v \in Vendors : vendors[v].default => vendors[v].named
          /\ \A m \in models : m = Converted(m.vendor) /\ vendors[m.vendor].named
    /\ marked \/ Done("insert_models") => {m.vendor : m \in models} = wanted /\ vendors = Mirror(models)
    /\ Done("mark_complete") => marked

\* The conversation and the turn refer to models there are
ReferencesHold ==
    /\ marked \/ Done("backfill_conversations") =>
          (chat = NoModel => unset \/ \A m \in models : ~m.default)
    /\ unset => marked /\ chat = NoModel
    /\ line.model # NoModel => \E m \in models : m.id = line.model /\ m.vendor = line.vendor

MigInv == MigTyped /\ SchemaHolds /\ CasesHold /\ ModelsHold /\ ReferencesHold

\* The statements depend on the driver alone.
LEMMA SameStatements == driver' = driver => Statements' = Statements
BY DEF Statements, aiUpgradeStatements, aiUpgradeTail

\* What the next statement needs, the statements before it have given
LEMMA NeedsAreMet ==
    ASSUME MigInv, upTo < Len(Statements)
    PROVE  /\ upTo + 1 \in 1..Len(Statements) /\ Len(Statements) \in Nat
           /\ \A t, c : Needs(Statements[upTo + 1], Column(t, c)) => <<t, c>> \in schema
           /\ \A op : Needs(Statements[upTo + 1], Did(op)) => Done(op)
<1>1. Good(Statements) /\ upTo \in Nat /\ Len(Statements) \in Nat
  <2>1. Good(Statements) /\ upTo \in 0..Len(Statements)
    BY StatementsInOrder DEF MigInv, MigTyped
  <2>2. \A S : Statements \in Seq(S) => Len(Statements) \in Nat
    OBVIOUS
  <2> QED BY <2>1, <2>2 DEF Good, List
<1>2. upTo + 1 \in 1..Len(Statements) /\ (upTo + 1) - 1 = upTo
  BY <1>1
<1>3. \A n : Needs(Statements[upTo + 1], n) => \E j \in 1..upTo : Gives(Statements[j], n)
  BY <1>1, <1>2 DEF Good, Ready
<1>4. ASSUME NEW op, NEW j \in 1..upTo, Gives(Statements[j], Did(op)) PROVE Done(op)
  <2>1. Statements[j].op = op
    BY <1>4 DEF Gives, Did, Table, Column
  <2> QED BY <2>1 DEF Done
<1> QED BY <1>1, <1>2, <1>3, <1>4 DEF MigInv, SchemaHolds

\* What was executed was preceded by what it follows.
LEMMA InTheirOrder ==
    ASSUME MigInv
    PROVE  /\ Done("clear_markers") => Done("resolve_duplicates")
           /\ Done("backfill_conversations") => Done("insert_models")
           /\ Done("mark_complete") => Done("backfill_conversations")
<1>1. Ready({}, Statements) /\ upTo \in 0..Len(Statements) /\ Len(Statements) \in Nat
  <2>1. Good(Statements) /\ upTo \in 0..Len(Statements)
    BY StatementsInOrder DEF MigInv, MigTyped
  <2>2. \A S : Statements \in Seq(S) => Len(Statements) \in Nat
    OBVIOUS
  <2> QED BY <2>1, <2>2 DEF Good, List
<1>2. ASSUME NEW op, NEW o \in Follows(op), Done(op) PROVE Done(o)
  <2>1. PICK i \in 1..upTo : Statements[i].op = op
    BY <1>2 DEF Done
  <2>2. Needs(Statements[i], Did(o))
    BY <2>1 DEF Needs
  <2>3. PICK j \in 1..(i - 1) : Gives(Statements[j], Did(o))
    BY <1>1, <2>1, <2>2 DEF Ready
  <2>4. Statements[j].op = o
    BY <2>3 DEF Gives, Did, Table, Column
  <2>5. j \in 1..upTo
    BY <1>1
  <2> QED BY <2>4, <2>5 DEF Done
<1>3. /\ "resolve_duplicates" \in Follows("clear_markers")
      /\ "insert_models" \in Follows("backfill_conversations")
      /\ "backfill_conversations" \in Follows("mark_complete")
  BY DEF Follows
<1> QED BY <1>2, <1>3

\* No statement fails
LEMMA NextAccepted ==
    ASSUME MigInv, upTo < Len(Statements)
    PROVE  Accepted(Statements[upTo + 1])
<1> DEFINE s == Statements[upTo + 1]
<1>1. /\ \A t, c : Needs(s, Column(t, c)) => <<t, c>> \in schema
      /\ \A op : Needs(s, Did(op)) => Done(op)
  BY NeedsAreMet
<1> HIDE DEF s
<1>2. s.op = "create" \/ Has(s.table, {"id"})
  <2>1. s.op # "create" => Needs(s, Column(s.table, "id"))
    BY DEF Needs, Table, Column
  <2> QED BY <1>1, <2>1 DEF Has
<1>3. s.op \in {"create", "add"} \/ Has(s.table, s.cols)
  <2>1. s.op \notin {"create", "add"} => \A c \in s.cols : Needs(s, Column(s.table, c))
    BY DEF Needs
  <2> QED BY <1>1, <2>1 DEF Has
<1>4. \A t \in s.refs : Has(t, {"id"})
  <2>1. \A t \in s.refs : Needs(s, Column(t, "id"))
    BY DEF Needs, Table, Column
  <2> QED BY <1>1, <2>1 DEF Has
<1>5. ASSUME s.op = "one_active", NEW i \in DOMAIN cases, NEW j \in DOMAIN cases,
             cases[i].marker, cases[j].marker, cases[i].of = cases[j].of
      PROVE  i = j
  <2>1. Needs(s, Did("resolve_duplicates")) /\ Needs(s, Did("clear_markers"))
    BY <1>5 DEF Needs, Follows
  <2>2. Done("resolve_duplicates") /\ Done("clear_markers")
    BY <1>1, <2>1
  <2>3. cases[i].open /\ cases[j].open
    BY <1>5, <2>2 DEF MigInv, CasesHold
  <2> QED BY <1>5, <2>2, <2>3 DEF MigInv, CasesHold
<1> QED BY <1>2, <1>3, <1>4, <1>5 DEF Accepted, s

LEMMA SchemaStep ==
    ASSUME MigInv, upTo < Len(Statements), driver' = driver, upTo' = upTo + 1,
           schema' = After(Statements[upTo + 1])
    PROVE  SchemaHolds'
<1>1. Statements' = Statements /\ upTo \in Nat
  BY SameStatements, NeedsAreMet DEF MigInv, MigTyped
<1>2. ASSUME NEW i \in 1..upTo, NEW t, NEW c, Gives(Statements[i], Column(t, c))
      PROVE  <<t, c>> \in schema'
  BY <1>2 DEF MigInv, SchemaHolds, After
<1>3. ASSUME NEW t, NEW c, Gives(Statements[upTo + 1], Column(t, c))
      PROVE  <<t, c>> \in schema'
  <2> DEFINE s == Statements[upTo + 1]
  <2>1. \/ s.op = "create" /\ t = s.table /\ c = "id"
        \/ s.op = "add" /\ t = s.table /\ c \in s.cols
    BY <1>3 DEF Gives, Did, Table, Column
  <2>2. schema' = After(s)
    OBVIOUS
  <2> HIDE DEF s
  <2> QED BY <2>1, <2>2 DEF After, Has
<1>4. \A i \in 1..(upTo + 1) : i \in 1..upTo \/ i = upTo + 1
  BY <1>1
<1> QED BY <1>1, <1>2, <1>3, <1>4 DEF SchemaHolds

LEMMA DoneAfter ==
    ASSUME MigInv, upTo < Len(Statements), driver' = driver, upTo' = upTo + 1,
           NEW op, op = Statements[upTo + 1].op
    PROVE  \A o : Done(o)' <=> Done(o) \/ o = op
<1>1. Statements' = Statements /\ upTo \in Nat
  BY SameStatements DEF MigInv, MigTyped
<1>2. \A i \in 1..(upTo + 1) : i \in 1..upTo \/ i = upTo + 1
  BY <1>1
<1>3. upTo + 1 \in 1..(upTo + 1) /\ 1..upTo \subseteq 1..(upTo + 1)
  BY <1>1
<1> QED BY <1>1, <1>2, <1>3 DEF Done

\* What a statement makes of one incident.
LEMMA RowAfter ==
    ASSUME MigTyped, NEW op, NEW i \in DOMAIN cases
    PROVE  /\ CasesAfter(op)[i] \in Incident /\ CasesAfter(op)[i].of = cases[i].of
           /\ CasesAfter(op)[i].open <=>
                 cases[i].open /\ ~(op = "resolve_duplicates" /\ OldIncident(i))
           /\ CasesAfter(op)[i].marker <=>
                 \/ cases[i].marker /\ (op = "clear_markers" => cases[i].open)
                 \/ op = "set_markers" /\ cases[i].open
<1>1. cases[i] \in Incident
  BY DEF MigTyped
<1>2. CASE op = "resolve_duplicates"
  <2>1. CASE OldIncident(i)
    <3>1. CasesAfter(op)[i] = [cases[i] EXCEPT !.open = FALSE]
      BY <1>2, <2>1 DEF CasesAfter
    <3> QED BY <1>1, <1>2, <2>1, <3>1 DEF Incident
  <2>2. CASE ~OldIncident(i)
    <3>1. CasesAfter(op)[i] = [cases[i] EXCEPT !.open = cases[i].open]
      BY <1>1, <1>2, <2>2 DEF CasesAfter, Incident
    <3> QED BY <1>1, <1>2, <2>2, <3>1 DEF Incident
  <2> QED BY <2>1, <2>2
<1>3. CASE op = "clear_markers"
  <2>1. CASE cases[i].open
    <3>1. CasesAfter(op)[i] = [cases[i] EXCEPT !.marker = cases[i].marker]
      BY <1>1, <1>3, <2>1 DEF CasesAfter, Incident
    <3> QED BY <1>1, <1>3, <2>1, <3>1 DEF Incident
  <2>2. CASE ~cases[i].open
    <3>1. CasesAfter(op)[i] = [cases[i] EXCEPT !.marker = FALSE]
      BY <1>1, <1>3, <2>2 DEF CasesAfter, Incident
    <3> QED BY <1>1, <1>3, <2>2, <3>1 DEF Incident
  <2> QED BY <2>1, <2>2
<1>4. CASE op = "set_markers"
  <2>1. CASE cases[i].open
    <3>1. CasesAfter(op)[i] = [cases[i] EXCEPT !.marker = TRUE]
      BY <1>1, <1>4, <2>1 DEF CasesAfter, Incident
    <3> QED BY <1>1, <1>4, <2>1, <3>1 DEF Incident
  <2>2. CASE ~cases[i].open
    <3>1. CasesAfter(op)[i] = [cases[i] EXCEPT !.marker = cases[i].marker]
      BY <1>1, <1>4, <2>2 DEF CasesAfter, Incident
    <3> QED BY <1>1, <1>4, <2>2, <3>1 DEF Incident
  <2> QED BY <2>1, <2>2
<1>5. CASE op \notin {"resolve_duplicates", "clear_markers", "set_markers"}
  BY <1>1, <1>5 DEF CasesAfter
<1> QED BY <1>2, <1>3, <1>4, <1>5

\* The statements on the incidents leave the newest open, once and again.
LEMMA CasesStep ==
    ASSUME MigInv, NEW op, \A o : Done(o)' <=> Done(o) \/ o = op,
           op = "clear_markers" => Done("resolve_duplicates"),
           cases' = CasesAfter(op), current' = current
    PROVE  cases' \in Seq(Incident) /\ CasesHold'
<1>1. MigTyped /\ CasesHold /\ (Done("clear_markers") => Done("resolve_duplicates"))
  BY InTheirOrder DEF MigInv
<1>2. DOMAIN cases' = DOMAIN cases /\ cases' \in Seq(Incident)
  <2>1. Len(cases) \in Nat /\ DOMAIN cases = 1..Len(cases)
    BY <1>1 DEF MigTyped
  <2>2. cases' = [i \in 1..Len(cases) |-> cases'[i]] /\ DOMAIN cases' = 1..Len(cases)
    BY <2>1 DEF CasesAfter
  <2>3. \A i \in 1..Len(cases) : cases'[i] \in Incident
    BY <1>1, <2>1, RowAfter
  <2> QED BY <2>1, <2>2, <2>3
<1>3. ASSUME NEW i \in DOMAIN cases
      PROVE  /\ cases'[i].of = cases[i].of /\ cases[i].of \in Watches
             /\ cases'[i].open <=> cases[i].open /\ ~(op = "resolve_duplicates" /\ OldIncident(i))
             /\ cases'[i].marker <=>
                   \/ cases[i].marker /\ (op = "clear_markers" => cases[i].open)
                   \/ op = "set_markers" /\ cases[i].open
  <2>1. cases[i] \in Incident
    BY <1>1 DEF MigTyped
  <2>2. cases[i].of \in Watches
    BY <2>1 DEF Incident
  <2> QED BY <1>1, <2>2, RowAfter
<1>4. \A i \in DOMAIN cases : i \in Nat
  BY <1>1 DEF MigTyped
<1>5. ASSUME NEW i \in DOMAIN cases, cases[i].open, i = current[cases[i].of] PROVE ~OldIncident(i)
  BY <1>1, <1>3, <1>4, <1>5 DEF OldIncident, CasesHold
<1>6. ASSUME NEW i \in DOMAIN cases, cases[i].open, ~OldIncident(i) PROVE i = current[cases[i].of]
  <2> DEFINE k == current[cases[i].of]
  <2>1. k \in Nat /\ i <= k /\ i \in Nat /\ i # 0
    BY <1>1, <1>3, <1>4, <1>6 DEF CasesHold, MigTyped
  <2>2. k \in DOMAIN cases /\ cases[k].of = cases[i].of /\ cases[k].open
    BY <1>1, <1>3, <2>1 DEF CasesHold
  <2> QED BY <1>6, <2>1, <2>2 DEF OldIncident
<1>7. \A m \in Watches : current'[m] # 0 =>
          current'[m] \in DOMAIN cases' /\ cases'[current'[m]].of = m /\ cases'[current'[m]].open
  <2> SUFFICES ASSUME NEW m \in Watches, current[m] # 0
               PROVE  current[m] \in DOMAIN cases /\ cases'[current[m]].of = m /\ cases'[current[m]].open
    BY <1>2
  <2>1. current[m] \in DOMAIN cases /\ cases[current[m]].of = m /\ cases[current[m]].open
    BY <1>1 DEF CasesHold
  <2>2. ~OldIncident(current[m])
    BY <1>5, <2>1
  <2> QED BY <1>3, <2>1, <2>2
<1>8. \A i \in DOMAIN cases' : cases'[i].open => i <= current'[cases'[i].of]
  BY <1>1, <1>2, <1>3 DEF CasesHold
<1>9. Done("resolve_duplicates")' =>
          \A i \in DOMAIN cases' : cases'[i].open => i = current'[cases'[i].of]
  BY <1>1, <1>2, <1>3, <1>6 DEF CasesHold
<1>10. Done("clear_markers")' => \A i \in DOMAIN cases' : cases'[i].marker => cases'[i].open
  <2> SUFFICES ASSUME Done("clear_markers") \/ op = "clear_markers",
                      NEW i \in DOMAIN cases, cases'[i].marker
               PROVE  cases'[i].open
    BY <1>2
  <2>1. Done("resolve_duplicates")
    BY <1>1
  <2>2. cases[i].open
    BY <1>1, <1>3 DEF CasesHold
  <2>3. ~OldIncident(i)
    BY <1>1, <1>5, <2>1, <2>2 DEF CasesHold
  <2> QED BY <1>3, <2>2, <2>3
<1>11. Done("set_markers")' => \A i \in DOMAIN cases' : cases'[i].open => cases'[i].marker
  BY <1>1, <1>2, <1>3 DEF CasesHold
<1> QED BY <1>2, <1>7, <1>8, <1>9, <1>10, <1>11 DEF CasesHold

LEMMA MirrorOf ==
    ASSUME NEW rows \in SUBSET Model
    PROVE  Mirror(rows) \in [Vendors -> Vendor]
BY DEF Mirror, Vendor

\* The models are inserted once, whatever of them an interrupted start has left.
LEMMA ModelsStep ==
    ASSUME MigInv, NEW op, \A o : Done(o)' <=> Done(o) \/ o = op,
           op = "mark_complete" => Done("insert_models"),
           models' = ModelsAfter(op), marked' = (marked \/ op = "mark_complete"),
           UNCHANGED <<vendors, wanted>>
    PROVE  models' \subseteq Model /\ models \subseteq models' /\ marked' \in BOOLEAN /\ ModelsHold'
<1>1. MigTyped /\ ModelsHold
  BY DEF MigInv
<1>2. CASE op # "insert_models" \/ marked
  <2>1. models' = models
    BY <1>2 DEF ModelsAfter
  <2>2. marked' <=> marked \/ op = "mark_complete"
    OBVIOUS
  <2>3. Done("insert_models")' => marked \/ Done("insert_models")
    BY <1>2
  <2>4. Mirror(models)' = Mirror(models) /\ \A v : Converted(v)' = Converted(v)
    BY <2>1 DEF Mirror, Converted
  <2> QED BY <1>1, <2>1, <2>2, <2>3, <2>4 DEF ModelsHold, MigTyped
<1>3. CASE op = "insert_models" /\ ~marked
  <2> DEFINE new == {v \in Vendors : vendors[v].named /\ \A m \in models : m.vendor # v}
  <2>1. models' = models \cup {Converted(v) : v \in new} /\ ~marked'
    BY <1>3 DEF ModelsAfter, Converted
  <2>2. \A v \in Vendors : Converted(v) \in Model /\ Converted(v).vendor = v
                           /\ Converted(v).default = vendors[v].default
    BY <1>1 DEF MigTyped, Converted, Model, Vendor
  <2>3. models' \subseteq Model
    BY <1>1, <2>1, <2>2 DEF MigTyped
  <2>4. \A m \in models' : m = Converted(m.vendor) /\ m.vendor \in Vendors /\ vendors[m.vendor].named
    BY <1>1, <1>3, <2>1, <2>2 DEF ModelsHold, MigTyped, Model
  <2>5. \A v \in Vendors : vendors[v].named => \E m \in models' : m.vendor = v
    BY <2>1, <2>2
  <2>6. {m.vendor : m \in models'} = wanted
    BY <1>1, <1>3, <2>4, <2>5 DEF ModelsHold
  <2>7. ASSUME NEW v \in Vendors PROVE vendors[v] = Mirror(models)'[v]
    <3>1. vendors[v].named <=> \E m \in models' : m.vendor = v
      BY <2>4, <2>5
    <3>2. vendors[v].default <=> \E m \in models' : m.vendor = v /\ m.default
      BY <1>1, <1>3, <2>2, <2>4, <2>5 DEF ModelsHold
    <3>3. vendors[v] \in Vendor
      BY <1>1 DEF MigTyped
    <3>4. Mirror(models)'[v] = [named |-> \E m \in models' : m.vendor = v,
                                default |-> \E m \in models' : m.vendor = v /\ m.default]
      BY DEF Mirror
    <3> QED BY <3>1, <3>2, <3>3, <3>4 DEF Vendor
  <2>8. vendors' = Mirror(models)'
    BY <1>1, <2>7 DEF MigTyped, Mirror
  <2>9. \A v : Converted(v)' = Converted(v)
    BY DEF Converted
  <2>10. \A m, n \in models' : m.vendor = n.vendor => m = n
    BY <2>4
  <2>11. Done("mark_complete")' => marked'
    BY <1>1, <1>3 DEF ModelsHold
  <2> QED BY <1>1, <1>3, <2>1, <2>3, <2>4, <2>6, <2>8, <2>9, <2>10, <2>11 DEF ModelsHold
<1> QED BY <1>2, <1>3

LEMMA ModelOfSome ==
    ASSUME NEW rows \in SUBSET Model
    PROVE  /\ ModelOf(rows) \in Ids
           /\ rows = {} => ModelOf(rows) = NoModel
           /\ rows # {} => ModelOf(rows) # NoModel /\ \E m \in rows : m.id = ModelOf(rows)
<1>1. CASE rows = {}
  BY <1>1 DEF ModelOf, Ids
<1>2. CASE rows # {}
  <2>1. (CHOOSE m \in rows : TRUE) \in rows
    BY <1>2
  <2>2. \A m \in rows : m.id \in Vendors \X {0, 1}
    BY DEF Model
  <2> QED BY <1>2, <2>1, <2>2, MigrationsAssumption DEF ModelOf, Ids
<1> QED BY <1>1, <1>2

\* The conversation gets the default once, the turn its provider's model at each start.
LEMMA ReferencesStep ==
    ASSUME MigInv, NEW op, \A o : Done(o)' <=> Done(o) \/ o = op,
           op = "mark_complete" => Done("backfill_conversations"),
           models' = ModelsAfter(op), marked' = (marked \/ op = "mark_complete"),
           chat' = ChatAfter(op), line' = LineAfter(op), unset' = unset
    PROVE  /\ chat' \in Ids /\ line' \in [vendor : Vendors, model : Ids, requested : Ids]
           /\ ReferencesHold'
<1>1. /\ MigTyped /\ ModelsHold /\ ReferencesHold
      /\ Done("backfill_conversations") => Done("insert_models")
  BY InTheirOrder DEF MigInv
<1>2. models \subseteq models' /\ (op # "insert_models" => models' = models)
  BY DEF ModelsAfter
<1>3. marked \/ Done("insert_models") => models' = models
  <2>1. marked => models' = models
    BY DEF ModelsAfter
  <2> SUFFICES ASSUME Done("insert_models"), ~marked PROVE models' = models
    BY <2>1
  <2>2. \A v \in Vendors : vendors[v].named => \E m \in models : m.vendor = v
    BY <1>1 DEF ModelsHold
  <2> QED BY <2>2 DEF ModelsAfter
<1>4. {m \in models : m.default} \in SUBSET Model
      /\ {m \in models : m.vendor = line.vendor} \in SUBSET Model
  BY <1>1 DEF MigTyped
<1>5. chat' \in Ids
  BY <1>1, <1>4, ModelOfSome DEF ChatAfter, MigTyped
<1>6. ASSUME marked' \/ Done("backfill_conversations")', chat' = NoModel
      PROVE  unset' \/ \A m \in models' : ~m.default
  <2>1. CASE op = "backfill_conversations" /\ ~marked /\ chat = NoModel
    <3>1. chat' = ModelOf({m \in models : m.default}) /\ models' = models
      BY <1>2, <2>1 DEF ChatAfter
    <3> QED BY <1>4, <1>6, <3>1, ModelOfSome
  <2>2. CASE ~(op = "backfill_conversations" /\ ~marked /\ chat = NoModel)
    <3>1. chat' = chat
      BY <2>2 DEF ChatAfter
    <3>2. marked \/ Done("backfill_conversations")
      BY <1>6, <2>2, <3>1
    <3>3. models' = models
      BY <1>1, <1>3, <3>2
    <3> QED BY <1>1, <1>6, <3>1, <3>2, <3>3 DEF ReferencesHold
  <2> QED BY <2>1, <2>2
<1>7. unset' => marked' /\ chat' = NoModel
  BY <1>1 DEF ReferencesHold, ChatAfter
<1>8. /\ line' \in [vendor : Vendors, model : Ids, requested : Ids]
      /\ line'.model # NoModel => \E m \in models' : m.id = line'.model /\ m.vendor = line'.vendor
  <2> DEFINE fit == {m \in models : m.vendor = line.vendor}
             known == ModelOf(fit)
  <2>1. known \in Ids /\ (known # NoModel => \E m \in fit : m.id = known)
    BY <1>4, ModelOfSome
  <2>2. line \in [vendor : Vendors, model : Ids, requested : Ids]
    BY <1>1 DEF MigTyped
  <2>3. CASE op # "backfill_turns"
    BY <1>1, <1>2, <2>2, <2>3 DEF LineAfter, ReferencesHold
  <2>4. CASE op = "backfill_turns"
    <3>1. line' = [line EXCEPT !.model = IF line.model = NoModel THEN known ELSE line.model,
                               !.requested = IF line.requested = NoModel THEN known ELSE line.requested]
      BY <2>4 DEF LineAfter
    <3> HIDE DEF known
    <3>2. /\ line' \in [vendor : Vendors, model : Ids, requested : Ids]
          /\ line'.vendor = line.vendor
          /\ line'.model = IF line.model = NoModel THEN known ELSE line.model
      BY <2>1, <2>2, <3>1
    <3> QED BY <1>1, <1>2, <2>1, <3>2 DEF ReferencesHold
  <2> QED BY <2>3, <2>4
<1> QED BY <1>5, <1>6, <1>7, <1>8 DEF ReferencesHold

LEMMA ExecuteKeeps == ASSUME MigInv, Execute PROVE MigInv'
<1>1. upTo < Len(Statements) /\ server = "migrating"
  BY DEF Execute
<1>2. Accepted(Statements[upTo + 1])
  BY <1>1, NextAccepted
<1>3. PICK op : op = Statements[upTo + 1].op
  OBVIOUS
<1>4. /\ upTo' = upTo + 1 /\ schema' = After(Statements[upTo + 1]) /\ cases' = CasesAfter(op)
      /\ models' = ModelsAfter(op) /\ chat' = ChatAfter(op) /\ line' = LineAfter(op)
      /\ marked' = (marked \/ op = "mark_complete") /\ server' = server
      /\ UNCHANGED <<driver, starts, current, vendors, wanted, unset>>
  BY <1>2, <1>3 DEF Execute
<1>5. \A o : Done(o)' <=> Done(o) \/ o = op
  BY <1>1, <1>3, <1>4, DoneAfter
<1>6. /\ op = "clear_markers" => Done("resolve_duplicates")
      /\ op = "mark_complete" => Done("backfill_conversations")
  <2>1. \A o \in Follows(op) : Done(o)
    BY <1>1, <1>3, NeedsAreMet DEF Needs
  <2> QED BY <2>1 DEF Follows
<1>7. SchemaHolds'
  BY <1>1, <1>4, SchemaStep
<1>8. cases' \in Seq(Incident) /\ CasesHold'
  BY <1>4, <1>5, <1>6, CasesStep
<1>9. models' \subseteq Model /\ marked' \in BOOLEAN /\ ModelsHold'
  BY <1>4, <1>5, <1>6, ModelsStep, InTheirOrder
<1>10. /\ chat' \in Ids /\ line' \in [vendor : Vendors, model : Ids, requested : Ids]
       /\ ReferencesHold'
  BY <1>4, <1>5, <1>6, ReferencesStep
<1>11. Statements' = Statements /\ upTo' \in 0..Len(Statements)
  BY <1>1, <1>4, SameStatements, NeedsAreMet DEF MigInv, MigTyped
<1>12. MigTyped'
  BY <1>1, <1>4, <1>8, <1>9, <1>10, <1>11 DEF MigInv, MigTyped
<1> QED BY <1>7, <1>8, <1>9, <1>10, <1>12 DEF MigInv

\* When the last statement was executed, all were.
LEMMA WhenComplete ==
    ASSUME MigInv, upTo = Len(Statements)
    PROVE  /\ \A op \in {"resolve_duplicates", "clear_markers", "set_markers", "insert_models",
                          "backfill_conversations", "mark_complete"} : Done(op)
           /\ \A n \in Later : \E i \in 1..upTo : Gives(Statements[i], n)
           /\ marked /\ {m.vendor : m \in models} = wanted /\ vendors = Mirror(models)
           /\ \A i \in DOMAIN cases : cases[i].open <=> cases[i].marker
<1>1. driver \in {"sqlite", "mysql"}
  BY DEF MigInv, MigTyped
<1>2. ASSUME NEW op, Got(Statements, Did(op)) PROVE Done(op)
  BY <1>2 DEF Got, Gives, Did, Table, Column, Done
<1>3. \A op \in {"resolve_duplicates", "clear_markers", "set_markers", "insert_models",
                 "backfill_conversations", "mark_complete"} : Done(op)
  BY <1>1, <1>2, StatementsInOrder
<1>4. \A n \in Later : \E i \in 1..upTo : Gives(Statements[i], n)
  BY <1>1, StatementsInOrder DEF Got
<1> QED BY <1>3, <1>4 DEF MigInv, CasesHold, ModelsHold

\* A statement list that is complete, or one not begun, stays what it is
LEMMA SameSchema ==
    ASSUME MigInv, UNCHANGED <<driver, schema>>, upTo' = upTo \/ upTo' = 0
    PROVE  /\ SchemaHolds' /\ Statements' = Statements /\ upTo' \in 0..Len(Statements)
           /\ \A op : Done(op)' => Done(op)
<1>1. Statements' = Statements /\ upTo \in 0..Len(Statements)
  BY SameStatements DEF MigInv, MigTyped
<1>2. 1..upTo' \subseteq 1..upTo
  BY <1>1
<1>3. upTo' \in 0..Len(Statements)
  <2>1. \A S : Statements \in Seq(S) => Len(Statements) \in Nat
    OBVIOUS
  <2>2. Len(Statements) \in Nat
    BY <2>1, StatementsInOrder DEF MigInv, MigTyped, Good, List
  <2> QED BY <1>1, <2>2
<1> QED BY <1>1, <1>2, <1>3 DEF MigInv, SchemaHolds, Done

LEMMA CasesStay ==
    ASSUME CasesHold, UNCHANGED <<cases, current>>, \A op : Done(op)' => Done(op)
    PROVE  CasesHold'
BY DEF CasesHold

LEMMA ModelsStay ==
    ASSUME ModelsHold, ReferencesHold, UNCHANGED <<models, vendors, wanted, marked, chat, line, unset>>,
           \A op : Done(op)' => Done(op)
    PROVE  ModelsHold' /\ ReferencesHold'
<1>1. Mirror(models)' = Mirror(models) /\ \A v : Converted(v)' = Converted(v)
  BY DEF Mirror, Converted
<1> QED BY <1>1 DEF ModelsHold, ReferencesHold

LEMMA StartsAndEndsKeep == ASSUME MigInv, Opened \/ OpenStorage \/ Crashes PROVE MigInv'
<1>1. /\ UNCHANGED <<driver, schema, cases, current, models, vendors, wanted, marked, chat, line, unset>>
      /\ (upTo' = upTo \/ upTo' = 0) /\ server' \in {"down", "migrating", "serving"}
      /\ server' = "serving" => upTo' = upTo /\ upTo = Len(Statements)
  BY DEF Opened, OpenStorage, Crashes
<1>2. /\ SchemaHolds' /\ Statements' = Statements /\ upTo' \in 0..Len(Statements)
      /\ \A op : Done(op)' => Done(op)
  BY <1>1, SameSchema
<1>3. CasesHold'
  BY <1>1, <1>2, CasesStay DEF MigInv
<1>4. ModelsHold' /\ ReferencesHold'
  BY <1>1, <1>2, ModelsStay DEF MigInv
<1>5. MigTyped'
  BY <1>1, <1>2 DEF MigInv, MigTyped
<1> QED BY <1>2, <1>3, <1>4, <1>5 DEF MigInv

\* A request on the models: only they and what refers to them change, and the mirror follows
LEMMA ModelRequestKeeps ==
    ASSUME MigInv, server = "serving", models' \subseteq Model, vendors' = Mirror(models'),
           \A m, n \in models' : m.vendor = n.vendor => m = n,
           {m.vendor : m \in models'} = wanted',
           chat' \in Ids, line' \in [vendor : Vendors, model : Ids, requested : Ids],
           unset' \in BOOLEAN,
           chat' = NoModel => unset' \/ \A m \in models' : ~m.default,
           unset' => chat' = NoModel,
           line'.model # NoModel => \E m \in models' : m.id = line'.model /\ m.vendor = line'.vendor,
           UNCHANGED <<driver, schema, upTo, server, cases, current, marked>>
    PROVE  MigInv'
<1>1. upTo = Len(Statements) /\ marked
  BY WhenComplete DEF MigInv, MigTyped
<1>2. /\ SchemaHolds' /\ Statements' = Statements /\ upTo' \in 0..Len(Statements)
      /\ \A op : Done(op)' => Done(op)
  BY SameSchema
<1>3. CasesHold'
  BY <1>2, CasesStay DEF MigInv
<1>4. vendors' \in [Vendors -> Vendor] /\ wanted' \subseteq Vendors
  <2>1. \A m \in models' : m.vendor \in Vendors
    BY DEF Model
  <2> QED BY <2>1, MirrorOf
<1>5. Mirror(models)' = Mirror(models')
  BY DEF Mirror
<1>6. ModelsHold'
  BY <1>1, <1>5 DEF ModelsHold
<1>7. ReferencesHold'
  BY <1>1 DEF ReferencesHold
<1>8. MigTyped'
  BY <1>1, <1>2, <1>4 DEF MigInv, MigTyped
<1> QED BY <1>2, <1>3, <1>6, <1>7, <1>8 DEF MigInv

\* What a Server that serves finds of the models and the references to them.
LEMMA Serving ==
    ASSUME MigInv, server = "serving"
    PROVE  /\ marked /\ {m.vendor : m \in models} = wanted /\ models \subseteq Model
           /\ \A m, n \in models : m.vendor = n.vendor => m = n
           /\ chat = NoModel => unset \/ \A m \in models : ~m.default
           /\ unset => chat = NoModel
           /\ line.model # NoModel => \E m \in models : m.id = line.model /\ m.vendor = line.vendor
           /\ chat \in Ids /\ line \in [vendor : Vendors, model : Ids, requested : Ids]
           /\ unset \in BOOLEAN /\ \A m \in models : m.id \in Ids /\ m.id # NoModel /\ m.vendor \in Vendors
<1>1. upTo = Len(Statements)
  BY DEF MigInv, MigTyped
<1>2. \A m \in models : m.id \in Vendors \X {0, 1} /\ m.vendor \in Vendors
  BY DEF MigInv, MigTyped, Model
<1>3. \A m \in models : m.id \in Ids /\ m.id # NoModel /\ m.vendor \in Vendors
  BY <1>2, MigrationsAssumption DEF Ids
<1> QED BY <1>1, <1>3, WhenComplete DEF MigInv, MigTyped, ModelsHold, ReferencesHold

LEMMA DropModelKeeps == ASSUME MigInv, NEW m \in models, DropModel(m) PROVE MigInv'
<1>1. /\ server = "serving" /\ ~m.default
      /\ models' = models \ {m} /\ vendors' = Mirror(models') /\ wanted' = wanted \ {m.vendor}
      /\ chat' = IF chat = m.id THEN NoModel ELSE chat
      /\ unset' = (unset \/ chat = m.id)
      /\ line' = [line EXCEPT !.model = IF line.model = m.id THEN NoModel ELSE line.model]
      /\ UNCHANGED <<driver, schema, upTo, server, starts, cases, current, marked>>
  BY DEF DropModel
<1>2. {n.vendor : n \in models'} = wanted'
  BY <1>1, Serving
<1>3. /\ chat' \in Ids /\ unset' \in BOOLEAN /\ (unset' => chat' = NoModel)
      /\ chat' = NoModel => unset' \/ \A n \in models' : ~n.default
  BY <1>1, Serving DEF Ids
<1>4. /\ line' \in [vendor : Vendors, model : Ids, requested : Ids]
      /\ line'.vendor = line.vendor
      /\ line'.model = IF line.model = m.id THEN NoModel ELSE line.model
  BY <1>1, Serving DEF Ids
<1>5. line'.model # NoModel => \E n \in models' : n.id = line'.model /\ n.vendor = line'.vendor
  BY <1>1, <1>4, Serving
<1>6. models' \subseteq Model /\ \A a, b \in models' : a.vendor = b.vendor => a = b
  BY <1>1, Serving
<1> QED BY <1>1, <1>2, <1>3, <1>4, <1>5, <1>6, ModelRequestKeeps

LEMMA RerouteKeeps == ASSUME MigInv, NEW m \in models, Reroute(m) PROVE MigInv'
<1>1. /\ server = "serving" /\ ~m.default
      /\ models' = {[n EXCEPT !.default = (n = m)] : n \in models}
      /\ vendors' = Mirror(models') /\ unset' = (unset \/ chat = NoModel)
      /\ UNCHANGED <<driver, schema, upTo, server, starts, cases, current, chat, line, marked, wanted>>
  BY DEF Reroute
<1> DEFINE Moved(n) == [n EXCEPT !.default = (n = m)]
<1>2. ASSUME NEW n \in models
      PROVE  Moved(n) \in Model /\ Moved(n).vendor = n.vendor /\ Moved(n).id = n.id
  <2>1. n \in Model
    BY <1>1, Serving
  <2>2. CASE n = m
    <3>1. Moved(n) = [n EXCEPT !.default = TRUE]
      BY <2>2
    <3> HIDE DEF Moved
    <3> QED BY <2>1, <3>1 DEF Model
  <2>3. CASE n # m
    <3>1. Moved(n) = [n EXCEPT !.default = FALSE]
      BY <2>3
    <3> HIDE DEF Moved
    <3> QED BY <2>1, <3>1 DEF Model
  <2> QED BY <2>2, <2>3
<1>3. models' = {Moved(n) : n \in models}
  BY <1>1
<1> HIDE DEF Moved
<1>4. models' \subseteq Model /\ \A a, b \in models' : a.vendor = b.vendor => a = b
  BY <1>1, <1>2, <1>3, Serving
<1>5. {n.vendor : n \in models'} = wanted'
  BY <1>1, <1>2, <1>3, Serving
<1>6. line'.model # NoModel => \E n \in models' : n.id = line'.model /\ n.vendor = line'.vendor
  BY <1>1, <1>2, <1>3, Serving
<1>7. /\ unset' \in BOOLEAN /\ (unset' => chat' = NoModel) /\ (chat' = NoModel => unset')
      /\ chat' \in Ids /\ line' \in [vendor : Vendors, model : Ids, requested : Ids]
  BY <1>1, Serving
<1> QED BY <1>1, <1>4, <1>5, <1>6, <1>7, ModelRequestKeeps

LEMMA AddModelKeeps == ASSUME MigInv, NEW v \in Vendors, AddModel(v) PROVE MigInv'
<1> DEFINE new == [id |-> <<v, 1>>, vendor |-> v, default |-> FALSE]
<1>1. /\ server = "serving" /\ (\A m \in models : m.vendor # v)
      /\ models' = models \cup {new} /\ vendors' = Mirror(models') /\ wanted' = wanted \cup {v}
      /\ UNCHANGED <<driver, schema, upTo, server, starts, cases, current, chat, line, marked, unset>>
  BY DEF AddModel
<1>2. new \in Model /\ new.vendor = v /\ ~new.default
  BY DEF Model
<1> HIDE DEF new
<1>3. models' \subseteq Model /\ \A a, b \in models' : a.vendor = b.vendor => a = b
  BY <1>1, <1>2, Serving
<1>4. {n.vendor : n \in models'} = wanted'
  BY <1>1, <1>2, Serving
<1>5. /\ chat' = NoModel => unset' \/ \A n \in models' : ~n.default
      /\ line'.model # NoModel => \E n \in models' : n.id = line'.model /\ n.vendor = line'.vendor
      /\ unset' => chat' = NoModel
      /\ chat' \in Ids /\ line' \in [vendor : Vendors, model : Ids, requested : Ids]
      /\ unset' \in BOOLEAN
  BY <1>1, <1>2, Serving
<1> QED BY <1>1, <1>3, <1>4, <1>5, ModelRequestKeeps

\* A request on the incidents: only they change.
LEMMA IncidentRequestKeeps ==
    ASSUME MigInv, server = "serving", cases' \in Seq(Incident), current' \in [Watches -> Nat],
           \A m \in Watches : current'[m] # 0 =>
              current'[m] \in DOMAIN cases' /\ cases'[current'[m]].of = m /\ cases'[current'[m]].open,
           \A i \in DOMAIN cases' :
              /\ cases'[i].open => i = current'[cases'[i].of]
              /\ cases'[i].open <=> cases'[i].marker,
           UNCHANGED <<driver, schema, upTo, server, models, vendors, wanted, chat, line, marked, unset>>
    PROVE  MigInv'
<1>1. /\ SchemaHolds' /\ Statements' = Statements /\ upTo' \in 0..Len(Statements)
      /\ \A op : Done(op)' => Done(op)
  BY SameSchema
<1>2. ModelsHold' /\ ReferencesHold'
  BY <1>1, ModelsStay DEF MigInv
<1>3. \A i \in DOMAIN cases' : i \in Nat
  OBVIOUS
<1>4. CasesHold'
  BY <1>3 DEF CasesHold
<1>5. MigTyped'
  BY <1>1 DEF MigInv, MigTyped
<1> QED BY <1>1, <1>2, <1>4, <1>5 DEF MigInv

\* What it finds of the incidents.
LEMMA ServingIncidents ==
    ASSUME MigInv, server = "serving"
    PROVE  /\ cases \in Seq(Incident) /\ current \in [Watches -> Nat]
           /\ \A m \in Watches : current[m] # 0 =>
                 current[m] \in DOMAIN cases /\ cases[current[m]].of = m /\ cases[current[m]].open
           /\ \A i \in DOMAIN cases :
                 /\ cases[i] \in Incident /\ cases[i].of \in Watches
                 /\ cases[i].open => i = current[cases[i].of]
                 /\ cases[i].open <=> cases[i].marker
           /\ Len(cases) \in Nat /\ DOMAIN cases = 1..Len(cases)
<1>1. cases \in Seq(Incident) /\ current \in [Watches -> Nat] /\ upTo = Len(Statements)
  BY DEF MigInv, MigTyped
<1>2. \A i \in DOMAIN cases : cases[i] \in Incident
  BY <1>1
<1>3. \A i \in DOMAIN cases : cases[i].of \in Watches
  BY <1>2 DEF Incident
<1> QED BY <1>1, <1>2, <1>3, WhenComplete DEF MigInv, CasesHold

LEMMA OpenCaseKeeps == ASSUME MigInv, NEW m \in Watches, OpenCase(m) PROVE MigInv'
<1> DEFINE new == CaseOf(m, TRUE)
<1>1. /\ server = "serving" /\ cases' = Append(cases, new)
      /\ ~\E i \in DOMAIN cases : cases[i].of = m /\ cases[i].marker
      /\ current' = [current EXCEPT ![m] = Len(cases')]
      /\ UNCHANGED <<driver, schema, upTo, server, starts, vendors, models, chat, line, marked,
                     wanted, unset>>
  BY DEF OpenCase
<1>2. new \in Incident /\ new.of = m /\ new.open /\ new.marker
  BY DEF CaseOf, Incident
<1> HIDE DEF new
<1>3. /\ cases' \in Seq(Incident) /\ Len(cases') = Len(cases) + 1
      /\ DOMAIN cases' = 1..(Len(cases) + 1) /\ cases'[Len(cases) + 1] = new
      /\ \A i \in DOMAIN cases : cases'[i] = cases[i]
  BY <1>1, <1>2, ServingIncidents
<1>4. /\ current' \in [Watches -> Nat] /\ current'[m] = Len(cases) + 1
      /\ \A n \in Watches : n # m => current'[n] = current[n]
  BY <1>1, <1>3, ServingIncidents
<1>5. ASSUME NEW n \in Watches, current'[n] # 0
      PROVE  current'[n] \in DOMAIN cases' /\ cases'[current'[n]].of = n /\ cases'[current'[n]].open
  <2>1. CASE n = m
    BY <1>2, <1>3, <1>4, <2>1, ServingIncidents
  <2>2. CASE n # m
    <3>1. /\ current[n] \in DOMAIN cases /\ cases[current[n]].of = n /\ cases[current[n]].open
          /\ current'[n] = current[n]
      BY <1>1, <1>4, <1>5, <2>2, ServingIncidents
    <3> QED BY <1>1, <1>3, <3>1, ServingIncidents
  <2> QED BY <2>1, <2>2
<1>6. ASSUME NEW i \in DOMAIN cases'
      PROVE  /\ cases'[i].open => i = current'[cases'[i].of]
             /\ cases'[i].open <=> cases'[i].marker
  <2>1. CASE i = Len(cases) + 1
    BY <1>2, <1>3, <1>4, <2>1
  <2>2. CASE i \in DOMAIN cases
    BY <1>1, <1>3, <1>4, <2>2, ServingIncidents
  <2> QED BY <1>1, <1>3, <2>1, <2>2, ServingIncidents
<1> QED BY <1>1, <1>3, <1>4, <1>5, <1>6, IncidentRequestKeeps

LEMMA ResolveCaseKeeps == ASSUME MigInv, NEW k \in DOMAIN cases, ResolveCase(k) PROVE MigInv'
<1>1. /\ server = "serving" /\ cases[k].marker
      /\ cases' = [cases EXCEPT ![k].open = FALSE, ![k].marker = FALSE]
      /\ current' = [current EXCEPT ![cases[k].of] = 0]
      /\ UNCHANGED <<driver, schema, upTo, server, starts, vendors, models, chat, line, marked,
                     wanted, unset>>
  BY DEF ResolveCase
<1>2. cases[k] \in Incident /\ cases \in Seq(Incident)
  BY <1>1, ServingIncidents
<1> DEFINE half == [cases[k] EXCEPT !.open = FALSE]
           row == [half EXCEPT !.marker = FALSE]
<1>3. half \in Incident /\ half.of = cases[k].of /\ ~half.open
  BY <1>2 DEF Incident
<1>4. row \in Incident /\ row.of = cases[k].of /\ ~row.open /\ ~row.marker
  <2> HIDE DEF half
  <2> QED BY <1>3 DEF Incident
<1>5. /\ DOMAIN cases' = DOMAIN cases /\ cases'[k] = row
      /\ \A i \in DOMAIN cases : i # k => cases'[i] = cases[i]
  BY <1>1, <1>2
<1> HIDE DEF row, half
<1>6. /\ cases' \in Seq(Incident) /\ DOMAIN cases' = DOMAIN cases /\ cases'[k] = row
      /\ \A i \in DOMAIN cases : i # k => cases'[i] = cases[i]
  <2>1. Len(cases) \in Nat /\ DOMAIN cases = 1..Len(cases)
    BY <1>1, ServingIncidents
  <2>2. cases' = [i \in 1..Len(cases) |-> cases'[i]]
    BY <1>1, <2>1
  <2>3. \A i \in 1..Len(cases) : cases'[i] \in Incident
    BY <1>2, <1>4, <1>5, <2>1
  <2> QED BY <1>5, <2>1, <2>2, <2>3
<1>7. /\ current' \in [Watches -> Nat] /\ current'[cases[k].of] = 0
      /\ \A n \in Watches : n # cases[k].of => current'[n] = current[n]
  BY <1>1, ServingIncidents
<1>8. ASSUME NEW n \in Watches, current'[n] # 0
      PROVE  current'[n] \in DOMAIN cases' /\ cases'[current'[n]].of = n /\ cases'[current'[n]].open
  <2>1. n # cases[k].of /\ current'[n] = current[n]
    BY <1>7, <1>8
  <2>2. current[n] \in DOMAIN cases /\ cases[current[n]].of = n /\ cases[current[n]].open
    BY <1>1, <1>8, <2>1, ServingIncidents
  <2> QED BY <1>6, <2>1, <2>2
<1>9. ASSUME NEW i \in DOMAIN cases'
      PROVE  /\ cases'[i].open => i = current'[cases'[i].of]
             /\ cases'[i].open <=> cases'[i].marker
  <2>1. CASE i = k
    BY <1>4, <1>6, <2>1
  <2>2. CASE i # k
    <3>1. i \in DOMAIN cases /\ cases'[i] = cases[i]
      BY <1>6, <2>2
    <3>2. cases[i].open /\ cases[i].of = cases[k].of => i = k
      BY <1>1, <3>1, ServingIncidents
    <3> QED BY <1>1, <1>7, <2>2, <3>1, <3>2, ServingIncidents
  <2> QED BY <2>1, <2>2
<1> QED BY <1>1, <1>6, <1>7, <1>8, <1>9, IncidentRequestKeeps

\* Some open incident of a monitor is the newest, when there is one
LEMMA NewestExists ==
    ASSUME NEW k \in Nat, NEW S \in SUBSET (1..k), S # {}
    PROVE  \E i \in S : \A j \in S : j <= i
<1> DEFINE Above(n) == \A r \in S : r <= n
           Bounds == {n \in Nat : Above(n)}
<1>1. k \in Bounds
  OBVIOUS
<1>2. PICK n \in Bounds : \A m \in Bounds : ~(<<m, n>> \in OpToRel(<, Nat))
  BY <1>1, WFMin, NatLessThanWellFounded
<1>3. \A m \in Bounds : ~(m < n)
  BY <1>2 DEF OpToRel
<1>4. n \in Nat /\ (\A r \in S : r <= n) /\ \A m \in Nat : (\A r \in S : r <= m) => ~(m < n)
  <2>1. n \in Bounds
    BY <1>2
  <2> QED BY <1>3, <2>1
<1> HIDE DEF Bounds, Above
<1>5. n \in S
  <2> SUFFICES ASSUME n \notin S PROVE FALSE
    OBVIOUS
  <2>0. \A q \in S : q \in Nat /\ q # 0 /\ q <= n
    BY <1>4
  <2>1. PICK r \in S : r \in Nat /\ r # 0 /\ r <= n
    BY <2>0
  <2>2. n - 1 \in Nat /\ n - 1 < n
    BY <1>4, <2>1
  <2>3. \A q \in S : q <= n - 1
    BY <1>4, <2>0
  <2> QED BY <1>4, <2>2, <2>3
<1> QED BY <1>4, <1>5

LEMMA MigrationsStart == MigrationsInit => MigInv
<1> SUFFICES ASSUME MigrationsInit PROVE MigInv
  OBVIOUS
<1>1. PICK left \in Legacies :
        /\ cases \in IF "uptime" \notin left THEN {<<>>}
                     ELSE UNION {[1..n -> {CaseOf(m, o) : m \in Watches, o \in BOOLEAN}] :
                                 n \in 1..(MaxCases - 1)}
        /\ vendors \in IF "ai" \in left THEN LegacyVendors ELSE {[v \in Vendors |-> Unnamed]}
  BY DEF MigrationsInit
<1>2. \A m \in Watches, o \in BOOLEAN : CaseOf(m, o) \in Incident
  BY DEF CaseOf, Incident
<1>3. cases \in Seq(Incident)
  <2>1. CASE "uptime" \notin left
    BY <1>1, <2>1
  <2>2. CASE "uptime" \in left
    <3>1. PICK n \in 1..(MaxCases - 1) : cases \in [1..n -> {CaseOf(m, o) : m \in Watches, o \in BOOLEAN}]
      BY <1>1, <2>2
    <3>2. n \in Nat /\ cases \in [1..n -> Incident]
      BY <1>2, <3>1, MigrationsAssumption
    <3> QED BY <3>2
  <2> QED BY <2>1, <2>2
<1>4. /\ vendors \in [Vendors -> Vendor]
      /\ \A v \in Vendors : vendors[v].default => vendors[v].named
  <2> DEFINE kinds == {Unnamed, [named |-> TRUE, default |-> FALSE], [named |-> TRUE, default |-> TRUE]}
  <2>1. vendors \in [Vendors -> kinds]
    <3>1. vendors \in LegacyVendors \/ vendors = [v \in Vendors |-> Unnamed]
      BY <1>1
    <3>2. LegacyVendors \subseteq [Vendors -> kinds] /\ Unnamed \in kinds
      BY DEF LegacyVendors
    <3> HIDE DEF kinds
    <3> QED BY <3>1, <3>2
  <2>2. \A k \in kinds : k \in Vendor /\ (k.default => k.named)
    <3>1. Unnamed = [named |-> FALSE, default |-> FALSE]
      BY DEF Unnamed
    <3>2. [named |-> FALSE, default |-> FALSE] \in Vendor /\ [named |-> TRUE, default |-> FALSE] \in Vendor
          /\ [named |-> TRUE, default |-> TRUE] \in Vendor
      BY DEF Vendor
    <3>3. /\ ~Unnamed.default /\ ~([named |-> TRUE, default |-> FALSE].default)
          /\ [named |-> TRUE, default |-> TRUE].named
      BY <3>1
    <3> QED BY <3>1, <3>2, <3>3
  <2> HIDE DEF kinds
  <2> QED BY <2>1, <2>2
<1>5. ASSUME NEW m \in Watches
      PROVE  LET open == {i \in DOMAIN cases : cases[i].of = m /\ cases[i].open} IN
             /\ current[m] \in Nat
             /\ current[m] # 0 => current[m] \in open
             /\ \A i \in open : i <= current[m]
  <2> DEFINE open == {i \in DOMAIN cases : cases[i].of = m /\ cases[i].open}
  <2>1. current[m] = Newest(cases, m)
    BY DEF MigrationsInit
  <2>2. current[m] = IF open = {} THEN 0 ELSE CHOOSE i \in open : \A j \in open : j <= i
    BY <2>1 DEF Newest
  <2>3. Len(cases) \in Nat /\ open \in SUBSET (1..Len(cases))
    BY <1>3
  <2> HIDE DEF open
  <2>4. CASE open = {}
    BY <2>2, <2>4 DEF open
  <2>5. CASE open # {}
    <3>1. \E i \in open : \A j \in open : j <= i
      BY <2>3, <2>5, NewestExists
    <3>2. current[m] \in open /\ \A j \in open : j <= current[m]
      BY <2>2, <2>5, <3>1
    <3>3. \A i \in open : i \in Nat
      BY <2>3
    <3> HIDE DEF open
    <3>4. current[m] \in Nat
      BY <3>2, <3>3
    <3> QED BY <3>2, <3>4 DEF open
  <2> QED BY <2>4, <2>5
<1>6. current \in [Watches -> Nat]
  <2>1. current = [m \in Watches |-> current[m]]
    BY DEF MigrationsInit
  <2> QED BY <1>5, <2>1
<1>7. /\ driver \in {"sqlite", "mysql"} /\ upTo = 0 /\ server = "down" /\ models = {} /\ chat = NoModel
      /\ marked = FALSE /\ unset = FALSE /\ wanted = {v \in Vendors : vendors[v].named}
      /\ line \in [vendor : Vendors, model : {NoModel}, requested : {NoModel}]
  BY DEF MigrationsInit
<1>8. Len(Statements) \in Nat
  <2>1. \A S : Statements \in Seq(S) => Len(Statements) \in Nat
    OBVIOUS
  <2> QED BY <1>7, <2>1, StatementsInOrder DEF Good, List
<1>9. MigTyped
  <2>1. line \in [vendor : Vendors, model : Ids, requested : Ids] /\ chat \in Ids
    BY <1>7 DEF Ids
  <2>2. upTo \in 0..Len(Statements) /\ models \subseteq Model /\ wanted \subseteq Vendors
    BY <1>7, <1>8
  <2>3. marked \in BOOLEAN /\ unset \in BOOLEAN /\ server = "down" /\ driver \in {"sqlite", "mysql"}
    BY <1>7
  <2> QED BY <1>3, <1>4, <1>6, <2>1, <2>2, <2>3 DEF MigTyped
<1>10. SchemaHolds /\ \A op : ~Done(op)
  BY <1>7 DEF SchemaHolds, Done
<1>11. CasesHold
  <2>1. \A i \in DOMAIN cases : cases[i].of \in Watches
    <3>1. \A i \in DOMAIN cases : cases[i] \in Incident
      BY <1>3
    <3> QED BY <3>1 DEF Incident
  <2> QED BY <1>5, <1>10, <2>1 DEF CasesHold
<1>12. ModelsHold
  BY <1>4, <1>7, <1>10 DEF ModelsHold
<1>13. ReferencesHold
  BY <1>7, <1>10 DEF ReferencesHold
<1> QED BY <1>9, <1>10, <1>11, <1>12, <1>13 DEF MigInv

LEMMA MigrationsStep == MigInv /\ [MigrationsNext]_migrationVars => MigInv'
<1> SUFFICES ASSUME MigInv, [MigrationsNext]_migrationVars PROVE MigInv'
  OBVIOUS
<1>1. CASE Execute
  BY <1>1, ExecuteKeeps
<1>2. CASE Opened \/ OpenStorage \/ Crashes
  BY <1>2, StartsAndEndsKeep
<1>3. CASE \E m \in models : DropModel(m) \/ Reroute(m)
  BY <1>3, DropModelKeeps, RerouteKeeps
<1>4. CASE \E v \in Vendors : AddModel(v)
  BY <1>4, AddModelKeeps
<1>5. CASE \E m \in Watches : OpenCase(m)
  BY <1>5, OpenCaseKeeps
<1>6. CASE \E i \in DOMAIN cases : ResolveCase(i)
  BY <1>6, ResolveCaseKeeps
<1>7. CASE UNCHANGED migrationVars
  <2>1. /\ UNCHANGED <<driver, schema, upTo, server, cases, current, models, vendors, wanted, marked,
                       chat, line, unset>>
    BY <1>7 DEF migrationVars
  <2>2. /\ SchemaHolds' /\ Statements' = Statements /\ upTo' \in 0..Len(Statements)
        /\ \A op : Done(op)' => Done(op)
    BY <2>1, SameSchema
  <2>3. CasesHold' /\ ModelsHold' /\ ReferencesHold'
    BY <2>1, <2>2, CasesStay, ModelsStay DEF MigInv
  <2>4. MigTyped'
    BY <2>1, <2>2 DEF MigInv, MigTyped
  <2> QED BY <2>2, <2>3, <2>4 DEF MigInv
<1> QED BY <1>1, <1>2, <1>3, <1>4, <1>5, <1>6, <1>7 DEF MigrationsNext

\* A Server that serves finds every table and column.
LEMMA EverythingIsThere ==
    ASSUME MigInv, server = "serving"
    PROVE  \A i \in 1..Len(Statements) :
              Statements[i].op \in {"create", "add"} =>
                  Has(Statements[i].table, {"id"} \cup Statements[i].cols)
<1>1. upTo = Len(Statements) /\ Good(Statements) /\ SchemaHolds
  BY StatementsInOrder DEF MigInv, MigTyped
<1>2. \A t, c : Column(t, c) \in Later => <<t, c>> \in schema
  BY <1>1, WhenComplete DEF SchemaHolds
<1> SUFFICES ASSUME NEW i \in 1..Len(Statements), Statements[i].op \in {"create", "add"},
                    NEW c \in {"id"} \cup Statements[i].cols
             PROVE  <<Statements[i].table, c>> \in schema
  BY DEF Has
<1>3. CASE Statements[i].op = "create"
  <2>1. CASE c = "id"
    <3>1. Gives(Statements[i], Column(Statements[i].table, "id"))
      BY <1>3 DEF Gives, Table, Column
    <3> QED BY <1>1, <2>1, <3>1 DEF SchemaHolds
  <2>2. CASE c \in Statements[i].cols
    BY <1>1, <1>2, <1>3, <2>2 DEF Good, Completed
  <2> QED BY <2>1, <2>2
<1>4. CASE Statements[i].op = "add"
  <2>1. CASE c = "id"
    <3>1. Needs(Statements[i], Column(Statements[i].table, "id"))
      BY <1>4 DEF Needs, Table, Column
    <3>2. PICK j \in 1..(i - 1) : Gives(Statements[j], Column(Statements[i].table, "id"))
      BY <1>1, <3>1 DEF Good, Ready
    <3>3. j \in 1..Len(Statements)
      <4>1. \A S : Statements \in Seq(S) => Len(Statements) \in Nat
        OBVIOUS
      <4>2. Len(Statements) \in Nat
        BY <1>1, <4>1 DEF Good, List
      <4> QED BY <3>2, <4>2
    <3> QED BY <1>1, <2>1, <3>2, <3>3 DEF SchemaHolds
  <2>2. CASE c \in Statements[i].cols
    <3>1. Gives(Statements[i], Column(Statements[i].table, c))
      BY <1>4, <2>2 DEF Gives
    <3> QED BY <1>1, <3>1 DEF SchemaHolds
  <2> QED BY <2>1, <2>2
<1> QED BY <1>3, <1>4

LEMMA MigrationSoundFollows == MigInv => MigrationSound
<1> SUFFICES ASSUME MigInv PROVE MigrationSound
  OBVIOUS
<1>1. server # "broken"
  BY DEF MigInv, MigTyped
<1>2. ASSUME server = "serving"
      PROVE  /\ \A i \in DOMAIN cases : cases[i].open <=> i = current[cases[i].of]
             /\ vendors = Mirror(models)
  <2>1. ASSUME NEW i \in DOMAIN cases PROVE cases[i].open <=> i = current[cases[i].of]
    <3>1. i # 0
      BY <1>2, ServingIncidents
    <3> QED BY <1>2, <3>1, ServingIncidents
  <2>2. upTo = Len(Statements)
    BY <1>2 DEF MigInv, MigTyped
  <2> QED BY <2>1, <2>2, WhenComplete
<1> QED BY <1>1, <1>2, Serving, EverythingIsThere DEF MigrationSound

\* The migration of any earlier version's database, interrupted anywhere and repeated at every
\* start, never fails, and a Server that serves finds what it converted right (MigrateDialect in
\* db/migrations.go).
THEOREM MigrationCorrect == MigrationsSpec => []MigrationSound
BY MigrationsStart, MigrationsStep, MigrationSoundFollows, PTL DEF MigrationsSpec
==============================================================================
