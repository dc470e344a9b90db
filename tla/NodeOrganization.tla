-------------------------- MODULE NodeOrganization --------------------------
(***************************************************************************)
(* Groups and tags of the nodes: internal/server/store/                    *)
(* node_organizations.go and its handlers in internal/server/api.  SQLite  *)
(* has one connection and runs one transaction after another; with MySQL a *)
(* transaction reads the snapshot of its first query, and its writes meet  *)
(* what the others have committed meanwhile.                               *)
(*                                                                         *)
(* A group or tag is its identifier, which is never used again, with the   *)
(* lower-cased name the unique index is on.  The colour of a tag is left   *)
(* out.                                                                    *)
(*                                                                         *)
(* A definition marked "deviation" is not the code: it is a mistake the    *)
(* next definition could have contained, which a property must detect.     *)
(***************************************************************************)
EXTENDS Naturals, FiniteSets

CONSTANTS
    Hosts,        \* the nodes
    GroupIds, TagIds, Labels,
    MaxTags,      \* MaxNodeTagsPerNode, 20 in the code
    MaxBatches,   \* bound: bulk updates
    NoGroup

ASSUME LimitAssumption == MaxTags \in Nat /\ MaxBatches \in Nat /\ NoGroup \notin GroupIds
ASSUME TagsAssumption == IsFiniteSet(TagIds)

VARIABLES
    dialect,    \* "sqlite" or "mysql"
    hosts,      \* the rows of nodes
    groupOf,    \* nodes.group_id: no foreign key
    groupName, tagName,  \* the rows of node_groups and node_tags
    links,      \* node_tag_links
    used,       \* identifiers that have been given
    bulk       \* the bulk update that runs

orgVars == <<dialect, hosts, groupOf, groupName, tagName, links, used, bulk>>

NoBulk == [at |-> "idle", nodes |-> {}, group |-> NoGroup, setsGroup |-> FALSE,
            add |-> {}, remove |-> {}, count |-> 0]
OrgInit ==
    /\ dialect \in {"sqlite", "mysql"} /\ hosts = Hosts
    /\ groupOf = [n \in Hosts |-> NoGroup]
    /\ groupName = <<>> /\ tagName = <<>> /\ links = {} /\ used = {}
    /\ bulk = NoBulk

Groups == DOMAIN groupName
Tags == DOMAIN tagName
TagsOf(n) == {t \in TagIds : <<n, t>> \in links}

\* the only connection of SQLite belongs to the transaction that runs
MayWrite == dialect = "mysql" \/ bulk.at # "checked"

With(rows, id, name) == [i \in DOMAIN rows \cup {id} |-> IF i = id THEN name ELSE rows[i]]
Without(rows, id) == [i \in DOMAIN rows \ {id} |-> rows[i]]
\* the unique index on normalized_name
IsFreeName(rows, id, name) == \A i \in DOMAIN rows \ {id} : rows[i] # name
-----------------------------------------------------------------------------
(* Groups and tags                                                         *)

CreateGroup(g, name) ==
    /\ MayWrite /\ g \in GroupIds \ used /\ IsFreeName(groupName, g, name)
    /\ groupName' = With(groupName, g, name) /\ used' = used \cup {g}
    /\ UNCHANGED <<dialect, hosts, groupOf, tagName, links, bulk>>

UpdateGroup(g, name) ==
    /\ MayWrite /\ g \in Groups /\ IsFreeName(groupName, g, name)
    /\ groupName' = With(groupName, g, name)
    /\ UNCHANGED <<dialect, hosts, groupOf, tagName, links, used, bulk>>

\* deviation: the nodes keep their group
DeleteGroup_(g) ==
    /\ MayWrite /\ g \in Groups /\ groupName' = Without(groupName, g)
    /\ UNCHANGED <<dialect, hosts, groupOf, tagName, links, used, bulk>>
DeleteGroup(g) ==
    /\ MayWrite /\ g \in Groups /\ groupName' = Without(groupName, g)
    /\ groupOf' = [n \in Hosts |-> IF groupOf[n] = g THEN NoGroup ELSE groupOf[n]]
    /\ UNCHANGED <<dialect, hosts, tagName, links, used, bulk>>

CreateTag(t, name) ==
    /\ MayWrite /\ t \in TagIds \ used /\ IsFreeName(tagName, t, name)
    /\ tagName' = With(tagName, t, name) /\ used' = used \cup {t}
    /\ UNCHANGED <<dialect, hosts, groupOf, groupName, links, bulk>>

UpdateTag(t, name) ==
    /\ MayWrite /\ t \in Tags /\ IsFreeName(tagName, t, name)
    /\ tagName' = With(tagName, t, name)
    /\ UNCHANGED <<dialect, hosts, groupOf, groupName, links, used, bulk>>

DeleteTag(t) ==
    /\ MayWrite /\ t \in Tags /\ tagName' = Without(tagName, t)
    /\ links' = {l \in links : l[2] # t}
    /\ UNCHANGED <<dialect, hosts, groupOf, groupName, used, bulk>>

\* NodeStore.Delete; a node that registers again is a new row, without group or tags
DeleteHost(n) ==
    /\ MayWrite /\ n \in hosts /\ hosts' = hosts \ {n}
    /\ groupOf' = [groupOf EXCEPT ![n] = NoGroup]
    /\ links' = {l \in links : l[1] # n}
    /\ UNCHANGED <<dialect, groupName, tagName, used, bulk>>
-----------------------------------------------------------------------------
(* BatchUpdateMetadata                                                     *)

\* The validation of the request: something changes, and no tag is added and removed
BeginBatch ==
    /\ bulk.at = "idle" /\ bulk.count < MaxBatches
    /\ \E nodes \in (SUBSET Hosts) \ {{}}, add, remove \in SUBSET TagIds,
          setsGroup \in BOOLEAN, g \in GroupIds \cup {NoGroup} :
          /\ setsGroup \/ (g = NoGroup /\ add \cup remove # {})
          /\ add \cap remove = {}
          /\ bulk' = [at |-> "begun", nodes |-> nodes, group |-> g, setsGroup |-> setsGroup,
                       add |-> add, remove |-> remove, count |-> bulk.count + 1]
    /\ UNCHANGED <<dialect, hosts, groupOf, groupName, tagName, links, used>>

Within(n) == Cardinality((TagsOf(n) \ bulk.remove) \cup bulk.add) <= MaxTags

\* The queries of the transaction
CheckBatch ==
    /\ bulk.at = "begun"
    /\ bulk.group \in Groups \cup {NoGroup} /\ bulk.nodes \subseteq hosts
    /\ bulk.add \cup bulk.remove \subseteq Tags
    /\ \A n \in bulk.nodes : Within(n)
    /\ bulk' = [bulk EXCEPT !.at = "checked"]
    /\ UNCHANGED <<dialect, hosts, groupOf, groupName, tagName, links, used>>
RefuseBatch ==
    /\ bulk.at \in {"begun", "checked"}
    /\ bulk' = [NoBulk EXCEPT !.count = bulk.count]
    /\ UNCHANGED <<dialect, hosts, groupOf, groupName, tagName, links, used>>

\* Its statements and the commit: INSERT IGNORE leaves out a link whose node or tag is
\* gone, and nothing asks whether the group still exists
CommitBatch ==
    /\ bulk.at = "checked"
    /\ groupOf' = [n \in Hosts |-> IF bulk.setsGroup /\ n \in bulk.nodes \cap hosts
                                     THEN bulk.group ELSE groupOf[n]]
    /\ links' = (links \ (bulk.nodes \X bulk.remove))
                  \cup ((bulk.nodes \cap hosts) \X (bulk.add \cap Tags))
    /\ bulk' = [NoBulk EXCEPT !.count = bulk.count]
    /\ UNCHANGED <<dialect, hosts, groupName, tagName, used>>

OrgNext ==
    \/ \E name \in Labels :
          \/ \E g \in GroupIds : CreateGroup(g, name) \/ UpdateGroup(g, name)
          \/ \E t \in TagIds : CreateTag(t, name) \/ UpdateTag(t, name)
    \/ \E g \in GroupIds : DeleteGroup(g)
    \/ \E t \in TagIds : DeleteTag(t)
    \/ \E n \in Hosts : DeleteHost(n)
    \/ BeginBatch \/ CheckBatch \/ RefuseBatch \/ CommitBatch

OrgSpec == OrgInit /\ [][OrgNext]_orgVars
-----------------------------------------------------------------------------
(* What the panel shows: joins, in which a group that does not exist is no *)
(* group                                                                   *)

ShownGroup(n) == IF groupOf[n] \in Groups THEN groupOf[n] ELSE NoGroup
ShownTags(n) == TagsOf(n) \cap Tags
NodeCount(g) == Cardinality({n \in hosts : groupOf[n] = g})

OrgTypeOK ==
    /\ dialect \in {"sqlite", "mysql"} /\ hosts \subseteq Hosts
    /\ groupOf \in [Hosts -> GroupIds \cup {NoGroup}]
    /\ groupName \in [Groups -> Labels] /\ tagName \in [Tags -> Labels]
    /\ links \subseteq Hosts \X TagIds /\ used \subseteq GroupIds \cup TagIds

(***************************************************************************)
(* Whatever interleaves with a bulk update: no two groups and no two tags *)
(* share a name, a link joins a node and a tag that exist, and only nodes  *)
(* that exist belong to a group.  With SQLite every such group exists, the *)
(* panel shows exactly what is stored, and no node has more tags than the  *)
(* limit; MySQL keeps neither.                                             *)
(***************************************************************************)
OrganizationSound ==
    /\ OrgTypeOK
    /\ \A g, h \in Groups : groupName[g] = groupName[h] => g = h
    /\ \A t, u \in Tags : tagName[t] = tagName[u] => t = u
    /\ links \subseteq hosts \X Tags
    /\ \A n \in Hosts \ hosts : groupOf[n] = NoGroup
    /\ \A g \in Groups : NodeCount(g) = Cardinality({n \in hosts : ShownGroup(n) = g})
    /\ dialect = "sqlite" =>
          \A n \in hosts : /\ ShownGroup(n) = groupOf[n] /\ ShownTags(n) = TagsOf(n)
                           /\ Cardinality(TagsOf(n)) <= MaxTags
=============================================================================
