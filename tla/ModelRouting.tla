----------------------------- MODULE ModelRouting -----------------------------
(***************************************************************************)
(* The tables of the AI assistant's providers and models, with the global  *)
(* routing (internal/server/store/ai.go over SQLite, whose one connection  *)
(* serialises transactions) and the requests that change them              *)
(* (internal/server/ai/service.go).  Most requests read a row, work on the *)
(* copy and write it in a later transaction; the tests of a model call the *)
(* provider in between.                                                    *)
(***************************************************************************)
EXTENDS Naturals, Sequences, FiniteSets, FiniteSetsExt, Functions

CONSTANTS
    Providers,      \* provider ids, which SELECT id FROM ai_providers lists in increasing order
    AtStart,        \* those that are set up before the requests begin, one after the other
    Models,         \* model row ids, in the order of their creation
    Names,          \* names a provider knows models by
    Addresses,      \* connections: base URL and API key
    Clients,        \* administrator requests under way
    NoRow, None,
    MaxEdits        \* bound on administrator requests

VARIABLES
    provider,       \* ai_providers
    model,          \* ai_provider_models
    known,          \* provider ids given out so far
    created,        \* model ids given out so far
    edit,           \* what each administrator request has read and will write
    edits,          \* requests so far
    routed          \* what became of the last SetRouting of usable models

routingVars == <<provider, model, known, created, edit, edits, routed>>

\* The columns that mirror one of the provider's models.
Mirror == [name : Names \cup {None}, default : BOOLEAN, capable : BOOLEAN]
NameOnly(n) == [name |-> n, default |-> FALSE, capable |-> FALSE]
Blank == NameOnly(None)

ProviderRows == [enabled : BOOLEAN, address : Addresses, shown : Mirror]
ModelRows == [provider : Providers, name : Names, enabled : BOOLEAN,
              capable : BOOLEAN, default : BOOLEAN, fallback : BOOLEAN]

ASSUME RoutingAssumption ==
    /\ Providers \subseteq Nat /\ Models \subseteq Nat \ {0} /\ AtStart \in Seq(Providers)
    /\ Names # {} /\ Addresses # {} /\ MaxEdits \in Nat
    /\ None \notin Models /\ NoRow \notin ProviderRows \cup ModelRows

Rows(table) == {x \in DOMAIN table : table[x] # NoRow}
ModelsOf(ms, p) == {m \in Rows(ms) : ms[m].provider = p}

Usable(ps, ms, m) ==
    /\ ms[m] # NoRow /\ ms[m].enabled /\ ms[m].capable
    /\ ps[ms[m].provider].enabled

Defaults(ms) == {m \in Rows(ms) : ms[m].default}
Fallbacks(ms) == {m \in Rows(ms) : ms[m].fallback}

\* The oldest of own, those in keys[1] first and then those in keys[2].
FirstOf(keys, own) ==
    IF own \cap keys[1] # {} THEN Min(own \cap keys[1])
    ELSE IF own \cap keys[2] # {} THEN Min(own \cap keys[2]) ELSE Min(own)

\* ORDER BY is_default DESC, enabled DESC, created_at, id
Shown(ms, p) == FirstOf(<<Defaults(ms), {m \in Rows(ms) : ms[m].enabled}>>, ModelsOf(ms, p))

\* ORDER BY is_default DESC, is_fallback DESC, created_at, id
FirstListed(ms, p) == FirstOf(<<Defaults(ms), Fallbacks(ms)>>, ModelsOf(ms, p))

MirrorOf(ms, p) ==
    IF ModelsOf(ms, p) = {} THEN Blank
    ELSE LET m == ms[Shown(ms, p)] IN [name |-> m.name, default |-> m.default, capable |-> m.capable]

SyncProvider(ps, ms, p) == [ps EXCEPT ![p].shown = MirrorOf(ms, p)]

\* The rows as SetRouting's loop writes them: those up to p are synchronised, the
\* others are as they were.  uq_ai_providers_default admits one default at a time.
SyncedUpTo(ps, ms, p) ==
    [q \in Providers |-> IF ps[q] # NoRow /\ q <= p THEN SyncProvider(ps, ms, q)[q] ELSE ps[q]]

OneDefault(ps) == \A p, q \in Rows(ps) : ps[p].shown.default /\ ps[q].shown.default => p = q

SyncAllFits(ps, ms) == \A p \in Rows(ps) : OneDefault(SyncedUpTo(ps, ms, p))
SyncAll(ps, ms) == [p \in Providers |-> IF ps[p] = NoRow THEN NoRow ELSE SyncProvider(ps, ms, p)[p]]

NoRoute(row) == [row EXCEPT !.default = FALSE, !.fallback = FALSE]
StillRouted(row) == [row EXCEPT !.capable = FALSE]       \* deviation: keeps the routing
Unproven(row) == [NoRoute(row) EXCEPT !.capable = FALSE]

ClearRouting(ms) == [m \in DOMAIN ms |-> IF ms[m] = NoRow THEN NoRow ELSE NoRoute(ms[m])]

\* A provider that is disabled, or whose connection changed, loses its routing.
Withdrawn(ms, p, moved) ==
    [m \in DOMAIN ms |-> IF m \notin ModelsOf(ms, p) THEN ms[m]
                         ELSE IF moved THEN Unproven(ms[m]) ELSE NoRoute(ms[m])]

NoEdit == [op |-> "idle"]
Doing(q, op) == edit[q].op = op
Ends(q) == edit' = [edit EXCEPT ![q] = NoEdit]
Begins(q, e) ==
    /\ Doing(q, "idle") /\ edits < MaxEdits /\ edits' = edits + 1
    /\ edit' = [edit EXCEPT ![q] = e]

Refused(q) == Ends(q) /\ UNCHANGED <<provider, model, known, created, edits, routed>>

(***************************************************************************)
(* Requests of one transaction.                                            *)
(***************************************************************************)
AtOnce == edits < MaxEdits /\ edits' = edits + 1 /\ UNCHANGED <<edit, routed>>

NewModel(p, n, on) == [provider |-> p, name |-> n, enabled |-> on,
                       capable |-> FALSE, default |-> FALSE, fallback |-> FALSE]

CreateProvider(p, n) ==
    /\ AtOnce /\ p \notin known /\ known' = known \cup {p}
    /\ \E a \in Addresses, on \in BOOLEAN :
         IF n = None
         THEN /\ provider' = [provider EXCEPT ![p] = [enabled |-> on, address |-> a, shown |-> Blank]]
              /\ UNCHANGED <<model, created>>
         ELSE /\ created + 1 \in Models /\ created' = created + 1
              /\ model' = [model EXCEPT ![created + 1] = NewModel(p, n, TRUE)]
              /\ provider' = [provider EXCEPT ![p] =
                                [enabled |-> on, address |-> a, shown |-> NameOnly(n)]]

ImportModel(p, n, on) ==
    /\ AtOnce /\ UNCHANGED known /\ provider[p] # NoRow /\ created + 1 \in Models
    /\ \A m \in ModelsOf(model, p) : model[m].name # n
    /\ created' = created + 1
    /\ model' = [model EXCEPT ![created + 1] = NewModel(p, n, on)]
    /\ provider' = SyncProvider(provider, model', p)

(***************************************************************************)
(* PUT of a provider: the connection is compared with the row that was     *)
(* read.  With a new name it goes on to rename the first model it read.    *)
(***************************************************************************)
ReadProvider(q, p) ==
    /\ provider[p] # NoRow
    /\ \E a \in Addresses, on \in BOOLEAN, n \in Names \cup {None} :
         Begins(q, [op |-> "write provider", p |-> p, address |-> a, enabled |-> on, name |-> n,
                    moved |-> a # provider[p].address,
                    first |-> IF ModelsOf(model, p) = {} \/ n = provider[p].shown.name THEN None
                              ELSE FirstListed(model, p),
                    on |-> ModelsOf(model, p) # {} /\ model[FirstListed(model, p)].enabled])
    /\ UNCHANGED <<provider, model, known, created, routed>>

WriteProvider(q) ==
    LET e == edit[q] IN
    /\ Doing(q, "write provider") /\ provider[e.p] # NoRow
    /\ model' = IF e.moved \/ ~ e.enabled THEN Withdrawn(model, e.p, e.moved) ELSE model
    /\ provider' = SyncProvider([provider EXCEPT ![e.p].address = e.address, ![e.p].enabled = e.enabled],
                                model', e.p)
    /\ IF None \in {e.name, e.first} THEN Ends(q)
       ELSE edit' = [edit EXCEPT ![q] = [op |-> "read model", m |-> e.first, name |-> e.name, enabled |-> e.on]]
    /\ UNCHANGED <<known, created, edits, routed>>

\* Rows in front of a DELETE whose foreign keys cascade to the models.
CheckProvider(q, p) ==
    /\ provider[p] # NoRow
    /\ ModelsOf(model, p) \cap (Defaults(model) \cup Fallbacks(model)) = {}
    /\ Begins(q, [op |-> "delete provider", p |-> p])
    /\ UNCHANGED <<provider, model, known, created, routed>>

DeleteProvider(q) ==
    LET p == edit[q].p IN
    /\ Doing(q, "delete provider") /\ provider[p] # NoRow
    /\ provider' = [provider EXCEPT ![p] = NoRow]
    /\ model' = [m \in DOMAIN model |-> IF m \in ModelsOf(model, p) THEN NoRow ELSE model[m]]
    /\ Ends(q) /\ UNCHANGED <<known, created, edits, routed>>

(***************************************************************************)
(* PUT and DELETE of a model: both look for a route before the transaction.*)
(***************************************************************************)
AskModel(q, m, n, on) ==
    /\ Begins(q, [op |-> "read model", m |-> m, name |-> n, enabled |-> on])
    /\ UNCHANGED <<provider, model, known, created, routed>>

ReadModel(q) ==
    LET e == edit[q] IN
    /\ Doing(q, "read model") /\ model[e.m] # NoRow
    /\ e.enabled \/ ~ (model[e.m].default \/ model[e.m].fallback)
    /\ edit' = [edit EXCEPT ![q] = [op |-> "write model", m |-> e.m, name |-> e.name, enabled |-> e.enabled,
                                    renamed |-> e.name # model[e.m].name, p |-> model[e.m].provider]]
    /\ UNCHANGED <<provider, model, known, created, edits, routed>>

WriteModel(q) ==
    LET e == edit[q]
        row == [model[e.m] EXCEPT !.name = e.name, !.enabled = e.enabled]
    IN
    /\ Doing(q, "write model") /\ model[e.m] # NoRow
    /\ \A m \in ModelsOf(model, e.p) \ {e.m} : model[m].name # e.name
    /\ model' = [model EXCEPT ![e.m] = IF e.renamed THEN Unproven(row) ELSE row]
    /\ provider' = SyncProvider(provider, model', e.p)
    /\ Ends(q) /\ UNCHANGED <<known, created, edits, routed>>

CheckModel(q, m) ==
    /\ model[m] # NoRow /\ ~ model[m].default /\ ~ model[m].fallback
    /\ Begins(q, [op |-> "delete model", m |-> m, p |-> model[m].provider])
    /\ UNCHANGED <<provider, model, known, created, routed>>

DeleteModel(q) ==
    LET e == edit[q] IN
    /\ Doing(q, "delete model") /\ model[e.m] # NoRow
    /\ model' = [model EXCEPT ![e.m] = NoRow]
    /\ provider' = SyncProvider(provider, model', e.p)
    /\ Ends(q) /\ UNCHANGED <<known, created, edits, routed>>

(***************************************************************************)
(* TestModel resolves the model, calls the provider and saves what it      *)
(* answered in the row of that id, whatever happened to it meanwhile.      *)
(***************************************************************************)
StartProbe(q, m) ==
    /\ model[m] # NoRow /\ model[m].enabled /\ provider[model[m].provider].enabled
    /\ Begins(q, [op |-> "save probe", m |-> m])
    /\ UNCHANGED <<provider, model, known, created, routed>>

SaveModelProbe(q) ==
    LET m == edit[q].m IN
    /\ Doing(q, "save probe") /\ model[m] # NoRow
    /\ \E able \in BOOLEAN :
         model' = [model EXCEPT ![m] = IF able THEN [@ EXCEPT !.capable = TRUE] ELSE Unproven(@)]
    /\ provider' = SyncProvider(provider, model', model[m].provider)
    /\ Ends(q) /\ UNCHANGED <<known, created, edits, routed>>

(***************************************************************************)
(* PUT /api/ai/routing, and the default of a provider, which routes to the *)
(* model it shows and keeps the fallback it has read.                      *)
(***************************************************************************)
AskRouting(q) ==
    /\ \/ \E d, f \in Rows(model) \cup {None} :
            /\ \A m \in {d, f} \ {None} : Usable(provider, model, m)
            /\ Begins(q, [op |-> "route", default |-> d, fallback |-> f])
       \/ \E p \in Rows(provider) :
            /\ ModelsOf(model, p) # {}
            /\ Begins(q, [op |-> "route", default |-> Shown(model, p),
                          fallback |-> IF Fallbacks(model) = {} THEN None ELSE Min(Fallbacks(model))])
    /\ UNCHANGED <<provider, model, known, created, routed>>

Routable(e) ==
    /\ e.default = e.fallback => e.default = None
    /\ \A m \in {e.default, e.fallback} \ {None} : Usable(provider, model, m)

Routed(e) ==
    LET clear == ClearRouting(model) IN
    [m \in DOMAIN model |-> IF m = e.default THEN [clear[m] EXCEPT !.default = TRUE]
                            ELSE IF m = e.fallback THEN [clear[m] EXCEPT !.fallback = TRUE] ELSE clear[m]]

SetRouting(q) ==
    LET e == edit[q] IN
    /\ Doing(q, "route") /\ Routable(e)
    /\ IF SyncAllFits(provider, Routed(e))
       THEN model' = Routed(e) /\ provider' = SyncAll(provider, model') /\ routed' = "done"
       ELSE UNCHANGED <<model, provider>> /\ routed' = "refused"
    /\ Ends(q) /\ UNCHANGED <<known, created, edits>>

\* A write that finds no row, no usable model, a route or a taken name.
GiveUp(q) ==
    LET e == edit[q] IN
    /\ \/ e.op \in {"write provider", "delete provider"} /\ provider[e.p] = NoRow
       \/ e.op \in {"read model", "write model", "delete model", "save probe"} /\ model[e.m] = NoRow
       \/ /\ e.op = "read model" /\ model[e.m] # NoRow /\ ~ e.enabled
          /\ model[e.m].default \/ model[e.m].fallback
       \/ /\ e.op = "write model" /\ model[e.m] # NoRow
          /\ \E m \in ModelsOf(model, e.p) \ {e.m} : model[m].name = e.name
       \/ e.op = "route" /\ ~ Routable(e)
    /\ Refused(q)

RoutingNext ==
    \/ \E p \in Providers :
         \/ \E n \in Names \cup {None} : CreateProvider(p, n)
         \/ \E n \in Names, on \in BOOLEAN : ImportModel(p, n, on)
    \/ \E q \in Clients :
         \/ \E p \in Providers : ReadProvider(q, p) \/ CheckProvider(q, p)
         \/ \E m \in Models : CheckModel(q, m) \/ StartProbe(q, m)
         \/ \E m \in Rows(model), n \in Names, on \in BOOLEAN : AskModel(q, m, n, on)
         \/ WriteProvider(q) \/ DeleteProvider(q) \/ ReadModel(q) \/ WriteModel(q)
         \/ DeleteModel(q) \/ SaveModelProbe(q) \/ AskRouting(q) \/ SetRouting(q) \/ GiveUp(q)

\* Each provider was set up with one model whose test succeeded.
RoutingInit ==
    /\ model = [m \in Models |->
         IF m \notin DOMAIN AtStart THEN NoRow
         ELSE [NewModel(AtStart[m], CHOOSE n \in Names : TRUE, TRUE) EXCEPT !.capable = TRUE]]
    /\ provider = [p \in Providers |->
         IF p \notin Range(AtStart) THEN NoRow
         ELSE [enabled |-> TRUE, address |-> CHOOSE a \in Addresses : TRUE, shown |-> MirrorOf(model, p)]]
    /\ known = Range(AtStart) /\ created = Len(AtStart)
    /\ edit = [q \in Clients |-> NoEdit] /\ edits = 0 /\ routed = "none"

RoutingSpec == RoutingInit /\ [][RoutingNext]_routingVars

RoutingTypeOK ==
    /\ provider \in [Providers -> ProviderRows \cup {NoRow}]
    /\ model \in [Models -> ModelRows \cup {NoRow}]
    /\ known \subseteq Providers /\ created \in Nat /\ edits \in 0 .. MaxEdits
    /\ routed \in {"none", "done", "refused"}

\* Whatever requests overlap, at most one model is the default and another one the
\* fallback, both passed a test and belong to an enabled provider, no model outlives
\* its provider, and the row of a provider shows the model it stands for.
RoutingExact ==
    /\ RoutingTypeOK
    /\ \A m, n \in Rows(model) :
         /\ model[m].default /\ model[n].default => m = n
         /\ model[m].fallback /\ model[n].fallback => m = n
         /\ ~ (model[m].default /\ model[m].fallback)
    /\ \A m \in Rows(model) :
         /\ provider[model[m].provider] # NoRow
         /\ model[m].default \/ model[m].fallback => model[m].capable /\ provider[model[m].provider].enabled
    /\ \A p \in Rows(provider) : provider[p].shown = MirrorOf(model, p)

\* SetRouting of two different usable models, or of none, succeeds.
RoutingIsAccepted == routed # "refused"
=============================================================================
