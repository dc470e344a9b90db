--------------------------- MODULE AgentSessions ---------------------------
(***************************************************************************)
(* How a node's Agents register with the Server and leave it: the install  *)
(* and node tokens of InstallAuthStore and node_tokens, the handler        *)
(* ServeHTTP of internal/server/agenthub/hub.go with the connections and   *)
(* sessions it keeps, the node row with its online flag, and the deletion  *)
(* of the node.                                                            *)
(*                                                                         *)
(* Every map of the Handler is keyed by node and no operation touches two  *)
(* nodes: the module is the state of one node.  A dial is one goroutine of *)
(* ServeHTTP; two machines may use the same node id, so dials overlap      *)
(* freely.  A step is one critical section of a mutex, one transaction or  *)
(* one message.  Statements of the database succeed.                       *)
(*                                                                         *)
(* A definition marked "deviation" is not the code: it is a mistake the    *)
(* next definition could have contained, which a property must detect.     *)
(***************************************************************************)
EXTENDS Naturals, Sequences, FiniteSets

CONSTANTS
    Tokens,      \* install tokens that may be created
    SharedToken, \* whether options.AgentToken is configured
    MaxDials,    \* bound: connections ever dialled
    MaxDeletes,  \* bound: deletions of the node
    MaxRestarts, \* bound: restarts of the Server
    Null

Dials == 1..MaxDials

\* What an agent may present: the configured token, an install token, or the
\* node token that was generated in exchange for one
Credentials == {<<"shared", Null>>} \cup ({"install", "node"} \X Tokens)

ASSUME BoundsAssumption == MaxDials \in Nat /\ MaxDeletes \in Nat /\ MaxRestarts \in Nat
ASSUME TokensAssumption == Null \notin Tokens /\ SharedToken \in BOOLEAN

VARIABLES
    row,        \* the row of nodes: "none", or its status
    deleted,    \* the row of deleted_nodes exists
    persisted,  \* node_tokens: the install token whose node token is stored
    install,    \* InstallAuthStore.installTokens
    fresh,      \* install tokens created after the newest deletion
    memory,     \* InstallAuthStore.nodeTokens of the node
    session,    \* Handler.sessions of the node, 0 for none
    connection, \* Handler.connections of the node, 0 for none
    dial,       \* the goroutines of ServeHTTP
    socket,     \* their WebSockets
    known,      \* credentials that are in the hands of an agent
    admin,      \* the request that deletes the node
    deletes, restarts

storeVars == <<row, deleted, persisted>>
tokenVars == <<install, fresh, memory>>
hubVars   == <<session, connection>>
bounds    == <<deletes, restarts>>
vars == <<storeVars, tokenVars, hubVars, dial, socket, known, admin, bounds>>

NoDial == [pc |-> "none", cred |-> <<"shared", Null>>, persistent |-> FALSE,
           token |-> Null, used |-> FALSE, previous |-> 0]
Idle == [pc |-> "idle", target |-> 0]

Init ==
    /\ row = "none" /\ deleted = FALSE /\ persisted = Null
    /\ install = [t \in Tokens |-> "unused"] /\ fresh = {} /\ memory = Null
    /\ session = 0 /\ connection = 0
    /\ dial = [c \in Dials |-> NoDial]
    /\ socket = [c \in Dials |-> "none"]
    /\ known = IF SharedToken THEN {<<"shared", Null>>} ELSE {}
    /\ admin = Idle
    /\ deletes = 0 /\ restarts = 0

At(c, pc) == dial[c].pc = pc
Goto(c, pc) == dial' = [dial EXCEPT ![c].pc = pc]
Served == {c \in Dials : dial[c].pc \in {"ack", "reading"}}
-----------------------------------------------------------------------------
(* Install tokens                                                          *)

\* An install command or an SSH installation
CreateInstallToken(t) ==
    /\ install[t] = "unused"
    /\ install' = [install EXCEPT ![t] = "free"]
    /\ fresh' = fresh \cup {t}
    /\ known' = known \cup {<<"install", t>>}
    /\ UNCHANGED <<storeVars, memory, hubVars, dial, socket, admin, bounds>>

\* Thirty minutes have passed: the entry is pruned, or skipped wherever it is read
Expire(t) ==
    /\ install[t] \in {"free", "bound"}
    /\ install' = [install EXCEPT ![t] = "gone"]
    /\ UNCHANGED <<storeVars, fresh, memory, hubVars, dial, socket, known,
                   admin, bounds>>

MayAuthenticateInstallToken(cred) == cred[1] = "install" /\ install[cred[2]] \in {"free", "bound"}
MayAuthenticateNodeToken(cred) == cred[1] = "node" /\ memory = cred[2]

\* NodeIDForToken: the token's hash is stored for the node
Persisted(cred) == cred[1] = "node" /\ persisted = cred[2]

\* A token that authenticated the node from node_tokens ends its bootstrap
StillBound(t) == install                              \* deviation: the entry stays
Completed(t) == [install EXCEPT ![t] = IF @ = "bound" THEN "gone" ELSE @]
-----------------------------------------------------------------------------
(* ServeHTTP                                                               *)

\* The credential is checked before the upgrade to a WebSocket
Dial(c) == \E cred \in known :
    /\ At(c, "none") /\ \A d \in 1..(c - 1) : dial[d].pc # "none"
    /\ \/ cred[1] = "shared"
       \/ Persisted(cred)
       \/ MayAuthenticateNodeToken(cred) \/ MayAuthenticateInstallToken(cred)
    /\ dial' = [dial EXCEPT ![c] = [NoDial EXCEPT !.pc = "hello", !.cred = cred,
                                                  !.persistent = Persisted(cred)]]
    /\ socket' = [socket EXCEPT ![c] = "open"]
    /\ UNCHANGED <<storeVars, tokenVars, hubVars, known, admin, bounds>>

Refuse(c) ==
    /\ dial' = [dial EXCEPT ![c] = [NoDial EXCEPT !.pc = "gone"]]
    /\ socket' = [socket EXCEPT ![c] = "closed"]

\* The Hello of an agent that needs no exchange
Hello(c) ==
    LET cred == dial[c].cred
    IN  /\ At(c, "hello")
        /\ \/ cred[1] = "shared" /\ ~deleted
           \/ dial[c].persistent \/ MayAuthenticateNodeToken(cred)
        /\ dial' = [dial EXCEPT ![c].pc = "upsert", ![c].token = cred[2]]
        /\ UNCHANGED <<storeVars, tokenVars, hubVars, socket, known, admin, bounds>>

\* ExchangeInstallToken: binds the token to the node and stores a node token, or
\* repeats the answer of an earlier exchange
NodeTokenFor(cred) == cred[2]

ExchangeInstallToken(c) ==
    LET t == dial[c].cred[2]
    IN  /\ At(c, "hello") /\ MayAuthenticateInstallToken(dial[c].cred)
        /\ IF install[t] = "bound"
           THEN UNCHANGED <<persisted, install, memory>>
           ELSE /\ persisted' = NodeTokenFor(dial[c].cred) /\ memory' = persisted'
                /\ install' = [install EXCEPT ![t] = "bound"]
        /\ dial' = [dial EXCEPT ![c].pc = "upsert", ![c].token = t, ![c].used = TRUE]
        /\ UNCHANGED <<row, deleted, fresh, hubVars, socket, known, admin, bounds>>

\* The node was deleted, or the credential is not valid any more
RefuseHello(c) ==
    LET cred == dial[c].cred
    IN  /\ At(c, "hello") /\ ~dial[c].persistent
        /\ ~MayAuthenticateNodeToken(cred) /\ ~MayAuthenticateInstallToken(cred)
        /\ cred[1] = "shared" => deleted
        /\ Refuse(c)
        /\ UNCHANGED <<storeVars, tokenVars, hubVars, known, admin, bounds>>

Upsert(c) ==
    /\ At(c, "upsert")
    /\ row' = "online"
    /\ Goto(c, IF dial[c].used THEN "allow" ELSE "check")
    /\ UNCHANGED <<deleted, persisted, tokenVars, hubVars, socket, known,
                   admin, bounds>>

\* AllowIfDeletedBefore: an install token lifts the deletion it is younger than
AllowNode(c) ==
    /\ At(c, "allow")
    /\ IF deleted /\ dial[c].token \notin fresh
       THEN Goto(c, "cleanup") /\ UNCHANGED deleted
       ELSE Goto(c, "check") /\ deleted' = FALSE
    /\ UNCHANGED <<row, persisted, tokenVars, hubVars, socket, known, admin, bounds>>

\* agentCredentialStillValid
BelievesTheHello(c) == TRUE                           \* deviation: not asked again
StillValid(c) ==
    /\ ~deleted
    /\ \/ dial[c].cred[1] = "shared"
       \/ IF dial[c].persistent THEN Persisted(dial[c].cred) ELSE memory = dial[c].token

CheckCredential(c) ==
    LET t == dial[c].token
    IN  /\ At(c, "check")
        /\ Goto(c, IF StillValid(c) THEN "session" ELSE "cleanup")
        /\ IF StillValid(c) /\ dial[c].persistent
           THEN /\ memory' = IF memory = t THEN Null ELSE memory
                /\ install' = Completed(t)
           ELSE UNCHANGED <<memory, install>>
        /\ UNCHANGED <<storeVars, fresh, hubVars, socket, known, admin, bounds>>

\* DeleteIfDeleted
LeavesTheRow == row                                   \* deviation: the Upsert is not undone
RowOfDeleted == IF deleted THEN "none" ELSE row

Cleanup(c) ==
    /\ At(c, "cleanup")
    /\ row' = RowOfDeleted
    /\ persisted' = IF deleted THEN Null ELSE persisted
    /\ Refuse(c)
    /\ UNCHANGED <<deleted, tokenVars, hubVars, known, admin, bounds>>

\* startSession; connection events are only shown and left out
StartSession(c) ==
    /\ At(c, "session")
    /\ session' = c
    /\ Goto(c, "register")
    /\ UNCHANGED <<storeVars, tokenVars, connection, socket, known, admin, bounds>>

RegisterConnection(c) ==
    /\ At(c, "register")
    /\ connection' = c
    /\ dial' = [dial EXCEPT ![c].pc = IF connection = 0 THEN "ack" ELSE "replace",
                            ![c].previous = connection]
    /\ UNCHANGED <<storeVars, tokenVars, session, socket, known, admin, bounds>>

\* Still registerConnection: its callers have been told (AgentCalls), its socket is closed
ClosePrevious(c) ==
    /\ At(c, "replace")
    /\ socket' = [socket EXCEPT ![dial[c].previous] = "closed"]
    /\ Goto(c, "ack")
    /\ UNCHANGED <<storeVars, tokenVars, hubVars, known, admin, bounds>>

\* The HelloAck carries the node token
Ack(c) ==
    /\ At(c, "ack") /\ socket[c] \in {"open", "lost"}
    /\ Goto(c, "reading")
    /\ known' = IF socket[c] = "open" /\ dial[c].token # Null
                THEN known \cup {<<"node", dial[c].token>>} ELSE known
    /\ UNCHANGED <<storeVars, tokenVars, hubVars, socket, admin, bounds>>

Unregistered(c) == IF connection = c THEN 0 ELSE connection

AckFails(c) ==
    /\ At(c, "ack") /\ socket[c] # "open"
    /\ connection' = Unregistered(c)
    /\ Goto(c, "finish")
    /\ UNCHANGED <<storeVars, tokenVars, session, socket, known, admin, bounds>>

\* UpdateSystemInfo: an UPDATE that finds no row ends the connection
IgnoresMissing == {}                                  \* deviation: zero rows are not an error
MissingRow == {"none"}

\* ... and marks the row online again
OnlySeenAt == row                                     \* deviation: last_seen_at alone
Reported == IF row = "none" THEN row ELSE "online"

Metrics(c) ==
    /\ At(c, "reading") /\ socket[c] = "open"
    /\ row' = Reported
    /\ IF row \in MissingRow THEN Goto(c, "finish") ELSE UNCHANGED dial
    /\ UNCHANGED <<deleted, persisted, tokenVars, hubVars, socket, known, admin, bounds>>

\* A read fails: the peer is gone, silent for too long, or the socket was closed here
ReadFails(c) ==
    /\ At(c, "reading") /\ socket[c] # "open"
    /\ Goto(c, "finish")
    /\ UNCHANGED <<storeVars, tokenVars, hubVars, socket, known, admin, bounds>>

\* The deferred calls of ServeHTTP, innermost first.
\* finishSession: decided under the mutex, written after it
FinishSession(c) ==
    /\ At(c, "finish")
    /\ session' = IF session = c THEN 0 ELSE session
    /\ Goto(c, IF session = c THEN "offline" ELSE "unregister")
    /\ UNCHANGED <<storeVars, tokenVars, connection, socket, known, admin, bounds>>

SetOffline(c) ==
    /\ At(c, "offline")
    /\ row' = IF row = "none" THEN row ELSE "offline"
    /\ Goto(c, "unregister")
    /\ UNCHANGED <<deleted, persisted, tokenVars, hubVars, socket, known,
                   admin, bounds>>

\* unregisterConnection removes the connection only while it is the current one
RemovesAny(c) == 0                                    \* deviation: whoever is registered
AfterUnregister(c) == Unregistered(c)

UnregisterConnection(c) ==
    /\ At(c, "unregister")
    /\ connection' = AfterUnregister(c)
    /\ Refuse(c)
    /\ UNCHANGED <<storeVars, tokenVars, session, known, admin, bounds>>

\* The agent or its network goes away; the Server has not noticed.  Before the
\* HelloAck nothing looks at the socket again.
PeerLost(c) ==
    /\ c \in Served /\ socket[c] = "open"
    /\ socket' = [socket EXCEPT ![c] = "lost"]
    /\ UNCHANGED <<storeVars, tokenVars, hubVars, dial, known, admin, bounds>>
-----------------------------------------------------------------------------
(* The administrator, and the Server process                               *)

\* NodeStore.Delete
DeleteNode ==
    /\ admin = Idle /\ row # "none" /\ deletes < MaxDeletes
    /\ row' = "none" /\ persisted' = Null
    /\ deleted' = TRUE /\ fresh' = {}
    /\ admin' = [Idle EXCEPT !.pc = "disconnect"]
    /\ deletes' = deletes + 1
    /\ UNCHANGED <<install, memory, hubVars, dial, socket, known, restarts>>

\* DisconnectNode
DisconnectNode ==
    /\ admin.pc = "disconnect"
    /\ connection' = 0 /\ session' = 0
    /\ admin' = [pc |-> "revoke", target |-> connection]
    /\ UNCHANGED <<storeVars, tokenVars, dial, socket, known, bounds>>

RevokeNode ==
    /\ admin.pc = "revoke"
    /\ memory' = Null
    /\ install' = [t \in Tokens |-> IF install[t] = "bound" THEN "gone" ELSE install[t]]
    /\ admin' = [admin EXCEPT !.pc = "close"]
    /\ UNCHANGED <<storeVars, fresh, hubVars, dial, socket, known, bounds>>

CloseDisconnected ==
    /\ admin.pc = "close"
    /\ socket' = [c \in Dials |-> IF c = admin.target THEN "closed" ELSE socket[c]]
    /\ admin' = Idle
    /\ UNCHANGED <<storeVars, tokenVars, hubVars, dial, known, bounds>>

\* The process ends at any point; ResetOnlineStatuses runs before the next one serves
Restart ==
    /\ restarts < MaxRestarts
    /\ restarts' = restarts + 1
    /\ row' = IF row = "online" THEN "offline" ELSE row
    /\ install' = [t \in Tokens |-> IF install[t] = "unused" THEN "unused" ELSE "gone"]
    /\ memory' = Null /\ session' = 0 /\ connection' = 0
    /\ dial' = [c \in Dials |-> [NoDial EXCEPT !.pc = IF dial[c].pc = "none" THEN "none" ELSE "gone"]]
    /\ socket' = [c \in Dials |-> IF socket[c] = "none" THEN "none" ELSE "closed"]
    /\ admin' = Idle
    /\ UNCHANGED <<deleted, persisted, fresh, known, deletes>>
-----------------------------------------------------------------------------
\* What a goroutine of the Server does by itself
Serve(c) ==
    \/ Hello(c) \/ ExchangeInstallToken(c) \/ RefuseHello(c) \/ Upsert(c) \/ AllowNode(c)
    \/ CheckCredential(c) \/ Cleanup(c) \/ StartSession(c) \/ RegisterConnection(c)
    \/ ClosePrevious(c) \/ Ack(c) \/ AckFails(c) \/ ReadFails(c)
    \/ FinishSession(c) \/ SetOffline(c) \/ UnregisterConnection(c)

FinishDeletion == DisconnectNode \/ RevokeNode \/ CloseDisconnected

Next ==
    \/ \E t \in Tokens : CreateInstallToken(t) \/ Expire(t)
    \/ \E c \in Dials : Dial(c) \/ Serve(c) \/ Metrics(c) \/ PeerLost(c)
    \/ DeleteNode \/ FinishDeletion \/ Restart

Spec == Init /\ [][Next]_vars

\* A goroutine that can go on does, and an agent that is connected reports at
\* every interval
Fairness ==
    /\ \A c \in Dials : WF_vars(Serve(c)) /\ WF_vars(Metrics(c))
    /\ WF_vars(FinishDeletion)

FairSpec == Spec /\ Fairness
-----------------------------------------------------------------------------
(* Properties                                                              *)

DialState == [pc : {"none", "hello", "upsert", "allow", "check", "cleanup", "session", "register",
                    "replace", "ack", "reading", "finish", "offline", "unregister", "gone"},
              cred : Credentials, persistent : BOOLEAN, token : Tokens \cup {Null},
              used : BOOLEAN, previous : Dials \cup {0}]

\* Every variable has its type.
TypeOK ==
    /\ row \in {"none", "online", "offline"} /\ deleted \in BOOLEAN
    /\ persisted \in Tokens \cup {Null}
    /\ install \in [Tokens -> {"unused", "free", "bound", "gone"}]
    /\ fresh \subseteq Tokens /\ memory \in Tokens \cup {Null}
    /\ session \in Dials \cup {0} /\ connection \in Dials \cup {0}
    /\ dial \in [Dials -> DialState]
    /\ socket \in [Dials -> {"none", "open", "lost", "closed"}]
    /\ known \subseteq Credentials
    /\ admin \in [pc : {"idle", "disconnect", "revoke", "close"}, target : Dials \cup {0}]
    /\ deletes \in 0..MaxDeletes /\ restarts \in 0..MaxRestarts

\* Someone is about to close the socket of c: its successor or a deletion
BeingClosed(c) ==
    \/ \E d \in Dials : At(d, "replace") /\ dial[d].previous = c
    \/ admin.pc \in {"revoke", "close"} /\ admin.target = c

\* The Handler holds no connection and no session of a goroutine that has ended,
\* so a node does not stay online, and its requests do not go, to nobody.
NoGhost ==
    /\ connection # 0 => dial[connection].pc \in
           {"replace", "ack", "reading", "finish", "offline", "unregister"}
    /\ session # 0 => dial[session].pc \in
           {"register", "replace", "ack", "reading", "finish"}

\* An agent that is being served over an open socket is the one requests are
\* sent to: the end of a connection that was replaced never takes its successor
\* out of Handler.connections (hub.go:2172), and a replaced one is closed; and
\* what Handler.connections holds is served.
ServedIsRegistered ==
    /\ TypeOK
    /\ \A c \in Served : socket[c] # "closed" => connection = c \/ BeingClosed(c)
    /\ NoGhost

\* A deleted node has no row again, unless a dial that was let in before the
\* deletion has just written it and is bound to take it back (hub.go:441-459).
\* A Server that dies in that moment leaves it: until then.
NoResurrection ==
    restarts = 0 /\ deleted /\ row # "none" =>
        \E c \in Dials : dial[c].pc \in {"allow", "check", "cleanup"}

\* docs/configuration.md:545: once a node token has authenticated its agent from
\* node_tokens, the install token it was exchanged for is of no use to anyone.
BootstrapEnds ==
    \A c \in Served : dial[c].persistent => install[dial[c].token] \notin {"free", "bound"}

\* What was taken back stays of no use: a deleted node, and the install token of an agent
\* that has its own.
RevokedIsUseless == NoResurrection /\ BootstrapEnds

\* An agent that stays connected is shown online for good, whatever the handlers
\* of its earlier connections still write (hub.go:2842-2851).
ShownOnline ==
    \A c \in Dials :
        <>[](dial[c].pc = "reading" /\ socket[c] = "open" /\ row # "none") => <>[](row = "online")

\* A deleted node loses its connection even when its agent registered between the
\* check of its credential and the deletion, which DisconnectNode does not see.
DeletedIsDisconnected == deleted ~> connection = 0 \/ ~deleted
=============================================================================
