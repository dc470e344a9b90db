----------------------------- MODULE AgentProofs -----------------------------
(***************************************************************************)
(* The sessions of an agent, its upgrade, its Compose projects and its     *)
(* installation, for every value of the constants: any number of dials,    *)
(* tokens, deletions, restarts, attempts, losses, projects, drafts,        *)
(* revisions and watchers.                                                 *)
(***************************************************************************)
EXTENDS AgentSessions, AgentUpgrade, ComposeDeployment, InstallJobs, SequenceTheorems,
        WellFoundedInduction, FiniteSetTheorems, TLAPS

(***************************************************************************)
(* Sessions                                                                *)
(***************************************************************************)

\* The goroutines that have registered and are about to serve, or do
Registered == {"replace", "ack", "reading"}

\* ServedIsRegistered, from the moment a goroutine is in Handler.connections
RegisteredIsCurrent ==
    \A c \in Dials : dial[c].pc \in Registered /\ socket[c] # "closed" =>
        connection = c \/ BeingClosed(c)

SessionInv == TypeOK /\ RegisteredIsCurrent /\ NoGhost

\* The dials whose credential was asked for again and found valid
Credited == {"session", "register"} \cup Registered

\* What an agent presents that is known from node_tokens: its install token was exchanged, so
\* it can never be free again, and it is of no use once the credential was found valid.
TokenEnds ==
    /\ persisted # Null => install[persisted] \in {"bound", "gone"}
    /\ \A c \in Dials : dial[c].persistent =>
        /\ dial[c].cred[1] = "node" /\ dial[c].cred[2] \in Tokens
        /\ install[dial[c].cred[2]] \in {"bound", "gone"}
        /\ dial[c].pc # "hello" => dial[c].token = dial[c].cred[2]
        /\ dial[c].pc \in Credited => install[dial[c].cred[2]] = "gone"

TokenInv == TypeOK /\ TokenEnds /\ NoResurrection

\* The parts of a credential
LEMMA CredentialParts ==
    ASSUME NEW cred \in Credentials
    PROVE  /\ cred[1] \in {"shared", "install", "node"} /\ cred[2] \in Tokens \cup {Null}
           /\ cred[1] # "shared" => cred[2] \in Tokens
BY DEF Credentials

LEMMA NoDialType == NoDial \in DialState
BY DEF NoDial, DialState, Credentials

\* A goroutine goes on to another point of ServeHTTP.
LEMMA GotoType ==
    ASSUME TypeOK, NEW c \in Dials, NEW pc, Goto(c, pc),
           pc \in {"check", "cleanup", "allow", "session", "register", "ack", "reading", "finish",
                   "offline", "unregister"}
    PROVE  dial' \in [Dials -> DialState]
BY DEF TypeOK, DialState, Goto

\* The Hello is accepted.
LEMMA UpsertType ==
    ASSUME TypeOK, NEW c \in Dials, NEW token \in Tokens \cup {Null}, NEW used \in BOOLEAN,
           \/ dial' = [dial EXCEPT ![c].pc = "upsert", ![c].token = token]
           \/ dial' = [dial EXCEPT ![c].pc = "upsert", ![c].token = token, ![c].used = TRUE]
    PROVE  dial' \in [Dials -> DialState]
<1>1. /\ dial'[c] \in DialState
      /\ \A d \in Dials \ {c} : dial'[d] = dial[d]
  BY DEF TypeOK, DialState
<1>2. dial' = [d \in Dials |-> dial'[d]]
  BY DEF TypeOK
<1> QED
  BY <1>1, <1>2 DEF TypeOK

\* The connection is registered.
LEMMA RegisterType ==
    ASSUME TypeOK, NEW c \in Dials, NEW pc \in {"ack", "replace"}, NEW previous \in Dials \cup {0},
           dial' = [dial EXCEPT ![c].pc = pc, ![c].previous = previous]
    PROVE  dial' \in [Dials -> DialState]
<1>1. \A d \in Dials \ {c} : dial'[d] = dial[d]
  BY DEF TypeOK
<1>2. dial'[c] = [pc |-> pc, cred |-> dial[c].cred, persistent |-> dial[c].persistent,
                  token |-> dial[c].token, used |-> dial[c].used, previous |-> previous]
  BY ZenonT(60) DEF TypeOK, DialState
<1>3. dial[c] \in DialState
  BY DEF TypeOK
<1>4. dial'[c] \in DialState
  BY <1>2, <1>3 DEF DialState
<1>5. dial' = [d \in Dials |-> dial'[d]]
  BY DEF TypeOK
<1> QED
  BY <1>1, <1>4, <1>5 DEF TypeOK

\* A goroutine that returns
LEMMA RefuseType ==
    ASSUME TypeOK, NEW c \in Dials, Refuse(c)
    PROVE  dial' \in [Dials -> DialState] /\ socket' \in [Dials -> {"none", "open", "lost", "closed"}]
<1>1. [NoDial EXCEPT !.pc = "gone"] \in DialState
  BY NoDialType DEF DialState
<1> QED
  BY <1>1 DEF Refuse, TypeOK

\* Every action of a goroutine keeps the types.
LEMMA ServeType ==
    ASSUME TypeOK, NEW c \in Dials, Serve(c) \/ Dial(c) \/ Metrics(c) \/ PeerLost(c)
    PROVE  TypeOK'
<1> USE DEF storeVars, tokenVars, hubVars, bounds, At
<1>1. CASE Dial(c)
  <2> PICK cred \in known :
        /\ dial' = [dial EXCEPT ![c] = [NoDial EXCEPT !.pc = "hello", !.cred = cred,
                                                      !.persistent = Persisted(cred)]]
        /\ socket' = [socket EXCEPT ![c] = "open"]
        /\ UNCHANGED <<storeVars, tokenVars, hubVars, known, admin, bounds>>
    BY <1>1 DEF Dial
  <2>1. cred \in Credentials /\ Persisted(cred) \in BOOLEAN
    BY DEF TypeOK, Persisted
  <2>2. [NoDial EXCEPT !.pc = "hello", !.cred = cred, !.persistent = Persisted(cred)] \in DialState
    BY <2>1, NoDialType DEF DialState
  <2> QED
    BY <2>2 DEF TypeOK
<1>2. CASE Hello(c)
  <2>1. dial[c].cred[2] \in Tokens \cup {Null}
    BY CredentialParts DEF TypeOK, DialState
  <2>2. dial' \in [Dials -> DialState]
    BY <1>2, <2>1, UpsertType DEF Hello
  <2> QED
    BY <1>2, <2>2 DEF Hello, TypeOK
<1>3. CASE ExchangeInstallToken(c)
  <2>1. dial[c].cred[2] \in Tokens
    BY <1>3, CredentialParts DEF TypeOK, DialState, ExchangeInstallToken, MayAuthenticateInstallToken
  <2>2. dial' \in [Dials -> DialState]
    BY <1>3, <2>1, UpsertType DEF ExchangeInstallToken
  <2> QED
    BY <1>3, <2>1, <2>2 DEF ExchangeInstallToken, NodeTokenFor, TypeOK
<1>4. CASE RefuseHello(c)
  BY <1>4, RefuseType DEF RefuseHello, TypeOK
<1>5. CASE Upsert(c)
  BY <1>5, GotoType DEF Upsert, TypeOK
<1>6. CASE AllowNode(c)
  BY <1>6, GotoType DEF AllowNode, TypeOK
<1>7. CASE CheckCredential(c)
  BY <1>7, GotoType DEF CheckCredential, Completed, TypeOK
<1>8. CASE Cleanup(c)
  BY <1>8, RefuseType DEF Cleanup, RowOfDeleted, TypeOK
<1>9. CASE StartSession(c)
  BY <1>9, GotoType DEF StartSession, TypeOK
<1>10. CASE RegisterConnection(c)
  <2>1. dial' \in [Dials -> DialState]
    BY <1>10, RegisterType DEF RegisterConnection, TypeOK
  <2> QED
    BY <1>10, <2>1 DEF RegisterConnection, TypeOK
<1>11. CASE ClosePrevious(c)
  BY <1>11, GotoType DEF ClosePrevious, TypeOK
<1>12. CASE Ack(c)
  <2>1. dial[c].token # Null => <<"node", dial[c].token>> \in Credentials
    BY DEF TypeOK, DialState, Credentials
  <2> QED
    BY <1>12, <2>1, GotoType DEF Ack, TypeOK
<1>13. CASE AckFails(c)
  BY <1>13, GotoType DEF AckFails, Unregistered, TypeOK
<1>14. CASE ReadFails(c)
  BY <1>14, GotoType DEF ReadFails, TypeOK
<1>15. CASE FinishSession(c)
  BY <1>15, GotoType DEF FinishSession, TypeOK
<1>16. CASE SetOffline(c)
  BY <1>16, GotoType DEF SetOffline, TypeOK
<1>17. CASE UnregisterConnection(c)
  BY <1>17, RefuseType DEF UnregisterConnection, AfterUnregister, Unregistered, TypeOK
<1>18. CASE Metrics(c)
  BY <1>18, GotoType DEF Metrics, Reported, TypeOK
<1>19. CASE PeerLost(c)
  BY <1>19 DEF PeerLost, TypeOK
<1> QED
  BY <1>1, <1>2, <1>3, <1>4, <1>5, <1>6, <1>7, <1>8, <1>9, <1>10, <1>11, <1>12, <1>13, <1>14,
     <1>15, <1>16, <1>17, <1>18, <1>19 DEF Serve

\* ... and so do those of the administrator and of the process.
LEMMA TypePreserved == TypeOK /\ [Next]_vars => TypeOK'
<1> SUFFICES ASSUME TypeOK, [Next]_vars PROVE TypeOK'
  OBVIOUS
<1> USE DEF storeVars, tokenVars, hubVars, bounds
<1>1. ASSUME NEW t \in Tokens, CreateInstallToken(t) PROVE TypeOK'
  <2>1. <<"install", t>> \in Credentials
    BY DEF Credentials
  <2> QED
    BY <1>1, <2>1 DEF CreateInstallToken, TypeOK
<1>2. ASSUME NEW t \in Tokens, Expire(t) PROVE TypeOK'
  BY <1>2 DEF Expire, TypeOK
<1>3. CASE DeleteNode
  BY <1>3, BoundsAssumption DEF DeleteNode, Idle, TypeOK
<1>4. CASE DisconnectNode
  BY <1>4 DEF DisconnectNode, TypeOK
<1>5. CASE RevokeNode
  BY <1>5 DEF RevokeNode, TypeOK
<1>6. CASE CloseDisconnected
  BY <1>6 DEF CloseDisconnected, Idle, TypeOK
<1>7. CASE Restart
  <2>1. \A pc \in {"none", "gone"} : [NoDial EXCEPT !.pc = pc] \in DialState
    BY NoDialType DEF DialState
  <2>2. dial' \in [Dials -> DialState]
    BY <1>7, <2>1 DEF Restart
  <2> QED
    BY <1>7, <2>2, BoundsAssumption DEF Restart, Idle, TypeOK
<1>8. CASE UNCHANGED vars
  BY <1>8 DEF vars, TypeOK
<1> QED
  BY <1>1, <1>2, <1>3, <1>4, <1>5, <1>6, <1>7, <1>8, ServeType DEF Next, FinishDeletion

LEMMA InitType == Init => TypeOK
<1> SUFFICES ASSUME Init PROVE TypeOK
  OBVIOUS
<1>1. dial \in [Dials -> DialState]
  BY NoDialType DEF Init
<1>2. known \subseteq Credentials
  BY DEF Init, Credentials
<1>3. admin \in [pc : {"idle", "disconnect", "revoke", "close"}, target : Dials \cup {0}]
  BY DEF Init, Idle
<1>4. install \in [Tokens -> {"unused", "free", "bound", "gone"}] /\ fresh \subseteq Tokens
  BY DEF Init
<1>5. socket \in [Dials -> {"none", "open", "lost", "closed"}]
  BY DEF Init
<1>6. deletes \in 0..MaxDeletes /\ restarts \in 0..MaxRestarts
  BY BoundsAssumption DEF Init
<1> QED
  BY <1>1, <1>2, <1>3, <1>4, <1>5, <1>6 DEF Init, TypeOK

\* The steps of a goroutine that move it alone: nobody's previous connection changes.
LEMMA OthersStay ==
    ASSUME TypeOK, NEW c \in Dials, NEW pc, Goto(c, pc)
    PROVE  /\ dial'[c].pc = pc
           /\ \A d \in Dials : dial'[d].previous = dial[d].previous
           /\ \A d \in Dials : d # c => dial'[d] = dial[d]
           /\ dial'[c].cred = dial[c].cred /\ dial'[c].persistent = dial[c].persistent
           /\ dial'[c].token = dial[c].token
BY DEF TypeOK, DialState, Goto

\* A connection is dialled with a credential.
LEMMA DialBegins ==
    ASSUME TypeOK, NEW c \in Dials, Dial(c)
    PROVE  /\ dial[c].pc = "none" /\ dial'[c].pc = "hello"
           /\ dial'[c].persistent => Persisted(dial'[c].cred)
           /\ \A d \in Dials : d # c => dial'[d] = dial[d] /\ socket'[d] = socket[d]
<1> PICK cred \in known :
        /\ dial' = [dial EXCEPT ![c] = [NoDial EXCEPT !.pc = "hello", !.cred = cred,
                                                      !.persistent = Persisted(cred)]]
        /\ socket' = [socket EXCEPT ![c] = "open"]
  BY DEF Dial
<1> DEFINE new == [NoDial EXCEPT !.pc = "hello", !.cred = cred, !.persistent = Persisted(cred)]
<1>1. new.pc = "hello" /\ new.cred = cred /\ new.persistent = Persisted(cred)
  BY DEF NoDial
<1>2. dial'[c] = new /\ \A d \in Dials : d # c => dial'[d] = dial[d] /\ socket'[d] = socket[d]
  BY DEF TypeOK
<1>3. dial[c].pc = "none"
  BY DEF Dial, At
<1> QED
  BY <1>1, <1>2, <1>3

\* A goroutine has returned.
LEMMA GoneStays ==
    ASSUME TypeOK, NEW c \in Dials, Refuse(c)
    PROVE  /\ dial'[c].pc = "gone" /\ dial'[c].persistent = FALSE
           /\ \A d \in Dials : d # c => dial'[d] = dial[d] /\ socket'[d] = socket[d]
           /\ socket'[c] = "closed"
BY NoDialType DEF TypeOK, Refuse, NoDial

(* What is served is registered. *)

\* A goroutine that neither is in Handler.connections nor has started its session
Outside == {"none", "hello", "upsert", "allow", "check", "cleanup", "session", "gone"}

\* Such goroutines do not matter.
LEMMA OutsideMoves ==
    ASSUME SessionInv, NEW c \in Dials, dial[c].pc \in Outside, dial'[c].pc \in Outside,
           \A d \in Dials : d # c => dial'[d] = dial[d] /\ socket'[d] = socket[d],
           UNCHANGED <<hubVars, admin>>
    PROVE  RegisteredIsCurrent' /\ NoGhost'
<1> USE DEF hubVars, SessionInv
<1>1. RegisteredIsCurrent'
  <2> SUFFICES ASSUME NEW d \in Dials, dial'[d].pc \in Registered, socket'[d] # "closed"
               PROVE  connection' = d \/ BeingClosed(d)'
    BY DEF RegisteredIsCurrent
  <2>1. d # c /\ dial'[d] = dial[d] /\ socket'[d] = socket[d]
    BY DEF Outside, Registered
  <2>2. connection = d \/ BeingClosed(d)
    BY <2>1 DEF RegisteredIsCurrent
  <2>3. ASSUME NEW e \in Dials, At(e, "replace"), dial[e].previous = d
        PROVE  At(e, "replace")' /\ dial'[e].previous = d
    BY <2>3 DEF At, Outside
  <2> QED
    BY <2>2, <2>3 DEF BeingClosed
<1>2. NoGhost'
  BY DEF NoGhost, TypeOK, Outside
<1> QED
  BY <1>1, <1>2

\* A goroutine that is not closing another connection moves, and the maps, the requests and the
\* other sockets stay: whoever was being closed still is.
LEMMA ClosersStay ==
    ASSUME TypeOK, NEW c \in Dials, ~At(c, "replace"), UNCHANGED admin,
           \A d \in Dials : d # c => dial'[d] = dial[d]
    PROVE  \A d \in Dials : BeingClosed(d) => BeingClosed(d)'
BY DEF BeingClosed, At

\* Each action of a goroutine keeps the invariant.
LEMMA ServeSession ==
    ASSUME SessionInv, NEW c \in Dials, Serve(c) \/ Dial(c) \/ Metrics(c) \/ PeerLost(c)
    PROVE  RegisteredIsCurrent' /\ NoGhost'
<1> USE DEF hubVars, storeVars, tokenVars, bounds, At
<1> TypeOK
  BY DEF SessionInv
<1>1. CASE Dial(c) \/ Hello(c) \/ ExchangeInstallToken(c)
  <2>1. dial[c].pc \in Outside
    BY <1>1 DEF Dial, Hello, ExchangeInstallToken, Outside
  <2>2. /\ dial'[c].pc \in {"hello", "upsert"}
        /\ \A d \in Dials : d # c => dial'[d] = dial[d] /\ socket'[d] = socket[d]
    <3>1. CASE Dial(c)
      BY <3>1, DialBegins
    <3>2. CASE Hello(c)
      BY <3>2 DEF Hello, TypeOK, DialState
    <3>3. CASE ExchangeInstallToken(c)
      BY <3>3 DEF ExchangeInstallToken, TypeOK, DialState
    <3> QED
      BY <1>1, <3>1, <3>2, <3>3
  <2> QED
    BY <1>1, <2>1, <2>2, OutsideMoves DEF Dial, Hello, ExchangeInstallToken, Outside
<1>2. CASE RefuseHello(c) \/ Cleanup(c)
  BY <1>2, GoneStays, OutsideMoves DEF RefuseHello, Cleanup, Outside
<1>3. CASE Upsert(c) \/ AllowNode(c) \/ CheckCredential(c)
  <2> PICK pc \in {"allow", "check", "cleanup", "session"} : Goto(c, pc)
    BY <1>3 DEF Upsert, AllowNode, CheckCredential
  <2> QED
    BY <1>3, OthersStay, OutsideMoves DEF Upsert, AllowNode, CheckCredential, Outside
<1>4. CASE StartSession(c)
  <2>1. /\ dial'[c].pc = "register" /\ \A d \in Dials : d # c => dial'[d] = dial[d]
        /\ session' = c /\ UNCHANGED <<connection, socket, admin>> /\ dial[c].pc = "session"
    BY <1>4, OthersStay DEF StartSession
  <2>2. NoGhost'
    BY <2>1 DEF NoGhost, SessionInv, TypeOK
  <2> QED
    BY <2>1, <2>2, ClosersStay DEF SessionInv, RegisteredIsCurrent, Registered
<1>5. CASE RegisterConnection(c)
  <2>1. /\ dial'[c].pc = IF connection = 0 THEN "ack" ELSE "replace"
        /\ dial'[c].previous = connection
        /\ \A d \in Dials : d # c => dial'[d] = dial[d]
        /\ connection' = c /\ UNCHANGED <<session, socket, admin>> /\ dial[c].pc = "register"
    BY <1>5 DEF RegisterConnection, TypeOK, DialState
  <2>2. NoGhost'
    BY <2>1 DEF NoGhost, SessionInv, TypeOK
  <2>3. ASSUME NEW d \in Dials, dial'[d].pc \in Registered, socket'[d] # "closed", d # c
        PROVE  BeingClosed(d)'
    <3>1. connection = d \/ BeingClosed(d)
      BY <2>1, <2>3 DEF SessionInv, RegisteredIsCurrent
    <3>2. CASE connection = d
      <4>1. dial'[c].pc = "replace" /\ dial'[c].previous = d
        BY <2>1, <3>2 DEF Dials
      <4> QED
        BY <4>1 DEF BeingClosed
    <3> QED
      BY <2>1, <3>1, <3>2, ClosersStay
  <2> QED
    BY <2>1, <2>2, <2>3 DEF RegisteredIsCurrent
<1>6. CASE ClosePrevious(c)
  <2>1. /\ dial'[c].pc = "ack" /\ \A d \in Dials : d # c => dial'[d] = dial[d]
        /\ \A d \in Dials : socket'[d] = IF d = dial[c].previous THEN "closed" ELSE socket[d]
        /\ UNCHANGED <<session, connection, admin>> /\ dial[c].pc = "replace"
    BY <1>6, OthersStay DEF ClosePrevious, TypeOK
  <2>2. NoGhost'
    BY <2>1 DEF NoGhost, SessionInv, TypeOK
  <2>3. ASSUME NEW d \in Dials, dial'[d].pc \in Registered, socket'[d] # "closed"
        PROVE  connection' = d \/ BeingClosed(d)'
    <3>1. dial[d].pc \in Registered /\ socket[d] # "closed" /\ d # dial[c].previous
      BY <2>1, <2>3 DEF Registered
    <3>2. connection = d \/ BeingClosed(d)
      BY <3>1 DEF SessionInv, RegisteredIsCurrent
    <3> QED
      BY <2>1, <3>1, <3>2 DEF BeingClosed
  <2> QED
    BY <2>2, <2>3 DEF RegisteredIsCurrent
<1>7. CASE Ack(c) \/ ReadFails(c) \/ Metrics(c)
  <2>1. /\ dial'[c].pc \in {"reading", "finish"} /\ \A d \in Dials : d # c => dial'[d] = dial[d]
        /\ UNCHANGED <<session, connection, socket, admin>> /\ dial[c].pc \in {"ack", "reading"}
    BY <1>7, OthersStay DEF Ack, ReadFails, Metrics
  <2>2. NoGhost'
    BY <2>1 DEF NoGhost, SessionInv, TypeOK
  <2> QED
    BY <2>1, <2>2, ClosersStay DEF SessionInv, RegisteredIsCurrent, Registered
<1>8. CASE AckFails(c) \/ FinishSession(c) \/ SetOffline(c) \/ UnregisterConnection(c)
  <2>1. /\ \A d \in Dials : d # c => dial'[d] = dial[d] /\ socket'[d] = socket[d]
        /\ dial[c].pc \in {"ack", "finish", "offline", "unregister"}
        /\ UNCHANGED admin /\ connection' \in {connection, Unregistered(c)}
        /\ dial'[c].pc \in {"finish", "offline", "unregister", "gone"}
    BY <1>8, OthersStay, GoneStays
       DEF AckFails, FinishSession, SetOffline, UnregisterConnection, AfterUnregister
  <2>2. \/ /\ dial[c].pc = "ack" /\ dial'[c].pc = "finish" /\ session' = session
           /\ connection' # c
        \/ /\ dial[c].pc = "finish" /\ dial'[c].pc \in {"offline", "unregister"} /\ session' # c
           /\ session' \in {session, 0} /\ connection' = connection
        \/ /\ dial[c].pc = "offline" /\ dial'[c].pc = "unregister"
           /\ session' = session /\ connection' = connection
        \/ /\ dial[c].pc = "unregister" /\ dial'[c].pc = "gone" /\ session' = session
           /\ connection' # c
    <3>1. c # 0
      BY DEF Dials
    <3>2. CASE AckFails(c)
      BY <3>1, <3>2, OthersStay DEF AckFails, Unregistered
    <3>3. CASE FinishSession(c)
      BY <3>1, <3>3, OthersStay DEF FinishSession
    <3>4. CASE SetOffline(c)
      BY <3>4, OthersStay DEF SetOffline
    <3>5. CASE UnregisterConnection(c)
      BY <3>1, <3>5, GoneStays DEF UnregisterConnection, AfterUnregister, Unregistered
    <3> QED
      BY <1>8, <3>2, <3>3, <3>4, <3>5
  <2>3. NoGhost'
    <3>1. connection' # 0 => dial'[connection'].pc \in
              {"replace", "ack", "reading", "finish", "offline", "unregister"}
      BY <2>1, <2>2 DEF NoGhost, SessionInv, TypeOK, Unregistered
    <3>2. session' # 0 => dial'[session'].pc \in {"register", "replace", "ack", "reading", "finish"}
      BY <2>1, <2>2 DEF NoGhost, SessionInv, TypeOK
    <3> QED
      BY <3>1, <3>2 DEF NoGhost
  <2>4. ASSUME NEW d \in Dials, dial'[d].pc \in Registered, socket'[d] # "closed"
        PROVE  connection' = d \/ BeingClosed(d)'
    <3>1. d # c
      BY <2>1, <2>4 DEF Registered
    <3>2. connection = d \/ BeingClosed(d)
      BY <2>1, <2>4, <3>1 DEF SessionInv, RegisteredIsCurrent
    <3> QED
      BY <2>1, <3>1, <3>2, ClosersStay DEF Unregistered
  <2> QED
    BY <2>3, <2>4 DEF RegisteredIsCurrent
<1>9. CASE PeerLost(c)
  <2>1. /\ UNCHANGED <<dial, hubVars, admin>>
        /\ \A d \in Dials : socket'[d] # "closed" => socket[d] # "closed"
    BY <1>9 DEF PeerLost, TypeOK
  <2>2. \A d \in Dials : BeingClosed(d) => BeingClosed(d)'
    BY <2>1 DEF BeingClosed
  <2> QED
    BY <2>1, <2>2 DEF SessionInv, RegisteredIsCurrent, NoGhost
<1> QED
  BY <1>1, <1>2, <1>3, <1>4, <1>5, <1>6, <1>7, <1>8, <1>9 DEF Serve

LEMMA InitSession == Init => SessionInv
<1> SUFFICES ASSUME Init PROVE SessionInv
  OBVIOUS
<1>1. RegisteredIsCurrent
  BY DEF Init, RegisteredIsCurrent, Registered, NoDial
<1> QED
  BY <1>1, InitType DEF Init, SessionInv, NoGhost

\* Every step keeps the invariant.
LEMMA StepSession == SessionInv /\ [Next]_vars => SessionInv'
<1> SUFFICES ASSUME SessionInv, [Next]_vars PROVE RegisteredIsCurrent' /\ NoGhost'
  BY TypePreserved DEF SessionInv
<1> USE DEF storeVars, tokenVars, hubVars, bounds
<1> TypeOK
  BY DEF SessionInv
<1>1. CASE UNCHANGED <<dial, socket, hubVars, admin>>
  BY <1>1 DEF SessionInv, RegisteredIsCurrent, NoGhost, BeingClosed, At
<1>2. CASE DeleteNode
  <2>1. \A d \in Dials : BeingClosed(d) => BeingClosed(d)'
    BY <1>2 DEF DeleteNode, Idle, BeingClosed, At
  <2> QED
    BY <1>2, <2>1 DEF DeleteNode, SessionInv, RegisteredIsCurrent, NoGhost
<1>3. CASE DisconnectNode
  <2>1. \A d \in Dials : BeingClosed(d) \/ connection = d => BeingClosed(d)'
    BY <1>3 DEF DisconnectNode, BeingClosed, At
  <2> QED
    BY <1>3, <2>1 DEF DisconnectNode, SessionInv, RegisteredIsCurrent, NoGhost
<1>4. CASE RevokeNode
  <2>1. admin'.pc = "close" /\ admin'.target = admin.target
    BY <1>4 DEF RevokeNode, TypeOK
  <2>2. \A d \in Dials : BeingClosed(d) => BeingClosed(d)'
    BY <1>4, <2>1 DEF RevokeNode, BeingClosed, At
  <2> QED
    BY <1>4, <2>2 DEF RevokeNode, SessionInv, RegisteredIsCurrent, NoGhost
<1>5. CASE CloseDisconnected
  <2>1. \A d \in Dials : socket'[d] # "closed" /\ BeingClosed(d) => BeingClosed(d)' /\ socket[d] # "closed"
    BY <1>5 DEF CloseDisconnected, BeingClosed, At
  <2>2. \A d \in Dials : socket'[d] # "closed" => socket[d] # "closed"
    BY <1>5 DEF CloseDisconnected
  <2> QED
    BY <1>5, <2>1, <2>2 DEF CloseDisconnected, SessionInv, RegisteredIsCurrent, NoGhost
<1>6. CASE Restart
  <2>1. \A d \in Dials : dial'[d].pc \in {"none", "gone"}
    BY <1>6 DEF Restart, NoDial
  <2> QED
    BY <1>6, <2>1 DEF Restart, RegisteredIsCurrent, Registered, NoGhost
<1> QED
  BY <1>1, <1>2, <1>3, <1>4, <1>5, <1>6, ServeSession
     DEF Next, FinishDeletion, CreateInstallToken, Expire, vars

\* What is served over an open socket is the connection requests are sent to, or it is being closed,
\* and the Handler holds no connection and no session of a goroutine that has ended, whatever
\* dials, ends, replacements, deletions and restarts overlap.
THEOREM ServedCorrect == Spec => []ServedIsRegistered
<1>1. SessionInv => ServedIsRegistered
  BY DEF SessionInv, RegisteredIsCurrent, ServedIsRegistered, Served, Registered
<1> QED
  BY <1>1, InitSession, StepSession, PTL DEF Spec

(* What was taken back is of no use. *)

\* An install token that was exchanged or has expired stays so; only a token completed by its
\* agent, or expired, becomes "gone", and that for good.
TokensOnlyEnd ==
    \A t \in Tokens : /\ install[t] \in {"bound", "gone"} => install'[t] \in {"bound", "gone"}
                      /\ install[t] = "gone" => install'[t] = "gone"

LEMMA TokensEnd == TypeOK /\ [Next]_vars => TokensOnlyEnd
<1> SUFFICES ASSUME TypeOK, [Next]_vars PROVE TokensOnlyEnd
  OBVIOUS
<1> USE DEF TokensOnlyEnd
<1>1. CASE UNCHANGED install
  BY <1>1
<1>2. ASSUME NEW t \in Tokens, CreateInstallToken(t) \/ Expire(t) PROVE TokensOnlyEnd
  BY <1>2 DEF CreateInstallToken, Expire, TypeOK
<1>3. ASSUME NEW c \in Dials, ExchangeInstallToken(c) PROVE TokensOnlyEnd
  <2>1. install[dial[c].cred[2]] \in {"free", "bound"}
    BY <1>3 DEF ExchangeInstallToken, MayAuthenticateInstallToken
  <2> QED
    BY <1>3, <2>1 DEF ExchangeInstallToken, TypeOK
<1>4. ASSUME NEW c \in Dials, CheckCredential(c) PROVE TokensOnlyEnd
  <2>1. \/ install' = install
        \/ install' = [install EXCEPT ![dial[c].token] = IF @ = "bound" THEN "gone" ELSE @]
    BY <1>4 DEF CheckCredential, Completed
  <2> QED
    BY <2>1 DEF TypeOK
<1>5. CASE RevokeNode \/ Restart
  BY <1>5 DEF RevokeNode, Restart, TypeOK
<1> QED
  BY <1>1, <1>2, <1>3, <1>4, <1>5
     DEF Next, Serve, FinishDeletion, vars, tokenVars, Dial, Metrics, PeerLost, DeleteNode, DisconnectNode,
         CloseDisconnected, Hello, RefuseHello, Upsert, AllowNode, Cleanup, StartSession,
         RegisterConnection, ClosePrevious, Ack, AckFails, ReadFails, FinishSession, SetOffline,
         UnregisterConnection

\* What TokenEnds says of one dial
TokenEndsFor(c) ==
    dial[c].persistent =>
        /\ dial[c].cred[1] = "node" /\ dial[c].cred[2] \in Tokens
        /\ install[dial[c].cred[2]] \in {"bound", "gone"}
        /\ dial[c].pc # "hello" => dial[c].token = dial[c].cred[2]
        /\ dial[c].pc \in Credited => install[dial[c].cred[2]] = "gone"

\* A goroutine that keeps its credential keeps what it says of the token.
LEMMA TokenStays ==
    ASSUME TypeOK, TokensOnlyEnd, NEW c \in Dials, TokenEndsFor(c),
           dial'[c].cred = dial[c].cred, dial'[c].persistent = dial[c].persistent,
           dial'[c].token = dial[c].token, dial'[c].pc # "hello" => dial[c].pc # "hello",
           dial'[c].pc \in Credited => dial[c].pc \in Credited
    PROVE  TokenEndsFor(c)'
BY DEF TokenEndsFor, TokensOnlyEnd

\* The token whose node token is stored has been exchanged.
LEMMA PersistedEnds ==
    ASSUME TypeOK, TokensOnlyEnd, persisted # Null => install[persisted] \in {"bound", "gone"},
           [Next]_vars
    PROVE  persisted' # Null => install'[persisted'] \in {"bound", "gone"}
<1>1. CASE persisted' = persisted
  BY <1>1 DEF TypeOK, TokensOnlyEnd
<1>2. ASSUME NEW c \in Dials, ExchangeInstallToken(c), persisted' # persisted
      PROVE  install'[persisted'] = "bound"
  <2>1. dial[c].cred[2] \in Tokens
    BY <1>2, CredentialParts DEF TypeOK, DialState, ExchangeInstallToken, MayAuthenticateInstallToken
  <2> QED
    BY <1>2, <2>1 DEF ExchangeInstallToken, NodeTokenFor, TypeOK
<1>3. CASE persisted' = Null
  BY <1>3
<1>4. ASSUME NEW c \in Dials, Cleanup(c) PROVE persisted' \in {persisted, Null}
  BY <1>4 DEF Cleanup
<1> QED
  BY <1>1, <1>2, <1>3, <1>4
     DEF Next, Serve, FinishDeletion, vars, storeVars, Dial, Metrics, PeerLost, DeleteNode, DisconnectNode,
         CloseDisconnected, Hello, RefuseHello, Upsert, AllowNode, StartSession, CheckCredential,
         RegisterConnection, ClosePrevious, Ack, AckFails, ReadFails, FinishSession, SetOffline,
         UnregisterConnection, CreateInstallToken, Expire, RevokeNode, Restart

\* Every step keeps what is known of the tokens of each dial.
LEMMA DialTokens ==
    ASSUME TypeOK, TypeOK', TokenEnds, TokensOnlyEnd, NEW c \in Dials,
           Serve(c) \/ Dial(c) \/ Metrics(c) \/ PeerLost(c)
    PROVE  \A d \in Dials : TokenEndsFor(d)'
<1> USE DEF storeVars, tokenVars, hubVars, bounds, At
<1>1. \A d \in Dials : TokenEndsFor(d)
  BY DEF TokenEnds, TokenEndsFor
<1>2. ASSUME NEW d \in Dials, d # c, dial'[d] = dial[d] PROVE TokenEndsFor(d)'
  BY <1>1, <1>2, TokenStays
<1>3. CASE Dial(c)
  <2>1. dial'[c].cred \in Credentials
    BY DEF TypeOK, DialState
  <2>2. dial'[c].persistent =>
          /\ dial'[c].cred[1] = "node" /\ dial'[c].cred[2] \in Tokens
          /\ install'[dial'[c].cred[2]] \in {"bound", "gone"} /\ dial'[c].pc = "hello"
    <3>1. install' = install
      BY <1>3 DEF Dial
    <3> QED
      BY <1>3, <2>1, <3>1, DialBegins, CredentialParts, TokensAssumption DEF Persisted, TokenEnds
  <2>3. TokenEndsFor(c)'
    BY <2>2 DEF TokenEndsFor, Credited, Registered
  <2> QED
    BY <1>3, <1>2, <2>3, DialBegins
<1>4. CASE Hello(c)
  <2>1. /\ dial[c].pc = "hello" /\ dial'[c].pc = "upsert" /\ dial'[c].token = dial[c].cred[2]
        /\ dial'[c].cred = dial[c].cred /\ dial'[c].persistent = dial[c].persistent
        /\ install' = install /\ \A d \in Dials : d # c => dial'[d] = dial[d]
    BY <1>4 DEF Hello, TypeOK, DialState
  <2>2. TokenEndsFor(c)'
    BY <1>1, <2>1 DEF TokenEndsFor, Credited, Registered
  <2> QED
    BY <1>2, <2>1, <2>2
<1>5. CASE ExchangeInstallToken(c)
  <2>1. /\ dial[c].cred[1] = "install"
        /\ dial'[c].persistent = dial[c].persistent
        /\ \A d \in Dials : d # c => dial'[d] = dial[d]
    BY <1>5 DEF ExchangeInstallToken, MayAuthenticateInstallToken, TypeOK, DialState
  <2>2. TokenEndsFor(c)'
    BY <1>1, <2>1 DEF TokenEndsFor
  <2> QED
    BY <1>2, <2>1, <2>2
<1>6. CASE RefuseHello(c) \/ Cleanup(c) \/ UnregisterConnection(c)
  <2>1. Refuse(c)
    BY <1>6 DEF RefuseHello, Cleanup, UnregisterConnection
  <2>2. TokenEndsFor(c)'
    BY <2>1, GoneStays DEF TokenEndsFor
  <2> QED
    BY <1>2, <2>1, <2>2, GoneStays
<1>7. CASE CheckCredential(c)
  <2> PICK pc \in {"session", "cleanup"} : Goto(c, pc) /\ (pc = "session" <=> StillValid(c))
    BY <1>7 DEF CheckCredential
  <2>1. TokenEndsFor(c)'
    <3> SUFFICES ASSUME dial'[c].persistent PROVE TokenEndsFor(c)'
      BY DEF TokenEndsFor
    <3>1. /\ dial[c].persistent /\ dial[c].pc = "check" /\ dial'[c].pc = pc
          /\ dial'[c].cred = dial[c].cred /\ dial'[c].token = dial[c].token
      BY <1>7, OthersStay DEF CheckCredential
    <3>2. CASE pc = "cleanup"
      BY <1>1, <3>1, <3>2, OthersStay, TokenStays DEF Credited, Registered
    <3>3. CASE pc = "session"
      <4>1. install' = Completed(dial[c].token)
        BY <1>7, <3>1, <3>3 DEF CheckCredential
      <4>2. /\ dial[c].cred[1] = "node" /\ dial[c].token = dial[c].cred[2] /\ dial[c].token \in Tokens
            /\ install[dial[c].token] \in {"bound", "gone"}
        BY <1>1, <3>1 DEF TokenEndsFor
      <4>3. install'[dial[c].token] = "gone"
        BY <4>1, <4>2 DEF Completed, TypeOK
      <4> QED
        BY <3>1, <4>2, <4>3 DEF TokenEndsFor
    <3> QED
      BY <3>2, <3>3
  <2> QED
    BY <1>2, <2>1, OthersStay
<1>8. CASE RegisterConnection(c)
  <2>1. /\ dial'[c].pc \in Credited /\ dial[c].pc = "register"
        /\ \A d \in Dials : d # c => dial'[d] = dial[d]
    BY <1>8 DEF RegisterConnection, TypeOK, DialState, Credited, Registered
  <2>2. /\ dial'[c].cred = dial[c].cred /\ dial'[c].persistent = dial[c].persistent
        /\ dial'[c].token = dial[c].token
    BY <1>8 DEF RegisterConnection, TypeOK, DialState
  <2>3. TokenEndsFor(c)'
    BY <1>1, <2>1, <2>2, TokenStays DEF Credited
  <2> QED
    BY <1>2, <2>1, <2>3
<1>9. CASE \/ Upsert(c) \/ AllowNode(c) \/ StartSession(c) \/ ClosePrevious(c) \/ Ack(c) \/ AckFails(c)
           \/ ReadFails(c) \/ FinishSession(c) \/ SetOffline(c) \/ (Metrics(c) /\ dial' # dial)
  <2> PICK pc : /\ Goto(c, pc) /\ dial[c].pc # "hello"
                /\ pc \in {"allow", "check", "cleanup", "finish", "offline", "unregister"} \cup Credited
                /\ pc \in Credited => dial[c].pc \in Credited
    BY <1>9 DEF Upsert, AllowNode, StartSession, ClosePrevious, Ack, AckFails, ReadFails, FinishSession,
                SetOffline, Metrics, Credited, Registered
  <2> QED
    BY <1>1, <1>2, OthersStay, TokenStays
<1>10. CASE UNCHANGED dial
  <2> QED
    BY <1>1, <1>10, TokenStays
<1> QED
  BY <1>3, <1>4, <1>5, <1>6, <1>7, <1>8, <1>9, <1>10 DEF Serve, PeerLost

LEMMA InitTokens == Init => TokenInv
<1> SUFFICES ASSUME Init PROVE TokenInv
  OBVIOUS
<1>1. TokenEnds
  BY DEF Init, TokenEnds, NoDial
<1> QED
  BY <1>1, InitType DEF Init, TokenInv, NoResurrection

\* A row is written only by a dial that then asks whether the node was deleted, and it leaves with
\* the row, or when the deletion was lifted.
LEMMA NoResurrectionKept ==
    ASSUME TypeOK, NoResurrection, [Next]_vars, TypeOK'
    PROVE  NoResurrection'
<1> USE DEF NoResurrection, storeVars, tokenVars, hubVars, bounds, At
<1> DEFINE Asks(c) == dial[c].pc \in {"allow", "check", "cleanup"}
<1>1. CASE UNCHANGED <<row, deleted, dial, restarts>>
  BY <1>1
<1>2. CASE Restart
  BY <1>2 DEF Restart, TypeOK
<1>3. CASE DeleteNode
  BY <1>3 DEF DeleteNode
<1>4. ASSUME NEW c \in Dials, Upsert(c) PROVE NoResurrection'
  BY <1>4, OthersStay DEF Upsert
<1>5. ASSUME NEW c \in Dials, AllowNode(c) PROVE NoResurrection'
  <2>1. deleted' => dial'[c].pc = "cleanup"
    BY <1>5, OthersStay DEF AllowNode
  <2> QED
    BY <2>1
<1>6. ASSUME NEW c \in Dials, CheckCredential(c) PROVE NoResurrection'
  <2>1. deleted' => dial'[c].pc = "cleanup"
    BY <1>6, OthersStay DEF CheckCredential, StillValid
  <2> QED
    BY <2>1
<1>7. ASSUME NEW c \in Dials, Cleanup(c) PROVE NoResurrection'
  BY <1>7 DEF Cleanup, RowOfDeleted
<1>8. ASSUME NEW c \in Dials, ~Asks(c), row' = "none" <=> row = "none",
             UNCHANGED <<deleted, restarts>>, \A d \in Dials : d # c => dial'[d] = dial[d]
      PROVE  NoResurrection'
  BY <1>8
<1>9. ASSUME NEW c \in Dials,
             \/ Dial(c) \/ Hello(c) \/ ExchangeInstallToken(c) \/ RefuseHello(c) \/ RegisterConnection(c)
             \/ UnregisterConnection(c) \/ StartSession(c) \/ ClosePrevious(c) \/ Ack(c)
             \/ AckFails(c) \/ ReadFails(c) \/ FinishSession(c) \/ SetOffline(c) \/ Metrics(c)
      PROVE  NoResurrection'
  <2>1. ~Asks(c)
    BY <1>9 DEF Dial, Hello, ExchangeInstallToken, RefuseHello, RegisterConnection, UnregisterConnection,
                StartSession, ClosePrevious, Ack, AckFails, ReadFails, FinishSession, SetOffline, Metrics
  <2>2. row' = "none" <=> row = "none"
    BY <1>9 DEF Dial, Hello, ExchangeInstallToken, RefuseHello, RegisterConnection, UnregisterConnection,
                StartSession, ClosePrevious, Ack, AckFails, ReadFails, FinishSession, SetOffline, Metrics,
                Reported
  <2>3. UNCHANGED <<deleted, restarts>>
    BY <1>9 DEF Dial, Hello, ExchangeInstallToken, RefuseHello, RegisterConnection, UnregisterConnection,
                StartSession, ClosePrevious, Ack, AckFails, ReadFails, FinishSession, SetOffline, Metrics
  <2>4. \A d \in Dials : d # c => dial'[d] = dial[d]
    BY <1>9 DEF TypeOK, Dial, Hello, ExchangeInstallToken, RefuseHello, RegisterConnection, UnregisterConnection,
                StartSession, ClosePrevious, Ack, AckFails, ReadFails, FinishSession, SetOffline, Metrics,
                Goto, Refuse
  <2> QED
    BY <1>8, <2>1, <2>2, <2>3, <2>4
<1> QED
  BY <1>1, <1>2, <1>3, <1>4, <1>5, <1>6, <1>7, <1>9
     DEF Next, Serve, FinishDeletion, vars, PeerLost, DisconnectNode, RevokeNode, CloseDisconnected,
         CreateInstallToken, Expire

\* Every step keeps the invariant.
LEMMA StepTokens == TokenInv /\ [Next]_vars => TokenInv'
<1> SUFFICES ASSUME TokenInv, [Next]_vars PROVE TokenInv'
  OBVIOUS
<1>1. TypeOK /\ TypeOK' /\ TokensOnlyEnd
  BY TypePreserved, TokensEnd DEF TokenInv
<1>2. NoResurrection'
  BY <1>1, NoResurrectionKept DEF TokenInv
<1>3. persisted' # Null => install'[persisted'] \in {"bound", "gone"}
  BY <1>1, PersistedEnds DEF TokenInv, TokenEnds
<1>4. \A d \in Dials : TokenEndsFor(d)'
  <2>1. CASE \E c \in Dials : Serve(c) \/ Dial(c) \/ Metrics(c) \/ PeerLost(c)
    BY <1>1, <2>1, DialTokens DEF TokenInv
  <2>2. CASE Restart
    BY <2>2 DEF Restart, TokenEndsFor, NoDial
  <2>3. CASE UNCHANGED dial
    <3>1. \A d \in Dials : TokenEndsFor(d)
      BY DEF TokenInv, TokenEnds, TokenEndsFor
    <3> QED
      BY <1>1, <2>3, <3>1, TokenStays
  <2> QED
    BY <2>1, <2>2, <2>3
       DEF Next, FinishDeletion, vars, CreateInstallToken, Expire, DeleteNode, DisconnectNode, RevokeNode,
           CloseDisconnected
<1> QED
  BY <1>1, <1>2, <1>3, <1>4 DEF TokenInv, TokenEnds, TokenEndsFor

\* A deleted node gets no row again for longer than the dial that wrote it takes, and the install
\* token of an agent that was authenticated by its own token is of no use to anyone.
THEOREM RevokedCorrect == Spec => []RevokedIsUseless
<1>1. TokenInv => RevokedIsUseless
  BY DEF TokenInv, TokenEnds, RevokedIsUseless, BootstrapEnds, Served, Credited, Registered
<1> QED
  BY <1>1, InitTokens, StepTokens, PTL DEF Spec

(***************************************************************************)
(* The upgrade                                                             *)
(***************************************************************************)

Versions == {Old, New, "none"}
RunType == [at : {"idle", "prepare", "arm", "rename", "restart", "undo", "again"}, mine : BOOLEAN]
StatusType == [stage : {"idle", "preparing", "waiting_reconnect", "completed", "failed"},
               target : Versions]
UsedType == [attempts : Nat, faults : Nat, crashes : Nat, drops : Nat]

\* The machine of the agent; a copy of the executable exists before anything relies on it.
AgentTypes ==
    /\ bin \in {Old, New} /\ proc \in {Old, New} /\ backup \in Versions
    /\ works \in BOOLEAN /\ marker \in BOOLEAN /\ timer \in BOOLEAN
    /\ script \in {"off", "restore", "forget", "restart"} /\ link \in {"down", "greeted", "up"}
    /\ run \in RunType
    /\ backup = "none" => run.at \in {"idle", "prepare"} /\ ~marker /\ script = "off"

\* The Server; a caller that has its answer or still waits for it may start one more timer, so
\* the timers are no more than the attempts.
ServerTypes ==
    /\ status \in StatusType /\ caller \in {"none", "waits", "accepted", "failed"}
    /\ expiries \in Nat /\ upgradeUsed \in UsedType
    /\ upgradeUsed.attempts <= MaxAttempts
    /\ expiries + (IF caller = "none" THEN 0 ELSE 1) <= upgradeUsed.attempts

UpgradeTypes == AgentTypes /\ ServerTypes

\* At most one step of the agent or of systemd has failed.
FewFaults == upgradeUsed.faults <= 1

\* Where Upgrader.run is says what is on the disk: the copy is the version that ran before,
\* and the recovery is armed before the executable is replaced.
RunMeans ==
    /\ run.at # "idle" => proc = Old
    /\ run.at \in {"prepare", "arm", "rename", "again"} => bin = Old
    /\ run.at \in {"arm", "rename", "restart", "undo"} => backup = Old
    /\ run.at \in {"rename", "restart"} => script = "off" /\ (timer \/ excused)
    /\ run.at = "undo" => upgradeUsed.faults = 1

\* What the recovery relies on, wherever the agent is: a timer has a marker and a copy of the
\* old version, and a new one on the disk, which any death of the agent would start, has a timer.
RecoveryReady ==
    /\ marker \/ script # "off" \/ bin = New => backup = Old
    /\ timer => marker /\ script = "off"
    /\ script \in {"forget", "restart"} => bin = Old
    /\ link # "down" => proc = Old \/ works
    /\ proc = Old /\ bin = New => run.at \in {"restart", "undo"}
    /\ (bin = New \/ proc = New) /\ ~works => timer \/ script # "off" \/ excused

UpgradeInv == UpgradeTypes /\ (FewFaults => RunMeans /\ RecoveryReady)

LEMMA VersionsDiffer == Old # New /\ Old # "none" /\ New # "none" /\ MaxAttempts \in Nat
BY UpgradeAssumption

LEMMA TypesMean == UpgradeTypes => UpgradeTypeOK
<1> SUFFICES ASSUME UpgradeTypes PROVE UpgradeTypeOK
  OBVIOUS
<1> USE DEF UpgradeTypes, AgentTypes, ServerTypes
<1>1. {bin, backup, proc} \subseteq {Old, New, "none"} /\ bin # "none" /\ proc # "none"
  BY VersionsDiffer DEF Versions
<1>2. /\ run.at \in {"idle", "prepare", "arm", "rename", "restart", "undo", "again"}
      /\ status.stage \in {"idle", "preparing", "waiting_reconnect", "completed", "failed"}
  BY DEF RunType, StatusType
<1>3. expiries \in 0 .. MaxAttempts
  BY VersionsDiffer DEF UsedType
<1> QED
  BY <1>1, <1>2, <1>3 DEF UpgradeTypeOK

LEMMA InitUpgrade == UpgradeInit => UpgradeInv
<1> SUFFICES ASSUME UpgradeInit PROVE UpgradeInv
  OBVIOUS
<1> USE VersionsDiffer DEF UpgradeInit, NoRun
<1>1. run \in RunType /\ status \in StatusType /\ upgradeUsed \in UsedType
  BY DEF RunType, StatusType, UsedType, Versions
<1>2. AgentTypes
  BY <1>1 DEF AgentTypes, Versions
<1>3. ServerTypes
  BY <1>1 DEF ServerTypes
<1>4. RunMeans /\ RecoveryReady
  BY DEF RunMeans, RecoveryReady
<1> QED
  BY <1>2, <1>3, <1>4 DEF UpgradeInv, UpgradeTypes

\* Where Upgrader.run goes
LEMMA NoRunType == NoRun \in RunType /\ NoRun.at = "idle"
BY DEF NoRun, RunType

LEMMA MovesType ==
    ASSUME run \in RunType, NEW at \in {"arm", "rename", "restart", "undo", "again"}, Moves(at)
    PROVE  run' \in RunType /\ run'.at = at
BY DEF Moves, RunType

LEMMA LostType ==
    ASSUME run \in RunType, run' = [run EXCEPT !.mine = FALSE]
    PROVE  run' \in RunType /\ run'.at = run.at
BY DEF RunType

LEMMA RequestType ==
    ASSUME run' = [at |-> "prepare", mine |-> TRUE]
    PROVE  run' \in RunType /\ run'.at = "prepare"
BY DEF RunType

\* A step of the agent or its machine keeps the types.
LEMMA AgentTypesKept ==
    ASSUME UpgradeTypes, [UpgradeNext]_upgradeVars
    PROVE  AgentTypes'
<1> USE VersionsDiffer, NoRunType DEF UpgradeTypes, AgentTypes, Versions, agentVars, serverVars
<1>1. CASE Ask \/ Answering \/ ReceiveReply \/ UNCHANGED upgradeVars
  BY <1>1 DEF Ask, Answering, TakeReply, AskEnds, ExpireStatus, ReceiveReply, upgradeVars
<1>2. CASE Register
  BY <1>2 DEF Register
<1>3. CASE TakeRequest
  BY <1>3, RequestType DEF TakeRequest
<1>4. CASE Prepare
  BY <1>4, MovesType DEF Prepare, GivesUp
<1>5. CASE Arm
  BY <1>5, MovesType DEF Arm, Armed, GivesUp, Disarm
<1>6. CASE Rename
  BY <1>6, MovesType DEF Rename, GivesUp, Disarm
<1>7. CASE RestartNew
  BY <1>7, MovesType DEF RestartNew, Starts, Loses
<1>8. CASE Undo
  BY <1>8, MovesType DEF Undo, GivesUp, Disarm
<1>9. CASE RestartAgain
  BY <1>9 DEF RestartAgain, Starts, Loses, GivesUp
<1>10. CASE Confirm
  BY <1>10 DEF Confirm, Disarm
<1>11. CASE TimerFires
  BY <1>11 DEF TimerFires
<1>12. CASE ScriptRestores
  BY <1>12 DEF ScriptRestores, ScriptFails
<1>13. CASE ScriptForgets
  BY <1>13 DEF ScriptForgets, ScriptFails, AfterForget
<1>14. CASE ScriptRestarts
  BY <1>14 DEF ScriptRestarts, ScriptFails, Starts, Loses
<1>15. CASE Drop \/ ServerDies
  BY <1>15, LostType DEF Drop, ServerDies, Loses
<1>16. CASE AgentProcessDies
  BY <1>16 DEF AgentProcessDies, Starts, Loses
<1>17. CASE NodeReboots
  BY <1>17 DEF NodeReboots, Starts, Loses
<1> QED
  BY <1>1, <1>2, <1>3, <1>4, <1>5, <1>6, <1>7, <1>8, <1>9, <1>10, <1>11, <1>12, <1>13, <1>14,
     <1>15, <1>16, <1>17 DEF UpgradeNext, Running, RollingBack

\* What is used up only grows.
LEMMA SpendsType ==
    ASSUME upgradeUsed \in UsedType, NEW what \in {"attempts", "faults", "crashes", "drops"},
           NEW limit, Spends(what, limit)
    PROVE  /\ upgradeUsed' \in UsedType
           /\ upgradeUsed'.attempts = IF what = "attempts" THEN upgradeUsed.attempts + 1 ELSE upgradeUsed.attempts
           /\ upgradeUsed'.faults = IF what = "faults" THEN upgradeUsed.faults + 1 ELSE upgradeUsed.faults
<1>1. CASE what = "attempts"
  BY <1>1 DEF Spends, UsedType
<1>2. CASE what = "faults"
  BY <1>2 DEF Spends, UsedType
<1>3. CASE what = "crashes"
  BY <1>3 DEF Spends, UsedType
<1>4. CASE what = "drops"
  BY <1>4 DEF Spends, UsedType
<1> QED
  BY <1>1, <1>2, <1>3, <1>4

\* A step that fails is counted.
LEMMA FaultyCounts ==
    ASSUME upgradeUsed \in UsedType, Faulty
    PROVE  /\ upgradeUsed' \in UsedType /\ upgradeUsed'.attempts = upgradeUsed.attempts
           /\ upgradeUsed'.faults = upgradeUsed.faults + 1
BY SpendsType DEF Faulty

\* Losing the connection answers the caller, if one waits, and starts no timer.
LEMMA LosesType ==
    ASSUME caller \in {"none", "waits", "accepted", "failed"}, Loses
    PROVE  /\ caller' \in {"none", "waits", "accepted", "failed"}
           /\ caller' = "none" <=> caller = "none"
BY DEF Loses

\* The status gets another stage.
LEMMA StageType ==
    ASSUME status \in StatusType
    PROVE  /\ Failed \in StatusType
           /\ [status EXCEPT !.stage = "waiting_reconnect"] \in StatusType
           /\ [status EXCEPT !.stage = "completed"] \in StatusType
           /\ [stage |-> "preparing", target |-> New] \in StatusType
           /\ [stage |-> "idle", target |-> "none"] \in StatusType
BY DEF StatusType, Failed, Versions

\* Every step keeps the types of the Server's part.
LEMMA ServerTypesKept ==
    ASSUME UpgradeTypes, [UpgradeNext]_upgradeVars
    PROVE  ServerTypes'
<1> USE VersionsDiffer, StageType DEF UpgradeTypes, ServerTypes, serverVars, agentVars
<1> DEFINE Used == upgradeUsed' \in UsedType /\ upgradeUsed'.attempts = upgradeUsed.attempts
           Calls == /\ caller' \in {"none", "waits", "accepted", "failed"}
                    /\ caller' # "none" => caller # "none"
<1>1. ASSUME Used, Calls, status' \in StatusType, expiries' = expiries PROVE ServerTypes'
  BY <1>1 DEF UsedType
<1>2. CASE Ask
  <2>1. upgradeUsed' \in UsedType /\ upgradeUsed'.attempts = upgradeUsed.attempts + 1
    BY <1>2, SpendsType DEF Ask
  <2>2. upgradeUsed.attempts < MaxAttempts
    BY <1>2 DEF Ask, Spends
  <2> QED
    BY <1>2, <2>1, <2>2 DEF Ask, UsedType
<1>3. CASE TakeReply
  <2>1. status' \in StatusType
    BY <1>3 DEF TakeReply
  <2>2. expiries' \in {expiries, expiries + 1} /\ caller # "none" /\ caller' = "none"
    BY <1>3 DEF TakeReply, Expiring
  <2> QED
    BY <1>3, <2>1, <2>2 DEF TakeReply, UsedType
<1>4. CASE AskEnds \/ ReceiveReply
  <2>1. status' \in StatusType
    BY <1>4 DEF AskEnds, ReceiveReply
  <2>2. Calls
    BY <1>4 DEF AskEnds, ReceiveReply
  <2> QED
    BY <1>1, <1>4, <2>1, <2>2 DEF AskEnds, ReceiveReply
<1>5. CASE ExpireStatus
  <2>1. status' \in StatusType
    BY <1>5 DEF ExpireStatus
  <2> QED
    BY <1>5, <2>1 DEF ExpireStatus, UsedType
<1>6. CASE Register
  <2>1. status' \in StatusType
    BY <1>6 DEF Register
  <2> QED
    BY <1>1, <1>6, <2>1 DEF Register
<1>7. CASE TakeRequest \/ Prepare \/ Confirm \/ TimerFires \/ UNCHANGED upgradeVars
  BY <1>1, <1>7 DEF TakeRequest, Prepare, Confirm, TimerFires, upgradeVars
<1>8. CASE Arm \/ Rename \/ Undo \/ ScriptRestores \/ ScriptForgets
  <2>1. Used
    BY <1>8, FaultyCounts DEF Arm, Rename, Undo, ScriptRestores, ScriptForgets, ScriptFails
  <2> QED
    BY <1>1, <1>8, <2>1 DEF Arm, Rename, Undo, ScriptRestores, ScriptForgets
<1>9. CASE RestartNew \/ RestartAgain \/ ScriptRestarts
  <2>1. Used
    BY <1>9, FaultyCounts DEF RestartNew, RestartAgain, ScriptRestarts, ScriptFails
  <2>2. Calls
    BY <1>9, LosesType DEF RestartNew, RestartAgain, ScriptRestarts, Starts
  <2> QED
    BY <1>1, <1>9, <2>1, <2>2 DEF RestartNew, RestartAgain, ScriptRestarts
<1>10. CASE Drop \/ AgentProcessDies \/ NodeReboots
  <2>1. Used
    BY <1>10, SpendsType DEF Drop, AgentProcessDies, NodeReboots
  <2>2. Calls
    BY <1>10, LosesType DEF Drop, AgentProcessDies, NodeReboots, Starts
  <2> QED
    BY <1>1, <1>10, <2>1, <2>2 DEF Drop, AgentProcessDies, NodeReboots
<1>11. CASE ServerDies
  <2>1. Used
    BY <1>11, SpendsType DEF ServerDies
  <2> QED
    BY <1>11, <2>1 DEF ServerDies, UsedType
<1> QED
  BY <1>2, <1>3, <1>4, <1>5, <1>6, <1>7, <1>8, <1>9, <1>10, <1>11
     DEF UpgradeNext, Answering, Running, RollingBack

\* Failures are counted and never forgotten.
LEMMA FaultsCounted ==
    ASSUME UpgradeTypes, [UpgradeNext]_upgradeVars
    PROVE  upgradeUsed'.faults \in {upgradeUsed.faults, upgradeUsed.faults + 1}
<1> USE SpendsType, FaultyCounts DEF UpgradeTypes, ServerTypes
<1>1. CASE UNCHANGED upgradeUsed \/ Faulty
  BY <1>1
<1>2. CASE Ask \/ Drop \/ AgentProcessDies \/ NodeReboots \/ ServerDies
  BY <1>2 DEF Ask, Drop, AgentProcessDies, NodeReboots, ServerDies
<1> QED
  BY <1>1, <1>2
     DEF UpgradeNext, Answering, Running, RollingBack, upgradeVars, TakeReply, AskEnds, ExpireStatus,
         ReceiveReply, Register, TakeRequest, Prepare, Arm, Rename, RestartNew, Undo, RestartAgain,
         Confirm, TimerFires, ScriptRestores, ScriptForgets, ScriptRestarts, ScriptFails

\* A process starts from what is on the disk, without a connection and without an upgrade.
LEMMA StartsRecovers ==
    ASSUME UpgradeTypes, RunMeans, RecoveryReady, Starts,
           UNCHANGED <<works, bin, backup, marker, timer, excused>>, script' = script
    PROVE  RunMeans' /\ RecoveryReady'
<1>1. proc' = bin /\ run'.at = "idle" /\ link' = "down"
  BY NoRunType DEF Starts, Loses
<1>2. RunMeans'
  BY <1>1 DEF RunMeans
<1>3. RecoveryReady'
  BY <1>1, VersionsDiffer DEF RecoveryReady
<1> QED
  BY <1>2, <1>3

\* As long as at most one step has failed, each step keeps the way back.
LEMMA RecoveryKept ==
    ASSUME UpgradeTypes, RunMeans, RecoveryReady, FewFaults', [UpgradeNext]_upgradeVars
    PROVE  RunMeans' /\ RecoveryReady'
<1> USE VersionsDiffer, NoRunType DEF UpgradeTypes, AgentTypes, RunMeans, RecoveryReady
<1> DEFINE F == upgradeUsed.faults
<1>1. /\ F \in Nat /\ F' \in {F, F + 1} /\ F' <= 1
      /\ Faulty => F' = F + 1 /\ F = 0
  <2>1. F \in Nat /\ F' \in {F, F + 1} /\ F' <= 1
    BY FaultsCounted DEF ServerTypes, UsedType, FewFaults
  <2>2. Faulty => F' = F + 1
    BY FaultyCounts DEF ServerTypes
  <2> QED
    BY <2>1, <2>2
<1>2. ASSUME UNCHANGED <<works, agentVars, excused, link>>, F' = F PROVE RunMeans' /\ RecoveryReady'
  BY <1>2 DEF agentVars
<1>3. CASE Ask \/ Answering \/ ReceiveReply \/ UNCHANGED upgradeVars
  <2>1. F' = F
    BY <1>3, SpendsType DEF Ask, Answering, TakeReply, AskEnds, ExpireStatus, ReceiveReply, upgradeVars,
                            ServerTypes
  <2> QED
    BY <1>2, <1>3, <2>1 DEF Ask, Answering, TakeReply, AskEnds, ExpireStatus, ReceiveReply, upgradeVars
<1>4. CASE Register
  BY <1>4 DEF Register, agentVars
<1>5. CASE TakeRequest
  BY <1>5, RequestType DEF TakeRequest
<1>6. CASE Prepare
  BY <1>6, MovesType DEF Prepare, GivesUp
<1>7. CASE Arm
  BY <1>7, MovesType DEF Arm, Armed, GivesUp, Disarm
<1>8. CASE Rename
  BY <1>8, MovesType DEF Rename, GivesUp, Disarm
<1>9. CASE RestartNew
  <2>1. CASE Starts /\ UNCHANGED upgradeUsed
    BY <1>9, <2>1, StartsRecovers DEF RestartNew
  <2>2. CASE Faulty /\ Moves("undo") /\ UNCHANGED <<proc, link, replies, caller>>
    BY <1>1, <1>9, <2>2, MovesType DEF RestartNew
  <2> QED
    BY <1>9, <2>1, <2>2 DEF RestartNew
<1>10. CASE Undo
  <2>1. ~Faulty
    BY <1>1, <1>10 DEF Undo
  <2> QED
    BY <1>10, <2>1, MovesType DEF Undo, Disarm
<1>11. CASE RestartAgain
  <2>1. CASE Starts
    BY <1>11, <2>1, StartsRecovers DEF RestartAgain
  <2>2. CASE GivesUp /\ UNCHANGED <<proc, link, caller>>
    BY <1>11, <2>2 DEF RestartAgain, GivesUp
  <2> QED
    BY <1>11, <2>1, <2>2 DEF RestartAgain
<1>12. CASE Confirm
  BY <1>12 DEF Confirm, Disarm
<1>13. CASE TimerFires
  BY <1>13 DEF TimerFires
<1>14. CASE ScriptRestores
  BY <1>1, <1>14 DEF ScriptRestores, ScriptFails
<1>15. CASE ScriptForgets
  BY <1>1, <1>15 DEF ScriptForgets, ScriptFails, AfterForget
<1>16. CASE ScriptRestarts
  <2>1. CASE Starts /\ script' = "off" /\ UNCHANGED <<excused, upgradeUsed>>
    <3>1. proc' = bin /\ run'.at = "idle" /\ link' = "down" /\ bin = Old
      BY <1>16, <2>1 DEF ScriptRestarts, Starts, Loses
    <3> QED
      BY <1>16, <2>1, <3>1 DEF ScriptRestarts
  <2>2. CASE ScriptFails /\ UNCHANGED <<proc, link, run, replies, caller>>
    BY <1>1, <1>16, <2>2 DEF ScriptRestarts, ScriptFails
  <2> QED
    BY <1>16, <2>1, <2>2 DEF ScriptRestarts
<1>17. CASE Drop \/ ServerDies
  <2>1. F' = F
    BY <1>17, SpendsType DEF Drop, ServerDies, ServerTypes
  <2> QED
    BY <1>17, <2>1, LostType DEF Drop, ServerDies, Loses
<1>18. CASE AgentProcessDies
  BY <1>18, StartsRecovers DEF AgentProcessDies
<1>19. CASE NodeReboots
  BY <1>19 DEF NodeReboots, Starts, Loses
<1> QED
  BY <1>3, <1>4, <1>5, <1>6, <1>7, <1>8, <1>9, <1>10, <1>11, <1>12, <1>13, <1>14, <1>15, <1>16, <1>17,
     <1>18, <1>19 DEF UpgradeNext, Running, RollingBack

LEMMA StepUpgrade == UpgradeInv /\ [UpgradeNext]_upgradeVars => UpgradeInv'
<1> SUFFICES ASSUME UpgradeInv, [UpgradeNext]_upgradeVars PROVE UpgradeInv'
  OBVIOUS
<1>1. UpgradeTypes'
  BY AgentTypesKept, ServerTypesKept DEF UpgradeInv, UpgradeTypes
<1>2. FewFaults' => FewFaults
  <2>1. upgradeUsed.faults \in Nat
    BY DEF UpgradeInv, UpgradeTypes, ServerTypes, UsedType
  <2> QED
    BY <2>1, FaultsCounted DEF UpgradeInv, FewFaults
<1>3. FewFaults' => (RunMeans /\ RecoveryReady)'
  BY <1>2, RecoveryKept DEF UpgradeInv
<1> QED
  BY <1>1, <1>3 DEF UpgradeInv

\* As long as at most one step of the agent or of systemd has failed, whatever is lost, dies or is
\* asked for again: while the recovery is armed its copy is the version that ran before, and a
\* version that cannot connect runs only while the recovery is on its way.
THEOREM WayBackCorrect == UpgradeSpec => [](upgradeUsed.faults <= 1 => WayBack)
<1>1. UpgradeInv => (upgradeUsed.faults <= 1 => WayBack)
  BY TypesMean DEF UpgradeInv, FewFaults, RecoveryReady, WayBack
<1> QED
  BY <1>1, InitUpgrade, StepUpgrade, PTL DEF UpgradeSpec

(***************************************************************************)
(* Compose deployments                                                     *)
(***************************************************************************)

FilesType == [dir : BOOLEAN, yaml : Drafts \cup {NoFile}, env : Drafts \cup {NoFile}, meta : Nat]
OperationKinds == {"none", "create", "update", "rollback", "archive", "unwritten"}
Points == {"idle", "revision", "write", "discard", "pull", "up", "restore", "again", "remove", "prune",
           "down", "rename"}
OperationType ==
    [kind : OperationKinds, at : Points, file : 1 .. 3, new : FilesType, old : FilesType,
     cut : BOOLEAN, bad : BOOLEAN]
Outcomes == {"none", "tried", "failed", "deployed", "died"}

ComposeTypes ==
    /\ disk \in [Projects -> FilesType] /\ deploy \in [Projects -> OperationType]
    /\ revs \in [Projects -> [Revisions -> Drafts \cup {NoFile}]]
    /\ services \in [Projects -> Deployed]
    /\ outcome \in [Projects -> [Revisions -> Outcomes]] /\ sure \in [Projects -> BOOLEAN]
    /\ confirmations \subseteq 1 .. MaxPreviews
    /\ previews \in Seq([project : Projects, draft : Drafts])
    /\ composeUsed \in [crashes : Nat, faults : Nat, cuts : Nat]

SameFiles(f, g) == f.yaml = g.yaml /\ f.env = g.env /\ f.meta = g.meta

\* The files before the i-th are those of g, the others those of h.
Between(f, i, g, h) ==
    /\ f.yaml = IF i > 1 THEN g.yaml ELSE h.yaml
    /\ f.env = IF i > 2 THEN g.env ELSE h.env
    /\ f.meta = h.meta

HasFiles(f) == f.yaml # NoFile /\ f.env # NoFile
NoneAbove(p, k) == \A r \in Revisions : r > k => revs[p][r] = NoFile

\* Where an operation is says which files it has replaced or put back.
FilesMean(p) ==
    LET d == deploy[p]
    IN  /\ d.at = "revision" => SameFiles(disk[p], d.old) /\ d.file = 1
        /\ d.at = "write" => Between(disk[p], d.file, d.new, d.old)
        /\ d.at \in {"pull", "up", "prune"} => SameFiles(disk[p], d.new)
        /\ d.at \in {"pull", "up"} => d.file = 1
        /\ d.at = "restore" /\ ~d.bad =>
              /\ d.file > 1 => disk[p].yaml = d.old.yaml
              /\ d.file > 2 => disk[p].env = d.old.env
        /\ d.at \in {"discard", "again", "remove"} /\ ~d.bad => SameFiles(disk[p], d.old)
        /\ d.at \in {"revision", "write", "pull", "up", "prune", "again"} => ~d.bad
        /\ d.at \in {"down", "rename"} => disk[p].meta = d.old.meta
        /\ disk[p].meta \in {d.old.meta, d.new.meta} /\ disk[p].dir

\* What an operation is for: its revision is the next one, and only a new project has
\* nothing to go back to.
OperationMeans(p) ==
    LET d == deploy[p]
    IN  /\ d.new.meta = d.old.meta + 1 /\ HasFiles(d.new)
        /\ d.at \notin {"down", "rename"} => d.new.meta \in Revisions
        /\ d.kind \in {"update", "rollback"} => HasFiles(d.old) /\ d.old.dir
        /\ d.at \in {"revision", "write", "pull", "up"} => d.kind \in {"create", "update", "rollback"}
        /\ d.at = "again" => d.kind \in {"update", "rollback"}
        /\ d.at = "restore" => d.kind \in {"create", "update", "rollback", "unwritten"}
        /\ d.at \in {"write", "pull", "up", "prune"} => revs[p][d.new.meta] = d.new.yaml
        /\ d.bad \/ d.kind = "unwritten" => composeUsed.faults >= 1
        /\ d.bad /\ d.kind = "unwritten" => composeUsed.faults >= 2
        /\ NoneAbove(p, d.new.meta)

ProjectShape(p) ==
    /\ disk[p].meta <= MaxRevision
    /\ Is(p, "idle") => NoneAbove(p, disk[p].meta + 1)
    /\ ~Is(p, "idle") => FilesMean(p) /\ OperationMeans(p)

\* The files belong together and are those of the revision in the metadata.
Whole(f, files) == f.dir /\ f.meta > 0 /\ HasFiles(f) /\ files[f.meta] = f.yaml

\* What was reported is so when nothing is under way, and until then the operation keeps what
\* it needs to make it so again.
ReportHolds(p) ==
    LET d == deploy[p]
    IN  sure[p] =>
        /\ d.at \in {"idle", "revision", "prune", "down"} =>
              Whole(disk[p], revs[p]) /\ services[p] = Config(disk[p])
        /\ d.at \in {"write", "discard", "pull", "up", "restore", "again", "remove"} =>
              Whole(d.old, revs[p]) /\ d.kind # "create" /\ ~d.bad
        /\ d.at \in {"write", "discard", "remove"} \/ (d.at = "restore" /\ d.kind = "unwritten") =>
              services[p] = Config(d.old)
        /\ d.at # "rename" /\ (d.kind = "create" => d.at = "prune")

\* No revision up to k that is kept is that of a deployment that failed.
NoneFailed(p, k) == \A r \in Revisions : r <= k /\ revs[p][r] # NoFile => outcome[p][r] # "failed"

\* The deployment in the metadata did not fail either, so that the next one may make it a
\* candidate; while an operation runs this is about those before it.
FailedForgotten(p) ==
    /\ Is(p, "idle") => NoneFailed(p, disk[p].meta)
    /\ ~Is(p, "idle") => NoneFailed(p, deploy[p].old.meta)
    /\ deploy[p].at \in {"write", "pull", "up"} => outcome[p][deploy[p].new.meta] = "tried"
    /\ deploy[p].at = "prune" => outcome[p][deploy[p].new.meta] = "deployed"

FewFileFailures == composeUsed.faults <= 1

ComposeInv ==
    /\ ComposeTypes
    /\ \A p \in Projects : ProjectShape(p) /\ ReportHolds(p)
    /\ FewFileFailures => \A p \in Projects : FailedForgotten(p)

\* Nothing of another project changes.
Elsewhere(p) ==
    \A q \in Projects \ {p} :
        /\ disk'[q] = disk[q] /\ revs'[q] = revs[q] /\ services'[q] = services[q]
        /\ deploy'[q] = deploy[q] /\ outcome'[q] = outcome[q] /\ sure'[q] = sure[q]

FaultsGrow == composeUsed'.faults \in Nat /\ composeUsed'.faults >= composeUsed.faults

\* A project that does not change means what it meant.
LEMMA SameProject ==
    ASSUME ComposeTypes, NEW q \in Projects, FaultsGrow,
           disk'[q] = disk[q], revs'[q] = revs[q], services'[q] = services[q],
           deploy'[q] = deploy[q], outcome'[q] = outcome[q], sure'[q] = sure[q]
    PROVE  /\ ProjectShape(q) => ProjectShape(q)'
           /\ ReportHolds(q) => ReportHolds(q)'
           /\ FailedForgotten(q) => FailedForgotten(q)'
<1>1. composeUsed.faults \in Nat
  BY DEF ComposeTypes
<1>2. FilesMean(q) => FilesMean(q)'
  BY DEF FilesMean, SameFiles, Between
<1>3. OperationMeans(q) => OperationMeans(q)'
  BY <1>1 DEF OperationMeans, FaultsGrow, HasFiles, NoneAbove
<1>4. ProjectShape(q) => ProjectShape(q)'
  BY <1>2, <1>3 DEF ProjectShape, Is, NoneAbove
<1>5. ReportHolds(q) => ReportHolds(q)'
  BY DEF ReportHolds, Whole, HasFiles, Config
<1>6. FailedForgotten(q) => FailedForgotten(q)'
  BY DEF FailedForgotten, NoneFailed, Is
<1> QED
  BY <1>4, <1>5, <1>6

\* So an operation keeps the invariant when its own project does.
LEMMA OneProject ==
    ASSUME ComposeInv, NEW p \in Projects, Elsewhere(p), FaultsGrow, ComposeTypes',
           ProjectShape(p)', ReportHolds(p)', FewFileFailures' => FailedForgotten(p)'
    PROVE  ComposeInv'
<1>1. ASSUME NEW q \in Projects
      PROVE  /\ ProjectShape(q)' /\ ReportHolds(q)'
             /\ FewFileFailures' => FailedForgotten(q)'
  <2>1. CASE q = p
    BY <2>1
  <2>2. CASE q # p
    <3>1. /\ ProjectShape(q) => ProjectShape(q)'
          /\ ReportHolds(q) => ReportHolds(q)'
          /\ FailedForgotten(q) => FailedForgotten(q)'
      BY <2>2, SameProject DEF ComposeInv, Elsewhere
    <3>2. FewFileFailures' => FewFileFailures
      BY DEF FewFileFailures, FaultsGrow, ComposeInv, ComposeTypes
    <3> QED
      BY <3>1, <3>2 DEF ComposeInv
  <2> QED
    BY <2>1, <2>2
<1> QED
  BY <1>1 DEF ComposeInv

\* The operation moves on: only its point changes.
LEMMA GoesTo ==
    ASSUME ComposeTypes, NEW p \in Projects, NEW at \in Points, Goes(p, at)
    PROVE  /\ deploy' \in [Projects -> OperationType]
           /\ \A q \in Projects \ {p} : deploy'[q] = deploy[q]
           /\ deploy'[p].at = at /\ deploy'[p].kind = deploy[p].kind
           /\ deploy'[p].file = deploy[p].file /\ deploy'[p].new = deploy[p].new
           /\ deploy'[p].old = deploy[p].old /\ deploy'[p].cut = deploy[p].cut
           /\ deploy'[p].bad = deploy[p].bad
BY DEF ComposeTypes, OperationType, Goes

LEMMA FreeType == Free \in OperationType /\ Free.at = "idle"
<1>1. NoDisk \in FilesType
  BY DEF NoDisk, FilesType
<1> QED
  BY <1>1 DEF Free, OperationType, OperationKinds, Points

\* It ends.
LEMMA EndsIt ==
    ASSUME ComposeTypes, NEW p \in Projects, Ends(p)
    PROVE  /\ deploy' \in [Projects -> OperationType]
           /\ \A q \in Projects \ {p} : deploy'[q] = deploy[q]
           /\ deploy'[p] = Free
BY FreeType DEF ComposeTypes, Ends

\* The parts of an operation
LEMMA OperationParts ==
    ASSUME ComposeTypes, NEW p \in Projects
    PROVE  /\ deploy[p].at \in Points /\ deploy[p].file \in 1 .. 3
           /\ deploy[p].new \in FilesType /\ deploy[p].old \in FilesType /\ disk[p] \in FilesType
           /\ deploy[p].new.meta \in Nat /\ deploy[p].old.meta \in Nat /\ disk[p].meta \in Nat
           /\ {deploy[p].cut, deploy[p].bad} \subseteq BOOLEAN
<1>1. deploy[p] \in OperationType /\ disk[p] \in FilesType
  BY DEF ComposeTypes
<1>2. deploy[p].new \in FilesType /\ deploy[p].old \in FilesType
  BY <1>1 DEF OperationType
<1>3. deploy[p].at \in Points /\ deploy[p].file \in 1 .. 3 /\ {deploy[p].cut, deploy[p].bad} \subseteq BOOLEAN
  BY <1>1 DEF OperationType
<1>4. deploy[p].new.meta \in Nat /\ deploy[p].old.meta \in Nat /\ disk[p].meta \in Nat
  BY <1>1, <1>2 DEF FilesType
<1> QED
  BY <1>1, <1>2, <1>3, <1>4

\* An operation on a file fails, or none does.
LEMMA FileFaults ==
    ASSUME ComposeTypes, FileFails \/ UNCHANGED composeUsed
    PROVE  /\ composeUsed' \in [crashes : Nat, faults : Nat, cuts : Nat] /\ FaultsGrow
           /\ FileFails => composeUsed'.faults = composeUsed.faults + 1
           /\ composeUsed.faults \in Nat
BY DEF ComposeTypes, FileFails, FaultsGrow

\* The deployment of a revision is judged.
LEMMA OutcomeIs ==
    ASSUME ComposeTypes, NEW p \in Projects, NEW o \in Outcomes, Outcome(p, o)
    PROVE  /\ outcome' \in [Projects -> [Revisions -> Outcomes]]
           /\ \A q \in Projects \ {p} : outcome'[q] = outcome[q]
           /\ \A r \in Revisions : outcome'[p][r] = IF r = deploy[p].new.meta THEN o ELSE outcome[p][r]
BY DEF ComposeTypes, Outcome

LEMMA PreviewsKeep ==
    ASSUME ComposeInv, NEW p \in Projects, NEW d \in Drafts, Preview(p, d) \/ ExpirePreview
    PROVE  ComposeInv'
<1> USE DEF historyVars
<1>1. FaultsGrow
  BY DEF Preview, ExpirePreview, ComposeInv, ComposeTypes, FaultsGrow
<1>2. ComposeTypes'
  <2>1. CASE Preview(p, d)
    <3>1. Len(previews) + 1 \in 1 .. MaxPreviews
      BY <2>1, ComposeAssumption DEF Preview, ComposeInv, ComposeTypes
    <3>2. confirmations' \subseteq 1 .. MaxPreviews
      BY <2>1, <3>1 DEF Preview, ComposeInv, ComposeTypes, WithoutOldest
    <3>3. previews' \in Seq([project : Projects, draft : Drafts])
      BY <2>1 DEF Preview, ComposeInv, ComposeTypes
    <3> QED
      BY <2>1, <3>2, <3>3 DEF Preview, ComposeInv, ComposeTypes
  <2>2. CASE ExpirePreview
    BY <2>2 DEF ExpirePreview, ComposeInv, ComposeTypes, previewVars, WithoutOldest
  <2> QED
    BY <2>1, <2>2
<1>3. Elsewhere(p)
  BY DEF Elsewhere, Preview, ExpirePreview
<1>4. /\ disk' = disk /\ revs' = revs /\ services' = services /\ deploy' = deploy
      /\ outcome' = outcome /\ sure' = sure /\ composeUsed' = composeUsed
  BY DEF Preview, ExpirePreview
<1>5. ProjectShape(p)' /\ ReportHolds(p)'
  BY <1>1, <1>4, SameProject DEF ComposeInv
<1>6. FewFileFailures' => FailedForgotten(p)'
  BY <1>1, <1>4, SameProject DEF ComposeInv, FewFileFailures
<1> QED
  BY <1>1, <1>2, <1>3, <1>5, <1>6, OneProject

LEMMA ActKeeps ==
    ASSUME ComposeInv, NEW p \in Projects, Act(p)
    PROVE  ComposeInv'
<1>1. /\ disk' = disk /\ revs' = revs /\ deploy' = deploy /\ outcome' = outcome
      /\ composeUsed' = composeUsed /\ confirmations' = confirmations /\ previews' = previews
      /\ Is(p, "idle") /\ Loaded(p)
  BY DEF Act, previewVars
<1>2. FaultsGrow
  BY <1>1 DEF ComposeInv, ComposeTypes, FaultsGrow
<1>3. Config(disk[p]) \in Deployed
  BY <1>1 DEF ComposeInv, ComposeTypes, FilesType, Config, Deployed, Loaded
<1>4. Nothing \in Deployed /\ Partly \in Deployed
  BY DEF Deployed
<1>5. /\ services' \in [Projects -> Deployed] /\ sure' \in [Projects -> BOOLEAN]
      /\ \A q \in Projects \ {p} : services'[q] = services[q] /\ sure'[q] = sure[q]
      /\ sure'[p] => sure[p] /\ (services'[p] = Config(disk[p]))
  <2>1. CASE services' = [services EXCEPT ![p] = Config(disk[p])] /\ UNCHANGED sure
    BY <1>3, <2>1 DEF ComposeInv, ComposeTypes
  <2>2. CASE \E s \in {Nothing, Partly} :
               services' = [services EXCEPT ![p] = s] /\ sure' = [sure EXCEPT ![p] = FALSE]
    <3>1. /\ services' \in [Projects -> Deployed]
          /\ \A q \in Projects \ {p} : services'[q] = services[q]
      BY <1>4, <2>2 DEF ComposeInv, ComposeTypes
    <3>2. sure' = [sure EXCEPT ![p] = FALSE]
      BY <2>2
    <3>3. sure' \in [Projects -> BOOLEAN] /\ ~sure'[p] /\ \A q \in Projects \ {p} : sure'[q] = sure[q]
      BY <3>2 DEF ComposeInv, ComposeTypes
    <3> QED
      BY <3>1, <3>3
  <2> QED
    BY <2>1, <2>2 DEF Act
<1>6. ComposeTypes'
  BY <1>1, <1>5 DEF ComposeInv, ComposeTypes
<1>7. Elsewhere(p)
  BY <1>1, <1>5 DEF Elsewhere
<1>8. ProjectShape(p)'
  BY <1>1 DEF ComposeInv, ProjectShape, Is, NoneAbove
<1>9. ReportHolds(p)'
  <2>1. sure[p] => Whole(disk[p], revs[p]) /\ deploy[p].kind # "create"
    BY <1>1 DEF ComposeInv, ReportHolds, Is
  <2>2. Whole(disk[p], revs[p])' <=> Whole(disk[p], revs[p])
    BY <1>1 DEF Whole, HasFiles
  <2>3. Config(disk[p])' = Config(disk[p])
    BY <1>1 DEF Config
  <2> QED
    BY <1>1, <1>5, <2>1, <2>2, <2>3 DEF ReportHolds, Is
<1>10. FewFileFailures' => FailedForgotten(p)'
  BY <1>1 DEF ComposeInv, FewFileFailures, FailedForgotten, Is, NoneFailed
<1> QED
  BY <1>2, <1>6, <1>7, <1>8, <1>9, <1>10, OneProject

\* An operation takes the lock of its project.
LEMMA OperationStarts ==
    ASSUME ComposeTypes, NEW p \in Projects, NEW kind \in {"create", "update", "rollback", "archive"},
           NEW at \in {"revision", "down"}, NEW yaml \in Drafts \cup {NoFile},
           NEW env \in Drafts \cup {NoFile}, Start(p, kind, at, yaml, env)
    PROVE  /\ deploy' \in [Projects -> OperationType]
           /\ \A q \in Projects \ {p} : deploy'[q] = deploy[q]
           /\ deploy'[p].kind = kind /\ deploy'[p].at = at /\ deploy'[p].file = 1
           /\ deploy'[p].new.yaml = yaml /\ deploy'[p].new.env = env
           /\ deploy'[p].new.meta = disk[p].meta + 1 /\ deploy'[p].old = disk[p]
           /\ deploy'[p].bad = FALSE
<1> DEFINE new == [dir |-> TRUE, yaml |-> yaml, env |-> env, meta |-> disk[p].meta + 1]
<1> DEFINE record == [kind |-> kind, at |-> at, file |-> 1, old |-> disk[p], new |-> new,
                     cut |-> FALSE, bad |-> FALSE]
<1>1. disk[p] \in FilesType /\ disk[p].meta \in Nat
  BY OperationParts
<1>2. /\ new \in FilesType /\ new.yaml = yaml /\ new.env = env /\ new.meta = disk[p].meta + 1
  BY <1>1 DEF FilesType
<1>3. deploy' = [deploy EXCEPT ![p] = record]
  BY DEF Start
<1> HIDE DEF new
<1>5. record \in OperationType
  BY <1>1, <1>2 DEF OperationType, OperationKinds, Points
<1>6. /\ record.kind = kind /\ record.at = at /\ record.file = 1 /\ record.new = new
      /\ record.old = disk[p] /\ record.bad = FALSE
  OBVIOUS
<1> HIDE DEF record
<1>7. deploy'[p] = record /\ deploy' \in [Projects -> OperationType]
  BY <1>3, <1>5 DEF ComposeTypes
<1>8. \A q \in Projects \ {p} : deploy'[q] = deploy[q]
  BY <1>3 DEF ComposeTypes
<1> QED
  BY <1>2, <1>6, <1>7, <1>8

\* A deployment begins: with the files the project has, and the next revision.
LEMMA DeploymentBegins ==
    ASSUME ComposeInv, NEW p \in Projects, NEW kind \in {"create", "update", "rollback"},
           NEW yaml \in Drafts, NEW env \in Drafts, Start(p, kind, "revision", yaml, env),
           Is(p, "idle"), disk[p].meta < MaxRevision,
           kind # "create" => Loaded(p), kind = "create" => ~disk[p].dir,
           disk' = [disk EXCEPT ![p].dir = TRUE],
           UNCHANGED <<revs, services, outcome, sure, composeUsed>>,
           confirmations' \subseteq confirmations, UNCHANGED previews
    PROVE  ComposeInv'
<1>1. ComposeTypes /\ ProjectShape(p) /\ ReportHolds(p)
  BY DEF ComposeInv
<1>2. /\ deploy' \in [Projects -> OperationType]
      /\ \A q \in Projects \ {p} : deploy'[q] = deploy[q]
      /\ deploy'[p].kind = kind /\ deploy'[p].at = "revision" /\ deploy'[p].file = 1
      /\ deploy'[p].new.yaml = yaml /\ deploy'[p].new.env = env
      /\ deploy'[p].new.meta = disk[p].meta + 1 /\ deploy'[p].old = disk[p]
      /\ deploy'[p].bad = FALSE
  <2>1. /\ yaml \in Drafts \cup {NoFile} /\ env \in Drafts \cup {NoFile}
        /\ "revision" \in {"revision", "down"} /\ kind \in {"create", "update", "rollback", "archive"}
    OBVIOUS
  <2> HIDE DEF Start
  <2> QED
    BY <1>1, <2>1, OperationStarts, ZenonT(60)
<1>3. disk[p] \in FilesType /\ disk[p].meta \in Nat
  BY <1>1, OperationParts
<1>4. /\ disk' \in [Projects -> FilesType] /\ disk'[p].dir
      /\ SameFiles(disk'[p], disk[p])
      /\ \A q \in Projects \ {p} : disk'[q] = disk[q]
  BY <1>1 DEF ComposeTypes, FilesType, SameFiles
<1>5. ComposeTypes'
  BY <1>1, <1>2, <1>4 DEF ComposeTypes
<1>6. Elsewhere(p)
  BY <1>2, <1>4 DEF Elsewhere
<1>7. FaultsGrow
  BY <1>1 DEF ComposeTypes, FaultsGrow
<1>8. ProjectShape(p)'
  <2>1. FilesMean(p)'
    BY <1>2, <1>4 DEF FilesMean, SameFiles
  <2>2. disk[p].meta + 1 \in Revisions
    BY <1>3, ComposeAssumption DEF Revisions
  <2>3. NoneAbove(p, disk[p].meta + 1)'
    BY <1>1, <1>4 DEF ProjectShape, NoneAbove, SameFiles
  <2>4. OperationMeans(p)'
    BY <1>2, <2>2, <2>3, ComposeAssumption DEF OperationMeans, HasFiles, Loaded, NoneAbove
  <2>5. disk'[p].meta <= MaxRevision
    BY <1>1, <1>4 DEF ProjectShape, SameFiles
  <2> QED
    BY <1>2, <2>1, <2>4, <2>5 DEF ProjectShape, Is
<1>9. ReportHolds(p)'
  <2> SUFFICES ASSUME sure'[p] PROVE ReportHolds(p)'
    BY DEF ReportHolds
  <2>1. Whole(disk[p], revs[p]) /\ services[p] = Config(disk[p])
    BY <1>1 DEF ReportHolds, Is
  <2>2. Whole(disk[p], revs[p])'
    BY <1>4, <2>1 DEF Whole, SameFiles, HasFiles
  <2>3. services'[p] = Config(disk[p])'
    BY <1>4, <2>1 DEF Config, SameFiles
  <2>4. kind # "create"
    BY <2>1 DEF Whole
  <2> QED
    BY <1>2, <2>2, <2>3, <2>4 DEF ReportHolds
<1>10. FewFileFailures' => FailedForgotten(p)'
  <2>1. FewFileFailures' => NoneFailed(p, disk[p].meta)
    BY DEF ComposeInv, FewFileFailures, FailedForgotten
  <2>2. NoneFailed(p, disk[p].meta) => NoneFailed(p, disk[p].meta)'
    BY <1>4 DEF NoneFailed, SameFiles
  <2>3. deploy'[p].old.meta = disk'[p].meta
    BY <1>2, <1>4 DEF SameFiles
  <2> QED
    BY <1>2, <2>1, <2>2, <2>3 DEF FailedForgotten, Is, NoneFailed
<1> QED
  BY <1>5, <1>6, <1>7, <1>8, <1>9, <1>10, OneProject

LEMMA ApplyKeeps ==
    ASSUME ComposeInv, NEW p \in Projects, NEW d \in Drafts, NEW k, Apply(p, d, k)
    PROVE  ComposeInv'
<1>1. /\ Is(p, "idle") /\ disk[p].meta < MaxRevision
      /\ UNCHANGED <<revs, services, outcome, sure, composeUsed>>
      /\ confirmations' \subseteq confirmations /\ UNCHANGED previews
  BY DEF Apply, Consumed, historyVars
<1>2. CASE Loaded(p)
  <2>1. Start(p, "update", "revision", d, d) /\ disk' = [disk EXCEPT ![p].dir = TRUE]
    BY <1>2 DEF Apply
  <2> HIDE DEF Start, Loaded, Is
  <2> QED
    BY <1>1, <1>2, <2>1, DeploymentBegins
<1>3. CASE ~Loaded(p) /\ ~disk[p].dir
  <2>1. Start(p, "create", "revision", d, d) /\ disk' = [disk EXCEPT ![p].dir = TRUE]
    BY <1>3 DEF Apply
  <2> HIDE DEF Start, Loaded, Is
  <2> QED
    BY <1>1, <1>3, <2>1, DeploymentBegins
<1>4. CASE ~Loaded(p) /\ disk[p].dir
  <2>1. UNCHANGED <<disk, deploy>>
    BY <1>4 DEF Apply
  <2>2. Elsewhere(p) /\ FaultsGrow /\ ComposeTypes'
    BY <1>1, <2>1 DEF Elsewhere, FaultsGrow, ComposeInv, ComposeTypes
  <2>3. ProjectShape(p)' /\ ReportHolds(p)'
    BY <1>1, <2>1, <2>2, SameProject DEF ComposeInv
  <2>4. FewFileFailures' => FailedForgotten(p)'
    BY <1>1, <2>1, <2>2, SameProject DEF ComposeInv, FewFileFailures
  <2> QED
    BY <2>2, <2>3, <2>4, OneProject
<1> QED
  BY <1>2, <1>3, <1>4

\* A set of revisions that is not empty has a last one.
LEMMA LatestIsOne ==
    ASSUME NEW S \in SUBSET Revisions, S # {}
    PROVE  Latest(S) \in S
<1> DEFINE Below(n) == \A r \in S : r <= n
<1>1. MaxRevision \in Nat
  BY ComposeAssumption
<1>2. S \subseteq Nat /\ Below(MaxRevision)
  BY <1>1 DEF Revisions
<1>3. PICK n \in Nat : Below(n) /\ \A m \in Nat : m < n => ~Below(m)
  <2> DEFINE Bounds == {n \in Nat : Below(n)}
  <2>1. MaxRevision \in Bounds
    BY <1>1, <1>2
  <2>2. PICK n \in Bounds : \A m \in Bounds : ~(<<m, n>> \in OpToRel(<, Nat))
    BY <2>1, WFMin, NatLessThanWellFounded
  <2> QED
    BY <2>2 DEF OpToRel
<1>4. n \in S
  <2>1. PICK r \in S : TRUE
    OBVIOUS
  <2>2. SUFFICES ASSUME n \notin S PROVE FALSE
    OBVIOUS
  <2>3. \A q \in S : q <= n - 1
    BY <1>2, <1>3, <2>2
  <2>4. n - 1 \in Nat
    BY <1>2, <1>3, <2>1, <2>3
  <2> QED
    BY <1>3, <2>3, <2>4
<1>5. \E r \in S : \A q \in S : q <= r
  BY <1>3, <1>4
<1> QED
  BY <1>5 DEF Latest

LEMMA RollbackKeeps ==
    ASSUME ComposeInv, NEW p \in Projects, Rollback(p)
    PROVE  ComposeInv'
<1>1. /\ Is(p, "idle") /\ Loaded(p) /\ Candidates(p) # {} /\ disk[p].meta < MaxRevision
      /\ Start(p, "rollback", "revision", revs[p][Latest(Candidates(p))], disk[p].env)
      /\ UNCHANGED <<disk, revs, services, outcome, sure, composeUsed, confirmations, previews>>
  BY DEF Rollback, previewVars, historyVars
<1>2. Latest(Candidates(p)) \in Candidates(p)
  BY <1>1, LatestIsOne DEF Candidates
<1>3. revs[p][Latest(Candidates(p))] \in Drafts
  BY <1>2 DEF Candidates, ComposeInv, ComposeTypes
<1>4. disk[p] \in FilesType
  BY DEF ComposeInv, ComposeTypes
<1>5. disk[p].env \in Drafts
  BY <1>1, <1>4 DEF FilesType, Loaded
<1>6. disk' = [disk EXCEPT ![p].dir = TRUE]
  BY <1>1 DEF Loaded, ComposeInv, ComposeTypes, FilesType
<1> HIDE DEF Start, Loaded, Is
<1> QED
  BY <1>1, <1>3, <1>5, <1>6, DeploymentBegins

LEMMA ArchiveKeeps ==
    ASSUME ComposeInv, NEW p \in Projects, Archive(p)
    PROVE  ComposeInv'
<1>1. /\ Is(p, "idle") /\ Loaded(p)
      /\ Start(p, "archive", "down", disk[p].yaml, disk[p].env)
      /\ UNCHANGED <<disk, revs, services, outcome, sure, composeUsed, confirmations, previews>>
      /\ ComposeTypes /\ ProjectShape(p) /\ ReportHolds(p)
  BY DEF Archive, previewVars, historyVars, ComposeInv
<1>2. disk[p] \in FilesType /\ disk[p].meta \in Nat
  BY <1>1, OperationParts
<1>3. disk[p].yaml \in Drafts \cup {NoFile} /\ disk[p].env \in Drafts \cup {NoFile}
  BY <1>2 DEF FilesType
<1>4. /\ deploy' \in [Projects -> OperationType]
      /\ \A q \in Projects \ {p} : deploy'[q] = deploy[q]
      /\ deploy'[p].kind = "archive" /\ deploy'[p].at = "down" /\ deploy'[p].file = 1
      /\ deploy'[p].new.yaml = disk[p].yaml /\ deploy'[p].new.env = disk[p].env
      /\ deploy'[p].new.meta = disk[p].meta + 1 /\ deploy'[p].old = disk[p]
      /\ deploy'[p].bad = FALSE
  <2>1. /\ "down" \in {"revision", "down"} /\ "archive" \in {"create", "update", "rollback", "archive"}
        /\ Start(p, "archive", "down", disk[p].yaml, disk[p].env) /\ ComposeTypes
    BY <1>1
  <2>2. PICK yaml \in Drafts \cup {NoFile}, env \in Drafts \cup {NoFile} :
          yaml = disk[p].yaml /\ env = disk[p].env
    BY <1>3
  <2>3. Start(p, "archive", "down", yaml, env)
    BY <2>1, <2>2
  <2> QED
    BY <2>1, <2>2, <2>3, OperationStarts, ZenonT(60)
<1>5. ComposeTypes' /\ Elsewhere(p) /\ FaultsGrow
  BY <1>1, <1>4 DEF ComposeTypes, Elsewhere, FaultsGrow
<1>6. ProjectShape(p)'
  <2>1. FilesMean(p)'
    BY <1>1, <1>4 DEF FilesMean, Loaded
  <2>2. OperationMeans(p)'
    BY <1>1, <1>2, <1>4 DEF OperationMeans, HasFiles, Loaded, ProjectShape, NoneAbove
  <2> QED
    BY <1>1, <1>4, <2>1, <2>2 DEF ProjectShape, Is
<1>7. ReportHolds(p)'
  BY <1>1, <1>4 DEF ReportHolds, Is, Whole, HasFiles, Config
<1>8. FewFileFailures' => FailedForgotten(p)'
  BY <1>1, <1>4 DEF ComposeInv, FewFileFailures, FailedForgotten, Is, NoneFailed
<1> QED
  BY <1>5, <1>6, <1>7, <1>8, OneProject

\* A file of a project is replaced.
LEMMA ReplacedIs ==
    ASSUME NEW f \in FilesType, NEW i \in 1 .. 3, NEW g \in FilesType
    PROVE  /\ Replaced(f, i, g) \in FilesType
           /\ Replaced(f, i, g).dir = f.dir
           /\ Replaced(f, i, g).yaml = IF i = 1 THEN g.yaml ELSE f.yaml
           /\ Replaced(f, i, g).env = IF i = 2 THEN g.env ELSE f.env
           /\ Replaced(f, i, g).meta = IF i = 3 THEN g.meta ELSE f.meta
<1>1. Replaced(f, i, g) \in FilesType
  BY DEF Replaced, FilesType
<1> QED
  BY <1>1 DEF Replaced

LEMMA WriteRevisionKeeps ==
    ASSUME ComposeInv, NEW p \in Projects, WriteRevision(p)
    PROVE  ComposeInv'
<1> DEFINE new == deploy[p].new
<1>1. /\ Is(p, "revision") /\ ComposeTypes /\ ProjectShape(p) /\ ReportHolds(p)
      /\ UNCHANGED <<disk, services, sure, confirmations, previews>>
  BY DEF WriteRevision, ComposeInv, previewVars
<1>2. FilesMean(p) /\ OperationMeans(p) /\ disk[p].meta <= MaxRevision
  BY <1>1 DEF ProjectShape, Is
<1>3. /\ SameFiles(disk[p], deploy[p].old) /\ deploy[p].file = 1 /\ disk[p].dir /\ ~deploy[p].bad
      /\ new.meta = deploy[p].old.meta + 1 /\ new.meta \in Revisions /\ HasFiles(new)
      /\ deploy[p].kind \in {"update", "rollback"} => HasFiles(deploy[p].old) /\ deploy[p].old.dir
      /\ deploy[p].kind \in {"create", "update", "rollback"}
      /\ NoneAbove(p, new.meta)
  BY <1>1, <1>2 DEF FilesMean, OperationMeans, Is
<1>4. /\ new \in FilesType /\ new.meta \in Nat /\ deploy[p].old.meta \in Nat /\ disk[p].meta \in Nat
      /\ disk[p].meta = deploy[p].old.meta
  BY <1>1, <1>3, OperationParts DEF SameFiles
<1>5. composeUsed.faults \in Nat
  BY <1>1 DEF ComposeTypes
<1>6. CASE /\ revs' = [revs EXCEPT ![p][new.meta] = new.yaml]
           /\ Outcome(p, "tried") /\ Goes(p, "write") /\ UNCHANGED composeUsed
  <2>1. /\ deploy' \in [Projects -> OperationType]
        /\ \A q \in Projects \ {p} : deploy'[q] = deploy[q]
        /\ deploy'[p].at = "write" /\ deploy'[p].kind = deploy[p].kind
        /\ deploy'[p].file = deploy[p].file /\ deploy'[p].new = new
        /\ deploy'[p].old = deploy[p].old /\ deploy'[p].bad = deploy[p].bad
    BY <1>1, <1>6, GoesTo DEF Points
  <2>2. /\ outcome' \in [Projects -> [Revisions -> Outcomes]]
        /\ \A q \in Projects \ {p} : outcome'[q] = outcome[q]
        /\ \A r \in Revisions : outcome'[p][r] = IF r = new.meta THEN "tried" ELSE outcome[p][r]
    BY <1>1, <1>6, OutcomeIs DEF Outcomes
  <2>3. /\ revs' \in [Projects -> [Revisions -> Drafts \cup {NoFile}]]
        /\ \A q \in Projects \ {p} : revs'[q] = revs[q]
        /\ \A r \in Revisions : revs'[p][r] = IF r = new.meta THEN new.yaml ELSE revs[p][r]
    BY <1>1, <1>4, <1>6 DEF ComposeTypes, FilesType
  <2>4. ComposeTypes' /\ Elsewhere(p) /\ FaultsGrow
    BY <1>1, <1>5, <1>6, <2>1, <2>2, <2>3 DEF ComposeTypes, Elsewhere, FaultsGrow
  <2>5. ProjectShape(p)'
    <3>1. FilesMean(p)'
      BY <1>1, <1>3, <2>1 DEF FilesMean, SameFiles, Between
    <3>3. NoneAbove(p, new.meta)'
      BY <1>3, <1>4, <2>1, <2>3 DEF NoneAbove, Revisions
    <3>4. OperationMeans(p)'
      BY <1>3, <2>1, <2>3, <3>3 DEF OperationMeans, HasFiles, NoneAbove
    <3> QED
      BY <1>1, <1>2, <2>1, <3>1, <3>4 DEF ProjectShape, Is
  <2>6. ReportHolds(p)'
    <3> SUFFICES ASSUME sure'[p] PROVE ReportHolds(p)'
      BY DEF ReportHolds
    <3>1. /\ Whole(disk[p], revs[p]) /\ services[p] = Config(disk[p])
          /\ deploy[p].kind # "create"
      BY <1>1 DEF ReportHolds, Is
    <3>2. Whole(deploy[p].old, revs'[p])
      <4>1. deploy[p].old.meta \in Revisions /\ deploy[p].old.meta # new.meta
        BY <1>2, <1>3, <1>4, <3>1 DEF Whole, Revisions
      <4>2. disk[p].dir /\ disk[p].meta > 0
        BY <3>1 DEF Whole
      <4>3. revs'[p][deploy[p].old.meta] = revs[p][disk[p].meta]
        BY <1>4, <2>3, <4>1
      <4> QED
        BY <1>3, <1>4, <3>1, <4>2, <4>3 DEF Whole, SameFiles, HasFiles
    <3> QED
      BY <1>1, <1>3, <2>1, <3>1, <3>2 DEF ReportHolds, Config, SameFiles, Whole, HasFiles
  <2>7. FewFileFailures' => FailedForgotten(p)'
    <3>1. FewFileFailures' => NoneFailed(p, deploy[p].old.meta)
      BY <1>1, <1>6 DEF ComposeInv, FewFileFailures, FailedForgotten, Is
    <3>2. NoneFailed(p, deploy[p].old.meta) => NoneFailed(p, deploy[p].old.meta)'
      BY <1>3, <1>4, <2>1, <2>2, <2>3 DEF NoneFailed, Revisions
    <3> QED
      BY <1>3, <2>1, <2>2, <3>1, <3>2 DEF FailedForgotten, Is, NoneFailed
  <2> QED
    BY <2>4, <2>5, <2>6, <2>7, OneProject
<1>7. CASE FileFails /\ Ends(p) /\ UNCHANGED <<revs, outcome>>
  <2>1. /\ deploy' \in [Projects -> OperationType]
        /\ \A q \in Projects \ {p} : deploy'[q] = deploy[q]
        /\ deploy'[p] = Free
    BY <1>1, <1>7, EndsIt
  <2>2. ComposeTypes' /\ Elsewhere(p) /\ FaultsGrow
    BY <1>1, <1>7, <2>1, FileFaults DEF ComposeTypes, Elsewhere
  <2>3. ProjectShape(p)'
    BY <1>1, <1>2, <1>3, <1>4, <1>7, <2>1, FreeType DEF ProjectShape, Is, NoneAbove
  <2>4. ReportHolds(p)'
    BY <1>1, <1>7, <2>1, FreeType DEF ReportHolds, Is, Free, Whole, HasFiles, Config
  <2>5. FewFileFailures' => FailedForgotten(p)'
    <3>1. FewFileFailures' => FewFileFailures
      BY <1>1, <2>2 DEF FewFileFailures, FaultsGrow, ComposeTypes
    <3>2. FewFileFailures' => NoneFailed(p, disk[p].meta)
      BY <1>1, <1>4, <3>1 DEF ComposeInv, FailedForgotten, Is
    <3> QED
      BY <1>1, <1>7, <2>1, <3>2, FreeType DEF FailedForgotten, Is, NoneFailed
  <2> QED
    BY <2>2, <2>3, <2>4, <2>5, OneProject
<1> QED
  BY <1>6, <1>7 DEF WriteRevision

\* An operation stays one when some of its parts change.
LEMMA FileAndPoint ==
    ASSUME NEW f \in [Projects -> OperationType], NEW p \in Projects, NEW g,
           NEW at \in Points, NEW file \in 1 .. 3, g = [f EXCEPT ![p].at = at, ![p].file = file]
    PROVE  g \in [Projects -> OperationType]
BY DEF OperationType

LEMMA FileAndBad ==
    ASSUME NEW f \in [Projects -> OperationType], NEW p \in Projects, NEW g,
           NEW bad \in BOOLEAN, NEW file \in 1 .. 3, g = [f EXCEPT ![p].file = file, ![p].bad = bad]
    PROVE  g \in [Projects -> OperationType]
BY DEF OperationType

LEMMA OnlyKind ==
    ASSUME NEW f \in [Projects -> OperationType], NEW p \in Projects, NEW g,
           NEW kind \in OperationKinds, g = [f EXCEPT ![p].kind = kind]
    PROVE  g \in [Projects -> OperationType]
BY DEF OperationType

LEMMA OnlyPoint ==
    ASSUME NEW f \in [Projects -> OperationType], NEW p \in Projects, NEW g,
           NEW at \in Points, g = [f EXCEPT ![p].at = at]
    PROVE  g \in [Projects -> OperationType]
BY DEF OperationType

\* It goes on with another file.
LEMMA NextFile ==
    ASSUME ComposeTypes, NEW p \in Projects, NEW at \in Points, NEW file \in 1 .. 3,
           deploy' = [deploy EXCEPT ![p].file = file, ![p].at = at]
    PROVE  /\ deploy' \in [Projects -> OperationType]
           /\ \A q \in Projects \ {p} : deploy'[q] = deploy[q]
           /\ deploy'[p].at = at /\ deploy'[p].kind = deploy[p].kind /\ deploy'[p].file = file
           /\ deploy'[p].new = deploy[p].new /\ deploy'[p].old = deploy[p].old
           /\ deploy'[p].bad = deploy[p].bad
<1>1. deploy \in [Projects -> OperationType]
  BY DEF ComposeTypes
<1>2. deploy' \in [Projects -> OperationType]
  BY <1>1 DEF OperationType
<1>3. \A q \in Projects \ {p} : deploy'[q] = deploy[q]
  BY <1>1
<1>4. /\ deploy'[p].at = at /\ deploy'[p].kind = deploy[p].kind /\ deploy'[p].file = file
      /\ deploy'[p].new = deploy[p].new /\ deploy'[p].old = deploy[p].old
      /\ deploy'[p].bad = deploy[p].bad
  BY <1>1 DEF OperationType
<1> QED
  BY <1>2, <1>3, <1>4

\* It gives up before a command was run.
LEMMA StopsWriting ==
    ASSUME ComposeTypes, NEW p \in Projects, NEW at \in Points,
           deploy' = [deploy EXCEPT ![p].at = at, ![p].file = 1, ![p].kind = "unwritten"]
    PROVE  /\ deploy' \in [Projects -> OperationType]
           /\ \A q \in Projects \ {p} : deploy'[q] = deploy[q]
           /\ deploy'[p].at = at /\ deploy'[p].kind = "unwritten" /\ deploy'[p].file = 1
           /\ deploy'[p].new = deploy[p].new /\ deploy'[p].old = deploy[p].old
           /\ deploy'[p].bad = deploy[p].bad
<1>1. deploy \in [Projects -> OperationType]
  BY DEF ComposeTypes
<1>2. deploy' \in [Projects -> OperationType]
  <2>1. PICK kind \in OperationKinds, file \in 1 .. 3 : kind = "unwritten" /\ file = 1
    BY DEF OperationKinds
  <2>2. PICK moved : moved = [deploy EXCEPT ![p].at = at, ![p].file = file]
    OBVIOUS
  <2>3. deploy' = [moved EXCEPT ![p].kind = kind]
    BY <2>1, <2>2
  <2>4. moved \in [Projects -> OperationType]
    BY <1>1, <2>2, FileAndPoint
  <2> QED
    BY <2>3, <2>4, OnlyKind
<1>3. \A q \in Projects \ {p} : deploy'[q] = deploy[q]
  BY <1>1
<1>4. /\ deploy'[p].at = at /\ deploy'[p].kind = "unwritten" /\ deploy'[p].file = 1
      /\ deploy'[p].new = deploy[p].new /\ deploy'[p].old = deploy[p].old
      /\ deploy'[p].bad = deploy[p].bad
  BY <1>1 DEF OperationType
<1> QED
  BY <1>2, <1>3, <1>4

\* It goes on with another file, and knows whether one failed.
LEMMA NextRestored ==
    ASSUME ComposeTypes, NEW p \in Projects, NEW at \in Points, NEW file \in 1 .. 3, NEW bad \in BOOLEAN,
           deploy' = [deploy EXCEPT ![p].file = file, ![p].bad = bad, ![p].at = at]
    PROVE  /\ deploy' \in [Projects -> OperationType]
           /\ \A q \in Projects \ {p} : deploy'[q] = deploy[q]
           /\ deploy'[p].at = at /\ deploy'[p].kind = deploy[p].kind /\ deploy'[p].file = file
           /\ deploy'[p].new = deploy[p].new /\ deploy'[p].old = deploy[p].old
           /\ deploy'[p].bad = bad
<1>1. deploy \in [Projects -> OperationType]
  BY DEF ComposeTypes
<1>2. deploy' \in [Projects -> OperationType]
  <2>1. PICK moved : moved = [deploy EXCEPT ![p].file = file, ![p].bad = bad]
    OBVIOUS
  <2>2. deploy' = [moved EXCEPT ![p].at = at]
    BY <2>1
  <2>3. moved \in [Projects -> OperationType]
    BY <1>1, <2>1, FileAndBad
  <2> QED
    BY <2>2, <2>3, OnlyPoint
<1>3. \A q \in Projects \ {p} : deploy'[q] = deploy[q]
  BY <1>1
<1>4. /\ deploy'[p].at = at /\ deploy'[p].kind = deploy[p].kind /\ deploy'[p].file = file
      /\ deploy'[p].new = deploy[p].new /\ deploy'[p].old = deploy[p].old
      /\ deploy'[p].bad = bad
  BY <1>1 DEF OperationType
<1> QED
  BY <1>2, <1>3, <1>4

LEMMA WriteFileKeeps ==
    ASSUME ComposeInv, NEW p \in Projects, WriteFile(p)
    PROVE  ComposeInv'
<1> DEFINE new == deploy[p].new
<1> DEFINE old == deploy[p].old
<1> DEFINE i == deploy[p].file
<1>1. /\ Is(p, "write") /\ ComposeTypes /\ ProjectShape(p) /\ ReportHolds(p)
      /\ UNCHANGED <<revs, services, sure, confirmations, previews>>
  BY DEF WriteFile, ComposeInv, previewVars
<1>2. FilesMean(p) /\ OperationMeans(p) /\ disk[p].meta <= MaxRevision
  BY <1>1 DEF ProjectShape, Is
<1>3. /\ Between(disk[p], i, new, old) /\ disk[p].dir /\ ~deploy[p].bad
      /\ new.meta = old.meta + 1 /\ new.meta \in Revisions /\ HasFiles(new)
      /\ deploy[p].kind \in {"update", "rollback"} => HasFiles(old) /\ old.dir
      /\ deploy[p].kind \in {"create", "update", "rollback"}
      /\ revs[p][new.meta] = new.yaml /\ NoneAbove(p, new.meta)
  BY <1>1, <1>2 DEF FilesMean, OperationMeans, Is
<1>4. /\ new \in FilesType /\ new.meta \in Nat /\ old.meta \in Nat /\ disk[p].meta \in Nat
      /\ i \in 1 .. 3
  BY <1>1, OperationParts
<1>5. composeUsed.faults \in Nat
  BY <1>1 DEF ComposeTypes
<1>6. sure[p] => /\ Whole(old, revs[p]) /\ deploy[p].kind # "create"
                 /\ services[p] = Config(old)
  BY <1>1 DEF ReportHolds, Is
<1>7. FewFileFailures => /\ NoneFailed(p, old.meta) /\ outcome[p][new.meta] = "tried"
  BY <1>1 DEF ComposeInv, FailedForgotten, Is
<1>8. ASSUME NEW command \in {"pull", "up"},
             disk' = [disk EXCEPT ![p] = Replaced(@, i, new)],
             deploy' = [deploy EXCEPT ![p].file = IF i < 3 THEN i + 1 ELSE 1,
                                      ![p].at = IF i < 3 THEN "write" ELSE command],
             UNCHANGED <<outcome, composeUsed>>
      PROVE  ComposeInv'
  <2>1. PICK at \in Points, file \in 1 .. 3 :
          /\ at = IF i < 3 THEN "write" ELSE command
          /\ file = IF i < 3 THEN i + 1 ELSE 1
    BY <1>4 DEF Points
  <2>2. deploy' = [deploy EXCEPT ![p].file = file, ![p].at = at]
    BY <1>8, <2>1
  <2>3. /\ deploy' \in [Projects -> OperationType]
        /\ \A q \in Projects \ {p} : deploy'[q] = deploy[q]
        /\ deploy'[p].at = at /\ deploy'[p].kind = deploy[p].kind /\ deploy'[p].file = file
        /\ deploy'[p].new = new /\ deploy'[p].old = old /\ deploy'[p].bad = deploy[p].bad
    BY <1>1, <2>2, NextFile
  <2>4. /\ disk' \in [Projects -> FilesType]
        /\ \A q \in Projects \ {p} : disk'[q] = disk[q]
        /\ disk'[p].dir = disk[p].dir
        /\ disk'[p].yaml = IF i = 1 THEN new.yaml ELSE disk[p].yaml
        /\ disk'[p].env = IF i = 2 THEN new.env ELSE disk[p].env
        /\ disk'[p].meta = IF i = 3 THEN new.meta ELSE disk[p].meta
    <3>1. PICK f : f = Replaced(disk[p], i, new) /\ disk' = [disk EXCEPT ![p] = f]
      BY <1>8
    <3>2. disk \in [Projects -> FilesType]
      BY <1>1 DEF ComposeTypes
    <3>3. /\ f \in FilesType
          /\ f.dir = disk[p].dir
          /\ f.yaml = IF i = 1 THEN new.yaml ELSE disk[p].yaml
          /\ f.env = IF i = 2 THEN new.env ELSE disk[p].env
          /\ f.meta = IF i = 3 THEN new.meta ELSE disk[p].meta
      BY <1>4, <3>1, <3>2, ReplacedIs
    <3> QED
      BY <3>1, <3>2, <3>3
  <2>5. ComposeTypes' /\ Elsewhere(p) /\ FaultsGrow
    BY <1>1, <1>5, <1>8, <2>3, <2>4 DEF ComposeTypes, Elsewhere, FaultsGrow
  <2>6. i = 1 \/ i = 2 \/ i = 3
    BY <1>4
  <2>7. ProjectShape(p)'
    <3>1. i < 3 => at = "write" /\ Between(disk'[p], file, new, old)
      BY <1>3, <2>1, <2>4, <2>6 DEF Between
    <3>2. i = 3 => at \in {"pull", "up"} /\ file = 1 /\ SameFiles(disk'[p], new)
      BY <1>3, <2>1, <2>4 DEF Between, SameFiles
    <3>3. disk'[p].meta \in {old.meta, new.meta} /\ disk'[p].meta <= MaxRevision
      BY <1>2, <1>3, <2>4, ComposeAssumption DEF Between, Revisions
    <3>4. FilesMean(p)'
      BY <1>3, <2>3, <2>4, <2>6, <3>1, <3>2, <3>3 DEF FilesMean
    <3>5. OperationMeans(p)'
      BY <1>1, <1>3, <2>3, <2>6, <3>1, <3>2 DEF OperationMeans, HasFiles, NoneAbove
    <3> QED
      BY <2>3, <2>6, <3>1, <3>2, <3>3, <3>4, <3>5 DEF ProjectShape, Is
  <2>8. ReportHolds(p)'
    <3>1. at \in {"write", "pull", "up"}
      BY <2>1
    <3>2. sure'[p] => Whole(old, revs'[p]) /\ services'[p] = Config(old)
      BY <1>1, <1>6
    <3> QED
      BY <1>1, <1>3, <1>6, <2>3, <3>1, <3>2 DEF ReportHolds
  <2>9. FewFileFailures' => FailedForgotten(p)'
    <3>1. at \in {"write", "pull", "up"}
      BY <2>1
    <3> QED
      BY <1>1, <1>7, <1>8, <2>3, <3>1 DEF FailedForgotten, FewFileFailures, NoneFailed, Is
  <2> QED
    BY <2>5, <2>7, <2>8, <2>9, OneProject
<1>9. ASSUME FileFails, Outcome(p, "failed"), UNCHANGED disk,
             deploy' = [deploy EXCEPT ![p].at = IF i = 1 THEN "discard" ELSE "restore",
                                      ![p].file = 1, ![p].kind = "unwritten"]
      PROVE  ComposeInv'
  <2>1. PICK at \in Points : at = IF i = 1 THEN "discard" ELSE "restore"
    BY DEF Points
  <2>2. deploy' = [deploy EXCEPT ![p].at = at, ![p].file = 1, ![p].kind = "unwritten"]
    BY <1>9, <2>1
  <2>3. /\ deploy' \in [Projects -> OperationType]
        /\ \A q \in Projects \ {p} : deploy'[q] = deploy[q]
        /\ deploy'[p].at = at /\ deploy'[p].kind = "unwritten" /\ deploy'[p].file = 1
        /\ deploy'[p].new = new /\ deploy'[p].old = old /\ deploy'[p].bad = deploy[p].bad
    BY <1>1, <2>2, StopsWriting
  <2>4. /\ composeUsed' \in [crashes : Nat, faults : Nat, cuts : Nat] /\ FaultsGrow
        /\ composeUsed'.faults = composeUsed.faults + 1
    BY <1>1, <1>9, FileFaults
  <2>5. /\ outcome' \in [Projects -> [Revisions -> Outcomes]]
        /\ \A q \in Projects \ {p} : outcome'[q] = outcome[q]
        /\ \A r \in Revisions : outcome'[p][r] = IF r = new.meta THEN "failed" ELSE outcome[p][r]
    BY <1>1, <1>9, OutcomeIs DEF Outcomes
  <2>6. ComposeTypes' /\ Elsewhere(p)
    BY <1>1, <1>9, <2>3, <2>4, <2>5 DEF ComposeTypes, Elsewhere
  <2>7. at \in {"discard", "restore"} /\ (at = "discard" => i = 1)
    BY <2>1
  <2>8. ProjectShape(p)'
    <3>1. at = "discard" => SameFiles(disk[p], old)
      BY <1>3, <2>7 DEF Between, SameFiles
    <3>2. FilesMean(p)'
      BY <1>3, <1>9, <2>3, <2>7, <3>1 DEF FilesMean, Between, SameFiles
    <3>3. OperationMeans(p)'
      BY <1>1, <1>3, <1>5, <2>3, <2>4, <2>7 DEF OperationMeans, HasFiles, NoneAbove
    <3> QED
      BY <1>2, <1>9, <2>3, <2>7, <3>2, <3>3 DEF ProjectShape, Is
  <2>9. ReportHolds(p)'
    <3>1. sure'[p] => Whole(old, revs'[p]) /\ services'[p] = Config(old)
      BY <1>1, <1>6
    <3> QED
      BY <1>1, <1>3, <1>6, <2>3, <2>7, <3>1 DEF ReportHolds
  <2>10. FewFileFailures' => FailedForgotten(p)'
    <3>1. FewFileFailures' => NoneFailed(p, old.meta)
      BY <1>5, <1>7, <2>4 DEF FewFileFailures
    <3>2. NoneFailed(p, old.meta) => NoneFailed(p, old.meta)'
      BY <1>1, <1>3, <1>4, <2>3, <2>5 DEF NoneFailed, Revisions
    <3> QED
      BY <2>3, <2>7, <3>1, <3>2 DEF FailedForgotten, Is, NoneFailed
  <2> QED
    BY <2>4, <2>6, <2>8, <2>9, <2>10, OneProject
<1> QED
  <2>1. \/ /\ disk' = [disk EXCEPT ![p] = Replaced(@, i, new)]
           /\ \E command \in {"pull", "up"} :
                deploy' = [deploy EXCEPT ![p].file = IF i < 3 THEN i + 1 ELSE 1,
                                         ![p].at = IF i < 3 THEN "write" ELSE command]
           /\ UNCHANGED <<outcome, composeUsed>>
        \/ /\ FileFails /\ Outcome(p, "failed") /\ UNCHANGED disk
           /\ deploy' = [deploy EXCEPT ![p].at = IF i = 1 THEN "discard" ELSE "restore",
                                       ![p].file = 1, ![p].kind = "unwritten"]
    BY Zenon DEF WriteFile
  <2> QED
    BY <1>8, <1>9, <2>1

\* What a command that runs for a deployment relies on
LEMMA CommandMeans ==
    ASSUME ComposeInv, NEW p \in Projects, deploy[p].at \in {"pull", "up", "prune"}
    PROVE  /\ ComposeTypes /\ ReportHolds(p)
           /\ deploy[p].new.meta \in Nat /\ deploy[p].old.meta \in Nat /\ disk[p].meta \in Nat
           /\ SameFiles(disk[p], deploy[p].new) /\ disk[p].dir /\ disk[p].meta <= MaxRevision
           /\ deploy[p].at \in {"pull", "up"} => deploy[p].file = 1
           /\ ~deploy[p].bad /\ HasFiles(deploy[p].new)
           /\ deploy[p].new.meta = deploy[p].old.meta + 1 /\ deploy[p].new.meta \in Revisions
           /\ deploy[p].kind \in {"update", "rollback"} => HasFiles(deploy[p].old) /\ deploy[p].old.dir
           /\ deploy[p].at \in {"pull", "up"} => deploy[p].kind \in {"create", "update", "rollback"}
           /\ revs[p][deploy[p].new.meta] = deploy[p].new.yaml /\ NoneAbove(p, deploy[p].new.meta)
           /\ deploy[p].kind = "unwritten" => composeUsed.faults >= 1
<1>1. ComposeTypes /\ ReportHolds(p) /\ ProjectShape(p)
  BY DEF ComposeInv
<1>2. FilesMean(p) /\ OperationMeans(p) /\ disk[p].meta <= MaxRevision
  BY <1>1 DEF ProjectShape, Is
<1>3. deploy[p].new.meta \in Nat /\ deploy[p].old.meta \in Nat /\ disk[p].meta \in Nat
  BY <1>1, OperationParts
<1>4. SameFiles(disk[p], deploy[p].new) /\ disk[p].dir /\ ~deploy[p].bad
  BY <1>2 DEF FilesMean
<1>5. deploy[p].at \in {"pull", "up"} => deploy[p].file = 1
  BY <1>2 DEF FilesMean
<1> QED
  BY <1>1, <1>2, <1>3, <1>4, <1>5 DEF OperationMeans

\* A command fails: the files are restored.
LEMMA FailsKeeps ==
    ASSUME ComposeInv, NEW p \in Projects, deploy[p].at \in {"pull", "up"}, Fails(p),
           services' \in [Projects -> Deployed], \A q \in Projects \ {p} : services'[q] = services[q]
    PROVE  ComposeInv'
<1> DEFINE new == deploy[p].new
<1> DEFINE old == deploy[p].old
<1>1. /\ ComposeTypes /\ ReportHolds(p)
      /\ new.meta \in Nat /\ old.meta \in Nat /\ disk[p].meta \in Nat
      /\ SameFiles(disk[p], new) /\ disk[p].dir /\ disk[p].meta <= MaxRevision
      /\ deploy[p].file = 1 /\ ~deploy[p].bad /\ HasFiles(new)
      /\ new.meta = old.meta + 1 /\ new.meta \in Revisions
      /\ deploy[p].kind \in {"update", "rollback"} => HasFiles(old) /\ old.dir
      /\ deploy[p].kind \in {"create", "update", "rollback"}
      /\ NoneAbove(p, new.meta)
  BY CommandMeans
<1>2. /\ Goes(p, "restore") /\ Outcome(p, "failed")
      /\ UNCHANGED <<disk, revs, sure, composeUsed, confirmations, previews>>
  BY DEF Fails, previewVars
<1>3. /\ deploy' \in [Projects -> OperationType]
      /\ \A q \in Projects \ {p} : deploy'[q] = deploy[q]
      /\ deploy'[p].at = "restore" /\ deploy'[p].kind = deploy[p].kind
      /\ deploy'[p].file = deploy[p].file /\ deploy'[p].new = new
      /\ deploy'[p].old = old /\ deploy'[p].bad = deploy[p].bad
  BY <1>1, <1>2, GoesTo DEF Points
<1>4. /\ outcome' \in [Projects -> [Revisions -> Outcomes]]
      /\ \A q \in Projects \ {p} : outcome'[q] = outcome[q]
      /\ \A r \in Revisions : outcome'[p][r] = IF r = new.meta THEN "failed" ELSE outcome[p][r]
  BY <1>1, <1>2, OutcomeIs DEF Outcomes
<1>5. ComposeTypes' /\ Elsewhere(p) /\ FaultsGrow
  BY <1>1, <1>2, <1>3, <1>4 DEF ComposeTypes, Elsewhere, FaultsGrow
<1>6. ProjectShape(p)'
  <2>1. FilesMean(p)'
    BY <1>1, <1>2, <1>3 DEF FilesMean, SameFiles
  <2>2. OperationMeans(p)'
    BY <1>1, <1>2, <1>3 DEF OperationMeans, HasFiles, NoneAbove
  <2> QED
    BY <1>1, <1>2, <1>3, <2>1, <2>2 DEF ProjectShape, Is
<1>7. ReportHolds(p)'
  <2>1. sure[p] => Whole(old, revs[p]) /\ deploy[p].kind # "create"
    BY <1>1 DEF ReportHolds
  <2>2. sure'[p] => Whole(old, revs'[p])
    BY <1>2, <2>1
  <2> QED
    BY <1>1, <1>2, <1>3, <2>1, <2>2 DEF ReportHolds
<1>8. FewFileFailures' => FailedForgotten(p)'
  <2>1. FewFileFailures' => NoneFailed(p, old.meta)
    BY <1>2 DEF ComposeInv, FewFileFailures, FailedForgotten, Is
  <2>2. NoneFailed(p, old.meta) => NoneFailed(p, old.meta)'
    BY <1>1, <1>2, <1>3, <1>4 DEF NoneFailed, Revisions
  <2> QED
    BY <1>3, <2>1, <2>2 DEF FailedForgotten, Is, NoneFailed
<1> QED
  BY <1>5, <1>6, <1>7, <1>8, OneProject

LEMMA PullKeeps ==
    ASSUME ComposeInv, NEW p \in Projects, Pull(p)
    PROVE  ComposeInv'
<1> DEFINE new == deploy[p].new
<1> DEFINE old == deploy[p].old
<1>1. deploy[p].at = "pull" /\ UNCHANGED services
  BY DEF Pull, Is
<1>2. /\ ComposeTypes /\ ReportHolds(p)
      /\ new.meta \in Nat /\ old.meta \in Nat /\ disk[p].meta \in Nat
      /\ SameFiles(disk[p], new) /\ disk[p].dir /\ disk[p].meta <= MaxRevision
      /\ deploy[p].file = 1 /\ ~deploy[p].bad /\ HasFiles(new)
      /\ new.meta = old.meta + 1 /\ new.meta \in Revisions
      /\ deploy[p].kind \in {"update", "rollback"} => HasFiles(old) /\ old.dir
      /\ deploy[p].kind \in {"create", "update", "rollback"}
      /\ revs[p][new.meta] = new.yaml /\ NoneAbove(p, new.meta)
  BY <1>1, CommandMeans
<1>3. CASE Fails(p)
  <2>1. services' \in [Projects -> Deployed] /\ \A q \in Projects \ {p} : services'[q] = services[q]
    BY <1>1, <1>2 DEF ComposeTypes
  <2> QED
    BY <1>1, <1>3, <2>1, FailsKeeps
<1>4. CASE Goes(p, "up") /\ UNCHANGED <<disk, revs, previewVars, historyVars>>
  <2>1. UNCHANGED <<disk, revs, outcome, sure, composeUsed, confirmations, previews>>
    BY <1>4 DEF previewVars, historyVars
  <2>2. /\ deploy' \in [Projects -> OperationType]
        /\ \A q \in Projects \ {p} : deploy'[q] = deploy[q]
        /\ deploy'[p].at = "up" /\ deploy'[p].kind = deploy[p].kind
        /\ deploy'[p].file = deploy[p].file /\ deploy'[p].new = new
        /\ deploy'[p].old = old /\ deploy'[p].bad = deploy[p].bad
    BY <1>2, <1>4, GoesTo DEF Points
  <2>3. ComposeTypes' /\ Elsewhere(p) /\ FaultsGrow
    BY <1>1, <1>2, <2>1, <2>2 DEF ComposeTypes, Elsewhere, FaultsGrow
  <2>4. ProjectShape(p)'
    <3>1. FilesMean(p)'
      BY <1>2, <2>1, <2>2 DEF FilesMean, SameFiles
    <3>2. OperationMeans(p)'
      BY <1>2, <2>1, <2>2 DEF OperationMeans, HasFiles, NoneAbove
    <3> QED
      BY <1>2, <2>1, <2>2, <3>1, <3>2 DEF ProjectShape, Is
  <2>5. ReportHolds(p)'
    <3>1. sure[p] => Whole(old, revs[p]) /\ deploy[p].kind # "create"
      BY <1>1, <1>2 DEF ReportHolds
    <3>2. sure'[p] => Whole(old, revs'[p])
      BY <2>1, <3>1
    <3> QED
      BY <1>2, <2>1, <2>2, <3>1, <3>2 DEF ReportHolds
  <2>6. FewFileFailures' => FailedForgotten(p)'
    BY <1>1, <2>1, <2>2 DEF ComposeInv, FewFileFailures, FailedForgotten, Is, NoneFailed
  <2> QED
    BY <2>3, <2>4, <2>5, <2>6, OneProject
<1> QED
  BY <1>3, <1>4 DEF Pull

LEMMA UpKeeps ==
    ASSUME ComposeInv, NEW p \in Projects, Up(p)
    PROVE  ComposeInv'
<1> DEFINE new == deploy[p].new
<1> DEFINE old == deploy[p].old
<1>1. deploy[p].at = "up"
  BY DEF Up, Is
<1>2. /\ ComposeTypes /\ ReportHolds(p)
      /\ new.meta \in Nat /\ old.meta \in Nat /\ disk[p].meta \in Nat
      /\ SameFiles(disk[p], new) /\ disk[p].dir /\ disk[p].meta <= MaxRevision
      /\ deploy[p].file = 1 /\ ~deploy[p].bad /\ HasFiles(new)
      /\ new.meta = old.meta + 1 /\ new.meta \in Revisions
      /\ deploy[p].kind \in {"update", "rollback"} => HasFiles(old) /\ old.dir
      /\ deploy[p].kind \in {"create", "update", "rollback"}
      /\ revs[p][new.meta] = new.yaml /\ NoneAbove(p, new.meta)
  BY <1>1, CommandMeans
<1>3. /\ Config(disk[p]) \in Deployed /\ Partly \in Deployed /\ services[p] \in Deployed
      /\ services \in [Projects -> Deployed]
  <2>1. disk[p] \in FilesType
    BY <1>2 DEF ComposeTypes
  <2>2. disk[p].yaml \in Drafts /\ disk[p].env \in Drafts
    BY <1>2, <2>1 DEF FilesType, SameFiles, HasFiles
  <2> QED
    BY <1>2, <2>2 DEF Config, Deployed, ComposeTypes
<1>4. CASE /\ \E s \in {services[p], Partly, Config(disk[p])} : services' = [services EXCEPT ![p] = s]
           /\ Fails(p)
  <2>1. services' \in [Projects -> Deployed] /\ \A q \in Projects \ {p} : services'[q] = services[q]
    BY <1>3, <1>4
  <2> QED
    BY <1>1, <1>4, <2>1, FailsKeeps
<1>5. CASE /\ Goes(p, "prune") /\ services' = [services EXCEPT ![p] = Config(disk[p])]
           /\ Outcome(p, "deployed") /\ sure' = [sure EXCEPT ![p] = TRUE]
           /\ UNCHANGED <<disk, revs, previewVars, composeUsed>>
  <2>1. UNCHANGED <<disk, revs, composeUsed, confirmations, previews>>
    BY <1>5 DEF previewVars
  <2>2. /\ deploy' \in [Projects -> OperationType]
        /\ \A q \in Projects \ {p} : deploy'[q] = deploy[q]
        /\ deploy'[p].at = "prune" /\ deploy'[p].kind = deploy[p].kind
        /\ deploy'[p].file = deploy[p].file /\ deploy'[p].new = new
        /\ deploy'[p].old = old /\ deploy'[p].bad = deploy[p].bad
    BY <1>2, <1>5, GoesTo DEF Points
  <2>3. /\ outcome' \in [Projects -> [Revisions -> Outcomes]]
        /\ \A q \in Projects \ {p} : outcome'[q] = outcome[q]
        /\ \A r \in Revisions : outcome'[p][r] = IF r = new.meta THEN "deployed" ELSE outcome[p][r]
    BY <1>2, <1>5, OutcomeIs DEF Outcomes
  <2>4. /\ services' \in [Projects -> Deployed] /\ services'[p] = Config(disk[p])
        /\ \A q \in Projects \ {p} : services'[q] = services[q]
    BY <1>3, <1>5
  <2>5. /\ sure' \in [Projects -> BOOLEAN]
        /\ \A q \in Projects \ {p} : sure'[q] = sure[q]
    <3>1. sure' = [sure EXCEPT ![p] = TRUE] /\ sure \in [Projects -> BOOLEAN]
      BY <1>2, <1>5 DEF ComposeTypes
    <3> QED
      BY <3>1
  <2>6. ComposeTypes' /\ Elsewhere(p) /\ FaultsGrow
    BY <1>2, <2>1, <2>2, <2>3, <2>4, <2>5 DEF ComposeTypes, Elsewhere, FaultsGrow
  <2>7. ProjectShape(p)'
    <3>1. FilesMean(p)'
      BY <1>2, <2>1, <2>2 DEF FilesMean, SameFiles
    <3>2. OperationMeans(p)'
      BY <1>2, <2>1, <2>2 DEF OperationMeans, HasFiles, NoneAbove
    <3> QED
      BY <1>2, <2>1, <2>2, <3>1, <3>2 DEF ProjectShape, Is
  <2>8. ReportHolds(p)'
    <3>1. Whole(disk[p], revs[p])
      BY <1>2 DEF Whole, SameFiles, HasFiles
    <3>2. Whole(disk[p], revs[p])' /\ services'[p] = Config(disk[p])'
      BY <2>1, <2>4, <3>1 DEF Whole, HasFiles, Config
    <3> QED
      BY <2>2, <3>2 DEF ReportHolds
  <2>9. FewFileFailures' => FailedForgotten(p)'
    <3>1. FewFileFailures' => NoneFailed(p, old.meta)
      BY <1>1, <2>1 DEF ComposeInv, FewFileFailures, FailedForgotten, Is
    <3>2. NoneFailed(p, old.meta) => NoneFailed(p, old.meta)'
      BY <1>2, <2>1, <2>2, <2>3 DEF NoneFailed, Revisions
    <3> QED
      BY <1>2, <2>2, <2>3, <3>1, <3>2 DEF FailedForgotten, Is, NoneFailed
  <2> QED
    BY <2>6, <2>7, <2>8, <2>9, OneProject
<1> QED
  BY <1>4, <1>5 DEF Up

LEMMA PruneKeeps ==
    ASSUME ComposeInv, NEW p \in Projects, Prune(p)
    PROVE  ComposeInv'
<1> DEFINE new == deploy[p].new
<1> DEFINE old == deploy[p].old
<1>1. /\ deploy[p].at = "prune" /\ Ends(p)
      /\ UNCHANGED <<disk, services, outcome, sure, confirmations, previews>>
      /\ FileFails \/ UNCHANGED composeUsed
  BY DEF Prune, Is, previewVars
<1>2. /\ ComposeTypes /\ ReportHolds(p)
      /\ new.meta \in Nat /\ old.meta \in Nat /\ disk[p].meta \in Nat
      /\ SameFiles(disk[p], new) /\ disk[p].dir /\ disk[p].meta <= MaxRevision
      /\ HasFiles(new) /\ new.meta = old.meta + 1 /\ new.meta \in Revisions
      /\ revs[p][new.meta] = new.yaml /\ NoneAbove(p, new.meta)
  BY <1>1, CommandMeans
<1>3. new.meta \in Newest(p)
  <2> DEFINE kept == {r \in Revisions : revs[p][r] # NoFile}
  <2>1. new.meta \in kept
    BY <1>2 DEF HasFiles
  <2>2. {q \in kept : q > new.meta} = {}
    BY <1>2 DEF NoneAbove
  <2>3. Cardinality({q \in kept : q > new.meta}) < RevisionLimit
    BY <2>2, FS_EmptySet, ComposeAssumption
  <2> QED
    BY <2>1, <2>3 DEF Newest
<1>4. /\ revs' \in [Projects -> [Revisions -> Drafts \cup {NoFile}]]
      /\ \A q \in Projects \ {p} : revs'[q] = revs[q]
      /\ \A r \in Revisions : revs'[p][r] \in {revs[p][r], NoFile}
      /\ revs'[p][new.meta] = revs[p][new.meta]
  <2>1. CASE UNCHANGED revs
    BY <1>2, <2>1 DEF ComposeTypes
  <2>2. CASE revs' = [revs EXCEPT ![p] = [r \in Revisions |-> IF r \in Newest(p) THEN @[r] ELSE NoFile]]
    BY <1>2, <1>3, <2>2 DEF ComposeTypes
  <2> QED
    BY <2>1, <2>2 DEF Prune
<1>5. /\ deploy' \in [Projects -> OperationType]
      /\ \A q \in Projects \ {p} : deploy'[q] = deploy[q]
      /\ deploy'[p] = Free
  BY <1>1, <1>2, EndsIt
<1>6. ComposeTypes' /\ Elsewhere(p) /\ FaultsGrow
  BY <1>1, <1>2, <1>4, <1>5, FileFaults DEF ComposeTypes, Elsewhere
<1>7. ProjectShape(p)'
  <2>1. disk'[p].meta = new.meta /\ disk'[p].meta <= MaxRevision
    BY <1>1, <1>2 DEF SameFiles
  <2>2. \A r \in Revisions : r > new.meta + 1 => revs'[p][r] = NoFile
    BY <1>2, <1>4 DEF NoneAbove, Revisions
  <2>3. NoneAbove(p, disk[p].meta + 1)'
    BY <2>1, <2>2 DEF NoneAbove
  <2> QED
    BY <1>5, <2>1, <2>3, FreeType DEF ProjectShape, Is
<1>8. ReportHolds(p)'
  <2>1. sure[p] => Whole(disk[p], revs[p]) /\ services[p] = Config(disk[p])
    BY <1>1, <1>2 DEF ReportHolds
  <2>2. sure'[p] => Whole(disk[p], revs[p])' /\ services'[p] = Config(disk[p])'
    BY <1>1, <1>2, <1>4, <2>1 DEF Whole, SameFiles, HasFiles, Config
  <2>3. Free.at = "idle" /\ Free.kind = "none"
    BY DEF Free
  <2> QED
    BY <1>5, <2>2, <2>3 DEF ReportHolds
<1>9. FewFileFailures' => FailedForgotten(p)'
  <2>1. FewFileFailures' => FewFileFailures
    BY <1>2, <1>6 DEF FewFileFailures, FaultsGrow, ComposeTypes
  <2>2. FewFileFailures' => NoneFailed(p, old.meta) /\ outcome[p][new.meta] = "deployed"
    BY <1>1, <2>1 DEF ComposeInv, FailedForgotten, Is
  <2>3. FewFileFailures' => NoneFailed(p, disk[p].meta)'
    BY <1>1, <1>2, <1>4, <2>2 DEF NoneFailed, SameFiles, Revisions
  <2> QED
    BY <1>5, <2>3, FreeType DEF FailedForgotten, Is, NoneFailed
<1> QED
  BY <1>6, <1>7, <1>8, <1>9, OneProject

LEMMA DownKeeps ==
    ASSUME ComposeInv, NEW p \in Projects, Down(p)
    PROVE  ComposeInv'
<1> DEFINE new == deploy[p].new
<1> DEFINE old == deploy[p].old
<1>1. /\ deploy[p].at = "down" /\ sure' = [sure EXCEPT ![p] = FALSE]
      /\ UNCHANGED <<disk, revs, outcome, composeUsed, confirmations, previews>>
      /\ Goes(p, "rename") \/ Ends(p)
      /\ \E s \in {Nothing, services[p], Partly} : services' = [services EXCEPT ![p] = s]
  BY DEF Down, Is, previewVars
<1>2. ComposeTypes /\ ProjectShape(p)
  BY DEF ComposeInv
<1>3. FilesMean(p) /\ OperationMeans(p) /\ disk[p].meta <= MaxRevision
  BY <1>1, <1>2 DEF ProjectShape, Is
<1>4. new.meta \in Nat /\ old.meta \in Nat /\ disk[p].meta \in Nat
  BY <1>2, OperationParts
<1>5. /\ services' \in [Projects -> Deployed] /\ \A q \in Projects \ {p} : services'[q] = services[q]
  <2>1. services \in [Projects -> Deployed] /\ {Nothing, services[p], Partly} \subseteq Deployed
    BY <1>2 DEF ComposeTypes, Deployed
  <2> QED
    BY <1>1, <2>1
<1>6. /\ sure' \in [Projects -> BOOLEAN] /\ ~sure'[p] /\ \A q \in Projects \ {p} : sure'[q] = sure[q]
  <2>1. sure \in [Projects -> BOOLEAN] /\ sure' = [sure EXCEPT ![p] = FALSE]
    BY <1>1, <1>2 DEF ComposeTypes
  <2> QED
    BY <2>1
<1>7. FaultsGrow
  BY <1>1, <1>2 DEF FaultsGrow, ComposeTypes
<1>8. ReportHolds(p)'
  BY <1>6 DEF ReportHolds
<1>9. FewFileFailures' => NoneFailed(p, old.meta)
  BY <1>1 DEF ComposeInv, FewFileFailures, FailedForgotten, Is
<1>10. CASE Goes(p, "rename")
  <2>1. /\ deploy' \in [Projects -> OperationType]
        /\ \A q \in Projects \ {p} : deploy'[q] = deploy[q]
        /\ deploy'[p].at = "rename" /\ deploy'[p].kind = deploy[p].kind
        /\ deploy'[p].file = deploy[p].file /\ deploy'[p].new = new
        /\ deploy'[p].old = old /\ deploy'[p].bad = deploy[p].bad
    BY <1>2, <1>10, GoesTo DEF Points
  <2>2. ComposeTypes' /\ Elsewhere(p)
    BY <1>1, <1>2, <1>5, <1>6, <2>1 DEF ComposeTypes, Elsewhere
  <2>3. FilesMean(p)'
    BY <1>1, <1>3, <2>1 DEF FilesMean, SameFiles
  <2>4. OperationMeans(p)'
    BY <1>1, <1>3, <2>1 DEF OperationMeans, HasFiles, NoneAbove
  <2>5. ProjectShape(p)'
    BY <1>1, <1>3, <2>1, <2>3, <2>4 DEF ProjectShape, Is
  <2>6. FewFileFailures' => FailedForgotten(p)'
    BY <1>1, <1>9, <2>1 DEF FailedForgotten, Is, NoneFailed
  <2> QED
    BY <1>7, <1>8, <2>2, <2>5, <2>6, OneProject
<1>11. CASE Ends(p)
  <2>1. /\ deploy' \in [Projects -> OperationType]
        /\ \A q \in Projects \ {p} : deploy'[q] = deploy[q]
        /\ deploy'[p] = Free
    BY <1>2, <1>11, EndsIt
  <2>2. ComposeTypes' /\ Elsewhere(p)
    BY <1>1, <1>2, <1>5, <1>6, <2>1 DEF ComposeTypes, Elsewhere
  <2>3. disk[p].meta = old.meta /\ new.meta = old.meta + 1 /\ NoneAbove(p, new.meta)
    BY <1>1, <1>3 DEF FilesMean, OperationMeans
  <2>4. ProjectShape(p)'
    BY <1>1, <1>3, <2>1, <2>3, FreeType DEF ProjectShape, Is, NoneAbove
  <2>5. FewFileFailures' => FailedForgotten(p)'
    BY <1>1, <1>9, <2>1, <2>3, FreeType DEF FailedForgotten, Is, NoneFailed
  <2> QED
    BY <1>7, <1>8, <2>2, <2>4, <2>5, OneProject
<1> QED
  BY <1>1, <1>10, <1>11

LEMMA MoveAwayKeeps ==
    ASSUME ComposeInv, NEW p \in Projects, MoveAway(p)
    PROVE  ComposeInv'
<1> DEFINE new == deploy[p].new
<1> DEFINE old == deploy[p].old
<1>1. /\ deploy[p].at = "rename" /\ Ends(p)
      /\ UNCHANGED <<services, outcome, sure, confirmations, previews>>
      /\ FileFails \/ UNCHANGED composeUsed
      /\ \/ disk' = [disk EXCEPT ![p] = NoDisk] /\ revs' = [revs EXCEPT ![p] = NoRevs]
         \/ UNCHANGED <<disk, revs>>
  BY DEF MoveAway, Is, previewVars
<1>2. ComposeTypes /\ ProjectShape(p) /\ ReportHolds(p)
  BY DEF ComposeInv
<1>3. FilesMean(p) /\ OperationMeans(p) /\ disk[p].meta <= MaxRevision
  BY <1>1, <1>2 DEF ProjectShape, Is
<1>4. new.meta \in Nat /\ old.meta \in Nat /\ disk[p].meta \in Nat
  BY <1>2, OperationParts
<1>5. disk[p].meta = old.meta /\ new.meta = old.meta + 1 /\ NoneAbove(p, new.meta)
  BY <1>1, <1>3 DEF FilesMean, OperationMeans
<1>6. /\ deploy' \in [Projects -> OperationType]
      /\ \A q \in Projects \ {p} : deploy'[q] = deploy[q]
      /\ deploy'[p] = Free
  BY <1>1, <1>2, EndsIt
<1>7. ~sure'[p]
  BY <1>1, <1>2 DEF ReportHolds
<1>8. FewFileFailures' => NoneFailed(p, disk[p].meta)
  <2>1. FewFileFailures' => FewFileFailures
    BY <1>1, <1>2, FileFaults DEF FewFileFailures, FaultsGrow
  <2> QED
    BY <1>1, <1>5, <2>1 DEF ComposeInv, FailedForgotten, Is
<1>9. /\ disk' \in [Projects -> FilesType] /\ revs' \in [Projects -> [Revisions -> Drafts \cup {NoFile}]]
      /\ \A q \in Projects \ {p} : disk'[q] = disk[q] /\ revs'[q] = revs[q]
      /\ disk'[p].meta <= MaxRevision /\ NoneAbove(p, disk[p].meta + 1)'
      /\ FewFileFailures' => NoneFailed(p, disk[p].meta)'
  <2>1. CASE UNCHANGED <<disk, revs>>
    BY <1>1, <1>2, <1>3, <1>5, <1>8, <2>1 DEF ComposeTypes, NoneAbove, NoneFailed
  <2>2. CASE disk' = [disk EXCEPT ![p] = NoDisk] /\ revs' = [revs EXCEPT ![p] = NoRevs]
    <3>1. NoDisk \in FilesType /\ NoDisk.meta = 0
      BY DEF NoDisk, FilesType
    <3>2. NoRevs \in [Revisions -> Drafts \cup {NoFile}] /\ \A r \in Revisions : NoRevs[r] = NoFile
      BY DEF NoRevs
    <3>3. /\ disk' \in [Projects -> FilesType] /\ disk'[p] = NoDisk
          /\ \A q \in Projects \ {p} : disk'[q] = disk[q]
      BY <1>2, <2>2, <3>1 DEF ComposeTypes
    <3>4. /\ revs' \in [Projects -> [Revisions -> Drafts \cup {NoFile}]] /\ revs'[p] = NoRevs
          /\ \A q \in Projects \ {p} : revs'[q] = revs[q]
      BY <1>2, <2>2, <3>2 DEF ComposeTypes
    <3>5. NoneAbove(p, disk[p].meta + 1)' /\ NoneFailed(p, disk[p].meta)'
      BY <3>2, <3>4 DEF NoneAbove, NoneFailed
    <3> QED
      BY <3>1, <3>3, <3>4, <3>5, ComposeAssumption
  <2> QED
    BY <1>1, <2>1, <2>2
<1>10. ComposeTypes' /\ Elsewhere(p) /\ FaultsGrow
  BY <1>1, <1>2, <1>6, <1>9, FileFaults DEF ComposeTypes, Elsewhere
<1>11. ProjectShape(p)'
  BY <1>6, <1>9, FreeType DEF ProjectShape, Is
<1>12. ReportHolds(p)'
  BY <1>7 DEF ReportHolds
<1>13. FewFileFailures' => FailedForgotten(p)'
  BY <1>6, <1>9, FreeType DEF FailedForgotten, Is
<1> QED
  BY <1>10, <1>11, <1>12, <1>13, OneProject

LEMMA RestoreFileKeeps ==
    ASSUME ComposeInv, NEW p \in Projects, RestoreFile(p)
    PROVE  ComposeInv'
<1> DEFINE new == deploy[p].new
<1> DEFINE old == deploy[p].old
<1> DEFINE i == deploy[p].file
<1>1. /\ deploy[p].at = "restore" /\ UNCHANGED <<revs, services, outcome, confirmations, previews>>
  BY DEF RestoreFile, Is, previewVars
<1>2. ComposeTypes /\ ProjectShape(p) /\ ReportHolds(p)
  BY DEF ComposeInv
<1>3. FilesMean(p) /\ OperationMeans(p) /\ disk[p].meta <= MaxRevision
  BY <1>1, <1>2 DEF ProjectShape, Is
<1>4. /\ new.meta \in Nat /\ old.meta \in Nat /\ disk[p].meta \in Nat
      /\ i \in 1 .. 3 /\ deploy[p].bad \in BOOLEAN /\ old \in FilesType /\ composeUsed.faults \in Nat
      /\ disk \in [Projects -> FilesType] /\ sure \in [Projects -> BOOLEAN]
  BY <1>2, OperationParts DEF ComposeTypes
<1>5. /\ ~deploy[p].bad => /\ i > 1 => disk[p].yaml = old.yaml
                           /\ i > 2 => disk[p].env = old.env
      /\ disk[p].meta \in {old.meta, new.meta} /\ disk[p].dir
  BY <1>1, <1>3 DEF FilesMean
<1>6. /\ new.meta = old.meta + 1 /\ new.meta \in Revisions /\ HasFiles(new)
      /\ deploy[p].kind \in {"update", "rollback"} => HasFiles(old) /\ old.dir
      /\ deploy[p].kind \in {"create", "update", "rollback", "unwritten"}
      /\ deploy[p].bad \/ deploy[p].kind = "unwritten" => composeUsed.faults >= 1
      /\ deploy[p].bad /\ deploy[p].kind = "unwritten" => composeUsed.faults >= 2
      /\ NoneAbove(p, new.meta)
  BY <1>1, <1>3 DEF OperationMeans
<1>7. PICK fails \in BOOLEAN, bad \in BOOLEAN, file \in 1 .. 3, at \in Points :
        /\ bad <=> deploy[p].bad \/ fails
        /\ file = IF i < 3 THEN i + 1 ELSE 1
        /\ at = IF i < 3 THEN "restore"
                ELSE IF deploy[p].kind = "unwritten" THEN "discard"
                ELSE IF bad \/ deploy[p].kind = "create" THEN "remove" ELSE "again"
        /\ IF fails THEN FileFails /\ UNCHANGED disk
           ELSE /\ disk' = [disk EXCEPT ![p] = Replaced(@, i, old)]
                /\ UNCHANGED composeUsed
        /\ deploy' = [deploy EXCEPT ![p].file = file, ![p].bad = bad, ![p].at = at]
        /\ sure' = [sure EXCEPT ![p] = @ /\ ~bad]
  <2>1. PICK fails \in BOOLEAN :
        /\ IF fails THEN FileFails /\ UNCHANGED disk
           ELSE /\ disk' = [disk EXCEPT ![p] = IF i \in Restored(p) THEN Replaced(@, i, old) ELSE @]
                /\ UNCHANGED composeUsed
        /\ deploy' = [deploy EXCEPT ![p].file = IF i < 3 THEN i + 1 ELSE 1,
                ![p].bad = deploy[p].bad \/ fails,
                ![p].at = IF i < 3 THEN "restore"
                          ELSE IF deploy[p].kind = "unwritten" THEN "discard"
                          ELSE IF (deploy[p].bad \/ fails) \/ deploy[p].kind = "create"
                          THEN "remove" ELSE "again"]
        /\ sure' = [sure EXCEPT ![p] = @ /\ ~(deploy[p].bad \/ fails)]
    BY Zenon DEF RestoreFile
  <2>2. i \in Restored(p)
    BY <1>4 DEF Restored
  <2>3. PICK bad \in BOOLEAN : bad = (deploy[p].bad \/ fails)
    BY <1>4
  <2>4. PICK file \in 1 .. 3 : file = IF i < 3 THEN i + 1 ELSE 1
    BY <1>4
  <2>5. PICK at \in Points : at = IF i < 3 THEN "restore"
                ELSE IF deploy[p].kind = "unwritten" THEN "discard"
                ELSE IF (deploy[p].bad \/ fails) \/ deploy[p].kind = "create" THEN "remove" ELSE "again"
    BY DEF Points
  <2>6. IF fails THEN FileFails /\ UNCHANGED disk
        ELSE /\ disk' = [disk EXCEPT ![p] = Replaced(@, i, old)]
             /\ UNCHANGED composeUsed
    BY <2>1, <2>2
  <2>7. deploy' = [deploy EXCEPT ![p].file = file, ![p].bad = bad, ![p].at = at]
    BY <2>1, <2>3, <2>4, <2>5, Zenon
  <2>8. sure' = [sure EXCEPT ![p] = @ /\ ~bad]
    BY <2>1, <2>3, Zenon
  <2>9. at = IF i < 3 THEN "restore"
                ELSE IF deploy[p].kind = "unwritten" THEN "discard"
                ELSE IF bad \/ deploy[p].kind = "create" THEN "remove" ELSE "again"
    BY <2>3, <2>5, Zenon
  <2> QED
    BY <2>3, <2>4, <2>6, <2>7, <2>8, <2>9, Zenon
<1>8. /\ deploy' \in [Projects -> OperationType]
      /\ \A q \in Projects \ {p} : deploy'[q] = deploy[q]
      /\ deploy'[p].at = at /\ deploy'[p].kind = deploy[p].kind /\ deploy'[p].file = file
      /\ deploy'[p].new = new /\ deploy'[p].old = old /\ deploy'[p].bad = bad
  <2>1. deploy' = [deploy EXCEPT ![p].file = file, ![p].bad = bad, ![p].at = at]
    BY <1>7
  <2> QED
    BY <1>2, <2>1, NextRestored, ZenonT(60)
<1>9. /\ disk' \in [Projects -> FilesType] /\ disk'[p].dir
      /\ \A q \in Projects \ {p} : disk'[q] = disk[q]
      /\ fails => disk' = disk
      /\ ~fails => /\ disk'[p].yaml = IF i = 1 THEN old.yaml ELSE disk[p].yaml
                   /\ disk'[p].env = IF i = 2 THEN old.env ELSE disk[p].env
                   /\ disk'[p].meta = IF i = 3 THEN old.meta ELSE disk[p].meta
  <2>1. CASE fails
    BY <1>4, <1>5, <1>7, <2>1
  <2>2. CASE ~fails
    <3>1. PICK f : f = Replaced(disk[p], i, old) /\ disk' = [disk EXCEPT ![p] = f]
      BY <1>7, <2>2
    <3>2. /\ f \in FilesType /\ f.dir = disk[p].dir
          /\ f.yaml = IF i = 1 THEN old.yaml ELSE disk[p].yaml
          /\ f.env = IF i = 2 THEN old.env ELSE disk[p].env
          /\ f.meta = IF i = 3 THEN old.meta ELSE disk[p].meta
      BY <1>4, <3>1, ReplacedIs
    <3> QED
      BY <1>4, <1>5, <2>2, <3>1, <3>2
  <2> QED
    BY <2>1, <2>2
<1>10. /\ composeUsed' \in [crashes : Nat, faults : Nat, cuts : Nat] /\ FaultsGrow
       /\ fails => composeUsed'.faults = composeUsed.faults + 1
  <2>1. FileFails \/ UNCHANGED composeUsed
    BY <1>7
  <2>2. fails => FileFails
    BY <1>7
  <2> QED
    BY <1>2, <2>1, <2>2, FileFaults
<1>11. /\ sure' \in [Projects -> BOOLEAN] /\ \A q \in Projects \ {p} : sure'[q] = sure[q]
       /\ sure'[p] => sure[p] /\ ~bad
  BY <1>4, <1>7
<1>12. ComposeTypes' /\ Elsewhere(p)
  BY <1>1, <1>2, <1>8, <1>9, <1>10, <1>11 DEF ComposeTypes, Elsewhere
<1>13. (i = 1 \/ i = 2 \/ i = 3) /\ (i < 3 => at = "restore" /\ file = i + 1)
       /\ (i = 3 => at \in {"discard", "remove", "again"} /\ file = 1)
  BY <1>4, <1>7
<1>14. (at = "again" => ~bad /\ deploy[p].kind \in {"update", "rollback"})
       /\ (at = "discard" => deploy[p].kind = "unwritten") /\ (deploy[p].bad => bad) /\ (fails => bad)
  BY <1>6, <1>7
<1>15. ProjectShape(p)'
  <2>1. disk'[p].meta \in {old.meta, new.meta} /\ disk'[p].meta <= MaxRevision
    BY <1>3, <1>4, <1>5, <1>6, <1>9, ComposeAssumption DEF Revisions
  <2>2. i < 3 /\ ~bad => (file > 1 => disk'[p].yaml = old.yaml) /\ (file > 2 => disk'[p].env = old.env)
    BY <1>5, <1>9, <1>13, <1>14
  <2>3. i = 3 /\ ~bad => SameFiles(disk'[p], old)
    BY <1>5, <1>9, <1>14 DEF SameFiles
  <2>4. FilesMean(p)'
    BY <1>8, <1>9, <1>13, <1>14, <2>1, <2>2, <2>3 DEF FilesMean
  <2>5. (bad \/ deploy[p].kind = "unwritten" => composeUsed'.faults >= 1)
        /\ (bad /\ deploy[p].kind = "unwritten" => composeUsed'.faults >= 2)
    BY <1>4, <1>6, <1>7, <1>10 DEF FaultsGrow
  <2>6. OperationMeans(p)'
    BY <1>1, <1>6, <1>8, <1>13, <1>14, <2>5 DEF OperationMeans, HasFiles, NoneAbove
  <2> QED
    BY <1>8, <1>13, <2>1, <2>4, <2>6 DEF ProjectShape, Is
<1>16. ReportHolds(p)'
  <2>1. sure[p] => /\ Whole(old, revs[p]) /\ deploy[p].kind # "create"
                   /\ deploy[p].kind = "unwritten" => services[p] = Config(old)
    BY <1>1, <1>2 DEF ReportHolds
  <2>2. sure'[p] => /\ Whole(old, revs'[p]) /\ deploy[p].kind # "create" /\ ~bad
                    /\ deploy[p].kind = "unwritten" => services'[p] = Config(old)
    BY <1>1, <1>11, <2>1
  <2>3. sure'[p] => at # "remove"
    BY <1>7, <2>2
  <2> QED
    BY <1>8, <1>13, <1>14, <2>2, <2>3 DEF ReportHolds
<1>17. FewFileFailures' => FailedForgotten(p)'
  <2>1. FewFileFailures' => FewFileFailures
    BY <1>4, <1>10 DEF FewFileFailures, FaultsGrow
  <2>2. FewFileFailures' => NoneFailed(p, old.meta)
    BY <1>1, <2>1 DEF ComposeInv, FailedForgotten, Is
  <2> QED
    BY <1>1, <1>8, <1>13, <2>2 DEF FailedForgotten, Is, NoneFailed
<1> QED
  BY <1>10, <1>12, <1>15, <1>16, <1>17, OneProject

LEMMA UpAgainKeeps ==
    ASSUME ComposeInv, NEW p \in Projects, UpAgain(p)
    PROVE  ComposeInv'
<1> DEFINE new == deploy[p].new
<1> DEFINE old == deploy[p].old
<1>1. /\ deploy[p].at = "again" /\ Goes(p, "remove")
      /\ UNCHANGED <<disk, revs, outcome, composeUsed, confirmations, previews>>
  BY DEF UpAgain, Is, previewVars
<1>2. ComposeTypes /\ ProjectShape(p) /\ ReportHolds(p)
  BY DEF ComposeInv
<1>3. FilesMean(p) /\ OperationMeans(p) /\ disk[p].meta <= MaxRevision
  BY <1>1, <1>2 DEF ProjectShape, Is
<1>4. /\ ~deploy[p].bad /\ SameFiles(disk[p], old) /\ disk[p].meta \in {old.meta, new.meta} /\ disk[p].dir
      /\ deploy[p].kind \in {"update", "rollback"} /\ HasFiles(old)
  BY <1>1, <1>3 DEF FilesMean, OperationMeans
<1>5. /\ deploy' \in [Projects -> OperationType]
      /\ \A q \in Projects \ {p} : deploy'[q] = deploy[q]
      /\ deploy'[p].at = "remove" /\ deploy'[p].kind = deploy[p].kind
      /\ deploy'[p].file = deploy[p].file /\ deploy'[p].new = new
      /\ deploy'[p].old = old /\ deploy'[p].bad = deploy[p].bad
  BY <1>1, <1>2, GoesTo DEF Points
<1>6. /\ Config(disk[p]) \in Deployed /\ Partly \in Deployed /\ services[p] \in Deployed
      /\ services \in [Projects -> Deployed] /\ sure \in [Projects -> BOOLEAN]
  <2>1. disk[p] \in FilesType
    BY <1>2 DEF ComposeTypes
  <2>2. disk[p].yaml \in Drafts /\ disk[p].env \in Drafts
    BY <1>4, <2>1 DEF FilesType, SameFiles, HasFiles
  <2> QED
    BY <1>2, <2>2 DEF Config, Deployed, ComposeTypes
<1>7. /\ services' \in [Projects -> Deployed] /\ sure' \in [Projects -> BOOLEAN]
      /\ \A q \in Projects \ {p} : services'[q] = services[q] /\ sure'[q] = sure[q]
      /\ sure'[p] => sure[p] /\ (services'[p] = Config(disk[p]))
  <2>1. CASE services' = [services EXCEPT ![p] = Config(disk[p])] /\ UNCHANGED sure
    BY <1>6, <2>1
  <2>2. CASE /\ \E s \in {services[p], Partly} : services' = [services EXCEPT ![p] = s]
             /\ sure' = [sure EXCEPT ![p] = FALSE]
    <3>1. services' \in [Projects -> Deployed] /\ \A q \in Projects \ {p} : services'[q] = services[q]
      BY <1>6, <2>2
    <3>2. sure' \in [Projects -> BOOLEAN] /\ ~sure'[p] /\ \A q \in Projects \ {p} : sure'[q] = sure[q]
      BY <1>6, <2>2
    <3> QED
      BY <3>1, <3>2
  <2> QED
    BY <2>1, <2>2 DEF UpAgain
<1>8. ComposeTypes' /\ Elsewhere(p) /\ FaultsGrow
  BY <1>1, <1>2, <1>5, <1>7 DEF ComposeTypes, Elsewhere, FaultsGrow
<1>9. ProjectShape(p)'
  <2>1. FilesMean(p)'
    BY <1>1, <1>4, <1>5 DEF FilesMean, SameFiles
  <2>2. OperationMeans(p)'
    BY <1>1, <1>3, <1>5 DEF OperationMeans, HasFiles, NoneAbove
  <2> QED
    BY <1>1, <1>3, <1>5, <2>1, <2>2 DEF ProjectShape, Is
<1>10. ReportHolds(p)'
  <2>1. sure[p] => Whole(old, revs[p])
    BY <1>1, <1>2 DEF ReportHolds
  <2>2. sure'[p] => Whole(old, revs'[p]) /\ services'[p] = Config(old)
    BY <1>1, <1>4, <1>7, <2>1 DEF Config, SameFiles
  <2> QED
    BY <1>4, <1>5, <2>2 DEF ReportHolds
<1>11. FewFileFailures' => FailedForgotten(p)'
  BY <1>1, <1>5 DEF ComposeInv, FewFileFailures, FailedForgotten, Is, NoneFailed
<1> QED
  BY <1>8, <1>9, <1>10, <1>11, OneProject

LEMMA RemoveRevisionKeeps ==
    ASSUME ComposeInv, NEW p \in Projects, RemoveRevision(p)
    PROVE  ComposeInv'
<1> DEFINE new == deploy[p].new
<1> DEFINE old == deploy[p].old
<1>1. /\ deploy[p].at \in {"discard", "remove"} /\ Ends(p)
      /\ UNCHANGED <<services, outcome, sure, confirmations, previews>>
      /\ \/ revs' = [revs EXCEPT ![p][new.meta] = NoFile] /\ UNCHANGED composeUsed
         \/ FileFails /\ UNCHANGED revs
  BY DEF RemoveRevision, Is, previewVars
<1>2. ComposeTypes /\ ProjectShape(p) /\ ReportHolds(p)
  BY DEF ComposeInv
<1>3. FilesMean(p) /\ OperationMeans(p) /\ disk[p].meta <= MaxRevision
  BY <1>1, <1>2 DEF ProjectShape, Is
<1>4. /\ new.meta \in Nat /\ old.meta \in Nat /\ disk[p].meta \in Nat
      /\ disk \in [Projects -> FilesType] /\ composeUsed.faults \in Nat
  BY <1>2, OperationParts DEF ComposeTypes
<1>5. /\ ~deploy[p].bad => SameFiles(disk[p], old)
      /\ disk[p].meta \in {old.meta, new.meta} /\ disk[p].dir
      /\ new.meta = old.meta + 1 /\ new.meta \in Revisions /\ NoneAbove(p, new.meta)
      /\ deploy[p].bad => composeUsed.faults >= 1
  BY <1>1, <1>3 DEF FilesMean, OperationMeans
<1>6. PICK dir \in BOOLEAN :
        /\ disk' = [disk EXCEPT ![p].dir = dir]
        /\ deploy[p].kind # "create" => dir
  <2>1. disk' = [disk EXCEPT ![p].dir =
                  ~(Is(p, "remove") /\ deploy[p].kind = "create" /\ Empty(disk[p], revs'[p]))]
    BY DEF RemoveRevision
  <2>2. PICK dir \in BOOLEAN :
          dir = ~(Is(p, "remove") /\ deploy[p].kind = "create" /\ Empty(disk[p], revs'[p]))
    OBVIOUS
  <2> QED
    BY <2>1, <2>2, Zenon
<1>7. /\ disk' \in [Projects -> FilesType] /\ disk'[p].dir = dir
      /\ SameFiles(disk'[p], disk[p])
      /\ \A q \in Projects \ {p} : disk'[q] = disk[q]
  BY <1>4, <1>6 DEF FilesType, SameFiles
<1>8. /\ deploy' \in [Projects -> OperationType]
      /\ \A q \in Projects \ {p} : deploy'[q] = deploy[q]
      /\ deploy'[p] = Free
  BY <1>1, <1>2, EndsIt
<1>9. /\ revs' \in [Projects -> [Revisions -> Drafts \cup {NoFile}]]
      /\ \A q \in Projects \ {p} : revs'[q] = revs[q]
      /\ \A r \in Revisions : r # new.meta => revs'[p][r] = revs[p][r]
      /\ revs'[p][new.meta] = NoFile \/ (FileFails /\ revs' = revs)
  <2>1. revs \in [Projects -> [Revisions -> Drafts \cup {NoFile}]]
    BY <1>2 DEF ComposeTypes
  <2>2. CASE revs' = [revs EXCEPT ![p][new.meta] = NoFile]
    BY <1>5, <2>1, <2>2
  <2>3. CASE FileFails /\ UNCHANGED revs
    BY <2>1, <2>3
  <2> QED
    BY <1>1, <2>2, <2>3
<1>10. ComposeTypes' /\ Elsewhere(p) /\ FaultsGrow
  BY <1>1, <1>2, <1>7, <1>8, <1>9, FileFaults DEF ComposeTypes, Elsewhere
<1>11. disk'[p].meta = disk[p].meta
  BY <1>7 DEF SameFiles
<1>12. ProjectShape(p)'
  <2>1. \A r \in Revisions : r > new.meta => revs'[p][r] = NoFile
    BY <1>4, <1>5, <1>9 DEF NoneAbove, Revisions
  <2>2. NoneAbove(p, disk[p].meta + 1)'
    BY <1>4, <1>5, <1>11, <2>1 DEF NoneAbove, Revisions
  <2> QED
    BY <1>3, <1>8, <1>11, <2>2, FreeType DEF ProjectShape, Is
<1>13. ReportHolds(p)'
  <2> SUFFICES ASSUME sure'[p] PROVE ReportHolds(p)'
    BY DEF ReportHolds
  <2>1. /\ Whole(old, revs[p]) /\ deploy[p].kind # "create" /\ ~deploy[p].bad
        /\ services[p] = Config(old)
    BY <1>1, <1>2 DEF ReportHolds
  <2>2. SameFiles(disk'[p], old) /\ disk'[p].dir
    BY <1>5, <1>6, <1>7, <2>1 DEF SameFiles
  <2>3. revs'[p][old.meta] = revs[p][old.meta]
    <3>1. old.meta > 0
      BY <2>1 DEF Whole
    <3>2. new.meta = old.meta + 1 /\ new.meta \in Revisions /\ old.meta \in Nat
      BY <1>4, <1>5
    <3>3. old.meta \in Revisions /\ old.meta # new.meta
      BY <3>1, <3>2, ComposeAssumption DEF Revisions
    <3> QED
      BY <1>9, <3>3
  <2>4. Whole(disk[p], revs[p])' /\ services'[p] = Config(disk[p])'
    BY <1>1, <2>1, <2>2, <2>3 DEF Whole, SameFiles, HasFiles, Config
  <2>5. Free.at = "idle" /\ Free.kind = "none"
    BY DEF Free
  <2> QED
    BY <1>8, <2>4, <2>5 DEF ReportHolds
<1>14. FewFileFailures' => FailedForgotten(p)'
  <2>1. FewFileFailures' => FewFileFailures
    BY <1>4, <1>10 DEF FewFileFailures, FaultsGrow
  <2>2. FewFileFailures' => NoneFailed(p, old.meta)
    BY <1>1, <2>1 DEF ComposeInv, FailedForgotten, Is
  <2>3. FewFileFailures' /\ FileFails => disk[p].meta = old.meta
    BY <1>2, <1>4, <1>5, FileFaults DEF FewFileFailures, SameFiles
  <2>4. FewFileFailures' => NoneFailed(p, disk[p].meta)'
    <3> SUFFICES ASSUME FewFileFailures', NEW r \in Revisions, r <= disk[p].meta, revs'[p][r] # NoFile
                 PROVE  outcome'[p][r] # "failed"
      BY <1>11 DEF NoneFailed
    <3>1. r <= old.meta
      BY <1>4, <1>5, <1>9, <2>3 DEF Revisions
    <3>2. revs[p][r] # NoFile
      BY <1>4, <1>5, <1>9, <3>1 DEF Revisions
    <3> QED
      BY <1>1, <2>2, <3>1, <3>2 DEF NoneFailed
  <2> QED
    BY <1>8, <2>4, FreeType DEF FailedForgotten, Is
<1> QED
  BY <1>10, <1>12, <1>13, <1>14, OneProject

LEMMA ContextEndsKeeps ==
    ASSUME ComposeInv, NEW p \in Projects, ContextEnds(p)
    PROVE  ComposeInv'
<1>1. /\ ~Is(p, "idle") /\ deploy' = [deploy EXCEPT ![p].cut = TRUE]
      /\ composeUsed' = [composeUsed EXCEPT !.cuts = @ + 1]
      /\ UNCHANGED <<disk, revs, services, outcome, sure, confirmations, previews>>
  BY DEF ContextEnds, previewVars
<1>2. ComposeTypes /\ ProjectShape(p) /\ ReportHolds(p)
  BY DEF ComposeInv
<1>3. /\ deploy' \in [Projects -> OperationType]
      /\ \A q \in Projects \ {p} : deploy'[q] = deploy[q]
      /\ deploy'[p].at = deploy[p].at /\ deploy'[p].kind = deploy[p].kind
      /\ deploy'[p].file = deploy[p].file /\ deploy'[p].new = deploy[p].new
      /\ deploy'[p].old = deploy[p].old /\ deploy'[p].bad = deploy[p].bad
  <2>1. deploy \in [Projects -> OperationType]
    BY <1>2 DEF ComposeTypes
  <2> QED
    BY <1>1, <2>1 DEF OperationType
<1>4. /\ composeUsed' \in [crashes : Nat, faults : Nat, cuts : Nat]
      /\ composeUsed'.faults = composeUsed.faults /\ composeUsed.faults \in Nat
  <2>1. composeUsed \in [crashes : Nat, faults : Nat, cuts : Nat]
    BY <1>2 DEF ComposeTypes
  <2>2. composeUsed' = [composeUsed EXCEPT !.cuts = @ + 1]
    BY <1>1
  <2> QED
    BY <2>1, <2>2
<1>5. ComposeTypes' /\ Elsewhere(p) /\ FaultsGrow
  BY <1>1, <1>2, <1>3, <1>4 DEF ComposeTypes, Elsewhere, FaultsGrow
<1>6. ProjectShape(p)'
  <2>1. FilesMean(p)'
    BY <1>1, <1>2, <1>3 DEF ProjectShape, Is, FilesMean, SameFiles, Between
  <2>2. OperationMeans(p)'
    BY <1>1, <1>2, <1>3, <1>4 DEF ProjectShape, Is, OperationMeans, HasFiles, NoneAbove
  <2> QED
    BY <1>1, <1>2, <1>3, <2>1, <2>2 DEF ProjectShape, Is
<1>7. ReportHolds(p)'
  BY <1>1, <1>2, <1>3 DEF ReportHolds, Whole, HasFiles, Config
<1>8. FewFileFailures' => FailedForgotten(p)'
  BY <1>1, <1>3, <1>4 DEF ComposeInv, FewFileFailures, FailedForgotten, Is, NoneFailed
<1> QED
  BY <1>5, <1>6, <1>7, <1>8, OneProject

LEMMA AgentDiesKeeps ==
    ASSUME ComposeInv, AgentDies
    PROVE  ComposeInv'
<1>1. ComposeTypes
  BY DEF ComposeInv
<1>2. /\ UNCHANGED <<disk, revs, previews>> /\ confirmations' = {}
      /\ deploy' = [p \in Projects |-> Free]
      /\ sure' = [p \in Projects |-> sure[p] /\ Is(p, "idle")]
  BY DEF AgentDies
<1>3. /\ composeUsed' \in [crashes : Nat, faults : Nat, cuts : Nat]
      /\ composeUsed'.faults = composeUsed.faults
  <2>1. composeUsed \in [crashes : Nat, faults : Nat, cuts : Nat]
    BY <1>1 DEF ComposeTypes
  <2>2. composeUsed' = [composeUsed EXCEPT !.crashes = @ + 1]
    BY DEF AgentDies
  <2> QED
    BY <2>1, <2>2
<1>4. /\ outcome' \in [Projects -> [Revisions -> Outcomes]]
      /\ \A p \in Projects, r \in Revisions :
           outcome'[p][r] = IF ~Is(p, "idle") /\ r = deploy[p].new.meta THEN "died" ELSE outcome[p][r]
  <2>1. outcome' = [p \in Projects |-> [r \in Revisions |->
                      IF ~Is(p, "idle") /\ r = deploy[p].new.meta THEN "died" ELSE outcome[p][r]]]
    BY DEF AgentDies
  <2> QED
    BY <1>1, <2>1 DEF ComposeTypes, Outcomes
<1>5. /\ services' \in [Projects -> Deployed]
      /\ \A p \in Projects : deploy[p].at = "idle" => services'[p] = services[p]
  <2>1. PICK half \in BOOLEAN : services' = [p \in Projects |->
           IF half /\ deploy[p].at \in {"up", "again", "down"} THEN Partly ELSE services[p]]
    BY DEF AgentDies
  <2>2. Partly \in Deployed /\ services \in [Projects -> Deployed]
    BY <1>1 DEF Deployed, ComposeTypes
  <2> QED
    BY <2>1, <2>2
<1>6. /\ deploy' \in [Projects -> OperationType]
      /\ \A p \in Projects : deploy'[p].at = "idle" /\ deploy'[p].kind = "none"
  <2>1. Free.kind = "none"
    BY DEF Free
  <2> QED
    BY <1>2, <2>1, FreeType
<1>7. sure' \in [Projects -> BOOLEAN] /\ \A p \in Projects : sure'[p] => sure[p] /\ Is(p, "idle")
  BY <1>1, <1>2 DEF ComposeTypes
<1>8. ComposeTypes'
  BY <1>1, <1>2, <1>3, <1>4, <1>5, <1>6, <1>7 DEF ComposeTypes
<1>9. ASSUME NEW p \in Projects
      PROVE  /\ ProjectShape(p)' /\ ReportHolds(p)'
             /\ FewFileFailures' => FailedForgotten(p)'
  <2>1. /\ ProjectShape(p) /\ ReportHolds(p)
        /\ deploy[p].new.meta \in Nat /\ deploy[p].old.meta \in Nat /\ disk[p].meta \in Nat
    BY <1>1, OperationParts DEF ComposeInv
  <2>2. ~Is(p, "idle") => /\ deploy[p].new.meta = deploy[p].old.meta + 1
                          /\ NoneAbove(p, deploy[p].new.meta)
                          /\ disk[p].meta \in {deploy[p].old.meta, deploy[p].new.meta}
    BY <2>1 DEF ProjectShape, FilesMean, OperationMeans
  <2>3. NoneAbove(p, disk[p].meta + 1)
    BY <2>1, <2>2 DEF ProjectShape, NoneAbove, Revisions
  <2>4. ProjectShape(p)'
    BY <1>2, <1>6, <2>1, <2>3 DEF ProjectShape, Is, NoneAbove
  <2>5. ReportHolds(p)'
    <3>1. sure'[p] => Whole(disk[p], revs[p]) /\ services[p] = Config(disk[p]) /\ deploy[p].at = "idle"
      BY <1>7, <2>1 DEF ReportHolds, Is
    <3>2. sure'[p] => Whole(disk[p], revs[p])' /\ services'[p] = Config(disk[p])'
      BY <1>2, <1>5, <3>1 DEF Whole, HasFiles, Config
    <3> QED
      BY <1>6, <3>2 DEF ReportHolds
  <2>6. FewFileFailures' => FailedForgotten(p)'
    <3>1. FewFileFailures' => FailedForgotten(p)
      BY <1>3 DEF ComposeInv, FewFileFailures
    <3>2. FewFileFailures' => NoneFailed(p, disk[p].meta)'
      <4> SUFFICES ASSUME FewFileFailures', NEW r \in Revisions, r <= disk[p].meta, revs[p][r] # NoFile
                   PROVE  outcome'[p][r] # "failed"
        BY <1>2 DEF NoneFailed
      <4>1. CASE Is(p, "idle")
        BY <1>4, <3>1, <4>1 DEF FailedForgotten, NoneFailed
      <4>2. CASE ~Is(p, "idle") /\ r = deploy[p].new.meta
        BY <1>4, <4>2
      <4>3. CASE ~Is(p, "idle") /\ r # deploy[p].new.meta
        <5>1. r <= deploy[p].old.meta
          BY <2>1, <2>2, <4>3 DEF Revisions
        <5> QED
          BY <1>4, <3>1, <4>3, <5>1 DEF FailedForgotten, NoneFailed
      <4> QED
        BY <4>1, <4>2, <4>3
    <3> QED
      BY <1>6, <3>2 DEF FailedForgotten, Is
  <2> QED
    BY <2>4, <2>5, <2>6
<1> QED
  BY <1>8, <1>9 DEF ComposeInv

LEMMA InitCompose == ComposeInit => ComposeInv
<1> SUFFICES ASSUME ComposeInit PROVE ComposeInv
  OBVIOUS
<1> USE DEF ComposeInit
<1>1. NoDisk \in FilesType /\ NoDisk.meta = 0
  BY DEF NoDisk, FilesType
<1>2. NoRevs \in [Revisions -> Drafts \cup {NoFile}] /\ \A r \in Revisions : NoRevs[r] = NoFile
  BY DEF NoRevs
<1>3. ComposeTypes
  <2>1. deploy \in [Projects -> OperationType] /\ disk \in [Projects -> FilesType]
    BY <1>1, FreeType
  <2>2. services \in [Projects -> Deployed] /\ sure \in [Projects -> BOOLEAN]
    BY DEF Deployed
  <2>3. /\ revs \in [Projects -> [Revisions -> Drafts \cup {NoFile}]]
        /\ outcome \in [Projects -> [Revisions -> Outcomes]]
    BY <1>2 DEF Outcomes
  <2> QED
    BY <2>1, <2>2, <2>3 DEF ComposeTypes
<1>4. ASSUME NEW p \in Projects
      PROVE  ProjectShape(p) /\ ReportHolds(p) /\ FailedForgotten(p)
  <2>1. /\ deploy[p].at = "idle" /\ disk[p].meta = 0 /\ ~sure[p]
        /\ \A r \in Revisions : revs[p][r] = NoFile
    BY <1>1, <1>2, FreeType
  <2> QED
    BY <2>1, ComposeAssumption DEF ProjectShape, ReportHolds, FailedForgotten, Is, NoneAbove, NoneFailed
<1> QED
  BY <1>3, <1>4 DEF ComposeInv

LEMMA NextCompose == ComposeInv /\ [ComposeNext]_composeVars => ComposeInv'
<1> SUFFICES ASSUME ComposeInv, [ComposeNext]_composeVars PROVE ComposeInv'
  OBVIOUS
<1>1. ASSUME NEW p \in Projects, Operates(p) PROVE ComposeInv'
  BY <1>1, WriteRevisionKeeps, WriteFileKeeps, PullKeeps, UpKeeps, PruneKeeps, DownKeeps, MoveAwayKeeps,
     RestoreFileKeeps, UpAgainKeeps, RemoveRevisionKeeps DEF Operates
<1>2. ASSUME NEW p \in Projects,
             \/ Rollback(p) \/ Archive(p) \/ Act(p) \/ ContextEnds(p)
             \/ \E d \in Drafts : Preview(p, d) \/ \E k \in DOMAIN previews : Apply(p, d, k)
      PROVE  ComposeInv'
  BY <1>2, RollbackKeeps, ArchiveKeeps, ActKeeps, ContextEndsKeeps, PreviewsKeep, ApplyKeeps
<1>3. ASSUME ExpirePreview PROVE ComposeInv'
  <2>1. UNCHANGED <<disk, revs, services, deploy, previews, outcome, sure, composeUsed>>
    BY <1>3 DEF ExpirePreview, historyVars
  <2>2. confirmations' \subseteq confirmations
    BY <1>3 DEF ExpirePreview, WithoutOldest
  <2>3. ComposeTypes' /\ FaultsGrow
    BY <2>1, <2>2 DEF ComposeInv, ComposeTypes, FaultsGrow
  <2>4. \A q \in Projects :
          /\ ProjectShape(q) => ProjectShape(q)'
          /\ ReportHolds(q) => ReportHolds(q)'
          /\ FailedForgotten(q) => FailedForgotten(q)'
    BY <2>1, <2>3, SameProject DEF ComposeInv
  <2> QED
    BY <2>1, <2>3, <2>4 DEF ComposeInv, FewFileFailures
<1>4. ASSUME UNCHANGED composeVars PROVE ComposeInv'
  <2>1. UNCHANGED <<disk, revs, services, deploy, confirmations, previews, outcome, sure, composeUsed>>
    BY <1>4 DEF composeVars
  <2>2. ComposeTypes' /\ FaultsGrow
    BY <2>1 DEF ComposeInv, ComposeTypes, FaultsGrow
  <2>3. \A q \in Projects :
          /\ ProjectShape(q) => ProjectShape(q)'
          /\ ReportHolds(q) => ReportHolds(q)'
          /\ FailedForgotten(q) => FailedForgotten(q)'
    BY <2>1, <2>2, SameProject DEF ComposeInv
  <2> QED
    BY <2>1, <2>2, <2>3 DEF ComposeInv, FewFileFailures
<1> QED
  BY <1>1, <1>2, <1>3, <1>4, AgentDiesKeeps DEF ComposeNext

\* What the invariant says of a project whose deployment was reported, and of a rollback
LEMMA ComposeInvMeans ==
    ASSUME ComposeInv, composeUsed.faults <= 1
    PROVE  DeploymentConsistent
<1>1. ComposeTypeOK
  <2>1. \A p \in Projects : disk[p].meta \in 0 .. MaxRevision
    BY OperationParts, ComposeAssumption DEF ComposeInv, ProjectShape
  <2>2. \A p \in Projects : disk[p] \in
          [dir : BOOLEAN, yaml : Drafts \cup {NoFile}, env : Drafts \cup {NoFile}, meta : 0 .. MaxRevision]
    BY <2>1 DEF ComposeInv, ComposeTypes, FilesType
  <2>3. disk \in [Projects ->
          [dir : BOOLEAN, yaml : Drafts \cup {NoFile}, env : Drafts \cup {NoFile}, meta : 0 .. MaxRevision]]
    BY <2>2 DEF ComposeInv, ComposeTypes
  <2>4. \A p \in Projects : deploy[p].file \in 1 .. 4 /\ deploy[p].at \in Points
    BY OperationParts DEF ComposeInv
  <2> QED
    BY <2>3, <2>4 DEF ComposeInv, ComposeTypes, ComposeTypeOK, Points
<1>2. NoFailedRollback
  <2> SUFFICES ASSUME NEW p \in Projects, NEW r \in Candidates(p) PROVE outcome[p][r] # "failed"
    BY DEF NoFailedRollback
  <2>1. /\ FailedForgotten(p) /\ ProjectShape(p)
        /\ deploy[p].new.meta \in Nat /\ deploy[p].old.meta \in Nat /\ disk[p].meta \in Nat
    BY OperationParts DEF ComposeInv, FewFileFailures
  <2>2. r \in Revisions /\ revs[p][r] # NoFile /\ r < disk[p].meta
    BY DEF Candidates
  <2>3. CASE Is(p, "idle")
    BY <2>1, <2>2, <2>3 DEF FailedForgotten, NoneFailed, Revisions
  <2>4. CASE ~Is(p, "idle")
    <3>1. r <= deploy[p].old.meta
      BY <2>1, <2>2, <2>4 DEF ProjectShape, FilesMean, OperationMeans, Revisions
    <3> QED
      BY <2>1, <2>2, <2>4, <3>1 DEF FailedForgotten, NoneFailed
  <2> QED
    BY <2>3, <2>4
<1>3. ASSUME NEW p \in Projects, sure[p], Is(p, "idle")
      PROVE  Loaded(p) /\ revs[p][disk[p].meta] = disk[p].yaml /\ services[p] = Config(disk[p])
  BY <1>3 DEF ComposeInv, ReportHolds, Is, Whole, HasFiles, Loaded
<1> QED
  BY <1>1, <1>2, <1>3 DEF DeploymentConsistent

LEMMA AlwaysCompose == ComposeSpec => []ComposeInv
BY InitCompose, NextCompose, PTL DEF ComposeSpec

\* What the agent reported of a deployment is so, and no rollback goes back to a deployment that
\* failed, whatever commands fail, contexts end and crashes occur (internal/agent/docker/
\* compose_deployment.go, Apply, Rollback and the restoration), as long as at most one operation
\* on a file fails: with two the revision of a failed deployment may stay, under a number that
\* is the project's own.
THEOREM DeploymentCorrect == ComposeSpec => [](composeUsed.faults <= 1 => DeploymentConsistent)
<1>1. ComposeInv => (composeUsed.faults <= 1 => DeploymentConsistent)
  BY ComposeInvMeans
<1> QED
  BY <1>1, AlwaysCompose, PTL

\* The first half without a condition: what was reported is so however many files fail.
THEOREM ReportCorrect ==
    ComposeSpec => [](\A p \in Projects : sure[p] /\ Is(p, "idle") =>
                        /\ Loaded(p) /\ revs[p][disk[p].meta] = disk[p].yaml
                        /\ services[p] = Config(disk[p]))
<1>1. ComposeInv => \A p \in Projects : sure[p] /\ Is(p, "idle") =>
                        /\ Loaded(p) /\ revs[p][disk[p].meta] = disk[p].yaml
                        /\ services[p] = Config(disk[p])
  BY DEF ComposeInv, ReportHolds, Is, Whole, HasFiles, Loaded
<1> QED
  BY <1>1, AlwaysCompose, PTL
-----------------------------------------------------------------------------
(* The installation of an Agent and those who watch it.                    *)

LEMMA AppendAfter ==
    ASSUME NEW S, NEW s \in Seq(S), NEW b \in Seq(S), NEW e \in S
    PROVE  s \o Append(b, e) = Append(s \o b, e)
<1>1. /\ <<e>> \in Seq(S) /\ s \o b \in Seq(S) /\ Append(b, e) = b \o <<e>>
      /\ Append(s \o b, e) = (s \o b) \o <<e>>
  BY AppendIsConcat, ConcatProperties
<1> QED
  BY <1>1, ConcatAssociative

LEMMA ShiftHead ==
    ASSUME NEW S, NEW s \in Seq(S), NEW b \in Seq(S), b # <<>>
    PROVE  /\ Append(s, Head(b)) \o Tail(b) = s \o b
           /\ Append(s, Head(b)) \in Seq(S) /\ Tail(b) \in Seq(S)
<1>1. Head(b) \in S /\ Tail(b) \in Seq(S) /\ Append(s, Head(b)) = s \o <<Head(b)>>
      /\ Append(s, Head(b)) \in Seq(S) /\ <<Head(b)>> \in Seq(S)
  BY HeadTailProperties, AppendIsConcat, AppendProperties
<1>2. b = <<Head(b)>> \o Tail(b)
  <2> DEFINE c == <<Head(b)>> \o Tail(b)
  <2>1. c \in Seq(S) /\ Len(c) = Len(b)
    BY <1>1, ConcatProperties, HeadTailProperties, LenProperties
  <2>2. \A i \in 1 .. Len(b) : b[i] = c[i]
    <3> SUFFICES ASSUME NEW i \in 1 .. Len(b) PROVE b[i] = c[i]
      OBVIOUS
    <3>1. /\ Len(Tail(b)) = Len(b) - 1 /\ Len(b) \in Nat
          /\ \A j \in 1 .. Len(Tail(b)) : Tail(b)[j] = b[j + 1]
      BY HeadTailProperties, LenProperties
    <3>2. /\ Len(<<Head(b)>>) = 1 /\ <<Head(b)>>[1] = Head(b) /\ Head(b) = b[1]
      OBVIOUS
    <3>3. c[i] = IF i <= 1 THEN <<Head(b)>>[i] ELSE Tail(b)[i - 1]
      BY <1>1, <3>1, <3>2, ConcatProperties
    <3>4. CASE i = 1
      BY <3>2, <3>3, <3>4
    <3>5. CASE i # 1
      <4>1. i - 1 \in 1 .. Len(Tail(b)) /\ (i - 1) + 1 = i /\ ~(i <= 1)
        BY <3>1, <3>5
      <4>2. Tail(b)[i - 1] = b[(i - 1) + 1]
        BY <3>1, <4>1
      <4> QED
        BY <3>3, <4>1, <4>2
    <3> QED
      BY <3>4, <3>5
  <2> QED
    BY <2>1, <2>2, SeqEqual
<1> QED
  BY <1>1, <1>2, ConcatAssociative

LEMMA LastOfAppend ==
    ASSUME NEW S, NEW s \in Seq(S), NEW e \in S
    PROVE  Front(Append(s, e)) = s /\ Last(Append(s, e)) = e
<1> DEFINE a == Append(s, e)
<1>1. /\ a \in Seq(S) /\ Len(a) = Len(s) + 1 /\ Len(s) \in Nat /\ a[Len(s) + 1] = e
      /\ \A i \in 1 .. Len(s) : a[i] = s[i] /\ s[i] \in S
  BY AppendProperties, LenProperties, ElementOfSeq
<1> HIDE DEF a
<1>2. Front(a) = SubSeq(a, 1, Len(s))
  BY <1>1 DEF Front
<1>3. /\ Front(a) \in Seq(S) /\ Len(Front(a)) = Len(s)
      /\ \A i \in 1 .. Len(s) : Front(a)[i] = a[i]
  <2>1. \A i \in 1 .. Len(s) : a[i] \in S
    BY <1>1
  <2>2. SubSeq(a, 1, Len(s)) \in Seq(S)
        /\ Len(SubSeq(a, 1, Len(s))) = (IF 1 <= Len(s) THEN Len(s) - 1 + 1 ELSE 0)
        /\ \A i \in 1 .. Len(s) - 1 + 1 : SubSeq(a, 1, Len(s))[i] = a[1 + i - 1]
    BY <1>1, <2>1, SubSeqProperties
  <2> QED
    BY <1>1, <1>2, <2>2
<1>4. Front(a) = s
  BY <1>1, <1>3, SeqEqual
<1> QED
  BY <1>1, <1>4 DEF Last, a

\* The stages of a job: at work, about to tell its end, and told
AtWork == {"operating", "waiting", "deleting", "disconnecting", "ending"}
Told == {"told", "over"}
JobPlaces == {"idle", "telling"} \cup AtWork \cup Told

JobRows == [kind : {"none", "install", "uninstall", "purge"}, at : JobPlaces,
            step : Nat, ok : BOOLEAN]
EventRows == [status : {"none", "running", "success", "failed"}, done : BOOLEAN, masked : BOOLEAN]

InstallTyped ==
    /\ job \in JobRows /\ events \in Seq(EventRows)
    /\ jobStatus \in {"none", "running", "success", "failed"}
    /\ secrets \in BOOLEAN
    /\ watcher \in [Watchers -> {"idle", "watching", "late", "ended", "short", "gone"}]
    /\ subscribed \in SUBSET Watchers /\ released \in SUBSET Watchers /\ missed \in SUBSET Watchers
    /\ buffer \in [Watchers -> Seq(EventRows)] /\ shown \in [Watchers -> Seq(EventRows)]

\* The status and the secrets follow the job.
StatusFollows ==
    /\ job.at = "idle" <=> jobStatus = "none"
    /\ job.at \in AtWork <=> jobStatus = "running"
    /\ job.at \in AtWork \cup {"telling", "told"} => secrets = TRUE

\* The last event is the one that tells the end, and only once told.
HistoryEnds ==
    /\ job.at = "idle" => events = <<>>
    /\ \A i \in DOMAIN events :
          /\ events[i].masked
          /\ events[i].done => job.at \in Told /\ i = Len(events) /\ events[i].status = jobStatus

\* What a watcher has and will be shown, by what it does and how far the job has come
Sees(state, seen, sub, mis, rel, history, at) ==
    /\ at = "idle" => state = "idle"
    /\ sub => at \in AtWork \cup {"telling"} /\ state \in {"watching", "gone"}
    /\ rel => at \in Told \/ state \in {"late", "short", "gone"}
    /\ state = "watching" => sub \/ at \in Told
    /\ state = "ended" => at \in Told
    /\ state \in {"watching", "ended"} /\ ~mis => seen = history
    /\ state \in {"late", "short"} =>
          /\ at \in {"telling"} \cup Told
          /\ \/ seen = history
             \/ at \in Told /\ seen = Front(history) /\ Last(history).done

Seen(w) == shown[w] \o buffer[w]
WatcherSees ==
    \A w \in Watchers :
        /\ Sees(watcher[w], Seen(w), w \in subscribed, w \in missed, w \in released, events, job.at)
        /\ watcher[w] = "idle" => buffer[w] = <<>>

InstallInv == InstallTyped /\ StatusFollows /\ HistoryEnds /\ WatcherSees

\* An event comes to the history and to every subscriber whose channel has room.
LEMMA EventComes ==
    ASSUME InstallInv, NEW e \in EventRows, Add(e), e.masked, UNCHANGED <<watcher, shown>>,
           job' \in JobRows, jobStatus' = jobStatus, secrets' = secrets,
           \/ job.at \in AtWork /\ job'.at \in AtWork /\ ~e.done
           \/ job.at = "telling" /\ job'.at = "told" /\ e.done /\ e.status = jobStatus
    PROVE  InstallInv'
<1>1. /\ events \in Seq(EventRows) /\ Len(events) \in Nat /\ DOMAIN events = 1 .. Len(events)
      /\ events' = Append(events, e) /\ events' \in Seq(EventRows)
      /\ DOMAIN events' = 1 .. Len(events) + 1 /\ Len(events') = Len(events) + 1
      /\ events'[Len(events) + 1] = e /\ \A i \in 1 .. Len(events) : events'[i] = events[i]
  BY AppendProperties, LenProperties DEF InstallInv, InstallTyped, Add
<1>2. InstallTyped'
  <2>1. ASSUME NEW w \in Watchers PROVE Append(buffer[w], e) \in Seq(EventRows)
    BY AppendProperties DEF InstallInv, InstallTyped
  <2>2. buffer' \in [Watchers -> Seq(EventRows)]
    BY <2>1 DEF Add, InstallInv, InstallTyped
  <2>3. subscribed' \in SUBSET Watchers /\ released' \in SUBSET Watchers /\ missed' \in SUBSET Watchers
    BY DEF Add, InstallInv, InstallTyped
  <2> QED
    BY <1>1, <2>2, <2>3 DEF InstallInv, InstallTyped
<1>3. StatusFollows'
  BY DEF InstallInv, StatusFollows, AtWork, Told
<1>4. HistoryEnds'
  <2>1. \A i \in DOMAIN events : ~events[i].done /\ events[i].masked
    BY DEF InstallInv, HistoryEnds, AtWork, Told
  <2>2. \A i \in DOMAIN events' : \/ i \in DOMAIN events /\ events'[i] = events[i]
                                  \/ i = Len(events') /\ events'[i] = e
    BY <1>1
  <2> QED
    BY <2>1, <2>2 DEF HistoryEnds, AtWork, Told
<1>5. WatcherSees'
  <2> SUFFICES ASSUME NEW w \in Watchers
               PROVE  /\ Sees(watcher[w], shown[w] \o buffer'[w], w \in subscribed', w \in missed',
                              w \in released', events', job'.at)
                      /\ watcher[w] = "idle" => buffer'[w] = <<>>
    BY DEF WatcherSees, Seen, Sees
  <2>1. Sees(watcher[w], shown[w] \o buffer[w], w \in subscribed, w \in missed,
             w \in released, events, job.at)
        /\ (watcher[w] = "idle" => buffer[w] = <<>>)
    BY DEF InstallInv, WatcherSees, Seen
  <2>2. /\ buffer'[w] = (IF w \in subscribed /\ ~Full(w) THEN Append(buffer[w], e) ELSE buffer[w])
        /\ (w \in missed' <=> w \in missed \/ (w \in subscribed /\ Full(w)))
        /\ (w \in released' <=> w \in released \/ (e.done /\ w \in subscribed))
        /\ (w \in subscribed' <=> ~e.done /\ w \in subscribed)
    BY DEF Add
  <2>3. CASE w \in subscribed
    <3>1. shown[w] \o Append(buffer[w], e) = Append(shown[w] \o buffer[w], e)
      BY AppendAfter DEF InstallInv, InstallTyped
    <3>2. watcher[w] \in {"watching", "gone"}
      BY <2>1, <2>3 DEF Sees
    <3>3. watcher[w] = "watching" /\ w \notin missed' => shown[w] \o buffer'[w] = events'
      BY <1>1, <2>1, <2>2, <2>3, <3>1 DEF Sees
    <3> QED
      BY <2>1, <2>2, <2>3, <3>2, <3>3 DEF Sees, AtWork, Told
  <2>4. CASE w \notin subscribed
    <3>1. buffer'[w] = buffer[w] /\ w \notin subscribed'
          /\ (w \in missed' <=> w \in missed) /\ (w \in released' <=> w \in released)
      BY <2>2, <2>4
    <3>2. watcher[w] \notin {"watching", "ended"}
      BY <2>1, <2>4 DEF Sees, AtWork, Told
    <3>3. CASE watcher[w] \in {"late", "short"}
      <4>1. job.at = "telling" /\ job'.at = "told" /\ e.done /\ shown[w] \o buffer[w] = events
        BY <2>1, <3>3 DEF Sees, AtWork, Told
      <4>2. Front(events') = events /\ Last(events') = e
        BY <1>1, LastOfAppend
      <4> QED
        BY <2>1, <3>1, <3>3, <4>1, <4>2 DEF Sees, AtWork, Told
    <3>4. CASE watcher[w] \notin {"late", "short"}
      BY <2>1, <3>1, <3>2, <3>4 DEF Sees, AtWork, Told
    <3> QED
      BY <3>3, <3>4
  <2> QED
    BY <2>3, <2>4
<1> QED
  BY <1>2, <1>3, <1>4, <1>5 DEF InstallInv

\* The job goes on and tells nobody.
LEMMA JobMoves ==
    ASSUME InstallInv, UNCHANGED <<events, buffer, missed, released, subscribed, watcher, shown>>,
           job' \in JobRows, secrets' \in BOOLEAN, jobStatus' \in {"none", "running", "success", "failed"},
           \/ job.at \in AtWork /\ job'.at \in AtWork /\ UNCHANGED <<jobStatus, secrets>>
           \/ job.at = "ending" /\ job'.at = "telling" /\ jobStatus' \in {"success", "failed"}
              /\ UNCHANGED secrets
           \/ job.at = "told" /\ job'.at = "over" /\ UNCHANGED jobStatus
    PROVE  InstallInv'
<1>1. InstallTyped' /\ StatusFollows' /\ HistoryEnds'
  BY DEF InstallInv, InstallTyped, StatusFollows, HistoryEnds, AtWork, Told
<1>2. WatcherSees'
  <2> SUFFICES ASSUME NEW w \in Watchers
               PROVE  /\ Sees(watcher[w], Seen(w), w \in subscribed, w \in missed,
                              w \in released, events, job'.at)
                      /\ watcher[w] = "idle" => buffer[w] = <<>>
    BY DEF WatcherSees, Seen, Sees
  <2> QED
    BY DEF InstallInv, WatcherSees, Sees, AtWork, Told
<1> QED
  BY <1>1, <1>2 DEF InstallInv

\* One watcher moves, and the job goes on.
LEMMA WatcherMoves ==
    ASSUME InstallInv, UNCHANGED <<job, jobStatus, events, secrets, missed>>,
           NEW w \in Watchers,
           NEW state \in {"watching", "late", "ended", "short", "gone"},
           NEW b \in Seq(EventRows), NEW s \in Seq(EventRows),
           watcher' = [watcher EXCEPT ![w] = state], buffer' = [buffer EXCEPT ![w] = b],
           shown' = [shown EXCEPT ![w] = s],
           subscribed' \in SUBSET Watchers, released' \in SUBSET Watchers,
           \A v \in Watchers \ {w} : (v \in subscribed' <=> v \in subscribed)
                                      /\ (v \in released' <=> v \in released),
           Sees(state, s \o b, w \in subscribed', w \in missed, w \in released', events, job.at)
    PROVE  InstallInv'
<1>1. InstallTyped' /\ StatusFollows' /\ HistoryEnds'
  BY DEF InstallInv, InstallTyped, StatusFollows, HistoryEnds
<1>2. WatcherSees'
  <2> SUFFICES ASSUME NEW v \in Watchers
               PROVE  /\ Sees(watcher'[v], shown'[v] \o buffer'[v], v \in subscribed', v \in missed,
                              v \in released', events, job.at)
                      /\ watcher'[v] = "idle" => buffer'[v] = <<>>
    BY DEF WatcherSees, Seen, Sees
  <2>1. CASE v = w
    BY <2>1 DEF InstallInv, InstallTyped
  <2>2. CASE v # w
    <3>1. watcher'[v] = watcher[v] /\ shown'[v] = shown[v] /\ buffer'[v] = buffer[v]
      BY <2>2 DEF InstallInv, InstallTyped
    <3> QED
      BY <2>2, <3>1 DEF InstallInv, WatcherSees, Seen, Sees
  <2> QED
    BY <2>1, <2>2
<1> QED
  BY <1>1, <1>2 DEF InstallInv

LEMMA JobStep ==
    ASSUME InstallInv, JobProgress
    PROVE  InstallInv'
<1>1. job \in JobRows /\ jobStatus \in {"none", "running", "success", "failed"} /\ secrets \in BOOLEAN
  BY DEF InstallInv, InstallTyped
<1>2. \A what \in {"success", "running"} : secrets = TRUE =>
         /\ Event(what) \in EventRows /\ Event(what).masked /\ ~Event(what).done
  BY DEF Event, EventRows
<1>3. ASSUME NEW what \in {"success", "running"}, Add(Event(what)), UNCHANGED <<watcher, shown>>,
             UNCHANGED <<jobStatus, secrets>>, job.at \in AtWork, job'.at \in AtWork, job' \in JobRows
      PROVE  InstallInv'
  <2> DEFINE e == Event(what)
  <2>1. secrets = TRUE
    BY <1>3 DEF InstallInv, StatusFollows
  <2>2. e \in EventRows /\ e.masked /\ ~e.done /\ Add(e)
    BY <1>2, <1>3, <2>1
  <2> HIDE DEF e
  <2> QED
    BY <1>3, <2>2, EventComes
<1>4. CASE Operate
  <2>1. job.at = "operating" /\ job' = [job EXCEPT !.step = @ + 1]
    BY <1>4 DEF Operate, EventAt
  <2>2. job' \in JobRows /\ job'.at = "operating"
    BY <1>1, <2>1 DEF JobRows
  <2> QED
    BY <1>3, <1>4, <2>1, <2>2 DEF Operate, AtWork
<1>5. CASE Operated
  <2>1. job.at = "operating" /\ \E at \in {"waiting", "deleting", "ending"} : job' = [job EXCEPT !.at = at]
    BY <1>5 DEF Operated, EventAt
  <2>2. job' \in JobRows /\ job'.at \in AtWork
    BY <1>1, <2>1 DEF JobRows, JobPlaces, AtWork
  <2> QED
    BY <1>3, <1>5, <2>1, <2>2 DEF Operated, AtWork
<1>6. CASE Poll \/ DisconnectInstalled
  <2>1. job.at \in AtWork /\ job' = [job EXCEPT !.at = "ending"]
    BY <1>6 DEF Poll, DisconnectInstalled, EventAt, AtWork
  <2>2. job' \in JobRows /\ job'.at \in AtWork
    BY <1>1, <2>1 DEF JobRows, JobPlaces, AtWork
  <2> QED
    BY <1>3, <1>6, <2>1, <2>2 DEF Poll, DisconnectInstalled
<1>7. ASSUME job.at \in AtWork, StepFails
      PROVE  InstallInv'
  <2>1. job' \in JobRows /\ job'.at = "ending"
    BY <1>1, <1>7 DEF StepFails, JobRows, JobPlaces, AtWork
  <2> QED
    BY <1>1, <1>7, <2>1, JobMoves DEF StepFails, QuietEvents, AtWork
<1>8. CASE OperationFails \/ GiveUpWaiting \/ DeleteFails
  BY <1>7, <1>8 DEF OperationFails, GiveUpWaiting, DeleteFails, EventAt, AtWork
<1>9. CASE DeleteRow
  <2>1. job' \in JobRows /\ job'.at = "disconnecting" /\ job.at = "deleting"
    BY <1>1, <1>9 DEF DeleteRow, EventAt, JobRows, JobPlaces, AtWork
  <2> QED
    BY <1>1, <1>9, <2>1, JobMoves DEF DeleteRow, QuietEvents, AtWork
<1>10. CASE SetStatus
  <2>1. job' \in JobRows /\ job'.at = "telling" /\ job.at = "ending" /\ jobStatus' \in {"success", "failed"}
    BY <1>1, <1>10 DEF SetStatus, EventAt, JobRows, JobPlaces
  <2> QED
    BY <1>1, <1>10, <2>1, JobMoves DEF SetStatus, QuietEvents
<1>11. CASE AddLast
  <2> DEFINE e == [Event(jobStatus) EXCEPT !.done = TRUE]
  <2>1. job.at = "telling" /\ job' \in JobRows /\ job'.at = "told"
    BY <1>1, <1>11 DEF AddLast, EventAt, JobRows, JobPlaces, Told
  <2>2. secrets = TRUE
    BY <2>1 DEF InstallInv, StatusFollows
  <2>3. e \in EventRows /\ e.masked /\ e.done /\ e.status = jobStatus /\ Add(e)
    BY <1>1, <1>11, <2>2 DEF AddLast, Event, EventRows
  <2> HIDE DEF e
  <2> QED
    BY <1>11, <2>1, <2>3, EventComes DEF AddLast
<1>12. CASE ClearSecrets
  <2>1. job' \in JobRows /\ job'.at = "over" /\ job.at = "told" /\ secrets' = FALSE
    BY <1>1, <1>12 DEF ClearSecrets, EventAt, JobRows, JobPlaces, Told
  <2>2. UNCHANGED <<jobStatus, events, buffer, missed, released, subscribed, watcher, shown>>
    BY <1>12 DEF ClearSecrets, watchVars
  <2> QED
    BY <1>1, <2>1, <2>2, JobMoves
<1> QED
  BY <1>4, <1>5, <1>6, <1>8, <1>9, <1>10, <1>11, <1>12 DEF JobProgress

LEMMA JobBegins ==
    ASSUME InstallInv, NEW kind \in {"install", "uninstall", "purge"}, StartJob(kind)
    PROVE  InstallInv'
<1> DEFINE e == [status |-> "running", done |-> FALSE, masked |-> TRUE]
<1>1. /\ job.at = "idle" /\ job' = [kind |-> kind, at |-> "operating", step |-> 0, ok |-> TRUE]
      /\ jobStatus' = "running" /\ secrets' = TRUE /\ events' = <<e>>
      /\ UNCHANGED <<watcher, subscribed, buffer, released, shown, missed>>
  BY DEF StartJob, EventAt, watchVars
<1>2. e \in EventRows /\ job' \in JobRows /\ job'.at = "operating"
  BY <1>1 DEF EventRows, JobRows, JobPlaces, AtWork
<1>3. InstallTyped' /\ StatusFollows' /\ HistoryEnds'
  BY <1>1, <1>2 DEF InstallInv, InstallTyped, StatusFollows, HistoryEnds, AtWork, Told
<1>4. \A w \in Watchers : watcher[w] = "idle" /\ w \notin subscribed /\ w \notin released /\ buffer[w] = <<>>
  BY <1>1 DEF InstallInv, WatcherSees, Sees, AtWork, Told
<1>5. WatcherSees'
  BY <1>1, <1>2, <1>4 DEF WatcherSees, Sees
<1> QED
  BY <1>3, <1>5 DEF InstallInv

LEMMA WatcherStep ==
    ASSUME InstallInv, NEW w \in Watchers, Subscribe(w) \/ Streaming(w) \/ StopWatching(w)
    PROVE  InstallInv'
<1> DEFINE b == buffer[w]
           s == shown[w]
<1>1. /\ b \in Seq(EventRows) /\ s \in Seq(EventRows) /\ events \in Seq(EventRows)
      /\ subscribed \in SUBSET Watchers /\ released \in SUBSET Watchers
      /\ Sees(watcher[w], s \o b, w \in subscribed, w \in missed, w \in released, events, job.at)
      /\ (watcher[w] = "idle" => b = <<>>)
      /\ buffer = [buffer EXCEPT ![w] = b] /\ shown = [shown EXCEPT ![w] = s]
      /\ watcher = [watcher EXCEPT ![w] = watcher[w]]
  BY DEF InstallInv, InstallTyped, WatcherSees, Seen
<1>2. CASE Subscribe(w)
  <2>1. /\ watcher[w] = "idle" /\ jobStatus # "none" /\ b = <<>> /\ shown' = [shown EXCEPT ![w] = events]
        /\ UNCHANGED <<job, jobStatus, events, secrets, missed, buffer>>
        /\ w \notin subscribed /\ (w \in released => job.at \in Told)
    BY <1>1, <1>2 DEF Subscribe, Sees
  <2>2. events \o b = events
    BY <1>1, <2>1, ConcatEmptySeq
  <2>3. buffer' = [buffer EXCEPT ![w] = b]
    BY <1>1, <2>1
  <2>4. CASE jobStatus = "running"
    <3>1. job.at \in AtWork /\ watcher' = [watcher EXCEPT ![w] = "watching"]
          /\ subscribed' = subscribed \cup {w} /\ released' = released
      BY <1>2, <2>4 DEF Subscribe, InstallInv, StatusFollows
    <3>2. Sees("watching", events \o b, w \in subscribed', w \in missed, w \in released', events, job.at)
      BY <2>1, <2>2, <3>1 DEF Sees, AtWork, Told
    <3> HIDE DEF b, s
    <3> QED
      BY <1>1, <2>1, <2>3, <3>1, <3>2, WatcherMoves
  <2>5. CASE jobStatus # "running"
    <3>1. job.at \in {"telling"} \cup Told /\ watcher' = [watcher EXCEPT ![w] = "late"]
          /\ subscribed' = subscribed /\ released' = released \cup {w}
      BY <1>2, <2>1, <2>5 DEF Subscribe, InstallInv, StatusFollows, InstallTyped, JobRows, JobPlaces
    <3>2. Sees("late", events \o b, w \in subscribed', w \in missed, w \in released', events, job.at)
      BY <2>1, <2>2, <3>1 DEF Sees, AtWork, Told
    <3> HIDE DEF b, s
    <3> QED
      BY <1>1, <2>1, <2>3, <3>1, <3>2, WatcherMoves
  <2> QED
    BY <2>4, <2>5
<1>3. CASE ShowNext(w)
  <2> DEFINE c == Tail(b)
             r == Append(s, Head(b))
  <2>1. /\ watcher[w] = "watching" /\ b # <<>>
        /\ shown' = [shown EXCEPT ![w] = r] /\ buffer' = [buffer EXCEPT ![w] = c]
        /\ UNCHANGED <<job, jobStatus, events, secrets, missed, watcher, subscribed, released>>
    BY <1>3 DEF ShowNext
  <2>2. r \o c = s \o b /\ r \in Seq(EventRows) /\ c \in Seq(EventRows)
    <3>1. s \in Seq(EventRows) /\ b \in Seq(EventRows) /\ b # <<>>
      BY <1>1, <2>1
    <3> HIDE DEF s, b
    <3> QED
      BY <3>1, ShiftHead
  <2> HIDE DEF b, s, c, r
  <2>3. Sees("watching", r \o c, w \in subscribed', w \in missed, w \in released', events, job.at)
    BY <1>1, <2>1, <2>2 DEF Sees
  <2>4. watcher' = [watcher EXCEPT ![w] = "watching"]
    BY <1>1, <2>1
  <2> QED
    BY <1>1, <2>1, <2>2, <2>3, <2>4, WatcherMoves
<1>4. CASE WatchOver(w) \/ StopWatching(w)
  <2>1. PICK state \in {"ended", "short", "gone"} :
           /\ watcher' = [watcher EXCEPT ![w] = state]
           /\ watcher[w] \in {"watching", "late"}
           /\ state = "ended" => watcher[w] = "watching" /\ w \in released
           /\ state = "short" => watcher[w] = "late"
    BY <1>4 DEF WatchOver, StopWatching
  <2>2. UNCHANGED <<job, jobStatus, events, secrets, missed, buffer, shown, subscribed, released>>
    BY <1>4 DEF WatchOver, StopWatching
  <2>3. Sees(state, s \o b, w \in subscribed', w \in missed, w \in released', events, job.at)
    BY <1>1, <2>1, <2>2 DEF Sees, AtWork, Told
  <2> HIDE DEF b, s
  <2> QED
    BY <1>1, <2>1, <2>2, <2>3, WatcherMoves
<1> QED
  BY <1>2, <1>3, <1>4 DEF Streaming

LEMMA InstallStep == InstallInv /\ [InstallNext]_installVars => InstallInv'
<1> SUFFICES ASSUME InstallInv, [InstallNext]_installVars PROVE InstallInv'
  OBVIOUS
<1>1. CASE TimePasses \/ AgentConnects \/ AgentGoes \/ UNCHANGED installVars
  <2>1. UNCHANGED <<job, jobStatus, events, secrets, watcher, subscribed, buffer, released, shown, missed>>
    BY <1>1 DEF TimePasses, AgentConnects, AgentGoes, installVars, watchVars
  <2> QED
    BY <2>1 DEF InstallInv, InstallTyped, StatusFollows, HistoryEnds, WatcherSees, Seen, Sees
<1> QED
  BY <1>1, JobBegins, JobStep, WatcherStep DEF InstallNext

LEMMA InstallStart == InstallInit => InstallInv
<1> SUFFICES ASSUME InstallInit PROVE InstallInv
  OBVIOUS
<1>1. <<>> \in Seq(EventRows) /\ DOMAIN <<>> = {}
  OBVIOUS
<1>2. job \in JobRows /\ job.at = "idle"
  BY DEF InstallInit, JobRows, JobPlaces
<1> QED
  BY <1>1, <1>2 DEF InstallInit, InstallInv, InstallTyped, StatusFollows, HistoryEnds, WatcherSees,
                    Seen, Sees, AtWork, Told

\* A watcher is shown all that happens in the job, in its order, unless its channel was full
\* or it came between the final status and the last event; and no event holds a secret
\* (sshops/jobs.go, app.go).
THEOREM WatchersCorrect == InstallSpec => []WatchersSeeAll
<1>1. InstallInv => WatchersSeeAll
  BY DEF InstallInv, WatcherSees, Seen, Sees, HistoryEnds, WatchersSeeAll
<1> QED
  BY <1>1, InstallStart, InstallStep, PTL DEF InstallSpec
=============================================================================
