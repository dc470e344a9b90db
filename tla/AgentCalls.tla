----------------------------- MODULE AgentCalls -----------------------------
(***************************************************************************)
(* The requests the Server sends over one connection of an Agent, and the  *)
(* terminals it relays: agentConnection of internal/server/agenthub/hub.go *)
(* on one side, the read loop, the script runner and the session managers  *)
(* of the Agent on the other.                                              *)
(*                                                                         *)
(* A call is a goroutine that waits on a channel of capacity one.  Two     *)
(* goroutines may fail the pending calls of the connection: its own        *)
(* handler, and that of a successor or of the deletion of the node.        *)
(* What a message carries is left out; a call stands for every operation   *)
(* of its kind.                                                            *)
(*                                                                         *)
(* A definition marked "deviation" is not the code: it is a mistake the    *)
(* next definition could have contained, which a property must detect.     *)
(***************************************************************************)
EXTENDS Naturals, Sequences, FiniteSets

CONSTANTS
    Calls, Kind,   \* the calls of this instance and what they are
    Supported,     \* the kinds the Agent has announced in its Hello
    Browsers,      \* browsers that open a terminal or a container exec
    MaxSessions,   \* maxServerTerminalSessions, and maxSessions of the Agent
    MaxRuns,       \* MaxConcurrentRuns of the script runner
    MaxUsers,      \* bound: calls and browsers that ever begin
    None

Kinds == {"file", "management", "container", "create", "node", "script"}
\* who also waits for closed (SendToNodeWithContext)
WaitsForClosed == {"create", "node"}
\* what the read loop of the Agent does itself: it reads on when the answer is written
Inline == {"file", "management", "container", "create"}
ASSUME KindAssumption == Kind \in [Calls -> Kinds] /\ Supported \subseteq Kinds
ASSUME BoundsAssumption == MaxSessions \in Nat \ {0} /\ MaxRuns \in Nat \ {0} /\ MaxUsers \in Nat
ASSUME NamesAssumption == Calls \cap Browsers = {} /\ None \notin Calls

\* the handler of the connection, and a successor's or the deletion of the node: of
\* these two only one finds the connection registered
Closers == {"handler", "other"}

VARIABLES
    registered,  \* the connection is the one in Handler.connections
    socket,      \* "open"; "lost": the peer is gone; "closed" by the Server
    closed,      \* agentConnection.closed
    pending,     \* the entries of all its pending maps
    call,        \* what every caller does
    channel,     \* the calls whose channel holds an answer or an error
    closer,      \* who fails the pending calls: how far, and whose channels are left
    reader,      \* the call whose channel the read loop of ServeHTTP is sending to
    terminals,   \* agentConnection.terminals and containerExecs
    browser,     \* what every browser's handler does
    hungUp,      \* browsers whose WebSocket the Server has closed
    toAgent,     \* messages on their way to the Agent, in order
    toServer,    \* messages on their way to the Server
    agent,       \* the Agent: "connected", "closing", "drained", "left"
    working,     \* calls the Agent works on
    shells       \* sessions of its managers

callVars  == <<pending, call, channel>>
connVars  == <<registered, socket, closed, closer, reader>>
termVars  == <<terminals, browser, hungUp>>
agentVars == <<agent, working, shells>>
links     == <<toAgent, toServer>>
vars == <<callVars, connVars, termVars, agentVars, links>>

Init ==
    /\ registered = TRUE /\ socket = "open" /\ closed = FALSE
    /\ pending = {}
    /\ call = [k \in Calls |-> "idle"]
    /\ channel = {}
    /\ closer = [g \in Closers |-> [pc |-> "idle", rest |-> {}]]
    /\ reader = None
    /\ terminals = {} /\ browser = [s \in Browsers |-> "idle"] /\ hungUp = {}
    /\ toAgent = <<>> /\ toServer = {}
    /\ agent = "connected" /\ working = {} /\ shells = {}

Users == {k \in Calls : call[k] # "idle"} \cup {s \in Browsers : browser[s] # "idle"}
Waiting(k) == call[k] = "waiting"
Goes(k, pc) == call' = [call EXCEPT ![k] = pc]

\* writeJSON: what is written to a peer that is gone may seem to be sent
Sends(message) ==
    \/ socket = "open" /\ toAgent' = Append(toAgent, message)
    \/ socket = "lost" /\ UNCHANGED toAgent
WriteFails == socket # "open" /\ UNCHANGED toAgent
-----------------------------------------------------------------------------
(* The callers                                                             *)

\* connection(): what a caller finds before anything else
Begin(k) ==
    /\ call[k] = "idle" /\ Cardinality(Users) < MaxUsers
    /\ Goes(k, IF registered /\ Kind[k] \in Supported THEN "found" ELSE "done")
    /\ UNCHANGED <<pending, channel, connVars, termVars, agentVars, links>>

\* FileList, FileRead, FileWrite, FileUpload, FileDelete
BeginFile(k) == Kind[k] = "file" /\ Begin(k)

\* Reboot, AgentStatus, AgentRestart, AgentLogs
BeginManagement(k) == Kind[k] = "management" /\ Begin(k)

\* DockerExec, ContainerStart, ContainerStop, ContainerRestart, ContainerDelete
BeginContainer(k) == Kind[k] = "container" /\ Begin(k)

\* The creation of a container, and every request about a Kubernetes cluster
BeginCreate(k) == Kind[k] = "create" /\ Begin(k)

\* Compose, Docker resources, systemd
BeginNode(k) == Kind[k] = "node" /\ Begin(k)

BeginScript(k) == Kind[k] = "script" /\ Begin(k)

\* The calls but RunScript add their entry whatever has become of the connection
AddPending(k) ==
    /\ call[k] = "found" /\ Kind[k] # "script"
    /\ pending' = pending \cup {k}
    /\ Goes(k, "added")
    /\ UNCHANGED <<channel, connVars, termVars, agentVars, links>>

\* callRPC looks at closed and adds its entry in one critical section
SeesClosed == closed

AddRPC(k) ==
    /\ call[k] = "found" /\ Kind[k] = "script"
    /\ IF SeesClosed
       THEN Goes(k, "done") /\ UNCHANGED pending
       ELSE pending' = pending \cup {k} /\ Goes(k, "added")
    /\ UNCHANGED <<channel, connVars, termVars, agentVars, links>>

WriteRequest(k) ==
    /\ call[k] = "added"
    /\ \/ Sends(<<"ask", k>>) /\ Goes(k, "waiting")
       \/ WriteFails /\ Goes(k, "leaving")
    /\ UNCHANGED <<pending, channel, connVars, termVars, agentVars, toServer>>

TakeAnswer(k) ==
    /\ Waiting(k) /\ k \in channel
    /\ Goes(k, "leaving")
    /\ channel' = channel \ {k}
    /\ UNCHANGED <<pending, connVars, termVars, agentVars, links>>

\* SendToNodeWithContext also waits for closed
SeeClosed(k) ==
    /\ Waiting(k) /\ Kind[k] \in WaitsForClosed /\ closed
    /\ Goes(k, "leaving")
    /\ UNCHANGED <<pending, channel, connVars, termVars, agentVars, links>>

\* The time is up, or the caller's context is done
GiveUp(k) ==
    /\ Waiting(k)
    /\ Goes(k, "leaving")
    /\ UNCHANGED <<pending, channel, connVars, termVars, agentVars, links>>

\* The deferred removal of the entry
KeepsEntry(k) == pending                              \* deviation: no defer
EntryRemoved(k) == pending \ {k}

RemovePending(k) ==
    /\ call[k] = "leaving"
    /\ pending' = EntryRemoved(k)
    /\ Goes(k, "done")
    /\ UNCHANGED <<channel, connVars, termVars, agentVars, links>>

Caller(k) ==
    AddPending(k) \/ AddRPC(k) \/ WriteRequest(k) \/ TakeAnswer(k) \/ SeeClosed(k) \/ RemovePending(k)
-----------------------------------------------------------------------------
(* The read loop of the Server                                             *)

Reading == closer["handler"].pc = "idle" /\ reader = None

\* An answer is looked up in the pending maps; one that nobody waits for is dropped
ReadAnswer(k) ==
    /\ Reading /\ socket # "closed"
    /\ <<"answer", k>> \in toServer
    /\ toServer' = toServer \ {<<"answer", k>>}
    /\ reader' = IF k \in pending THEN k ELSE None
    /\ UNCHANGED <<callVars, registered, socket, closed, closer, termVars, agentVars, toAgent>>

\* ... and sent to the channel after pendingMu was released: this blocks
Deliver ==
    LET k == reader
    IN  /\ k # None /\ Kind[k] # "script" /\ k \notin channel
        /\ channel' = channel \cup {k}
        /\ reader' = None
        /\ UNCHANGED <<pending, call, registered, socket, closed, closer, termVars, agentVars, links>>

\* deliverRPC never blocks
DeliverRPC ==
    LET k == reader
    IN  /\ k # None /\ Kind[k] = "script"
        /\ channel' = channel \cup {k}
        /\ reader' = None
        /\ UNCHANGED <<pending, call, registered, socket, closed, closer, termVars, agentVars, links>>

\* routeTerminalMessage, routeContainerExecMessage: the session has ended
RouteExit(s) ==
    /\ Reading /\ socket # "closed"
    /\ <<"exit", s>> \in toServer
    /\ toServer' = toServer \ {<<"exit", s>>}
    /\ terminals' = terminals \ {s}
    /\ hungUp' = IF s \in terminals THEN hungUp \cup {s} ELSE hungUp
    /\ UNCHANGED <<callVars, connVars, browser, agentVars, toAgent>>

-----------------------------------------------------------------------------
(* The end of the connection on the Server                                 *)

\* A read or the storing of a metric failed, and unregisterConnection is called;
\* registerConnection of a successor or DisconnectNode
Unregister(g) ==
    /\ closer[g].pc = "idle"
    /\ IF g = "handler" THEN Reading ELSE registered
    /\ registered' = FALSE
    /\ closer' = [closer EXCEPT ![g].pc = "sessions"]
    /\ UNCHANGED <<callVars, socket, closed, reader, termVars, agentVars, links>>

\* closeTerminals and closeContainerExecs
CloseSessions(g) ==
    /\ closer[g].pc = "sessions"
    /\ terminals' = {} /\ hungUp' = hungUp \cup terminals
    /\ closer' = [closer EXCEPT ![g].pc = "pending"]
    /\ UNCHANGED <<callVars, registered, socket, closed, reader, browser, agentVars, links>>

\* closePendingOperations takes all entries and closes closed under pendingMu ...
KeepsScripts == {k \in pending : Kind[k] # "script"}  \* deviation: pendingRPCs is forgotten
Taken == pending

ClosePending(g) ==
    /\ closer[g].pc = "pending"
    /\ closer' = [closer EXCEPT ![g] = [pc |-> "telling", rest |-> Taken]]
    /\ pending' = {}
    /\ closed' = TRUE
    /\ UNCHANGED <<call, channel, registered, socket, reader, termVars, agentVars, links>>

\* ... and then tells the callers: scripts without waiting, the others behind them
TellRPC(g, k) ==
    /\ closer[g].pc = "telling" /\ k \in closer[g].rest /\ Kind[k] = "script"
    /\ channel' = channel \cup {k}
    /\ closer' = [closer EXCEPT ![g].rest = @ \ {k}]
    /\ UNCHANGED <<pending, call, registered, socket, closed, reader, termVars, agentVars, links>>

Tell(g, k) ==
    /\ closer[g].pc = "telling" /\ k \in closer[g].rest
    /\ \A r \in closer[g].rest : Kind[r] # "script"
    /\ k \notin channel
    /\ channel' = channel \cup {k}
    /\ closer' = [closer EXCEPT ![g].rest = @ \ {k}]
    /\ UNCHANGED <<pending, call, registered, socket, closed, reader, termVars, agentVars, links>>

CloseSocket(g) ==
    /\ closer[g] = [pc |-> "telling", rest |-> {}]
    /\ closer' = [closer EXCEPT ![g].pc = "done"]
    /\ socket' = "closed"
    /\ UNCHANGED <<callVars, registered, closed, reader, termVars, agentVars, links>>

Closing(g) ==
    \/ CloseSessions(g) \/ ClosePending(g) \/ CloseSocket(g)
    \/ \E k \in Calls : TellRPC(g, k) \/ Tell(g, k)
-----------------------------------------------------------------------------
(* Browsers: AttachTerminal and AttachContainerExec                        *)

Attach(s) ==
    /\ browser[s] = "idle" /\ Cardinality(Users) < MaxUsers
    /\ browser' = [browser EXCEPT ![s] = IF registered THEN "found" ELSE "done"]
    /\ UNCHANGED <<callVars, connVars, terminals, hungUp, agentVars, links>>

\* addTerminal, addContainerExec: one limit for both
Room == Cardinality(terminals) < MaxSessions

AddTerminal(s) ==
    /\ browser[s] = "found"
    /\ IF Room
       THEN terminals' = terminals \cup {s} /\ browser' = [browser EXCEPT ![s] = "added"]
       ELSE browser' = [browser EXCEPT ![s] = "done"] /\ UNCHANGED terminals
    /\ UNCHANGED <<callVars, connVars, hungUp, agentVars, links>>

StartTerminal(s) ==
    /\ browser[s] = "added"
    /\ \/ Sends(<<"start", s>>) /\ browser' = [browser EXCEPT ![s] = "relaying"]
       \/ WriteFails /\ browser' = [browser EXCEPT ![s] = "leaving"]
    /\ UNCHANGED <<callVars, connVars, terminals, hungUp, agentVars, toServer>>

\* The browser goes, or its WebSocket was closed
BrowserLeaves(s) ==
    /\ browser[s] = "relaying"
    /\ browser' = [browser EXCEPT ![s] = "leaving"]
    /\ UNCHANGED <<callVars, connVars, terminals, hungUp, agentVars, links>>

SlotFreed(s) == terminals \ {s}

\* The deferred function: the session is forgotten, then the Agent told to close it
Detach(s) ==
    /\ browser[s] = "leaving"
    /\ terminals' = SlotFreed(s)
    /\ browser' = [browser EXCEPT ![s] = "closing"]
    /\ UNCHANGED <<callVars, connVars, hungUp, agentVars, links>>

SaysNothing(s) == UNCHANGED toAgent                   \* deviation: the Agent is not told
SaysClose(s) == Sends(<<"close", s>>) \/ WriteFails

CloseTerminal(s) ==
    /\ browser[s] = "closing"
    /\ SaysClose(s)
    /\ browser' = [browser EXCEPT ![s] = "done"]
    /\ UNCHANGED <<callVars, connVars, terminals, hungUp, agentVars, toServer>>

Relay(s) == AddTerminal(s) \/ StartTerminal(s) \/ Detach(s) \/ CloseTerminal(s)
-----------------------------------------------------------------------------
(* The Agent                                                               *)

Answers(message) == toServer' = IF socket = "open" THEN toServer \cup {message} ELSE toServer

\* The read loop takes the next message when it has answered what it works on itself
ReadsOn ==
    /\ agent \in {"connected", "closing"} /\ toAgent # <<>>
    /\ \A k \in working : Kind[k] \notin Inline
    /\ toAgent' = Tail(toAgent)

\* A script needs one of the runner's slots, or is answered "busy"
Scripts == {k \in working : Kind[k] = "script"}
TakeRequest ==
    /\ ReadsOn /\ Head(toAgent)[1] = "ask"
    /\ LET k == Head(toAgent)[2]
       IN  IF Kind[k] = "script" /\ Cardinality(Scripts) >= MaxRuns
           THEN Answers(<<"answer", k>>) /\ UNCHANGED working
           ELSE working' = working \cup {k} /\ UNCHANGED toServer
    /\ UNCHANGED <<callVars, connVars, termVars, agent, shells>>

\* The work is done, or its context was cancelled
Answer(k) ==
    /\ k \in working
    /\ working' = working \ {k}
    /\ Answers(<<"answer", k>>)
    /\ UNCHANGED <<callVars, connVars, termVars, agent, shells, toAgent>>

\* start: it may fail, and then says so
StartShell ==
    /\ ReadsOn /\ Head(toAgent)[1] = "start"
    /\ LET s == Head(toAgent)[2]
       IN  \/ /\ Cardinality(shells) < MaxSessions
              /\ shells' = shells \cup {s} /\ UNCHANGED toServer
           \/ Answers(<<"exit", s>>) /\ UNCHANGED shells
    /\ UNCHANGED <<callVars, connVars, termVars, agent, working>>

CloseShell ==
    /\ ReadsOn /\ Head(toAgent)[1] = "close"
    /\ shells' = shells \ {Head(toAgent)[2]}
    /\ UNCHANGED <<callVars, connVars, termVars, agent, working, toServer>>

\* emitExit
ShellExits(s) ==
    /\ s \in shells
    /\ shells' = shells \ {s}
    /\ Answers(<<"exit", s>>)
    /\ UNCHANGED <<callVars, connVars, termVars, agent, working, toAgent>>

\* Run returns: the connection is cancelled and closed, ...
AgentLeaves ==
    /\ agent = "connected"
    /\ agent' = "closing"
    /\ socket' = IF socket = "open" THEN "lost" ELSE socket
    /\ UNCHANGED <<callVars, registered, closed, closer, reader, termVars, working, shells, links>>

\* ... the read loop ends when it finds that out, ...
AgentReadEnds ==
    /\ agent = "closing" /\ \A k \in working : Kind[k] \notin Inline
    /\ agent' = "drained"
    /\ toAgent' = <<>>
    /\ UNCHANGED <<callVars, connVars, termVars, working, shells, toServer>>

\* ... then the scripts, and then the sessions are closed before it dials again
ScriptsEnded == Scripts = {}

CloseAll ==
    /\ agent = "drained" /\ ScriptsEnded
    /\ agent' = "left"
    /\ shells' = {}
    /\ UNCHANGED <<callVars, connVars, termVars, working, links>>

AgentLoop == TakeRequest \/ StartShell \/ CloseShell
AgentEnds == AgentReadEnds \/ CloseAll
-----------------------------------------------------------------------------
Next ==
    \/ \E k \in Calls :
          \/ BeginFile(k) \/ BeginManagement(k) \/ BeginContainer(k)
          \/ BeginCreate(k) \/ BeginNode(k) \/ BeginScript(k)
          \/ Caller(k) \/ GiveUp(k) \/ ReadAnswer(k) \/ Answer(k)
    \/ \E s \in Browsers : Attach(s) \/ Relay(s) \/ BrowserLeaves(s) \/ RouteExit(s) \/ ShellExits(s)
    \/ \E g \in Closers : Unregister(g) \/ Closing(g)
    \/ Deliver \/ DeliverRPC
    \/ AgentLoop \/ AgentLeaves \/ AgentEnds

Spec == Init /\ [][Next]_vars

\* Goroutines go on when they can.  No time limit has to expire, no browser, shell or
\* Agent has to leave by itself; an Agent and the handler notice that their socket was
\* closed, and work on a request ends.  Every behaviour has finitely many steps, so
\* fairness of their disjunction is fairness of each.
Progress ==
    \/ \E k \in Calls : Caller(k) \/ Answer(k)
    \/ \E s \in Browsers : Relay(s) \/ (s \in hungUp /\ BrowserLeaves(s))
    \/ \E g \in Closers : Closing(g)
    \/ socket # "open" /\ (Unregister("handler") \/ AgentLeaves)
    \/ Deliver \/ DeliverRPC \/ AgentLoop \/ AgentEnds

FairSpec == Spec /\ WF_vars(Progress)
-----------------------------------------------------------------------------
(* Properties                                                              *)

Messages == ({"ask"} \X Calls) \cup ({"start", "close"} \X Browsers)

\* Every variable has its type; the sessions of a connection are at most
\* maxServerTerminalSessions (hub.go:2722-2729).
TypeOK ==
    /\ registered \in BOOLEAN /\ closed \in BOOLEAN /\ socket \in {"open", "lost", "closed"}
    /\ pending \subseteq Calls
    /\ call \in [Calls -> {"idle", "found", "added", "waiting", "leaving", "done"}]
    /\ channel \subseteq Calls
    /\ closer \in [Closers -> [pc : {"idle", "sessions", "pending", "telling", "done"},
                               rest : SUBSET Calls]]
    /\ reader \in Calls \cup {None}
    /\ terminals \subseteq Browsers /\ Cardinality(terminals) <= MaxSessions
    /\ hungUp \subseteq Browsers
    /\ browser \in [Browsers -> {"idle", "found", "added", "relaying", "leaving", "closing", "done"}]
    /\ toAgent \in Seq(Messages)
    /\ toServer \subseteq ({"answer"} \X Calls) \cup ({"exit"} \X Browsers)
    /\ agent \in {"connected", "closing", "drained", "left"}
    /\ working \subseteq Calls /\ shells \subseteq Browsers

\* A session slot of the connection belongs to a browser that is being served and will
\* give it back, in whatever order the two ends of the session leave.
SlotsAreHeld == \A s \in terminals : browser[s] \in {"added", "relaying", "leaving"}

\* When the Agent dials again nothing of the old connection runs on the node: no
\* script and no shell (client.go:218-225).
AgentLeavesClean == agent = "left" => shells = {} /\ Scripts = {}

\* The pending maps hold exactly the calls that can still be answered: no entry
\* outlives its call, and a call that has lost its entry to the end of the connection
\* has been told, or is about to be.  Slots are held and the Agent leaves nothing behind.
PendingExact ==
    /\ TypeOK
    /\ SlotsAreHeld
    /\ AgentLeavesClean
    /\ \A k \in Calls :
         /\ k \in pending => call[k] \in {"added", "waiting", "leaving"}
         /\ Waiting(k) /\ k \notin pending =>
                \/ k \in channel \/ reader = k
                \/ \E g \in Closers : k \in closer[g].rest

\* A script or a request to a node ends when its connection does, long before its
\* time limit (hub.go:1911, 2601-2646).
DisconnectEndsCall ==
    closed ~> \A k \in Calls : Kind[k] \in WaitsForClosed \cup {"script"} => ~Waiting(k)

\* No shell goes on when its browser has gone, whether the browser, the Server, the
\* Agent or the network went first.
ShellsEnd == []<>(\A s \in Browsers : browser[s] = "done" => s \notin shells)
=============================================================================
