-------------------------- MODULE AgentCallsProofs --------------------------
(***************************************************************************)
(* PendingExact, for any number of calls, kinds, browsers and sessions,    *)
(* and what a viewer of logs starts at the Agent, for any number of them,  *)
(* whoever of the Server, the Agent, the network and the browsers ends     *)
(* first.                                                                  *)
(***************************************************************************)
EXTENDS AgentCalls, Streams, FiniteSetTheorems, TLAPS

(***************************************************************************)
(* The inductive invariant: a call that has its entry, or will wait, can   *)
(* be answered from the moment the entry is added, not only once it waits; *)
(* who closes the connection holds the channels of nobody before it has    *)
(* taken the entries.                                                      *)
(***************************************************************************)
CanHear(k) ==
    \/ k \in pending \/ k \in channel \/ reader = k
    \/ \E g \in Closers : k \in closer[g].rest

ConnectionType ==
    /\ registered \in BOOLEAN /\ closed \in BOOLEAN /\ socket \in {"open", "lost", "closed"}
    /\ closer \in [Closers -> [pc : {"idle", "sessions", "pending", "telling", "done"},
                               rest : SUBSET Calls]]
    /\ reader \in Calls \cup {None}

CallType ==
    /\ pending \subseteq Calls /\ channel \subseteq Calls
    /\ call \in [Calls -> {"idle", "found", "added", "waiting", "leaving", "done"}]

SessionType ==
    /\ terminals \subseteq Browsers /\ hungUp \subseteq Browsers
    /\ IsFiniteSet(terminals) /\ Cardinality(terminals) <= MaxSessions
    /\ browser \in [Browsers -> {"idle", "found", "added", "relaying", "leaving", "closing", "done"}]

AgentType ==
    /\ agent \in {"connected", "closing", "drained", "left"}
    /\ working \subseteq Calls /\ shells \subseteq Browsers

LinkType ==
    /\ toAgent \in Seq(Messages)
    /\ toServer \subseteq ({"answer"} \X Calls) \cup ({"exit"} \X Browsers)

EntriesMean ==
    \A k \in Calls :
        /\ k \in pending => call[k] \in {"added", "waiting", "leaving"}
        /\ call[k] \in {"added", "waiting"} => CanHear(k)

TakenLater == \A g \in Closers : closer[g].pc # "telling" => closer[g].rest = {}

CallsInv ==
    /\ ConnectionType /\ CallType /\ SessionType /\ AgentType /\ LinkType
    /\ SlotsAreHeld /\ AgentLeavesClean /\ EntriesMean /\ TakenLater

-----------------------------------------------------------------------------
(* Messages *)

\* What is written to the Agent is one of the messages it knows.
LEMMA SendsType ==
    ASSUME LinkType, NEW m \in Messages, Sends(m) \/ WriteFails
    PROVE  toAgent' \in Seq(Messages)
BY DEF LinkType, Sends, WriteFails

\* What the Agent says is an answer to a call or the end of a session.
LEMMA AnswersType ==
    ASSUME LinkType, NEW m \in ({"answer"} \X Calls) \cup ({"exit"} \X Browsers), Answers(m)
    PROVE  toServer' \subseteq ({"answer"} \X Calls) \cup ({"exit"} \X Browsers)
BY DEF LinkType, Answers

LEMMA NoMessages == <<>> \in Seq(Messages)
OBVIOUS

\* The Agent reads the messages from the first to the last.
LEMMA ReadsOnType ==
    ASSUME LinkType, ReadsOn
    PROVE  Head(toAgent) \in Messages /\ toAgent' \in Seq(Messages)
BY DEF LinkType, ReadsOn

-----------------------------------------------------------------------------
(* The calls *)

\* An entry belongs to a call that began and has not gone; one that will wait can hear.
LEMMA CallerKeepsEntries ==
    ASSUME CallType, ConnectionType, EntriesMean, TakenLater, NEW k \in Calls,
           Begin(k) \/ Caller(k) \/ GiveUp(k)
    PROVE  CallType' /\ ConnectionType' /\ EntriesMean' /\ TakenLater'
<1>1. ConnectionType' /\ TakenLater' /\ UNCHANGED <<reader, closer>>
  BY DEF Begin, Caller, GiveUp, AddPending, AddRPC, WriteRequest, TakeAnswer, SeeClosed,
         RemovePending, connVars, ConnectionType, TakenLater
<1>2. CASE Begin(k)
  BY <1>1, <1>2 DEF Begin, Goes, CallType, EntriesMean, CanHear
<1>3. CASE AddPending(k)
  BY <1>1, <1>3 DEF AddPending, Goes, CallType, EntriesMean, CanHear
<1>4. CASE AddRPC(k)
  BY <1>1, <1>4 DEF AddRPC, Goes, CallType, EntriesMean, CanHear
<1>5. CASE WriteRequest(k)
  BY <1>1, <1>5 DEF WriteRequest, Goes, CallType, EntriesMean, CanHear
<1>6. CASE TakeAnswer(k)
  BY <1>1, <1>6 DEF TakeAnswer, Waiting, Goes, CallType, EntriesMean, CanHear
<1>7. CASE SeeClosed(k)
  BY <1>1, <1>7 DEF SeeClosed, Waiting, Goes, CallType, EntriesMean, CanHear
<1>8. CASE GiveUp(k)
  BY <1>1, <1>8 DEF GiveUp, Waiting, Goes, CallType, EntriesMean, CanHear
<1>9. CASE RemovePending(k)
  BY <1>1, <1>9 DEF RemovePending, EntryRemoved, Goes, CallType, EntriesMean, CanHear
<1> QED
  BY <1>2, <1>3, <1>4, <1>5, <1>6, <1>7, <1>8, <1>9 DEF Caller

\* The read loop keeps the call it has looked up until its channel has the answer.
LEMMA ReaderKeepsEntries ==
    ASSUME CallType, ConnectionType, EntriesMean, TakenLater,
           (\E k \in Calls : ReadAnswer(k)) \/ Deliver \/ DeliverRPC
    PROVE  CallType' /\ ConnectionType' /\ EntriesMean' /\ TakenLater'
<1>1. CASE \E k \in Calls : ReadAnswer(k)
  <2>1. PICK k \in Calls : ReadAnswer(k)
    BY <1>1
  <2>2. UNCHANGED <<callVars, registered, socket, closed, closer>> /\ reader = None /\ reader' \in Calls \cup {None}
    BY <2>1 DEF ReadAnswer, Reading
  <2> QED
    BY <2>2, NamesAssumption DEF callVars, CallType, ConnectionType, EntriesMean, TakenLater, CanHear
<1>2. CASE Deliver \/ DeliverRPC
  <2>1. /\ reader # None /\ channel' = channel \cup {reader} /\ reader' = None
        /\ UNCHANGED <<pending, call, registered, socket, closed, closer>>
    BY <1>2 DEF Deliver, DeliverRPC
  <2> QED
    BY <2>1 DEF CallType, ConnectionType, EntriesMean, TakenLater, CanHear
<1> QED
  BY <1>1, <1>2

\* Who closes the connection takes the entries and tells their calls: none is forgotten.
LEMMA CloserKeepsEntries ==
    ASSUME CallType, ConnectionType, EntriesMean, TakenLater, NEW g \in Closers,
           Unregister(g) \/ Closing(g)
    PROVE  CallType' /\ ConnectionType' /\ EntriesMean' /\ TakenLater'
<1>1. CASE Unregister(g) \/ CloseSessions(g) \/ CloseSocket(g)
  <2>1. /\ UNCHANGED <<pending, channel, call, reader>>
        /\ \A h \in Closers : closer'[h].rest = closer[h].rest
        /\ \A h \in Closers : h # g => closer'[h] = closer[h]
    BY <1>1 DEF Unregister, CloseSessions, CloseSocket, callVars, ConnectionType
  <2>2. ConnectionType'
    BY <1>1, <2>1 DEF Unregister, CloseSessions, CloseSocket, ConnectionType
  <2>3. closer'[g].rest = {}
    BY <1>1, <2>1 DEF Unregister, CloseSessions, CloseSocket, TakenLater
  <2> QED
    BY <2>1, <2>2, <2>3 DEF CallType, EntriesMean, CanHear, TakenLater
<1>2. CASE ClosePending(g)
  <2>1. /\ closer[g].rest = {} /\ closer'[g].rest = pending /\ closer'[g].pc = "telling" /\ pending' = {}
        /\ \A h \in Closers : h # g => closer'[h] = closer[h]
        /\ UNCHANGED <<channel, call, reader>>
    BY <1>2 DEF ClosePending, Taken, TakenLater, ConnectionType
  <2>2. ConnectionType'
    BY <1>2 DEF ClosePending, Taken, ConnectionType, CallType
  <2> QED
    BY <2>1, <2>2 DEF CallType, EntriesMean, CanHear, TakenLater
<1>3. CASE \E k \in Calls : TellRPC(g, k) \/ Tell(g, k)
  <2>1. PICK k \in Calls : TellRPC(g, k) \/ Tell(g, k)
    BY <1>3
  <2>2. /\ channel' = channel \cup {k} /\ closer'[g].rest = closer[g].rest \ {k}
        /\ closer[g].pc = "telling" /\ closer'[g].pc = "telling"
        /\ \A h \in Closers : h # g => closer'[h] = closer[h]
        /\ UNCHANGED <<pending, call, reader>>
    BY <2>1 DEF TellRPC, Tell, ConnectionType
  <2>3. ConnectionType'
    BY <2>1 DEF TellRPC, Tell, ConnectionType
  <2> QED
    BY <2>2, <2>3 DEF CallType, EntriesMean, CanHear, TakenLater
<1> QED
  BY <1>1, <1>2, <1>3 DEF Closing

-----------------------------------------------------------------------------
(* The sessions *)

\* A slot is taken below the limit, and given back by the browser that has it.
LEMMA BrowserKeepsSlots ==
    ASSUME SessionType, SlotsAreHeld, LinkType, NEW s \in Browsers,
           Attach(s) \/ Relay(s) \/ BrowserLeaves(s)
    PROVE  SessionType' /\ SlotsAreHeld' /\ LinkType'
<1>1. CASE Attach(s)
  BY <1>1 DEF Attach, links, SessionType, SlotsAreHeld, LinkType
<1>2. CASE AddTerminal(s)
  <2>1. CASE Room
    <3>1. terminals' = terminals \cup {s} /\ browser' = [browser EXCEPT ![s] = "added"]
      BY <1>2, <2>1 DEF AddTerminal
    <3>2. IsFiniteSet(terminals') /\ Cardinality(terminals') <= MaxSessions
      BY <2>1, <3>1, FS_AddElement, FS_CardinalityType, BoundsAssumption DEF Room, SessionType
    <3> QED
      BY <1>2, <3>1, <3>2 DEF AddTerminal, links, SessionType, SlotsAreHeld, LinkType
  <2>2. CASE ~Room
    BY <1>2, <2>2 DEF AddTerminal, links, SessionType, SlotsAreHeld, LinkType
  <2> QED
    BY <2>1, <2>2
<1>3. CASE StartTerminal(s)
  <2>1. <<"start", s>> \in Messages
    BY DEF Messages
  <2>2. toAgent' \in Seq(Messages)
    BY <1>3, <2>1, SendsType DEF StartTerminal
  <2> QED
    BY <1>3, <2>2 DEF StartTerminal, SessionType, SlotsAreHeld, LinkType
<1>4. CASE BrowserLeaves(s)
  BY <1>4 DEF BrowserLeaves, links, SessionType, SlotsAreHeld, LinkType
<1>5. CASE Detach(s)
  <2>1. terminals' = terminals \ {s}
    BY <1>5 DEF Detach, SlotFreed
  <2>2. IsFiniteSet(terminals') /\ Cardinality(terminals') <= MaxSessions
    BY <2>1, FS_Subset, FS_CardinalityType, BoundsAssumption DEF SessionType
  <2> QED
    BY <1>5, <2>1, <2>2 DEF Detach, links, SessionType, SlotsAreHeld, LinkType
<1>6. CASE CloseTerminal(s)
  <2>1. <<"close", s>> \in Messages
    BY DEF Messages
  <2>2. toAgent' \in Seq(Messages)
    BY <1>6, <2>1, SendsType DEF CloseTerminal, SaysClose
  <2> QED
    BY <1>6, <2>2 DEF CloseTerminal, SessionType, SlotsAreHeld, LinkType
<1> QED
  BY <1>1, <1>2, <1>3, <1>4, <1>5, <1>6 DEF Relay

\* The Server forgets sessions: that of a shell that ended, or all of them.
LEMMA ForgetsSessions ==
    ASSUME SessionType, SlotsAreHeld, UNCHANGED browser, terminals' \subseteq terminals,
           hungUp' \subseteq hungUp \cup terminals
    PROVE  SessionType' /\ SlotsAreHeld'
<1>1. IsFiniteSet(terminals') /\ Cardinality(terminals') <= MaxSessions
  BY FS_Subset, FS_CardinalityType, BoundsAssumption DEF SessionType
<1> QED
  BY <1>1 DEF SessionType, SlotsAreHeld

-----------------------------------------------------------------------------
(* The Agent *)

\* The Agent works on what it was sent, and leaves when nothing runs any more.
LEMMA AgentKeepsClean ==
    ASSUME AgentType, LinkType, AgentLeavesClean,
           \/ AgentLoop \/ AgentLeaves \/ AgentEnds
           \/ \E k \in Calls : Answer(k)
           \/ \E s \in Browsers : ShellExits(s)
    PROVE  AgentType' /\ LinkType' /\ AgentLeavesClean'
<1>1. CASE TakeRequest
  <2>1. Head(toAgent) \in Messages /\ toAgent' \in Seq(Messages) /\ Head(toAgent)[1] = "ask"
    BY <1>1, ReadsOnType DEF TakeRequest
  <2>2. PICK k \in Calls : Head(toAgent)[2] = k
    BY <2>1 DEF Messages
  <2>3. working' \subseteq working \cup {k}
    BY <1>1, <2>2 DEF TakeRequest
  <2>4. toServer' \subseteq ({"answer"} \X Calls) \cup ({"exit"} \X Browsers)
    <3>1. <<"answer", k>> \in ({"answer"} \X Calls) \cup ({"exit"} \X Browsers)
      OBVIOUS
    <3> QED
      BY <1>1, <2>2, <3>1, AnswersType DEF TakeRequest, LinkType
  <2> QED
    BY <1>1, <2>1, <2>3, <2>4
       DEF TakeRequest, ReadsOn, AgentType, LinkType, AgentLeavesClean
<1>2. CASE StartShell
  <2>1. Head(toAgent) \in Messages /\ toAgent' \in Seq(Messages) /\ Head(toAgent)[1] = "start"
    BY <1>2, ReadsOnType DEF StartShell
  <2>2. PICK s \in Browsers : Head(toAgent)[2] = s
    BY <2>1 DEF Messages
  <2>3. toServer' \subseteq ({"answer"} \X Calls) \cup ({"exit"} \X Browsers)
    <3>1. <<"exit", s>> \in ({"answer"} \X Calls) \cup ({"exit"} \X Browsers)
      OBVIOUS
    <3> QED
      BY <1>2, <2>2, <3>1, AnswersType DEF StartShell, LinkType
  <2>4. shells' \subseteq shells \cup {s}
    BY <1>2, <2>2 DEF StartShell
  <2> QED
    BY <1>2, <2>1, <2>3, <2>4 DEF StartShell, ReadsOn, AgentType, LinkType, AgentLeavesClean
<1>3. CASE CloseShell
  <2>1. toAgent' \in Seq(Messages)
    BY <1>3, ReadsOnType DEF CloseShell
  <2> QED
    BY <1>3, <2>1 DEF CloseShell, AgentType, LinkType, AgentLeavesClean, ReadsOn
<1>4. CASE \E k \in Calls : Answer(k)
  <2>1. PICK k \in Calls : Answer(k)
    BY <1>4
  <2>2. toServer' \subseteq ({"answer"} \X Calls) \cup ({"exit"} \X Browsers)
    <3>1. <<"answer", k>> \in ({"answer"} \X Calls) \cup ({"exit"} \X Browsers)
      OBVIOUS
    <3> QED
      BY <2>1, <3>1, AnswersType DEF Answer
  <2> QED
    BY <2>1, <2>2 DEF Answer, AgentType, LinkType, AgentLeavesClean, Scripts
<1>5. CASE \E s \in Browsers : ShellExits(s)
  <2>1. PICK s \in Browsers : ShellExits(s)
    BY <1>5
  <2>2. toServer' \subseteq ({"answer"} \X Calls) \cup ({"exit"} \X Browsers)
    <3>1. <<"exit", s>> \in ({"answer"} \X Calls) \cup ({"exit"} \X Browsers)
      OBVIOUS
    <3> QED
      BY <2>1, <3>1, AnswersType DEF ShellExits
  <2> QED
    BY <2>1, <2>2 DEF ShellExits, AgentType, LinkType, AgentLeavesClean, Scripts
<1>6. CASE AgentLeaves
  BY <1>6 DEF AgentLeaves, links, AgentType, LinkType, AgentLeavesClean
<1>7. CASE AgentReadEnds
  BY <1>7, NoMessages DEF AgentReadEnds, AgentType, LinkType, AgentLeavesClean
<1>8. CASE CloseAll
  BY <1>8 DEF CloseAll, links, ScriptsEnded, Scripts, AgentType, LinkType, AgentLeavesClean
<1> QED
  BY <1>1, <1>2, <1>3, <1>4, <1>5, <1>6, <1>7, <1>8 DEF AgentLoop, AgentEnds

-----------------------------------------------------------------------------
(* The theorem *)

\* A new connection: nobody has called yet.
LEMMA InitCallsInv == Init => CallsInv
<1> SUFFICES ASSUME Init PROVE CallsInv
  OBVIOUS
<1>1. ConnectionType /\ TakenLater
  BY DEF Init, ConnectionType, TakenLater
<1>2. SessionType /\ SlotsAreHeld
  BY FS_EmptySet, BoundsAssumption DEF Init, SessionType, SlotsAreHeld
<1>3. LinkType
  BY NoMessages DEF Init, LinkType
<1> QED
  BY <1>1, <1>2, <1>3 DEF Init, CallsInv, CallType, AgentType, AgentLeavesClean, EntriesMean

\* Each step disturbs the calls, the sessions or the Agent, and keeps the rest.
LEMMA StepCallsInv == CallsInv /\ [Next]_vars => CallsInv'
<1> SUFFICES ASSUME CallsInv, [Next]_vars PROVE CallsInv'
  OBVIOUS
<1> USE DEF CallsInv
<1>1. CASE \E k \in Calls : Begin(k) \/ Caller(k) \/ GiveUp(k)
  <2>1. PICK k \in Calls : Begin(k) \/ Caller(k) \/ GiveUp(k)
    BY <1>1
  <2>2. CallType' /\ ConnectionType' /\ EntriesMean' /\ TakenLater'
    BY <2>1, CallerKeepsEntries
  <2>3. UNCHANGED <<termVars, agentVars, toServer>>
    BY <2>1 DEF Begin, Caller, GiveUp, AddPending, AddRPC, WriteRequest, TakeAnswer, SeeClosed,
                RemovePending, links
  <2>4. toAgent' \in Seq(Messages)
    <3>1. CASE WriteRequest(k)
      <4>1. <<"ask", k>> \in Messages
        BY DEF Messages
      <4> QED
        BY <3>1, <4>1, SendsType DEF WriteRequest
    <3>2. CASE ~WriteRequest(k)
      BY <2>1, <3>2 DEF Begin, Caller, GiveUp, AddPending, AddRPC, TakeAnswer, SeeClosed,
                        RemovePending, links, LinkType
    <3> QED
      BY <3>1, <3>2
  <2> QED
    BY <2>2, <2>3, <2>4 DEF termVars, agentVars, SessionType, AgentType, LinkType, SlotsAreHeld,
                            AgentLeavesClean, Scripts
<1>2. CASE (\E k \in Calls : ReadAnswer(k)) \/ Deliver \/ DeliverRPC
  <2>1. CallType' /\ ConnectionType' /\ EntriesMean' /\ TakenLater'
    BY <1>2, ReaderKeepsEntries
  <2>2. UNCHANGED <<termVars, agentVars, toAgent>> /\ toServer' \subseteq toServer
    BY <1>2 DEF ReadAnswer, Deliver, DeliverRPC, links
  <2> QED
    BY <2>1, <2>2 DEF termVars, agentVars, SessionType, AgentType, LinkType, SlotsAreHeld,
                      AgentLeavesClean, Scripts
<1>3. CASE \E g \in Closers : Unregister(g) \/ Closing(g)
  <2>1. PICK g \in Closers : Unregister(g) \/ Closing(g)
    BY <1>3
  <2>2. CallType' /\ ConnectionType' /\ EntriesMean' /\ TakenLater'
    BY <2>1, CloserKeepsEntries
  <2>3. UNCHANGED <<browser, agentVars, links>>
    BY <2>1 DEF Unregister, Closing, CloseSessions, ClosePending, CloseSocket, TellRPC, Tell, termVars
  <2>4. terminals' \subseteq terminals /\ hungUp' \subseteq hungUp \cup terminals
    BY <2>1 DEF Unregister, Closing, CloseSessions, ClosePending, CloseSocket, TellRPC, Tell, termVars
  <2>5. SessionType' /\ SlotsAreHeld'
    BY <2>3, <2>4, ForgetsSessions
  <2> QED
    BY <2>2, <2>3, <2>5 DEF agentVars, links, AgentType, LinkType, AgentLeavesClean, Scripts
<1>4. CASE \E s \in Browsers : Attach(s) \/ Relay(s) \/ BrowserLeaves(s)
  <2>1. PICK s \in Browsers : Attach(s) \/ Relay(s) \/ BrowserLeaves(s)
    BY <1>4
  <2>2. SessionType' /\ SlotsAreHeld' /\ LinkType'
    BY <2>1, BrowserKeepsSlots
  <2>3. UNCHANGED <<callVars, connVars, agentVars>>
    BY <2>1 DEF Attach, Relay, AddTerminal, StartTerminal, Detach, CloseTerminal, BrowserLeaves
  <2> QED
    BY <2>2, <2>3 DEF callVars, connVars, agentVars, CallType, ConnectionType, AgentType,
                      EntriesMean, CanHear, TakenLater, AgentLeavesClean, Scripts
<1>5. CASE \E s \in Browsers : RouteExit(s)
  <2>1. PICK s \in Browsers : RouteExit(s)
    BY <1>5
  <2>2. SessionType' /\ SlotsAreHeld'
    BY <2>1, ForgetsSessions DEF RouteExit
  <2>3. UNCHANGED <<callVars, connVars, agentVars, toAgent>> /\ toServer' \subseteq toServer
    BY <2>1 DEF RouteExit
  <2> QED
    BY <2>2, <2>3 DEF callVars, connVars, agentVars, CallType, ConnectionType, AgentType, LinkType,
                      EntriesMean, CanHear, TakenLater, AgentLeavesClean, Scripts
<1>6. CASE \/ AgentLoop \/ AgentLeaves \/ AgentEnds
           \/ \E k \in Calls : Answer(k)
           \/ \E s \in Browsers : ShellExits(s)
  <2>1. AgentType' /\ LinkType' /\ AgentLeavesClean'
    BY <1>6, AgentKeepsClean
  <2>2. UNCHANGED <<callVars, registered, closed, closer, reader, termVars>>
    BY <1>6 DEF AgentLoop, AgentEnds, AgentLeaves, TakeRequest, StartShell, CloseShell,
                AgentReadEnds, CloseAll, Answer, ShellExits, connVars
  <2>3. socket' \in {"open", "lost", "closed"}
    BY <1>6 DEF AgentLoop, AgentEnds, AgentLeaves, TakeRequest, StartShell, CloseShell,
                AgentReadEnds, CloseAll, Answer, ShellExits, connVars, ConnectionType
  <2> QED
    BY <2>1, <2>2, <2>3 DEF callVars, termVars, CallType, ConnectionType, SessionType, SlotsAreHeld,
                            EntriesMean, CanHear, TakenLater
<1>7. CASE UNCHANGED vars
  BY <1>7 DEF vars, callVars, connVars, termVars, agentVars, links, CallType, ConnectionType,
              SessionType, AgentType, LinkType, SlotsAreHeld, AgentLeavesClean, Scripts, EntriesMean,
              CanHear, TakenLater
<1> QED
  BY <1>1, <1>2, <1>3, <1>4, <1>5, <1>6, <1>7
     DEF Next, BeginFile, BeginManagement, BeginContainer, BeginCreate, BeginNode, BeginScript

\* The invariant says what the property does.
LEMMA CallsInvMeans == CallsInv => PendingExact
<1> SUFFICES ASSUME CallsInv PROVE PendingExact
  OBVIOUS
<1>1. TypeOK
  BY DEF CallsInv, TypeOK, ConnectionType, CallType, SessionType, AgentType, LinkType
<1> QED
  BY <1>1 DEF CallsInv, PendingExact, EntriesMean, CanHear, Waiting

\* However a connection ends and whoever answers late or gives up: an entry is that of a call
\* which can still be answered, a call that lost its entry was told or is about to be, slots
\* are held by browsers, and an Agent that dials again has left nothing behind (hub.go:2601-2646).
THEOREM PendingCorrect == Spec => []PendingExact
BY InitCallsInv, StepCallsInv, CallsInvMeans, PTL DEF Spec

-----------------------------------------------------------------------------
(* Logs *)

Requests == {"start", "stop"} \X Viewers

(* No follower is out of reach: while it runs, its stop ends it, and so     *)
(* does the end of the connection, for a file by the context of the         *)
(* connection, for a container by the goroutine that watches for it.        *)
Stoppable ==
    \A v \in Viewers : Follows(v) =>
        /\ v \in cancelled \cup entries
        /\ v \in FileViewers \cup cancelled \cup watched

(* The read loop of the Agent meets no request it cannot handle: a session  *)
(* is started before it is stopped and each of the two happens once, though *)
(* the browser can leave at any moment and its handler, the goroutine of    *)
(* the request and the follower go their own ways.                          *)
RequestsInOrder ==
    /\ \A i \in DOMAIN outbound :
          outbound[i][1] = "start" => stage[outbound[i][2]] = "idle"
    /\ \A i, j \in DOMAIN outbound : i < j =>
          outbound[i] # outbound[j] /\ ~(outbound[i][1] = "stop" /\ outbound[i][2] = outbound[j][2])

LinksType == outbound \in Seq(Requests) /\ inbound \in Seq(Viewers)

\* What a request on its way says of the browser's handler
Asked ==
    /\ routed = {v \in Viewers : view[v] \in {"attached", "leaving"}}
    /\ \A v \in Viewers : stage[v] # "idle" => view[v] # "idle"
    /\ \A i \in DOMAIN outbound :
          view[outbound[i][2]] # "idle" /\ (outbound[i][1] = "stop" => view[outbound[i][2]] = "ended")

\* What is kept of a session, by the stage of the goroutine that starts it
Kept ==
    \A v \in Viewers :
        /\ stage[v] # "ended" => follower[v] = "none" /\ v \notin entries
        /\ v \in cancels \cup watched => stage[v] \in {"ready", "ended"}
        /\ stage[v] = "ready" =>
              v \in ContainerViewers /\ (v \in cancelled \/ v \in cancels \cap watched)

StreamsInv ==
    StreamsTypeOK /\ LinksType /\ RequestsInOrder /\ Asked /\ Kept /\ Stoppable

-----------------------------------------------------------------------------
(* Requests on their way *)

\* A message that is written is behind those on their way; no other is changed.
LEMMA StreamsAppended ==
    ASSUME NEW s \in Seq(Requests), NEW m \in Requests
    PROVE  /\ Append(s, m) \in Seq(Requests)
           /\ DOMAIN Append(s, m) = DOMAIN s \cup {Len(s) + 1}
           /\ \A i \in DOMAIN s : i < Len(s) + 1 /\ Append(s, m)[i] = s[i]
           /\ Append(s, m)[Len(s) + 1] = m
OBVIOUS

\* The first message is taken, and the others move up.
LEMMA StreamsTaken ==
    ASSUME NEW s \in Seq(Requests), s # <<>>
    PROVE  /\ Tail(s) \in Seq(Requests) /\ Head(s) \in Requests /\ Head(s) = s[1]
           /\ 1 \in DOMAIN s
           /\ \A i \in DOMAIN Tail(s) : i + 1 \in DOMAIN s /\ 1 < i + 1 /\ Tail(s)[i] = s[i + 1]
OBVIOUS

\* The same holds of the other direction, whose messages are viewers.
LEMMA StreamsSaid ==
    ASSUME StreamsInv, NEW v \in Viewers, Says(v) \/ UNCHANGED inbound
    PROVE  inbound' \in Seq(Viewers)
BY DEF StreamsInv, LinksType, Says

\* A handler that writes a request nobody has written before keeps what is known of requests.
LEMMA Requested ==
    ASSUME StreamsInv, NEW v \in Viewers, NEW kind \in {"start", "stop"},
           Writes(kind, v) \/ UNCHANGED outbound,
           kind = "start" => view[v] = "idle", kind = "stop" => view[v] = "closed",
           UNCHANGED <<stage, routed>>,
           view' = [view EXCEPT ![v] = IF kind = "start" THEN "asked" ELSE "ended"]
    PROVE  outbound' \in Seq(Requests) /\ RequestsInOrder' /\ Asked'
<1> USE ViewersAssumption
<1>1. StreamsTypeOK /\ LinksType /\ RequestsInOrder /\ Asked
  BY DEF StreamsInv
<1>2. routed' = {u \in Viewers : view'[u] \in {"attached", "leaving"}}
  BY <1>1 DEF Asked, StreamsTypeOK
<1>3. \A u \in Viewers : stage'[u] # "idle" => view'[u] # "idle"
  BY <1>1 DEF Asked, StreamsTypeOK
<1>4. \A i \in DOMAIN outbound : outbound[i] \in Requests /\ outbound[i][2] \in Viewers
  BY <1>1 DEF LinksType, Requests
<1>5. \A i \in DOMAIN outbound :
        /\ view'[outbound[i][2]] # "idle"
        /\ outbound[i][1] = "stop" => view'[outbound[i][2]] = "ended"
  BY <1>1, <1>4 DEF Asked, StreamsTypeOK
<1>6. CASE UNCHANGED outbound
  BY <1>1, <1>2, <1>3, <1>5, <1>6 DEF RequestsInOrder, Asked, LinksType
<1>7. CASE outbound' = Append(outbound, <<kind, v>>)
  <2> DEFINE m == <<kind, v>>
             n == Len(outbound) + 1
  <2>1. m \in Requests
    BY DEF Requests
  <2>2. /\ outbound' \in Seq(Requests) /\ DOMAIN outbound' = DOMAIN outbound \cup {n}
        /\ \A i \in DOMAIN outbound : i < n /\ outbound'[i] = outbound[i]
        /\ outbound'[n] = m
    BY <1>1, <1>7, <2>1, StreamsAppended DEF LinksType
  <2>3. \A i \in DOMAIN outbound' :
        \/ i \in DOMAIN outbound /\ outbound'[i] = outbound[i] /\ i < n
        \/ i = n /\ outbound'[i] = m
    BY <2>2
  <2>4. n \in Nat /\ DOMAIN outbound \subseteq Nat
    BY <1>1 DEF LinksType
  <2>5. kind = "start" => stage'[v] = "idle"
    BY <1>1 DEF Asked, StreamsTypeOK
  <2>6. \A i \in DOMAIN outbound : outbound[i] # m /\ ~(outbound[i][1] = "stop" /\ outbound[i][2] = v)
    BY <1>1, <1>4 DEF Asked
  <2>7. m[1] = kind /\ m[2] = v
    OBVIOUS
  <2> HIDE DEF m, n
  <2>8. \A i \in DOMAIN outbound' : outbound'[i][1] = "start" => stage'[outbound'[i][2]] = "idle"
    BY <1>1, <2>3, <2>5, <2>7 DEF RequestsInOrder
  <2>9. ASSUME NEW i \in DOMAIN outbound', NEW j \in DOMAIN outbound', i < j
        PROVE  /\ outbound'[i] # outbound'[j]
               /\ ~(outbound'[i][1] = "stop" /\ outbound'[i][2] = outbound'[j][2])
    <3>1. i \in DOMAIN outbound /\ outbound'[i] = outbound[i]
      BY <2>3, <2>4, <2>9
    <3>2. CASE j = n
      BY <2>3, <2>4, <2>6, <2>7, <3>1, <3>2
    <3>3. CASE j \in DOMAIN outbound /\ outbound'[j] = outbound[j]
      BY <1>1, <2>9, <3>1, <3>3 DEF RequestsInOrder
    <3> QED BY <2>3, <3>2, <3>3
  <2>10. RequestsInOrder'
    BY <2>8, <2>9 DEF RequestsInOrder
  <2>11. view'[v] # "idle" /\ (kind = "stop" => view'[v] = "ended")
    BY <1>1 DEF StreamsTypeOK
  <2>12. Asked'
    BY <1>2, <1>3, <1>5, <2>3, <2>7, <2>11 DEF Asked
  <2> QED BY <2>2, <2>10, <2>12
<1> QED BY <1>6, <1>7 DEF Writes

\* A request that is taken leaves the others in order.
LEMMA RequestTaken ==
    ASSUME StreamsInv, outbound # <<>>, outbound' = Tail(outbound), UNCHANGED <<view, routed>>,
           NEW v \in Viewers, v = Head(outbound)[2],
           \/ UNCHANGED stage
           \/ Head(outbound)[1] = "start" /\ stage' = [stage EXCEPT ![v] = "spawned"]
    PROVE  outbound' \in Seq(Requests) /\ RequestsInOrder' /\ Asked'
<1>1. StreamsTypeOK /\ LinksType /\ RequestsInOrder /\ Asked
  BY DEF StreamsInv
<1>2. /\ outbound' \in Seq(Requests) /\ Head(outbound) \in Requests /\ Head(outbound) = outbound[1]
      /\ 1 \in DOMAIN outbound
      /\ \A i \in DOMAIN outbound' :
            i + 1 \in DOMAIN outbound /\ 1 < i + 1 /\ outbound'[i] = outbound[i + 1]
  BY <1>1, StreamsTaken DEF LinksType
<1>3. \A i \in DOMAIN outbound' : i \in Nat
  BY <1>2
<1>4. \A i \in DOMAIN outbound' : outbound'[i] \in Requests
  BY <1>2
<1>5. ASSUME NEW i \in DOMAIN outbound', outbound'[i][1] = "start"
      PROVE  stage'[outbound'[i][2]] = "idle"
  <2>1. stage[outbound'[i][2]] = "idle"
    BY <1>1, <1>2, <1>5 DEF RequestsInOrder
  <2>2. CASE Head(outbound)[1] = "start" /\ stage' = [stage EXCEPT ![v] = "spawned"]
    <3>1. outbound[1] # outbound[i + 1]
      BY <1>1, <1>2 DEF RequestsInOrder
    <3>2. outbound[1] = <<"start", v>>
      BY <1>2, <2>2 DEF Requests
    <3>3. outbound'[i][2] # v
      BY <1>2, <1>4, <1>5, <3>1, <3>2 DEF Requests
    <3> QED BY <1>1, <2>1, <2>2, <3>3, <1>4 DEF StreamsTypeOK, Requests
  <2> QED BY <2>1, <2>2
<1>6. ASSUME NEW i \in DOMAIN outbound', NEW j \in DOMAIN outbound', i < j
      PROVE  /\ outbound'[i] # outbound'[j]
             /\ ~(outbound'[i][1] = "stop" /\ outbound'[i][2] = outbound'[j][2])
  <2>1. i + 1 < j + 1
    BY <1>3, <1>6
  <2> QED BY <1>1, <1>2, <2>1 DEF RequestsInOrder
<1>7. \A u \in Viewers : stage'[u] # "idle" => view'[u] # "idle"
  BY <1>1, <1>2 DEF Asked, StreamsTypeOK
<1>8. Asked'
  BY <1>1, <1>2, <1>7 DEF Asked
<1> QED BY <1>2, <1>5, <1>6, <1>8 DEF RequestsInOrder

\* A goroutine of the Agent that has begun leaves requests as they are.
LEMMA RequestsKept ==
    ASSUME StreamsInv, UNCHANGED outbound,
           \A v \in Viewers : stage[v] = "idle" <=> stage'[v] = "idle",
           \A v \in Viewers : view[v] = "idle" <=> view'[v] = "idle",
           \A v \in Viewers : view[v] = "ended" => view'[v] = "ended",
           routed' = {v \in Viewers : view'[v] \in {"attached", "leaving"}}
    PROVE  outbound' \in Seq(Requests) /\ RequestsInOrder' /\ Asked'
<1>1. LinksType /\ RequestsInOrder /\ Asked
  BY DEF StreamsInv
<1>2. \A i \in DOMAIN outbound : outbound[i][2] \in Viewers
  BY <1>1 DEF LinksType, Requests
<1> QED BY <1>1, <1>2 DEF LinksType, RequestsInOrder, Asked

-----------------------------------------------------------------------------
(* The steps *)

\* What a browser's handler does leaves what the Agent keeps alone.
LEMMA ViewerKeeps ==
    ASSUME StreamsInv, NEW v \in Viewers,
           AskToFollow(v) \/ RegisterView(v) \/ Forward(v) \/ Leave(v) \/ UnregisterView(v)
              \/ CloseChannel(v) \/ WriteStop(v)
    PROVE  StreamsInv'
<1> USE ChannelAssumption
<1>1. StreamsTypeOK /\ LinksType /\ RequestsInOrder /\ Asked /\ Kept /\ Stoppable
  BY DEF StreamsInv
<1>2. UNCHANGED agentVarsS /\ UNCHANGED inbound
  BY DEF AskToFollow, RegisterView, Forward, Leave, UnregisterView, CloseChannel, WriteStop
<1>3. Kept' /\ Stoppable'
  BY <1>1, <1>2 DEF Kept, Stoppable, Follows, agentVarsS
<1>4. StreamsTypeOK'
  <2>1. CASE Forward(v)
    BY <1>1, <1>2, <2>1 DEF StreamsTypeOK, Forward, agentVarsS
  <2>2. CASE ~Forward(v)
    <3>1. /\ UNCHANGED <<serving, buffered, holding>> /\ routed' \subseteq Viewers
          /\ view' \in [Viewers -> {"idle", "asked", "attached", "leaving", "unregistered",
                                    "closed", "ended"}]
      BY <1>1, <2>2
         DEF StreamsTypeOK, AskToFollow, RegisterView, Leave, UnregisterView, CloseChannel,
             WriteStop, Views
    <3> QED BY <1>1, <1>2, <3>1 DEF StreamsTypeOK, agentVarsS
  <2> QED BY <2>1, <2>2
<1>5. outbound' \in Seq(Requests) /\ RequestsInOrder' /\ Asked'
  <2>1. CASE AskToFollow(v) /\ view[v] = "idle" /\ Writes("start", v)
             /\ view' = [view EXCEPT ![v] = "asked"]
    BY <2>1, <1>2, Requested DEF AskToFollow, agentVarsS
  <2>2. CASE WriteStop(v)
    BY <2>2, <1>2, Requested DEF WriteStop, Views, agentVarsS
  <2>3. CASE RegisterView(v) \/ Forward(v) \/ Leave(v) \/ UnregisterView(v) \/ CloseChannel(v)
    <3>1. UNCHANGED outbound /\ UNCHANGED stage
      BY <2>3, <1>2
         DEF RegisterView, Forward, Leave, UnregisterView, CloseChannel, agentVarsS
    <3>2. \A u \in Viewers : /\ view[u] = "idle" <=> view'[u] = "idle"
                             /\ view[u] = "ended" <=> view'[u] = "ended"
      BY <1>1, <2>3
         DEF StreamsTypeOK, RegisterView, Forward, Leave, UnregisterView, CloseChannel, Views
    <3>3. routed' = {u \in Viewers : view'[u] \in {"attached", "leaving"}}
      BY <1>1, <2>3
         DEF StreamsTypeOK, Asked, RegisterView, Forward, Leave, UnregisterView, CloseChannel, Views
    <3> QED BY <3>1, <3>2, <3>3, RequestsKept
  <2>4. CASE /\ view[v] = "idle" /\ view' = [view EXCEPT ![v] = "ended"]
             /\ UNCHANGED <<outbound, routed>>
    <3>1. \A u \in Viewers : stage'[u] # "idle" => view'[u] # "idle"
      BY <1>1, <1>2, <2>4 DEF Asked, StreamsTypeOK, agentVarsS
    <3>2. routed' = {u \in Viewers : view'[u] \in {"attached", "leaving"}}
      BY <1>1, <2>4 DEF Asked, StreamsTypeOK
    <3>3. \A i \in DOMAIN outbound : outbound[i][2] \in Viewers
      BY <1>1 DEF LinksType, Requests
    <3>4. \A i \in DOMAIN outbound :
             /\ view'[outbound[i][2]] # "idle"
             /\ outbound[i][1] = "stop" => view'[outbound[i][2]] = "ended"
      BY <1>1, <2>4, <3>3 DEF Asked, StreamsTypeOK
    <3> QED BY <1>1, <1>2, <2>4, <3>1, <3>2, <3>4
            DEF LinksType, RequestsInOrder, Asked, agentVarsS
  <2> QED BY <2>1, <2>2, <2>3, <2>4 DEF AskToFollow, Views
<1> QED BY <1>1, <1>2, <1>3, <1>4, <1>5 DEF StreamsInv, LinksType

\* The read loop of the connection fills the channel of a browser, never above its size.
LEMMA RelayKeeps ==
    ASSUME StreamsInv, LookUp \/ Pass \/ StopsServing
    PROVE  StreamsInv'
<1> USE ChannelAssumption
<1>1. StreamsTypeOK /\ LinksType /\ RequestsInOrder /\ Asked /\ Kept /\ Stoppable
  BY DEF StreamsInv
<1>2. UNCHANGED <<agentVarsS, view, routed, outbound>>
  BY DEF LookUp, Pass, StopsServing
<1>3. Kept' /\ Stoppable'
  BY <1>1, <1>2 DEF Kept, Stoppable, Follows, agentVarsS
<1>4. inbound' \in Seq(Viewers)
  <2>1. inbound \in Seq(Viewers)
    BY <1>1 DEF LinksType
  <2>2. inbound' = inbound \/ (inbound # <<>> /\ inbound' = Tail(inbound))
    BY DEF LookUp, Pass, StopsServing
  <2> QED BY <2>1, <2>2
<1>5. serving' \in BOOLEAN /\ holding' \in Viewers \cup {Nobody}
  BY <1>1 DEF StreamsTypeOK, LookUp, Pass, StopsServing
<1>6. buffered' \in [Viewers -> 0 .. ChannelSize]
  <2>1. CASE Pass
    <3>1. holding \in Viewers
      BY <1>1, <2>1 DEF Pass, StreamsTypeOK
    <3>2. \/ UNCHANGED buffered
          \/ buffered[holding] < ChannelSize /\ buffered' = [buffered EXCEPT ![holding] = @ + 1]
      BY <2>1 DEF Pass
    <3> QED BY <1>1, <3>1, <3>2 DEF StreamsTypeOK
  <2>2. CASE LookUp \/ StopsServing
    BY <1>1, <2>2 DEF StreamsTypeOK, LookUp, StopsServing
  <2> QED BY <2>1, <2>2
<1>7. StreamsTypeOK'
  BY <1>1, <1>2, <1>5, <1>6 DEF StreamsTypeOK, agentVarsS
<1>8. outbound' \in Seq(Requests) /\ RequestsInOrder' /\ Asked'
  BY <1>1, <1>2 DEF LinksType, RequestsInOrder, Asked, agentVarsS
<1> QED BY <1>3, <1>4, <1>7, <1>8 DEF StreamsInv, LinksType

\* A request that is handled starts the goroutine of its session, or cancels what there is of
\* it: a follower, or the one that a container's goroutine is about to start.
LEMMA HandleKeeps ==
    ASSUME StreamsInv, Handle
    PROVE  StreamsInv'
<1>1. StreamsTypeOK /\ LinksType /\ RequestsInOrder /\ Asked /\ Kept /\ Stoppable
  BY DEF StreamsInv
<1> DEFINE v == Head(outbound)[2]
<1>2. Head(outbound) \in Requests /\ v \in Viewers
  BY <1>1, StreamsTaken DEF Handle, LinksType, Requests
<1>3. /\ outbound # <<>> /\ outbound' = Tail(outbound)
      /\ UNCHANGED <<serving, view, routed, buffered, holding, agentSide, watched, follower, lines,
                     inbound>>
  BY DEF Handle, viewVars
<1>4. CASE Head(outbound)[1] = "start" /\ Steps(v, "idle", "spawned")
           /\ UNCHANGED <<entries, cancels, cancelled>>
  <2>1. stage[v] = "idle" /\ stage' = [stage EXCEPT ![v] = "spawned"]
    BY <1>4 DEF Steps
  <2> HIDE DEF v
  <2>2. StreamsTypeOK'
    BY <1>1, <1>2, <1>3, <1>4, <2>1 DEF StreamsTypeOK
  <2>3. Kept'
    BY <1>1, <1>2, <1>3, <1>4, <2>1 DEF Kept, StreamsTypeOK
  <2>4. Stoppable'
    BY <1>1, <1>3, <1>4 DEF Stoppable, Follows
  <2>5. outbound' \in Seq(Requests) /\ RequestsInOrder' /\ Asked'
    BY <1>2, <1>3, <1>4, <2>1, RequestTaken DEF v
  <2> QED BY <1>1, <1>3, <2>2, <2>3, <2>4, <2>5 DEF StreamsInv, LinksType
<1>5. CASE Head(outbound)[1] = "stop" /\ Cancels(v) /\ UNCHANGED stage
  <2>1. outbound' \in Seq(Requests) /\ RequestsInOrder' /\ Asked'
    BY <1>2, <1>3, <1>5, RequestTaken
  <2> HIDE DEF v
  <2>2. StreamsTypeOK'
    BY <1>1, <1>2, <1>3, <1>5 DEF StreamsTypeOK, Cancels
  <2>3. Kept'
    BY <1>1, <1>2, <1>3, <1>5 DEF Kept, Cancels
  <2>4. Stoppable'
    BY <1>1, <1>2, <1>3, <1>5 DEF Stoppable, Follows, Cancels
  <2> QED BY <1>1, <1>3, <2>1, <2>2, <2>3, <2>4 DEF StreamsInv, LinksType
<1> QED BY <1>4, <1>5 DEF Handle

\* The goroutine of a request starts a follower only with what will cancel it.
LEMMA StarterKeeps ==
    ASSUME StreamsInv, NEW v \in Viewers, Announce(v) \/ KeepCancel(v) \/ StartFollower(v)
    PROVE  StreamsInv'
<1> USE ViewersAssumption
<1>1. StreamsTypeOK /\ LinksType /\ RequestsInOrder /\ Asked /\ Kept /\ Stoppable
  BY DEF StreamsInv
<1>2. UNCHANGED <<serving, view, routed, buffered, holding, agentSide, lines, outbound, cancelled>>
  BY DEF Announce, KeepCancel, StartFollower, viewVars
<1>3. inbound' \in Seq(Viewers)
  BY StreamsSaid DEF Announce, KeepCancel, StartFollower
<1>4. /\ stage' \in [Viewers -> {"idle", "spawned", "announced", "ready", "ended"}]
      /\ \A u \in Viewers : stage[u] = "idle" <=> stage'[u] = "idle"
  BY <1>1 DEF StreamsTypeOK, Announce, KeepCancel, StartFollower, Steps
<1>5. outbound' \in Seq(Requests) /\ RequestsInOrder' /\ Asked'
  BY <1>1, <1>2, <1>4, RequestsKept DEF Asked
<1>6. StreamsTypeOK'
  <2>1. follower' \in [Viewers -> {"none", "running", "exited"}]
    BY <1>1 DEF StreamsTypeOK, Announce, KeepCancel, StartFollower
  <2>2. entries' \cup cancels' \cup watched' \subseteq Viewers
    BY <1>1 DEF StreamsTypeOK, Announce, KeepCancel, StartFollower
  <2> QED BY <1>1, <1>2, <1>4, <2>1, <2>2 DEF StreamsTypeOK
<1>7. CASE Announce(v)
  <2>1. UNCHANGED <<watched, follower, entries, cancels>>
    BY <1>7 DEF Announce
  <2>2. /\ stage[v] = "spawned" /\ stage'[v] \in {"announced", "ended"}
        /\ \A u \in Viewers \ {v} : stage'[u] = stage[u]
    BY <1>1, <1>7 DEF Announce, Steps, StreamsTypeOK
  <2>3. Kept' /\ Stoppable'
    BY <1>1, <1>2, <2>1, <2>2 DEF Kept, Stoppable, Follows
  <2> QED BY <1>3, <1>5, <1>6, <2>3 DEF StreamsInv, LinksType
<1>8. CASE KeepCancel(v)
  <2>1. /\ v \in ContainerViewers /\ UNCHANGED <<follower, entries>>
        /\ cancels' = cancels \cup {v} /\ watched' = watched \cup {v}
    BY <1>8 DEF KeepCancel
  <2>2. /\ stage[v] = "announced" /\ stage'[v] = "ready"
        /\ \A u \in Viewers \ {v} : stage'[u] = stage[u]
    BY <1>1, <1>8 DEF KeepCancel, Steps, StreamsTypeOK
  <2>3. Kept' /\ Stoppable'
    BY <1>1, <1>2, <2>1, <2>2 DEF Kept, Stoppable, Follows
  <2> QED BY <1>3, <1>5, <1>6, <2>3 DEF StreamsInv, LinksType
<1>9. CASE StartFollower(v)
  <2>1. /\ entries' = entries \cup {v} /\ UNCHANGED <<watched, cancels>>
        /\ follower' = [follower EXCEPT ![v] = "running"]
    BY <1>9 DEF StartFollower
  <2>2. /\ stage[v] = (IF v \in FileViewers THEN "announced" ELSE "ready") /\ stage'[v] = "ended"
        /\ \A u \in Viewers \ {v} : stage'[u] = stage[u]
    BY <1>1, <1>9 DEF StartFollower, Steps, StreamsTypeOK
  <2>3. \A u \in Viewers \ {v} : follower'[u] = follower[u]
    BY <1>1, <2>1 DEF StreamsTypeOK
  <2>4. Kept'
    BY <1>1, <1>2, <2>1, <2>2, <2>3 DEF Kept
  <2>5. v \in FileViewers \cup cancelled \cup watched
    BY <1>1, <2>2 DEF Kept
  <2>6. Stoppable'
    BY <1>1, <1>2, <2>1, <2>3, <2>5 DEF Stoppable, Follows
  <2> QED BY <1>3, <1>5, <1>6, <2>4, <2>6 DEF StreamsInv, LinksType
<1> QED BY <1>7, <1>8, <1>9

\* What the end of a connection takes from a session it has cancelled before.
LEMMA EndKeeps ==
    ASSUME StreamsInv, \/ \E v \in Viewers : WatchEnd(v)
                       \/ AgentSeesEnd \/ AgentBreaks \/ CloseAllFiles
    PROVE  StreamsInv'
<1> USE ViewersAssumption
<1>1. StreamsTypeOK /\ LinksType /\ RequestsInOrder /\ Asked /\ Kept /\ Stoppable
  BY DEF StreamsInv
<1>2. UNCHANGED <<serving, view, routed, buffered, holding, stage, follower, outbound, inbound>>
  BY DEF WatchEnd, AgentSeesEnd, AgentBreaks, CloseAllFiles, viewVars
<1>3. outbound' \in Seq(Requests) /\ inbound' \in Seq(Viewers) /\ RequestsInOrder' /\ Asked'
  BY <1>1, <1>2 DEF LinksType, RequestsInOrder, Asked
<1>4. StreamsTypeOK'
  BY <1>1, <1>2
     DEF StreamsTypeOK, WatchEnd, Cancels, AgentSeesEnd, AgentBreaks, CloseAllFiles
<1>5. CASE \E v \in Viewers : WatchEnd(v)
  <2>1. PICK v \in Viewers : v \in watched /\ watched' = watched \ {v} /\ Cancels(v)
    BY <1>5 DEF WatchEnd
  <2>2. Kept'
    BY <1>1, <1>2, <2>1 DEF Kept, Cancels
  <2>3. Stoppable'
    BY <1>1, <1>2, <2>1 DEF Stoppable, Follows, Cancels
  <2> QED BY <1>3, <1>4, <2>2, <2>3 DEF StreamsInv, LinksType
<1>6. CASE AgentSeesEnd \/ AgentBreaks
  <2>1. UNCHANGED <<watched, entries, cancels, cancelled>>
    BY <1>6 DEF AgentSeesEnd, AgentBreaks
  <2> QED BY <1>1, <1>2, <1>3, <1>4, <2>1 DEF StreamsInv, LinksType, Kept, Stoppable, Follows
<1>7. CASE CloseAllFiles
  <2>1. /\ cancelled' = cancelled \cup (entries \cap FileViewers)
        /\ entries' = entries \ FileViewers /\ UNCHANGED <<watched, cancels>>
    BY <1>7 DEF CloseAllFiles
  <2> QED BY <1>1, <1>2, <1>3, <1>4, <2>1 DEF StreamsInv, LinksType, Kept, Stoppable, Follows
<1> QED BY <1>5, <1>6, <1>7

\* A follower only writes and ends.
LEMMA FollowerKeeps ==
    ASSUME StreamsInv, NEW v \in Viewers, Emit(v) \/ Exits(v)
    PROVE  StreamsInv'
<1>1. StreamsTypeOK /\ LinksType /\ RequestsInOrder /\ Asked /\ Kept /\ Stoppable
  BY DEF StreamsInv
<1>2. UNCHANGED <<serving, view, routed, buffered, holding, agentSide, stage, watched, entries, outbound>>
  BY DEF Emit, Exits, viewVars
<1>3. outbound' \in Seq(Requests) /\ inbound' \in Seq(Viewers) /\ RequestsInOrder' /\ Asked'
  BY <1>1, <1>2, StreamsSaid DEF LinksType, RequestsInOrder, Asked, Emit, Exits
<1>4. /\ follower' \in [Viewers -> {"none", "running", "exited"}]
      /\ \A u \in Viewers : follower'[u] = follower[u] \/ u = v
      /\ follower[v] = "running"
      /\ follower'[v] = "running" => cancelled' = cancelled /\ cancels' = cancels
      /\ cancelled \subseteq cancelled' /\ cancelled' \subseteq cancelled \cup {v}
      /\ cancels' \subseteq cancels /\ cancels \subseteq cancels' \cup {v}
  BY <1>1 DEF StreamsTypeOK, Emit, Exits
<1>5. StreamsTypeOK'
  BY <1>1, <1>2, <1>4 DEF StreamsTypeOK
<1>6. stage[v] = "ended"
  BY <1>1, <1>4 DEF Kept
<1>7. Kept'
  BY <1>1, <1>2, <1>4, <1>6 DEF Kept
<1>8. Stoppable'
  BY <1>1, <1>2, <1>4 DEF Stoppable, Follows
<1> QED BY <1>3, <1>5, <1>7, <1>8 DEF StreamsInv, LinksType

\* Nothing runs and nothing is on its way at first.
LEMMA StreamsInitially == StreamsInit => StreamsInv
BY ChannelAssumption
   DEF StreamsInit, StreamsInv, StreamsTypeOK, LinksType, RequestsInOrder, Asked, Kept, Stoppable, Follows

\* Every step keeps the invariant.
LEMMA StreamsKept ==
    ASSUME StreamsInv, [StreamsNext]_streamVars
    PROVE  StreamsInv'
<1>1. CASE \E v \in Viewers : AskToFollow(v) \/ Leave(v) \/ StreamView(v)
  BY <1>1, ViewerKeeps DEF StreamView
<1>2. CASE StreamRelay \/ StopsServing
  BY <1>2, RelayKeeps DEF StreamRelay, ServerSeesEnd
<1>3. CASE StreamAgent \/ AgentBreaks
  BY <1>3, HandleKeeps, EndKeeps DEF StreamAgent
<1>4. CASE \E v \in Viewers : StreamFollower(v) \/ Emit(v) \/ SourceEnds(v)
  BY <1>4, StarterKeeps, EndKeeps, FollowerKeeps DEF StreamFollower, ObeysCancel, SourceEnds
<1>5. CASE UNCHANGED streamVars
  BY <1>5 DEF StreamsInv, StreamsTypeOK, LinksType, RequestsInOrder, Asked, Kept, Stoppable, Follows,
              streamVars, viewVars, agentVarsS
<1> QED BY <1>1, <1>2, <1>3, <1>4, <1>5 DEF StreamsNext

(* No follower of a log is ever out of reach of both its stop and the end of *)
(* its connection, and the read loop of the Agent gets each session's start  *)
(* before its stop and both at most once: the safety that FollowersEnd       *)
(* needs of hub.go, logtail and docker, whoever leaves at any moment.        *)
THEOREM StreamsCorrect == StreamsSpec => [](StreamsTypeOK /\ Stoppable /\ RequestsInOrder)
<1>1. StreamsInv => StreamsTypeOK /\ Stoppable /\ RequestsInOrder
  BY DEF StreamsInv
<1> QED BY <1>1, StreamsInitially, StreamsKept, PTL DEF StreamsSpec
=============================================================================
