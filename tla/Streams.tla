------------------------------ MODULE Streams ------------------------------
(***************************************************************************)
(* Following a log file or the logs of a container from a browser:         *)
(* AttachLogTail and AttachContainerLogs of internal/server/agenthub/      *)
(* hub.go, and the session managers of internal/agent/logtail and          *)
(* internal/agent/docker.  One connection of one Agent; a viewer is one    *)
(* browser, whose session identifier is random and never used twice.       *)
(*                                                                         *)
(* The two kinds share everything but the way a follower is cancelled: a   *)
(* file's runs in the context of the connection, a container's in a        *)
(* context of its own that another goroutine cancels.                      *)
(*                                                                         *)
(* A definition marked "deviation" is not the code: it is a mistake the    *)
(* next definition could have contained, which a property must detect.     *)
(***************************************************************************)
EXTENDS Naturals, Sequences, FiniteSets

CONSTANTS
    FileViewers, ContainerViewers,
    ChannelSize,    \* capacity of a viewer's channel, 16 in the code
    MaxLines,       \* bound: messages of data a follower sends
    MaxViewers,     \* bound: browsers that ever ask
    Nobody

Viewers == FileViewers \cup ContainerViewers
ASSUME ViewersAssumption == FileViewers \cap ContainerViewers = {} /\ Nobody \notin Viewers
ASSUME ChannelAssumption == ChannelSize \in Nat \ {0} /\ {MaxLines, MaxViewers} \subseteq Nat

VARIABLES
    serving,    \* the connection's handler at the Server reads and writes
    view,       \* what the handler of every viewer does
    routed,     \* logTailSessions and containerLogsSessions
    buffered,   \* messages that wait in a viewer's channel
    holding,    \* the viewer whose channel the read loop has looked up
    agentSide,  \* "up"; "down": its read loop has ended; "left": after CloseAll
    stage,      \* the goroutine that handles a request
    watched,    \* container viewers whose watching goroutine has yet to see the end
    follower,   \* the goroutine that reads the log
    entries,    \* Manager.sessions and LogsManager.sessions
    cancels,    \* LogsHandler.cancelFuncs
    cancelled,  \* followers whose own context is cancelled
    lines,      \* what a follower has sent
    outbound, inbound  \* what is on its way to the Agent and to the Server

viewVars  == <<serving, view, routed, buffered, holding>>
agentVarsS == <<agentSide, stage, watched, follower, entries, cancels, cancelled, lines>>
streamVars == <<viewVars, agentVarsS, outbound, inbound>>

StreamsInit ==
    /\ serving = TRUE /\ agentSide = "up"
    /\ view = [v \in Viewers |-> "idle"]
    /\ routed = {} /\ holding = Nobody
    /\ buffered = [v \in Viewers |-> 0]
    /\ stage = [v \in Viewers |-> "idle"]
    /\ follower = [v \in Viewers |-> "none"]
    /\ watched = {} /\ entries = {} /\ cancels = {} /\ cancelled = {}
    /\ lines = [v \in Viewers |-> 0]
    /\ outbound = <<>> /\ inbound = <<>>

Views(v, from, to) == view[v] = from /\ view' = [view EXCEPT ![v] = to]
Steps(v, from, to) == stage[v] = from /\ stage' = [stage EXCEPT ![v] = to]

\* writeJSON of the Server: what is written to an Agent that is gone may be lost
Writes(kind, v) ==
    \/ serving /\ outbound' = (IF agentSide = "up" THEN Append(outbound, <<kind, v>>) ELSE outbound)
    \/ agentSide # "up" /\ UNCHANGED outbound
CannotWrite == ~(serving /\ agentSide = "up")
-----------------------------------------------------------------------------
(* The handler of a browser                                                *)

\* A browser that finds the Agent's connection has its request written at once ...
AskToFollow(v) ==
    /\ serving /\ Cardinality({u \in Viewers : view[u] # "idle"}) < MaxViewers
    /\ \/ Views(v, "idle", "asked") /\ Writes("start", v)
       \/ Views(v, "idle", "ended") /\ CannotWrite /\ UNCHANGED outbound
    /\ UNCHANGED <<serving, routed, buffered, holding, agentVarsS, inbound>>

\* ... and its channel is only registered afterwards
RegisterView(v) ==
    /\ Views(v, "asked", "attached")
    /\ routed' = routed \cup {v}
    /\ UNCHANGED <<serving, buffered, holding, agentVarsS, outbound, inbound>>

\* The goroutine that copies the channel to the browser: it has no other end than
\* the request's context, a browser that cannot be written to, or the closed channel
Forward(v) ==
    /\ buffered[v] > 0
    /\ buffered' = [buffered EXCEPT ![v] = @ - 1]
    /\ UNCHANGED <<serving, view, routed, holding, agentVarsS, outbound, inbound>>

\* The browser stops, is gone, or its request ends.  The end of the Agent's connection
\* is no such reason.
Leave(v) ==
    /\ Views(v, "attached", "leaving")
    /\ UNCHANGED <<serving, routed, buffered, holding, agentVarsS, outbound, inbound>>

UnregisterView(v) ==
    /\ Views(v, "leaving", "unregistered")
    /\ routed' = routed \ {v}
    /\ UNCHANGED <<serving, buffered, holding, agentVarsS, outbound, inbound>>

CloseChannel(v) ==
    /\ Views(v, "unregistered", "closed")
    /\ UNCHANGED <<serving, routed, buffered, holding, agentVarsS, outbound, inbound>>

WriteStop(v) ==
    /\ Views(v, "closed", "ended")
    /\ Writes("stop", v) \/ (CannotWrite /\ UNCHANGED outbound)
    /\ UNCHANGED <<serving, routed, buffered, holding, agentVarsS, inbound>>
-----------------------------------------------------------------------------
(* The read loop of the connection                                         *)

\* The channel is looked up under the lock of the connection ...
LookUp ==
    /\ serving /\ holding = Nobody /\ inbound # <<>>
    /\ inbound' = Tail(inbound)
    /\ holding' = (IF Head(inbound) \in routed THEN Head(inbound) ELSE Nobody)
    /\ UNCHANGED <<serving, view, routed, buffered, agentVarsS, outbound>>

\* ... and written without it: a full channel loses the message, and a channel closed
\* in between makes the handler of the connection panic
Pass ==
    /\ serving /\ holding # Nobody
    /\ holding' = Nobody
    /\ IF view[holding] \in {"closed", "ended"}
         THEN serving' = FALSE /\ UNCHANGED buffered
         ELSE /\ \/ buffered[holding] < ChannelSize
                    /\ buffered' = [buffered EXCEPT ![holding] = @ + 1]
                 \/ buffered[holding] = ChannelSize /\ UNCHANGED buffered
              /\ UNCHANGED serving
    /\ UNCHANGED <<view, routed, agentVarsS, outbound, inbound>>

\* The connection ends for the Server, not always because the Agent has closed it
StopsServing ==
    /\ serving /\ serving' = FALSE
    /\ UNCHANGED <<view, routed, buffered, holding, agentVarsS, outbound, inbound>>
ServerSeesEnd == agentSide # "up" /\ StopsServing
-----------------------------------------------------------------------------
(* The Agent                                                               *)

\* Manager.Stop; LogsHandler.Stop also calls the cancel function it keeps
Cancels(v) ==
    /\ cancelled' = cancelled \cup ({v} \cap (entries \cup cancels))
    /\ entries' = entries \ {v}
    /\ cancels' = cancels \ {v}

\* The read loop starts a goroutine for a request and stops a session itself
Handle ==
    /\ agentSide = "up" /\ outbound # <<>>
    /\ outbound' = Tail(outbound)
    /\ LET v == Head(outbound)[2] IN
       \/ /\ Head(outbound)[1] = "start" /\ Steps(v, "idle", "spawned")
          /\ UNCHANGED <<entries, cancels, cancelled>>
       \/ Head(outbound)[1] = "stop" /\ Cancels(v) /\ UNCHANGED stage
    /\ UNCHANGED <<viewVars, agentSide, watched, follower, lines, inbound>>

\* What the Agent sends may be lost with the connection
Says(v) ==
    \/ agentSide = "up" /\ inbound' = Append(inbound, v)
    \/ ~(agentSide = "up" /\ serving) /\ UNCHANGED inbound

\* The handler says that it starts; when that cannot be written it starts nothing
Announce(v) ==
    /\ \/ Steps(v, "spawned", "announced") /\ Says(v)
       \/ Steps(v, "spawned", "ended") /\ CannotWrite /\ UNCHANGED inbound
    /\ UNCHANGED <<viewVars, agentSide, watched, follower, entries, cancels, cancelled,
                   lines, outbound>>

\* deviation: nobody waits for the end of the connection
KeepCancel_(v) ==
    /\ v \in ContainerViewers /\ Steps(v, "announced", "ready")
    /\ cancels' = cancels \cup {v}
    /\ UNCHANGED <<viewVars, agentSide, watched, follower, entries, cancelled, lines,
                   outbound, inbound>>
\* LogsHandler.Handle keeps a cancel function and starts the goroutine that calls it at
\* the end of the connection
KeepCancel(v) ==
    /\ v \in ContainerViewers /\ Steps(v, "announced", "ready")
    /\ cancels' = cancels \cup {v} /\ watched' = watched \cup {v}
    /\ UNCHANGED <<viewVars, agentSide, follower, entries, cancelled, lines, outbound, inbound>>

\* Manager.Start and LogsManager.Start
StartFollower(v) ==
    /\ Steps(v, IF v \in FileViewers THEN "announced" ELSE "ready", "ended")
    /\ v \notin entries /\ entries' = entries \cup {v}
    /\ follower' = [follower EXCEPT ![v] = "running"]
    /\ UNCHANGED <<viewVars, agentSide, watched, cancels, cancelled, lines, outbound, inbound>>

WatchEnd(v) ==
    /\ v \in watched /\ agentSide # "up"
    /\ watched' = watched \ {v} /\ Cancels(v)
    /\ UNCHANGED <<viewVars, agentSide, stage, follower, lines, outbound, inbound>>

Emit(v) ==
    /\ follower[v] = "running" /\ lines[v] < MaxLines
    /\ lines' = [lines EXCEPT ![v] = @ + 1] /\ Says(v)
    /\ UNCHANGED <<viewVars, agentSide, stage, watched, follower, entries, cancels,
                   cancelled, outbound>>

\* run ends and says so; the entry of the manager stays until somebody stops it
Exits(v) ==
    /\ follower[v] = "running" /\ follower' = [follower EXCEPT ![v] = "exited"]
    /\ cancels' = cancels \ {v}
    /\ cancelled' = cancelled \cup ({v} \cap cancels)
    /\ Says(v)
    /\ UNCHANGED <<viewVars, agentSide, stage, watched, entries, lines, outbound>>

Cancelled(v) == v \in cancelled \/ (v \in FileViewers /\ agentSide # "up")
ObeysCancel(v) == Cancelled(v) /\ Exits(v)

\* the file is rotated, the container stops, or reading fails
SourceEnds(v) == Exits(v)

AgentSeesEnd ==
    /\ ~serving /\ agentSide = "up" /\ agentSide' = "down"
    /\ UNCHANGED <<viewVars, stage, watched, follower, entries, cancels, cancelled, lines,
                   outbound, inbound>>
AgentBreaks ==
    /\ agentSide = "up" /\ agentSide' = "down"
    /\ UNCHANGED <<viewVars, stage, watched, follower, entries, cancels, cancelled, lines,
                   outbound, inbound>>

\* The deferred CloseAll, of the log files only
CloseAllFiles ==
    /\ agentSide = "down" /\ agentSide' = "left"
    /\ cancelled' = cancelled \cup (entries \cap FileViewers)
    /\ entries' = entries \ FileViewers
    /\ UNCHANGED <<viewVars, stage, watched, follower, cancels, lines, outbound, inbound>>
-----------------------------------------------------------------------------
StreamRelay == LookUp \/ Pass \/ ServerSeesEnd
StreamView(v) == RegisterView(v) \/ Forward(v) \/ UnregisterView(v) \/ CloseChannel(v) \/ WriteStop(v)
StreamAgent == Handle \/ AgentSeesEnd \/ CloseAllFiles
StreamFollower(v) ==
    Announce(v) \/ KeepCancel(v) \/ StartFollower(v) \/ WatchEnd(v) \/ ObeysCancel(v)

StreamsNext ==
    \/ StreamRelay \/ StreamAgent \/ StopsServing \/ AgentBreaks
    \/ \E v \in Viewers : \/ AskToFollow(v) \/ Leave(v) \/ StreamView(v)
                          \/ StreamFollower(v) \/ Emit(v) \/ SourceEnds(v)

StreamsSpec == StreamsInit /\ [][StreamsNext]_streamVars

\* Goroutines are scheduled; no log has to be written and no browser has to leave
StreamsFairness ==
    /\ WF_streamVars(StreamRelay) /\ WF_streamVars(StreamAgent)
    /\ \A v \in Viewers : WF_streamVars(StreamView(v)) /\ WF_streamVars(StreamFollower(v))
-----------------------------------------------------------------------------
Follows(v) == follower[v] = "running"
InFlight(message) == \E i \in DOMAIN outbound : outbound[i] = message

StreamsTypeOK ==
    /\ serving \in BOOLEAN /\ agentSide \in {"up", "down", "left"}
    /\ view \in [Viewers -> {"idle", "asked", "attached", "leaving", "unregistered",
                             "closed", "ended"}]
    /\ stage \in [Viewers -> {"idle", "spawned", "announced", "ready", "ended"}]
    /\ follower \in [Viewers -> {"none", "running", "exited"}]
    /\ routed \subseteq Viewers /\ holding \in Viewers \cup {Nobody}
    /\ buffered \in [Viewers -> 0 .. ChannelSize]
    /\ entries \cup cancels \cup cancelled \cup watched \subseteq Viewers

(***************************************************************************)
(* A follower never outlives its purpose: one that runs when its stop is   *)
(* on the way, or when its connection ends (after a panic of the Server,   *)
(* too), ends; and nothing that was only being started at that moment      *)
(* keeps following.  A stop that overtakes the start of its session is     *)
(* lost: that follower lives until the connection ends.                    *)
(***************************************************************************)
FollowersEnd ==
    \A v \in Viewers :
        /\ (Follows(v) /\ InFlight(<<"stop", v>>)) ~> ~Follows(v)
        /\ (agentSide = "left") ~> [](~Follows(v) /\ stage[v] \in {"idle", "ended"})
=============================================================================
