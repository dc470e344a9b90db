----------------------------- MODULE InstallJobs -----------------------------
(***************************************************************************)
(* The installation and the removal of an Agent over SSH: the job of       *)
(* internal/server/sshops/jobs.go, the two operations of runner.go, and    *)
(* the handlers of internal/server/app/app.go that start them and stream   *)
(* their progress to the browsers that watch.                              *)
(*                                                                         *)
(* One job; what the remote host does, and whether it can be reached, are  *)
(* inputs.  Of an event only its status, and whether it is the last, is    *)
(* kept.                                                                   *)
(*                                                                         *)
(* A definition marked "deviation" is not the code: it is a mistake the    *)
(* next definition could have contained, which a property must detect.     *)
(***************************************************************************)
EXTENDS Naturals, Sequences, SequencesExt

CONSTANTS
    Watchers,      \* requests for the events of the job
    BufferSize     \* capacity of a subscriber's channel, 16 in the code

ASSUME BufferAssumption == BufferSize \in Nat \ {0}

VARIABLES
    job,       \* the goroutine of the job and what it does
    jobStatus, \* Job.Status
    events,    \* Job.events
    secrets,   \* Job.secrets are still known
    overdue,   \* the time limit of the job, or of the wait for the Agent, is reached
    node,      \* the row of the node: "absent", "offline", "online"
    watcher,   \* what every watcher does; "late" when it came after the final status
    subscribed,\* Job.subscribers
    buffer,    \* the channel of every subscriber
    released,  \* channels that are closed
    shown,     \* the events written to every watcher
    missed     \* history: watchers a full channel has cost an event

watchVars == <<watcher, subscribed, buffer, released, shown, missed>>
installVars == <<job, jobStatus, events, secrets, overdue, node, watchVars>>

Event(what) == [status |-> what, done |-> FALSE, masked |-> secrets]

InstallInit ==
    /\ job = [kind |-> "none", at |-> "idle", step |-> 0, ok |-> TRUE]
    /\ jobStatus = "none" /\ events = <<>> /\ secrets = FALSE /\ overdue = FALSE
    /\ node \in {"absent", "offline", "online"}
    /\ watcher = [w \in Watchers |-> "idle"]
    /\ subscribed = {} /\ released = {} /\ missed = {}
    /\ buffer = [w \in Watchers |-> <<>>]
    /\ shown = [w \in Watchers |-> <<>>]

EventAt(place) == job.at = place
-----------------------------------------------------------------------------
(* The events of a job                                                     *)

Full(w) == Len(buffer[w]) = BufferSize

\* deviation: the last event is announced by closing the channels alone
Add_(event) ==
    /\ events' = Append(events, event)
    /\ buffer' = [w \in Watchers |-> IF w \in subscribed /\ ~Full(w) /\ ~event.done
                                       THEN Append(buffer[w], event) ELSE buffer[w]]
    /\ missed' = missed \cup {w \in subscribed : Full(w)}
    /\ released' = IF event.done THEN released \cup subscribed ELSE released
    /\ subscribed' = IF event.done THEN {} ELSE subscribed
\* Job.add: a subscriber whose channel is full loses the event, be it the last one
Add(event) ==
    /\ events' = Append(events, event)
    /\ buffer' = [w \in Watchers |-> IF w \in subscribed /\ ~Full(w)
                                       THEN Append(buffer[w], event) ELSE buffer[w]]
    /\ missed' = missed \cup {w \in subscribed : Full(w)}
    /\ released' = IF event.done THEN released \cup subscribed ELSE released
    /\ subscribed' = IF event.done THEN {} ELSE subscribed
QuietEvents == UNCHANGED <<events, buffer, missed, released, subscribed>>
-----------------------------------------------------------------------------
(* The job                                                                 *)

\* The removal of an Agent begins with the row of its node; the identifier of the job is
\* not known to anybody before Start has returned
StartJob(kind) ==
    /\ EventAt("idle") /\ (kind # "install" => node # "absent")
    /\ job' = [kind |-> kind, at |-> "operating", step |-> 0, ok |-> TRUE]
    /\ jobStatus' = "running" /\ secrets' = TRUE
    /\ events' = <<[status |-> "running", done |-> FALSE, masked |-> TRUE]>>
    /\ UNCHANGED <<overdue, node, watchVars>>

\* create_token, then of SSH, of root, of the host's name and of the script "running"
\* and "success"; the removal has no token and no name
StepsOf(kind) == IF kind = "install" THEN 3 ELSE 2

\* CommandRunner.Install and Uninstall
Operate ==
    /\ EventAt("operating") /\ job.step < StepsOf(job.kind)
    /\ Add(Event("success"))
    /\ job' = [job EXCEPT !.step = @ + 1]
    /\ UNCHANGED <<jobStatus, secrets, overdue, node, watcher, shown>>

StepFails ==
    /\ job' = [job EXCEPT !.at = "ending", !.ok = FALSE]
    /\ UNCHANGED <<jobStatus, secrets, overdue, node, watcher, shown>>
    /\ QuietEvents
\* the host is not reached, a command fails, the context of the job ends
OperationFails == EventAt("operating") /\ StepFails

\* The script has run: an installation waits for the node, a removal may delete its row
Operated ==
    /\ EventAt("operating") /\ job.step = StepsOf(job.kind)
    /\ Add(Event("running"))
    /\ job' = [job EXCEPT !.at = CASE job.kind = "install" -> "waiting"
                                   [] job.kind = "purge" -> "deleting"
                                   [] OTHER -> "ending"]
    /\ UNCHANGED <<jobStatus, secrets, overdue, node, watcher, shown>>

\* waitForInstalledNode asks for the row of the node, at once and at every tick: the one
\* of a node that had never gone offline will do
Poll ==
    /\ EventAt("waiting") /\ node = "online"
    /\ Add(Event("success"))
    /\ job' = [job EXCEPT !.at = "ending"]
    /\ UNCHANGED <<jobStatus, secrets, overdue, node, watcher, shown>>
GiveUpWaiting == EventAt("waiting") /\ overdue /\ StepFails

\* nodes.Delete and then DisconnectNode
DeleteRow ==
    /\ EventAt("deleting")
    /\ job' = [job EXCEPT !.at = "disconnecting"] /\ node' = "absent"
    /\ UNCHANGED <<jobStatus, secrets, overdue, watcher, shown>>
    /\ QuietEvents
DeleteFails == EventAt("deleting") /\ StepFails
DisconnectInstalled ==
    /\ EventAt("disconnecting")
    /\ Add(Event("success"))
    /\ job' = [job EXCEPT !.at = "ending"]
    /\ UNCHANGED <<jobStatus, secrets, overdue, node, watcher, shown>>

\* The status is set ...
SetStatus ==
    /\ EventAt("ending") /\ job' = [job EXCEPT !.at = "telling"]
    /\ jobStatus' = (IF job.ok THEN "success" ELSE "failed")
    /\ UNCHANGED <<secrets, overdue, node, watcher, shown>>
    /\ QuietEvents

\* ... before the last event is added
AddLast ==
    /\ EventAt("telling") /\ job' = [job EXCEPT !.at = "told"]
    /\ Add([Event(jobStatus) EXCEPT !.done = TRUE])
    /\ UNCHANGED <<jobStatus, secrets, overdue, node, watcher, shown>>

\* the deferred clearSecrets
ClearSecrets ==
    /\ EventAt("told") /\ job' = [job EXCEPT !.at = "over"] /\ secrets' = FALSE
    /\ UNCHANGED <<jobStatus, events, overdue, node, watchVars>>
-----------------------------------------------------------------------------
(* Those who watch                                                         *)

\* deviation: a watcher is subscribed to a job that is about to tell its end
Subscribe_(w) ==
    /\ watcher[w] = "idle" /\ jobStatus # "none"
    /\ watcher' = [watcher EXCEPT ![w] = "watching"]
    /\ shown' = [shown EXCEPT ![w] = events]
    /\ subscribed' = subscribed \cup {w}
    /\ UNCHANGED <<job, jobStatus, events, secrets, overdue, node, buffer, missed, released>>
\* Manager.Subscribe and the writing of the history: a job that has its final status
\* gets no more subscribers, though its last event may still be missing
Subscribe(w) ==
    /\ watcher[w] = "idle" /\ jobStatus # "none"
    /\ shown' = [shown EXCEPT ![w] = events]
    /\ IF jobStatus = "running"
         THEN /\ watcher' = [watcher EXCEPT ![w] = "watching"]
              /\ subscribed' = subscribed \cup {w} /\ UNCHANGED released
         ELSE /\ watcher' = [watcher EXCEPT ![w] = "late"]
              /\ released' = released \cup {w} /\ UNCHANGED subscribed
    /\ UNCHANGED <<job, jobStatus, events, secrets, overdue, node, buffer, missed>>

ShowNext(w) ==
    /\ watcher[w] = "watching" /\ buffer[w] # <<>>
    /\ shown' = [shown EXCEPT ![w] = Append(@, Head(buffer[w]))]
    /\ buffer' = [buffer EXCEPT ![w] = Tail(@)]
    /\ UNCHANGED <<job, jobStatus, events, secrets, overdue, node, watcher, subscribed,
                   released, missed>>

WatchOver(w) ==
    /\ buffer[w] = <<>> /\ w \in released
    /\ \/ watcher[w] = "watching" /\ watcher' = [watcher EXCEPT ![w] = "ended"]
       \/ watcher[w] = "late" /\ watcher' = [watcher EXCEPT ![w] = "short"]
    /\ UNCHANGED <<job, jobStatus, events, secrets, overdue, node, subscribed,
                   buffer, released, shown, missed>>

\* A browser that goes away stays among the subscribers
StopWatching(w) ==
    /\ watcher[w] \in {"watching", "late"} /\ watcher' = [watcher EXCEPT ![w] = "gone"]
    /\ UNCHANGED <<job, jobStatus, events, secrets, overdue, node, subscribed,
                   buffer, released, shown, missed>>
-----------------------------------------------------------------------------
(* Time, and the Agent that connects and disconnects                       *)

TimePasses ==
    /\ job.at \in {"operating", "waiting"} /\ ~overdue /\ overdue' = TRUE
    /\ UNCHANGED <<job, jobStatus, events, secrets, node, watchVars>>
AgentConnects ==
    /\ EventAt("waiting") \/ node = "offline"
    /\ node # "online" /\ node' = "online"
    /\ UNCHANGED <<job, jobStatus, events, secrets, overdue, watchVars>>
AgentGoes ==
    /\ ~EventAt("idle") /\ node = "online" /\ node' = "offline"
    /\ UNCHANGED <<job, jobStatus, events, secrets, overdue, watchVars>>

\* the end of a command, or the time limit, ends every wait of the job
JobProgress ==
    \/ Operate \/ OperationFails \/ Operated \/ Poll \/ GiveUpWaiting \/ DeleteRow
    \/ DeleteFails \/ DisconnectInstalled \/ SetStatus \/ AddLast \/ ClearSecrets
Streaming(w) == ShowNext(w) \/ WatchOver(w)

InstallNext ==
    \/ \E kind \in {"install", "uninstall", "purge"} : StartJob(kind)
    \/ JobProgress \/ TimePasses \/ AgentConnects \/ AgentGoes
    \/ \E w \in Watchers : Subscribe(w) \/ Streaming(w) \/ StopWatching(w)

InstallSpec == InstallInit /\ [][InstallNext]_installVars

\* Every operation of a job is bounded by its context, which time ends
InstallFairness ==
    /\ WF_installVars(JobProgress) /\ WF_installVars(TimePasses)
    /\ \A w \in Watchers : WF_installVars(Streaming(w))
-----------------------------------------------------------------------------
InstallTypeOK ==
    /\ jobStatus \in {"none", "running", "success", "failed"}
    /\ node \in {"absent", "offline", "online"}
    /\ watcher \in [Watchers -> {"idle", "watching", "late", "ended", "short", "gone"}]
    /\ subscribed \cup released \cup missed \subseteq Watchers
    /\ \A w \in Watchers : Len(buffer[w]) <= BufferSize

(***************************************************************************)
(* What a watcher has been shown, with what waits in its channel, is       *)
(* everything that has happened so far, but for a full channel and, for    *)
(* those who come between the final status and the last event, but for     *)
(* that event.  Only the last event ends a job, and it tells its status;   *)
(* no event is kept with a secret in it.                                   *)
(***************************************************************************)
WatchersSeeAll ==
    /\ \A w \in Watchers :
          LET seen == shown[w] \o buffer[w] IN
          /\ watcher[w] \in {"watching", "ended"} /\ w \notin missed => seen = events
          /\ watcher[w] \in {"late", "short"} =>
                seen = events \/ (seen = Front(events) /\ Last(events).done)
    /\ \A i \in DOMAIN events :
          /\ events[i].masked
          /\ events[i].done => i = Len(events) /\ events[i].status = jobStatus

\* Nobody watches a job for ever: it ends, and its end releases the watchers
WatchersAreReleased ==
    \A w \in Watchers : (watcher[w] \in {"watching", "late"})
                              ~> (watcher[w] \in {"ended", "short", "gone"})
=============================================================================
