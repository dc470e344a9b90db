---------------------------- MODULE AgentUpgrade ----------------------------
(***************************************************************************)
(* The upgrade of an agent from the Server (internal/agent/upgrade and the *)
(* upgrade part of internal/server/agenthub/hub.go).  The agent keeps a    *)
(* copy of its executable, arms a systemd timer that puts the copy back,   *)
(* replaces itself and restarts; a connection of any version disarms the   *)
(* timer.  The Server follows the attempt in a status it keeps in memory.  *)
(* Old is the version that runs at first, New what the Server offers; New  *)
(* may be unable to connect.  The two minutes of the timer are longer than *)
(* the 750 ms between its arming and the restart.                          *)
(***************************************************************************)
EXTENDS Integers, Sequences

CONSTANTS
    Old, New,
    MaxAttempts,      \* requests of administrators
    MaxUpgradeFaults, \* steps of the agent or of systemd that fail
    MaxUpgradeCrashes,\* deaths of the agent or of the Server, reboots of the node
    MaxDrops          \* connections lost while both ends live

ASSUME UpgradeAssumption ==
    /\ Old # New /\ "none" \notin {Old, New}
    /\ {MaxAttempts, MaxUpgradeFaults, MaxUpgradeCrashes, MaxDrops} \subseteq Nat

VARIABLES
    works,       \* New is able to connect
    bin, backup, \* the executable, and its copy under var/backups
    marker,      \* var/upgrade/pending exists
    timer,       \* the rollback timer runs
    script,      \* where rollback.sh is
    proc,        \* the version that runs
    link,        \* its connection: down, greeted by the Server, up for both
    run,         \* where Upgrader.run is; mine: its connection is still the one of the request
    replies,     \* upgrade messages of the agent on their way, the request before them
    status,      \* of the Server: h.upgrades of this node
    caller,      \* Handler.AgentUpgrade: none, waits, or what was delivered to it
    expiries,    \* calls of expireAgentUpgrade to come
    excused,     \* something the recovery is not made for has happened since it was armed
    upgradeUsed

agentVars == <<bin, backup, marker, timer, script, proc, run>>
serverVars == <<status, caller, expiries>>
upgradeVars == <<works, agentVars, link, replies, serverVars, excused, upgradeUsed>>

UpgradeTypeOK ==
    /\ works \in BOOLEAN /\ marker \in BOOLEAN /\ timer \in BOOLEAN
    /\ {bin, backup, proc} \subseteq {Old, New, "none"} /\ bin # "none" /\ proc # "none"
    /\ script \in {"off", "restore", "forget", "restart"}
    /\ link \in {"down", "greeted", "up"}
    /\ run.at \in {"idle", "prepare", "arm", "rename", "restart", "undo", "again"}
    /\ status.stage \in {"idle", "preparing", "waiting_reconnect", "completed", "failed"}
    /\ caller \in {"none", "waits", "accepted", "failed"}
    /\ expiries \in 0 .. MaxAttempts

NoRun == [at |-> "idle", mine |-> FALSE]

UpgradeInit ==
    /\ works \in BOOLEAN
    /\ bin = Old /\ backup = "none" /\ marker = FALSE /\ timer = FALSE /\ script = "off"
    /\ proc = Old /\ link = "up" /\ run = NoRun /\ replies = <<>>
    /\ status = [stage |-> "idle", target |-> "none"] /\ caller = "none" /\ expiries = 0
    /\ excused = FALSE
    /\ upgradeUsed = [attempts |-> 0, faults |-> 0, crashes |-> 0, drops |-> 0]

Spends(what, limit) ==
    /\ upgradeUsed[what] < limit
    /\ upgradeUsed' = [upgradeUsed EXCEPT ![what] = @ + 1]
Faulty == Spends("faults", MaxUpgradeFaults)

Undecided == {"preparing", "waiting_reconnect"}
Failed == [status EXCEPT !.stage = "failed"]

-----------------------------------------------------------------------------
(* The Server *)

\* Two requests at once are left out; the timers of an earlier one are not.
Ask ==
    /\ caller = "none" /\ link # "down" /\ Spends("attempts", MaxAttempts)
    /\ status' = [stage |-> "preparing", target |-> New]
    /\ caller' = "waits" /\ replies' = Append(replies, "request")
    /\ UNCHANGED <<works, agentVars, link, expiries, excused>>

Forgotten(n) == n                        \* deviation: nothing ends the waiting

Expiring(n) == n + 1

\* The answer is taken: a success that was seen meanwhile is overwritten.
TakeReply ==
    /\ caller \in {"accepted", "failed"} /\ caller' = "none"
    /\ IF caller = "accepted"
       THEN /\ status' = IF status.stage = "failed" THEN status ELSE [status EXCEPT !.stage = "waiting_reconnect"]
            /\ expiries' = Expiring(expiries)
       ELSE status' = Failed /\ UNCHANGED expiries
    /\ UNCHANGED <<works, agentVars, link, replies, excused, upgradeUsed>>

\* Fifteen seconds, or the administrator gives up.
AskEnds ==
    /\ caller # "none" /\ caller' = "none" /\ status' = Failed
    /\ UNCHANGED <<works, agentVars, link, replies, expiries, excused, upgradeUsed>>

\* expireAgentUpgrade: every attempt has the same target.
ExpireStatus ==
    /\ expiries > 0 /\ expiries' = expiries - 1
    /\ status' = IF status.target = New /\ status.stage \in Undecided THEN Failed ELSE status
    /\ UNCHANGED <<works, agentVars, link, replies, caller, excused, upgradeUsed>>

\* deliverAgentUpgrade and recordAgentUpgradeResponse; a refusal has no stage.
ReceiveReply ==
    /\ link # "down" /\ replies # <<>> /\ Head(replies) # "request"
    /\ replies' = Tail(replies)
    /\ caller' = IF caller # "waits" THEN caller ELSE IF Head(replies) = "accepted" THEN "accepted" ELSE "failed"
    /\ status' = IF Head(replies) = "failed" THEN Failed ELSE status
    /\ UNCHANGED <<works, agentVars, link, expiries, excused, upgradeUsed>>

\* Registration and observeAgentUpgradeReconnect, before the agent is answered.
Register ==
    /\ link = "down" /\ (proc = Old \/ works)
    /\ link' = "greeted"
    /\ status' = IF status.target = proc THEN [status EXCEPT !.stage = "completed"]
                 ELSE IF status.stage \in Undecided THEN Failed ELSE status
    /\ UNCHANGED <<works, agentVars, replies, caller, expiries, excused, upgradeUsed>>

\* closePendingOperations delivers a failure to the caller that still waits.
Loses ==
    /\ link' = "down" /\ replies' = <<>>
    /\ caller' = IF caller = "waits" THEN "failed" ELSE caller

-----------------------------------------------------------------------------
(* The agent: Upgrader.run *)

Moves(at) == run' = [run EXCEPT !.at = at]
Reports == replies' = IF run.mine THEN Append(replies, "failed") ELSE replies
GivesUp == run' = NoRun /\ Reports
Disarm == marker' = FALSE /\ timer' = FALSE

\* readLoop and Upgrader.Start.
TakeRequest ==
    /\ link = "up" /\ replies # <<>> /\ Head(replies) = "request"
    /\ IF proc = New \/ run.at # "idle"
       THEN replies' = Append(Tail(replies), "refused") /\ UNCHANGED run
       ELSE /\ replies' = Append(Tail(replies), "accepted")
            /\ run' = [at |-> "prepare", mine |-> TRUE]
    /\ UNCHANGED <<works, bin, backup, marker, timer, script, proc, link, serverVars, excused, upgradeUsed>>

\* Download, verification and the copy of the executable; a bad package is no fault.
Prepare ==
    /\ run.at = "prepare"
    /\ \/ backup' = bin /\ Moves("arm") /\ UNCHANGED replies
       \/ GivesUp /\ UNCHANGED backup
    /\ UNCHANGED <<works, bin, marker, timer, script, proc, link, serverVars, excused, upgradeUsed>>

Unarmed(t) == t                         \* deviation: the marker is written and the timer left alone

Armed(t) == TRUE

\* The script, the marker, and scheduleRecovery, which first stops an earlier timer.
Arm ==
    /\ run.at = "arm"
    /\ \/ /\ marker' = TRUE /\ timer' = Armed(timer) /\ script' = "off" /\ excused' = FALSE
          /\ Moves("rename") /\ UNCHANGED <<replies, upgradeUsed>>
       \/ /\ Faulty /\ Disarm /\ script' = "off" /\ GivesUp /\ UNCHANGED excused
    /\ UNCHANGED <<works, bin, backup, proc, link, serverVars>>

Rename ==
    /\ run.at = "rename"
    /\ \/ bin' = New /\ Moves("restart") /\ UNCHANGED <<marker, timer, replies, upgradeUsed>>
       \/ Faulty /\ Disarm /\ GivesUp /\ UNCHANGED bin
    /\ UNCHANGED <<works, backup, script, proc, link, serverVars, excused>>

\* A new process of what is on the disk.
Starts ==
    /\ proc' = bin /\ run' = NoRun /\ Loses

RestartNew ==
    /\ run.at = "restart"
    /\ \/ Starts /\ UNCHANGED upgradeUsed
       \/ Faulty /\ Moves("undo") /\ UNCHANGED <<proc, link, replies, caller>>
    /\ UNCHANGED <<works, bin, backup, marker, timer, script, status, expiries, excused>>

\* The copy is put back, or the timer is left to do it.
Undo ==
    /\ run.at = "undo"
    /\ \/ bin' = backup /\ Disarm /\ Moves("again") /\ UNCHANGED <<replies, upgradeUsed>>
       \/ Faulty /\ GivesUp /\ UNCHANGED <<bin, marker, timer>>
    /\ UNCHANGED <<works, backup, script, proc, link, serverVars, excused>>

RestartAgain ==
    /\ run.at = "again"
    /\ \/ Starts
       \/ GivesUp /\ UNCHANGED <<proc, link, caller>>
    /\ UNCHANGED <<works, bin, backup, marker, timer, script, status, expiries, excused, upgradeUsed>>

\* The acknowledgement, and ConfirmSuccessfulStart: a script that has seen the
\* marker goes on.  An old process that reconnects between the arming and the
\* restart disarms the recovery of the version to come.
Confirm ==
    /\ link = "greeted" /\ link' = "up" /\ Disarm
    /\ excused' = (excused \/ run.at \in {"rename", "restart"} \/ (proc = Old /\ bin = New))
    /\ UNCHANGED <<works, bin, backup, script, proc, run, replies, serverVars, upgradeUsed>>

-----------------------------------------------------------------------------
(* The timer and rollback.sh *)

TimerFires ==
    /\ timer /\ timer' = FALSE /\ script = "off" /\ run.at \notin {"rename", "restart"}
    /\ script' = IF marker THEN "restore" ELSE "off"
    /\ UNCHANGED <<works, bin, backup, marker, proc, link, run, replies, serverVars, excused, upgradeUsed>>

\* set -e: a command that fails ends the script.
ScriptFails == Faulty /\ script' = "off" /\ excused' = TRUE

ScriptRestores ==
    /\ script = "restore"
    /\ \/ bin' = backup /\ script' = "forget" /\ UNCHANGED <<excused, upgradeUsed>>
       \/ ScriptFails /\ UNCHANGED bin
    /\ UNCHANGED <<works, backup, marker, timer, proc, link, run, replies, serverVars>>

NoRestart == "off"                       \* deviation: the executable is put back and nothing restarted

AfterForget == "restart"

ScriptForgets ==
    /\ script = "forget"
    /\ \/ marker' = FALSE /\ script' = AfterForget /\ UNCHANGED <<excused, upgradeUsed>>
       \/ ScriptFails /\ UNCHANGED marker
    /\ UNCHANGED <<works, bin, backup, timer, proc, link, run, replies, serverVars>>

ScriptRestarts ==
    /\ script = "restart"
    /\ \/ Starts /\ script' = "off" /\ UNCHANGED <<excused, upgradeUsed>>
       \/ ScriptFails /\ UNCHANGED <<proc, link, run, replies, caller>>
    /\ UNCHANGED <<works, bin, backup, marker, timer, status, expiries>>

-----------------------------------------------------------------------------
(* Losses *)

Drop ==
    /\ link # "down" /\ Spends("drops", MaxDrops) /\ Loses
    /\ run' = [run EXCEPT !.mine = FALSE]
    /\ UNCHANGED <<works, bin, backup, marker, timer, script, proc, status, expiries, excused>>

\* The process dies, systemd starts what is on the disk.
AgentProcessDies ==
    /\ Spends("crashes", MaxUpgradeCrashes) /\ Starts
    /\ UNCHANGED <<works, bin, backup, marker, timer, script, status, expiries, excused>>

\* A transient timer does not survive the reboot of the node, the marker does.
NodeReboots ==
    /\ Spends("crashes", MaxUpgradeCrashes) /\ Starts
    /\ timer' = FALSE /\ script' = "off" /\ excused' = TRUE
    /\ UNCHANGED <<works, bin, backup, marker, status, expiries>>

ServerDies ==
    /\ Spends("crashes", MaxUpgradeCrashes)
    /\ status' = [stage |-> "idle", target |-> "none"] /\ caller' = "none" /\ expiries' = 0
    /\ link' = "down" /\ replies' = <<>> /\ run' = [run EXCEPT !.mine = FALSE]
    /\ UNCHANGED <<works, bin, backup, marker, timer, script, proc, excused>>

-----------------------------------------------------------------------------

Running == Prepare \/ Arm \/ Rename \/ RestartNew \/ Undo \/ RestartAgain
RollingBack == TimerFires \/ ScriptRestores \/ ScriptForgets \/ ScriptRestarts
Answering == TakeReply \/ AskEnds \/ ExpireStatus

UpgradeNext ==
    \/ Ask \/ Answering \/ ReceiveReply \/ Register
    \/ TakeRequest \/ Running \/ Confirm \/ RollingBack
    \/ Drop \/ AgentProcessDies \/ NodeReboots \/ ServerDies

\* The processes run, timers fire, and a version that is able to reconnects.
UpgradeFairness ==
    /\ WF_upgradeVars(Running) /\ WF_upgradeVars(RollingBack)
    /\ WF_upgradeVars(TakeReply \/ AskEnds) /\ WF_upgradeVars(ExpireStatus)
    /\ WF_upgradeVars(Register \/ Confirm)

UpgradeSpec == UpgradeInit /\ [][UpgradeNext]_upgradeVars /\ UpgradeFairness

-----------------------------------------------------------------------------

\* While the recovery of an upgrade is armed, the copy it would put back is the
\* version that ran before; and a version that cannot connect only runs while the
\* recovery is on its way, unless something happened that it is not made for.
WayBack ==
    /\ UpgradeTypeOK
    /\ marker => backup = Old
    /\ proc = New /\ ~works => timer \/ script # "off" \/ excused

\* A version that cannot connect is replaced by the one before it.
AgentComesBack == (proc = New /\ ~works) ~> (proc = Old \/ excused)

\* The status of an attempt does not stay undecided, whatever is lost.
UpgradeStatusEnds == (status.stage \in Undecided) ~> (status.stage \notin Undecided)
=============================================================================
