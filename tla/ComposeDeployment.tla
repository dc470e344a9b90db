-------------------------- MODULE ComposeDeployment --------------------------
(***************************************************************************)
(* Managed Compose projects on an agent                                    *)
(* (internal/agent/docker/compose_deployment.go and compose.go): a preview *)
(* returns a token, an application or a rollback replaces the files of a   *)
(* project one by one, runs docker compose and restores what was there     *)
(* when a command fails, and an archive stops the project and moves it     *)
(* away.  Files and services survive the process, tokens and locks do not. *)
(* A draft stands for its YAML and for its .env; a validation that fails   *)
(* and an operation on a project that is busy change nothing.              *)
(***************************************************************************)
EXTENDS Integers, Sequences, FiniteSets

CONSTANTS
    Projects, Drafts,
    NoFile, Nothing, Partly,  \* no file; no service runs; some do, after a failure
    RevisionLimit,        \* managedComposeRevisionLimit, 5 in the code
    MaxConfirmations,     \* maxManagedComposeConfirmations, 128 in the code
    MaxRevision, MaxPreviews, MaxComposeCrashes, MaxComposeFaults, MaxCuts

ASSUME ComposeAssumption ==
    /\ NoFile \notin Drafts
    /\ {RevisionLimit, MaxConfirmations, MaxRevision} \subseteq Nat \ {0}
    /\ {MaxPreviews, MaxComposeCrashes, MaxComposeFaults, MaxCuts} \subseteq Nat

VARIABLES
    disk,             \* of a project: its directory, compose.yaml, .env, revision in metadata.json
    revs,             \* its files under revisions/
    services,         \* what runs: <<yaml, env>>, Nothing or Partly
    deploy,           \* the operation that holds the project's lock
    confirmations,    \* tokens not used yet, numbered as they were given
    previews,         \* what each token was given for
    outcome,          \* what became of the deployment each revision was written for
    sure,             \* the last deployment was reported as done, or undone, and nobody touched it since
    composeUsed       \* bounded: crashes, files that fail, contexts that end

composeVars == <<disk, revs, services, deploy, confirmations, previews, outcome, sure, composeUsed>>

Revisions == 1 .. MaxRevision
NoDisk == [dir |-> FALSE, yaml |-> NoFile, env |-> NoFile, meta |-> 0]
NoRevs == [r \in Revisions |-> NoFile]
Free == [kind |-> "none", at |-> "idle", file |-> 1, new |-> NoDisk, old |-> NoDisk, cut |-> FALSE, bad |-> FALSE]
Deployed == {Nothing, Partly} \cup (Drafts \X Drafts)

ComposeTypeOK ==
    /\ disk \in [Projects -> [dir : BOOLEAN, yaml : Drafts \cup {NoFile}, env : Drafts \cup {NoFile}, meta : 0 .. MaxRevision]]
    /\ revs \in [Projects -> [Revisions -> Drafts \cup {NoFile}]]
    /\ services \in [Projects -> Deployed]
    /\ \A p \in Projects : deploy[p].file \in 1 .. 4 /\ deploy[p].at \in
           {"idle", "revision", "write", "discard", "pull", "up", "restore", "again", "remove", "prune", "down", "rename"}
    /\ confirmations \subseteq 1 .. MaxPreviews

ComposeInit ==
    /\ disk = [p \in Projects |-> NoDisk]
    /\ revs = [p \in Projects |-> NoRevs]
    /\ services = [p \in Projects |-> Nothing]
    /\ deploy = [p \in Projects |-> Free]
    /\ confirmations = {} /\ previews = <<>>
    /\ outcome = [p \in Projects |-> [r \in Revisions |-> "none"]]
    /\ sure = [p \in Projects |-> FALSE]
    /\ composeUsed = [crashes |-> 0, faults |-> 0, cuts |-> 0]

previewVars == <<confirmations, previews>>
historyVars == <<outcome, sure, composeUsed>>

Loaded(p) == disk[p].dir /\ disk[p].meta > 0 /\ disk[p].yaml # NoFile /\ disk[p].env # NoFile
Config(f) == <<f.yaml, f.env>>

Is(p, at) == deploy[p].at = at
Goes(p, at) == deploy' = [deploy EXCEPT ![p].at = at]
Ends(p) == deploy' = [deploy EXCEPT ![p] = Free]
Outcome(p, o) == outcome' = [outcome EXCEPT ![p][deploy[p].new.meta] = o]
FileFails == composeUsed.faults < MaxComposeFaults /\ composeUsed' = [composeUsed EXCEPT !.faults = @ + 1]

-----------------------------------------------------------------------------
(* Tokens *)

WithoutOldest == {k \in confirmations : \E older \in confirmations : older < k}

\* rememberManagedComposeConfirmation; tokens of a new project have a new id.
Preview(p, d) ==
    /\ Is(p, "idle") /\ Len(previews) < MaxPreviews
    /\ Loaded(p) \/ (\A k \in DOMAIN previews : previews[k].project # p)
    /\ previews' = Append(previews, [project |-> p, draft |-> d])
    /\ confirmations' = {Len(previews) + 1} \cup
           IF Cardinality(confirmations) < MaxConfirmations THEN confirmations ELSE WithoutOldest
    /\ UNCHANGED <<disk, revs, services, deploy, historyVars>>

\* The oldest expires first.
ExpirePreview ==
    /\ confirmations # {} /\ confirmations' = WithoutOldest
    /\ UNCHANGED <<disk, revs, services, deploy, previews, historyVars>>

Consumed(k) == confirmations \ {k}

Confirms(k, p, d) == k \in confirmations /\ previews[k] = [project |-> p, draft |-> d]

-----------------------------------------------------------------------------
(* Apply, rollback and archive: from the lock to the first change *)

Start(p, kind, at, yaml, env) ==
    deploy' = [deploy EXCEPT ![p] =
        [kind |-> kind, at |-> at, file |-> 1, old |-> disk[p],
         new |-> [dir |-> TRUE, yaml |-> yaml, env |-> env, meta |-> disk[p].meta + 1],
         cut |-> FALSE, bad |-> FALSE]]

\* A directory without metadata, left by a failure, is refused for ever.
Apply(p, d, k) ==
    /\ Is(p, "idle") /\ disk[p].meta < MaxRevision
    /\ Confirms(k, p, d)
    /\ confirmations' = Consumed(k)
    /\ IF Loaded(p) \/ ~disk[p].dir
       THEN /\ Start(p, IF Loaded(p) THEN "update" ELSE "create", "revision", d, d)
            /\ disk' = [disk EXCEPT ![p].dir = TRUE]
       ELSE UNCHANGED <<disk, deploy>>
    /\ UNCHANGED <<revs, services, previews, historyVars>>


Candidates(p) == {r \in Revisions : revs[p][r] # NoFile /\ r < disk[p].meta}

Latest(S) == CHOOSE r \in S : \A q \in S : q <= r

Rollback(p) ==
    /\ Is(p, "idle") /\ Loaded(p) /\ Candidates(p) # {} /\ disk[p].meta < MaxRevision
    /\ Start(p, "rollback", "revision", revs[p][Latest(Candidates(p))], disk[p].env)
    /\ UNCHANGED <<disk, revs, services, previewVars, historyVars>>

Archive(p) ==
    /\ Is(p, "idle") /\ Loaded(p)
    /\ Start(p, "archive", "down", disk[p].yaml, disk[p].env)
    /\ UNCHANGED <<disk, revs, services, previewVars, historyVars>>

\* HandleDockerComposeAction on a managed project: up, or stop and down.
Act(p) ==
    /\ Is(p, "idle") /\ Loaded(p)
    /\ \/ services' = [services EXCEPT ![p] = Config(disk[p])] /\ UNCHANGED sure
       \/ \E s \in {Nothing, Partly} :
            services' = [services EXCEPT ![p] = s] /\ sure' = [sure EXCEPT ![p] = FALSE]
    /\ UNCHANGED <<disk, revs, deploy, previewVars, outcome, composeUsed>>

-----------------------------------------------------------------------------
(* Replacing the files *)

WriteRevision(p) ==
    LET new == deploy[p].new
    IN  /\ Is(p, "revision")
        /\ \/ /\ revs' = [revs EXCEPT ![p][new.meta] = new.yaml]
              /\ Outcome(p, "tried") /\ Goes(p, "write") /\ UNCHANGED composeUsed
           \/ FileFails /\ Ends(p) /\ UNCHANGED <<revs, outcome>>
        /\ UNCHANGED <<disk, services, previewVars, sure>>

\* What is in f, but the i-th of the files yaml, env and metadata as in g
Replaced(f, i, g) ==
    [dir |-> f.dir, yaml |-> IF i = 1 THEN g.yaml ELSE f.yaml,
     env |-> IF i = 2 THEN g.env ELSE f.env, meta |-> IF i = 3 THEN g.meta ELSE f.meta]

\* replaceManagedComposeFiles; without the first file there is nothing to restore.
WriteFile(p) ==
    LET i == deploy[p].file
    IN  /\ Is(p, "write")
        /\ \/ /\ disk' = [disk EXCEPT ![p] = Replaced(@, i, deploy[p].new)]
              /\ \E command \in IF deploy[p].kind = "rollback" THEN {"up"} ELSE {"pull", "up"} :
                    deploy' = [deploy EXCEPT ![p].file = IF i < 3 THEN i + 1 ELSE 1,
                                             ![p].at = IF i < 3 THEN "write" ELSE command]
              /\ UNCHANGED <<outcome, composeUsed>>
           \/ /\ FileFails /\ Outcome(p, "failed") /\ UNCHANGED disk
              /\ deploy' = [deploy EXCEPT ![p].at = IF i = 1 THEN "discard" ELSE "restore", ![p].file = 1, ![p].kind = "unwritten"]
        /\ UNCHANGED <<revs, services, previewVars, sure>>

-----------------------------------------------------------------------------
(* The commands *)

Fails(p) ==
    /\ Goes(p, "restore") /\ Outcome(p, "failed")
    /\ UNCHANGED <<disk, revs, previewVars, sure, composeUsed>>

Pull(p) ==
    /\ Is(p, "pull")
    /\ \/ ~deploy[p].cut /\ Goes(p, "up") /\ UNCHANGED <<disk, revs, previewVars, historyVars>>
       \/ Fails(p)
    /\ UNCHANGED services

Up(p) ==
    /\ Is(p, "up")
    /\ \/ /\ ~deploy[p].cut /\ Goes(p, "prune")
          /\ services' = [services EXCEPT ![p] = Config(disk[p])]
          /\ Outcome(p, "deployed") /\ sure' = [sure EXCEPT ![p] = TRUE]
          /\ UNCHANGED <<disk, revs, previewVars, composeUsed>>
       \/ /\ \E s \in {services[p], Partly, Config(disk[p])} : services' = [services EXCEPT ![p] = s]
          /\ Fails(p)

Newest(p) ==
    LET kept == {r \in Revisions : revs[p][r] # NoFile}
    IN  {r \in kept : Cardinality({q \in kept : q > r}) < RevisionLimit}

\* A revision that cannot be removed is an error of a deployment that was done.
Prune(p) ==
    /\ Is(p, "prune") /\ Ends(p)
    /\ \/ /\ revs' = [revs EXCEPT ![p] = [r \in Revisions |-> IF r \in Newest(p) THEN @[r] ELSE NoFile]]
          /\ UNCHANGED composeUsed
       \/ FileFails /\ UNCHANGED revs
    /\ UNCHANGED <<disk, services, previewVars, outcome, sure>>

Down(p) ==
    /\ Is(p, "down")
    /\ \/ ~deploy[p].cut /\ Goes(p, "rename") /\ services' = [services EXCEPT ![p] = Nothing]
       \/ Ends(p) /\ \E s \in {services[p], Partly} : services' = [services EXCEPT ![p] = s]
    /\ sure' = [sure EXCEPT ![p] = FALSE]
    /\ UNCHANGED <<disk, revs, previewVars, outcome, composeUsed>>

MoveAway(p) ==
    /\ Is(p, "rename") /\ Ends(p)
    /\ \/ /\ disk' = [disk EXCEPT ![p] = NoDisk] /\ revs' = [revs EXCEPT ![p] = NoRevs]
          /\ UNCHANGED composeUsed
       \/ FileFails /\ UNCHANGED <<disk, revs>>
    /\ UNCHANGED <<services, previewVars, outcome, sure>>

-----------------------------------------------------------------------------
(* Restoring what was there *)

YamlAndEnv(p) == {1, 2}                   \* deviation: the revision number stays

Restored(p) == {1, 2, 3}

\* The three files are restored even if one of them fails.
RestoreFile(p) ==
    LET i == deploy[p].file
    IN  /\ Is(p, "restore")
        /\ \E fails \in BOOLEAN :
             /\ IF fails THEN FileFails /\ UNCHANGED disk
                ELSE /\ disk' = [disk EXCEPT ![p] = IF i \in Restored(p) THEN Replaced(@, i, deploy[p].old) ELSE @]
                     /\ UNCHANGED composeUsed
             /\ LET bad == deploy[p].bad \/ fails
                IN  /\ deploy' = [deploy EXCEPT ![p].file = IF i < 3 THEN i + 1 ELSE 1, ![p].bad = bad,
                            ![p].at = IF i < 3 THEN "restore"
                                      ELSE IF deploy[p].kind = "unwritten" THEN "discard"
                                      ELSE IF bad \/ deploy[p].kind = "create" THEN "remove" ELSE "again"]
                    /\ sure' = [sure EXCEPT ![p] = @ /\ ~bad]
        /\ UNCHANGED <<revs, services, previewVars, outcome>>

\* With the context of the request: when that is over the services are not restored.
UpAgain(p) ==
    /\ Is(p, "again") /\ Goes(p, "remove")
    /\ \/ ~deploy[p].cut /\ services' = [services EXCEPT ![p] = Config(disk[p])] /\ UNCHANGED sure
       \/ /\ \E s \in {services[p], Partly} : services' = [services EXCEPT ![p] = s]
          /\ sure' = [sure EXCEPT ![p] = FALSE]
    /\ UNCHANGED <<disk, revs, previewVars, outcome, composeUsed>>

Empty(f, files) == f.yaml = NoFile /\ f.env = NoFile /\ f.meta = 0 /\ files = NoRevs

\* The revision of the failed deployment; a failed new project that ran a command is cleaned up.
RemoveRevision(p) ==
    /\ Is(p, "remove") \/ Is(p, "discard")
    /\ Ends(p)
    /\ \/ revs' = [revs EXCEPT ![p][deploy[p].new.meta] = NoFile] /\ UNCHANGED composeUsed
       \/ FileFails /\ UNCHANGED revs
    /\ disk' = [disk EXCEPT ![p].dir = ~(Is(p, "remove") /\ deploy[p].kind = "create" /\ Empty(disk[p], revs'[p]))]
    /\ UNCHANGED <<services, previewVars, outcome, sure>>

-----------------------------------------------------------------------------
(* The connection and the process *)

\* The agent lost its connection, or five minutes are over.
ContextEnds(p) ==
    /\ ~Is(p, "idle") /\ ~deploy[p].cut /\ composeUsed.cuts < MaxCuts
    /\ deploy' = [deploy EXCEPT ![p].cut = TRUE]
    /\ composeUsed' = [composeUsed EXCEPT !.cuts = @ + 1]
    /\ UNCHANGED <<disk, revs, services, previewVars, outcome, sure>>

AgentDies ==
    /\ composeUsed.crashes < MaxComposeCrashes
    /\ composeUsed' = [composeUsed EXCEPT !.crashes = @ + 1]
    /\ confirmations' = {} /\ deploy' = [p \in Projects |-> Free]
    /\ sure' = [p \in Projects |-> sure[p] /\ Is(p, "idle")]
    /\ outcome' = [p \in Projects |-> [r \in Revisions |->
                      IF ~Is(p, "idle") /\ r = deploy[p].new.meta THEN "died" ELSE outcome[p][r]]]
    /\ \E half \in BOOLEAN : services' = [p \in Projects |->
           IF half /\ deploy[p].at \in {"up", "again", "down"} THEN Partly ELSE services[p]]
    /\ UNCHANGED <<disk, revs, previews>>

-----------------------------------------------------------------------------

Operates(p) ==
    \/ WriteRevision(p) \/ WriteFile(p) \/ Pull(p) \/ Up(p) \/ Prune(p) \/ Down(p) \/ MoveAway(p)
    \/ RestoreFile(p) \/ UpAgain(p) \/ RemoveRevision(p)

ComposeNext ==
    \/ \E p \in Projects :
        \/ Operates(p) \/ Rollback(p) \/ Archive(p) \/ Act(p) \/ ContextEnds(p)
        \/ \E d \in Drafts : Preview(p, d) \/ \E k \in DOMAIN previews : Apply(p, d, k)
    \/ ExpirePreview \/ AgentDies

ComposeSpec == ComposeInit /\ [][ComposeNext]_composeVars

-----------------------------------------------------------------------------

\* A rollback never goes back to a deployment that failed, also when one operation on
\* a file failed with it (two that fail are too many: the number of the deployment
\* stays and so does its revision); one the agent died in may be kept.
NoFailedRollback ==
    \A p \in Projects : \A r \in Candidates(p) : outcome[p][r] # "failed"

\* What the agent last reported is so: when a deployment was reported as done, or as
\* failed with everything restored, the files of the project belong together, the
\* revision in the metadata is the one they came from, and they are what runs; and no
\* rollback would go back to a deployment that failed.
DeploymentConsistent ==
    /\ ComposeTypeOK
    /\ NoFailedRollback
    /\ \A p \in Projects : sure[p] /\ Is(p, "idle") =>
          /\ Loaded(p) /\ revs[p][disk[p].meta] = disk[p].yaml
          /\ services[p] = Config(disk[p])
=============================================================================
