---------------------------- MODULE EnvManager ----------------------------
(***************************************************************************)
(* The environments of one window (src/extension/envManager.ts): reloads   *)
(* of .http-env.json, which the file watcher starts and nothing keeps from *)
(* overlapping; the selection; and the resolvers that a send builds, with  *)
(* an await for every secret.                                              *)
(*                                                                         *)
(* What a file defines is which variables each environment has, and which  *)
(* of them are secret.  A secret value is named by the key it is stored    *)
(* under, an environment and a variable.                                   *)
(***************************************************************************)
EXTENDS Naturals

CONSTANTS
  Envs,       \* environment names
  Default,    \* the name "default"
  Vars,       \* variable names
  Files,      \* the valid contents the file may have
  Reloads,    \* the reloads that may be underway
  Builds,     \* the resolvers that may be underway
  None,       \* undefined
  MaxChanges, \* bound: changes of the file
  MaxUpdates  \* bound: selections being stored at once

Keys == Envs \X Vars
Definition == [Vars -> {"plain", "secret", "absent"}]
Undefined == [v \in Vars |-> "absent"]

\* A file is missing, is no JSON of the right shape, or defines environments.
Empty == [e \in {} |-> Undefined]
NoFile == [kind |-> "missing", envs |-> Empty]
Malformed == [kind |-> "malformed", envs |-> Empty]
Contents == [kind : {"valid"}, envs : Files] \cup {NoFile, Malformed}

ASSUME EnvAssumption ==
  /\ Default \in Envs /\ None \notin Envs /\ None \notin Keys
  /\ MaxChanges \in Nat /\ MaxUpdates \in Nat
  /\ \A f \in Files : DOMAIN f \subseteq Envs /\ f \in [DOMAIN f -> Definition]

VARIABLES
  file,      \* what is on the disk
  notices,   \* changes the watcher has not reported yet
  changes,   \* history: how often the file changed
  reloads,   \* each reload: where it is, and what it has read
  envs,      \* this.envs
  loadError, \* whether this.loadError is set
  active,    \* this.activeEnv
  updating,  \* selections whose setActive awaits the update
  offered,   \* what the open quick pick offers
  status,    \* the status bar item, None until render() first runs
  keychain,  \* the keys SecretStorage holds
  builds,    \* each buildResolver call
  overlapped \* history: a reload started while another was underway

diskVars == <<file, notices, changes, reloads, overlapped>>
envVars == <<envs, loadError, active>>
vars == <<diskVars, envVars, updating, offered, status, keychain,
          builds>>

\* What render() puts in the status bar: the error, or the selection.
Rendered(defined, error, name) ==
  IF error THEN [error |-> TRUE, known |-> FALSE, name |-> None]
  ELSE [error |-> FALSE, known |-> name \in DOMAIN defined, name |-> name]

Idle == [at |-> "idle", env |-> Undefined, name |-> Default, key |-> None,
         todo |-> {}, secrets |-> {}, steady |-> TRUE]
At(place, content) == [at |-> place, content |-> content]
Resting == At("idle", NoFile)

Init ==
  /\ file \in Contents /\ notices = 0 /\ changes = 0
  /\ \E k \in Reloads :
       reloads = [r \in Reloads |->
                    IF r = k THEN At("reading", NoFile) ELSE Resting]
  /\ envs = Empty /\ loadError = FALSE
  /\ active \in Envs \* reqit.activeEnv of the workspace state, or the default
  /\ updating = 0 /\ offered = {}
  /\ status = None
  /\ keychain = {}
  /\ builds = [b \in Builds |-> Idle]
  /\ overlapped = FALSE

----------------------------------------------------------------------------
(* Reloading.                                                              *)

\* The file is created, changed or deleted.
FileChanges(content) ==
  /\ changes < MaxChanges /\ content # file
  /\ file' = content /\ notices' = notices + 1 /\ changes' = changes + 1
  /\ UNCHANGED <<reloads, overlapped, envVars, updating, offered,
                 status, keychain, builds>>

\* The watcher reports a change: reload() up to its await.
ReloadStarts(r) ==
  /\ notices > 0 /\ reloads[r].at = "idle"
  /\ notices' = notices - 1
  /\ reloads' = [reloads EXCEPT ![r] = At("reading", NoFile)]
  /\ overlapped' = (overlapped \/ \E k \in Reloads : reloads[k].at # "idle")
  /\ UNCHANGED <<file, changes, envVars, updating, offered, status,
                 keychain, builds>>

\* readFile takes what is on the disk.
FileRead(r) ==
  /\ reloads[r].at = "reading"
  /\ reloads' = [reloads EXCEPT ![r] = At("read", file)]
  /\ UNCHANGED <<file, notices, changes, overlapped, envVars, updating,
                 offered, status, keychain, builds>>

\* Faulty variant: a missing file leaves the environments as they are.
ParsedOrKept(content) ==
  IF content = NoFile THEN envs ELSE content.envs

\* The environments after a reload: none, unless the file is valid.
Parsed(content) == content.envs

\* The selections a reload may leave: one that is still defined stays; else
\* the default, else the first, if the file is valid.
Fallback(content) ==
  LET defined == DOMAIN Parsed(content)
  IN  IF content.kind # "valid" \/ active \in defined \/ defined = {}
      THEN {active}
      ELSE IF Default \in defined THEN {Default} ELSE defined

\* What a change of the selection does to the resolvers underway (history).
Unsteady == [b \in Builds |->
               [builds[b] EXCEPT !.steady = @ /\ active' = active]]

\* reload() after its await.
ReloadContinues(r) ==
  /\ reloads[r].at = "read"
  /\ LET content == reloads[r].content
     IN  /\ envs' = Parsed(content)
         /\ loadError' = (content = Malformed)
         /\ \E name \in Fallback(content) : active' = name
  /\ reloads' = [reloads EXCEPT ![r] = Resting]
  /\ status' = Rendered(envs', loadError', active')
  /\ builds' = Unsteady
  /\ UNCHANGED <<file, notices, changes, overlapped, updating, offered,
                 keychain>>

----------------------------------------------------------------------------
(* Selecting.                                                              *)

\* pickEnv: the quick pick offers what is defined now.
PickOpens ==
  /\ DOMAIN envs # {} /\ offered' = DOMAIN envs
  /\ UNCHANGED <<diskVars, envVars, updating, status, keychain, builds>>

PickCancelled ==
  /\ offered # {} /\ offered' = {}
  /\ UNCHANGED <<diskVars, envVars, updating, status, keychain, builds>>

\* setActive, up to its await.  What it stores is read when a window opens.
Picks(name) ==
  /\ name \in offered /\ offered' = {} /\ updating < MaxUpdates
  /\ active' = name
  /\ updating' = updating + 1
  /\ builds' = Unsteady
  /\ UNCHANGED <<diskVars, envs, loadError, status, keychain>>

\* setActive after its await.
Updated ==
  /\ updating > 0 /\ updating' = updating - 1
  /\ status' = Rendered(envs, loadError, active)
  /\ UNCHANGED <<diskVars, envVars, offered, keychain, builds>>

----------------------------------------------------------------------------
(* Resolving.                                                              *)

BuildStep(b, after) ==
  /\ builds' = [builds EXCEPT ![b] = after]
  /\ UNCHANGED <<diskVars, envVars, updating, offered, status>>

\* The loop goes to its next secret, under the environment active now, or ends.
NextSecret(build) ==
  IF build.todo = {} THEN {[build EXCEPT !.at = "done"]}
  ELSE {[build EXCEPT !.at = "get", !.key = <<active, v>>, !.todo = @ \ {v}] :
          v \in build.todo}

Take(build) == [build EXCEPT !.secrets = @ \cup {build.key}]

\* buildResolver, up to its first await.
Build(b) ==
  /\ builds[b].at = "idle"
  /\ LET env == IF active \in DOMAIN envs THEN envs[active] ELSE Undefined
         todo == {v \in Vars : env[v] = "secret"}
     IN  \E after \in NextSecret([Idle EXCEPT !.env = env, !.name = active,
                                              !.todo = todo]) :
           BuildStep(b, after)
  /\ UNCHANGED keychain

\* Faulty variant: the prompt is for the default environment's secret.
PromptedDefault(build) == <<Default, build.key[2]>>

\* promptAndStoreSecret is called with the environment active now.
PromptedKey(build) == <<active, build.key[2]>>

\* getSecret answers.
SecretGot(b) ==
  /\ builds[b].at = "get"
  /\ IF builds[b].key \in keychain
     THEN \E after \in NextSecret(Take(builds[b])) : BuildStep(b, after)
     ELSE BuildStep(b, [builds[b] EXCEPT !.at = "recheck",
                                         !.key = PromptedKey(builds[b])])
  /\ UNCHANGED keychain

\* promptAndStoreSecret looks once more, then asks the user.
SecretRechecked(b) ==
  /\ builds[b].at = "recheck"
  /\ IF builds[b].key \in keychain
     THEN \E after \in NextSecret(Take(builds[b])) : BuildStep(b, after)
     ELSE BuildStep(b, [builds[b] EXCEPT !.at = "prompt"])
  /\ UNCHANGED keychain

PromptCancelled(b) ==
  /\ builds[b].at = "prompt"
  /\ \E after \in NextSecret(builds[b]) : BuildStep(b, after)
  /\ UNCHANGED keychain

\* The user answers; the value is used once it is stored.
PromptAnswered(b) ==
  /\ builds[b].at = "prompt"
  /\ BuildStep(b, [builds[b] EXCEPT !.at = "storing"])
  /\ UNCHANGED keychain

SecretStored(b) ==
  /\ builds[b].at = "storing"
  /\ keychain' = keychain \cup {builds[b].key}
  /\ \E after \in NextSecret(Take(builds[b])) : BuildStep(b, after)

\* The send goes on with its resolver.
Resolved(b) ==
  /\ builds[b].at = "done" /\ BuildStep(b, Idle) /\ UNCHANGED keychain

\* setSecret ends its prompt.  The secret was chosen from those declared when
\* the command started, by a file that may have been replaced since.
SetSecret(key) ==
  /\ \E f \in Files : key[1] \in DOMAIN f /\ f[key[1]][key[2]] = "secret"
  /\ keychain' = keychain \cup {key}
  /\ UNCHANGED <<diskVars, envVars, updating, offered, status, builds>>

Next ==
  \/ \E content \in Contents : FileChanges(content)
  \/ \E r \in Reloads : ReloadStarts(r) \/ FileRead(r) \/ ReloadContinues(r)
  \/ PickOpens \/ PickCancelled \/ \E name \in Envs : Picks(name)
  \/ Updated
  \/ \E key \in Keys : SetSecret(key)
  \/ \E b \in Builds :
       \/ Build(b) \/ SecretGot(b) \/ SecretRechecked(b) \/ PromptCancelled(b)
       \/ PromptAnswered(b) \/ SecretStored(b) \/ Resolved(b)

Spec == Init /\ [][Next]_vars

----------------------------------------------------------------------------
(* Properties.                                                             *)

ReloadState == [at : {"idle", "reading", "read"}, content : Contents]
StatusText == [error : BOOLEAN, known : BOOLEAN, name : Envs \cup {None}]
BuildState == [at : {"idle", "get", "recheck", "prompt", "storing", "done"},
               env : Definition, name : Envs, key : Keys \cup {None},
               todo : SUBSET Vars, secrets : SUBSET Keys, steady : BOOLEAN]

\* Every variable has its type.
TypeOK ==
  /\ file \in Contents /\ notices \in Nat /\ changes \in 0..MaxChanges
  /\ reloads \in [Reloads -> ReloadState]
  /\ envs \in Files \cup {Empty} /\ loadError \in BOOLEAN
  /\ active \in Envs
  /\ updating \in 0..MaxUpdates /\ offered \subseteq Envs
  /\ status \in StatusText \cup {None}
  /\ keychain \subseteq Keys /\ overlapped \in BOOLEAN
  /\ builds \in [Builds -> BuildState]

\* Once every change is reported and reloaded, the environments are those of
\* the file, if no two reloads overlapped.
FreshUnlessOverlapped ==
  notices = 0 /\ ~overlapped /\ (\A r \in Reloads : reloads[r].at = "idle") =>
    envs = file.envs /\ loadError = (file = Malformed)

\* Unless a selection is just being stored, the status bar shows the
\* selection, whether it is defined, and whether the file is in error,
\* whatever reloads and selections came in between.
StatusIsCurrent ==
  updating = 0 /\ status # None => status = Rendered(envs, loadError, active)

\* A reload takes a selection away only when it is not defined any more, and
\* puts a defined one in its place.
SelectionIsKept ==
  [][active' # active =>
       \/ active' \in offered
       \/ active \notin DOMAIN envs' /\ active' \in DOMAIN envs']_vars

\* While the selection stays, a resolver's secrets are those of the
\* environment whose variables it resolves, and no secret is asked for that
\* this environment does not declare.
SteadyBuildUsesOneEnvironment ==
  \A b \in Builds :
    builds[b].steady =>
      \A k \in builds[b].secrets :
        k[1] = builds[b].name /\ builds[b].env[k[2]] = "secret"

\* "A resolver closure for the active env": the same whatever is selected
\* meanwhile.
BuildUsesOneEnvironment ==
  \A b \in Builds : \A k \in builds[b].secrets : k[1] = builds[b].name
=============================================================================
