--------------------------- MODULE Secrets_proofs ---------------------------
(* Theorems about the parts that keep and hide secrets: EnvManager, for all  *)
(* names, files and bounds, and Redaction, for all requests, stores,         *)
(* environments and bounds.                                                  *)
EXTENDS EnvManager, Redaction, FiniteSetTheorems, SequenceTheorems,
        WellFoundedInduction, TLAPS

(***************************************************************************)
(* EnvManager.                                                             *)
(***************************************************************************)

Parked == {"get", "recheck", "prompt", "storing"}

\* A resolver that awaits a secret has a key, and, while the selection stays,
\* one that its own environment declares.
KeyInv(build) ==
  build.at \in Parked =>
    /\ build.key \in Keys
    /\ build.steady => /\ build.key[1] = build.name
                       /\ build.env[build.key[2]] = "secret"

\* While the selection stays, what is left to fetch and what was fetched are
\* secrets of the resolver's own environment.
SecretsInv(build) ==
  build.steady =>
    /\ \A v \in build.todo : build.env[v] = "secret"
    /\ \A k \in build.secrets : k[1] = build.name /\ build.env[k[2]] = "secret"

NameInv(build) == build.steady /\ build.at # "idle" => build.name = active

BuildInv ==
  \A b \in Builds :
    KeyInv(builds[b]) /\ SecretsInv(builds[b]) /\ NameInv(builds[b])

\* Without an overlap one reload is underway at most; what it has read is the
\* file, unless a change is still to be reported.
ReloadInv ==
  ~overlapped =>
    /\ \A r, k \in Reloads :
         reloads[r].at # "idle" /\ reloads[k].at # "idle" => r = k
    /\ notices = 0 =>
         \A r \in Reloads : reloads[r].at = "read" => reloads[r].content = file

----------------------------------------------------------------------------
(* Types.                                                                  *)

\* What a file defines is typed: environments by name, empty if there is none.
LEMMA ContentsTyped ==
  ASSUME NEW content \in Contents
  PROVE  /\ content.envs \in Files \cup {Empty}
         /\ DOMAIN content.envs \subseteq Envs
         /\ \A e \in DOMAIN content.envs : content.envs[e] \in Definition
<1>1. content.envs \in Files \cup {Empty}
  BY DEF Contents, NoFile, Malformed
<1>2. CASE content.envs \in Files
  BY <1>2, EnvAssumption
<1>3. CASE content.envs = Empty
  BY <1>3 DEF Empty
<1> QED
  BY <1>1, <1>2, <1>3

\* The same of this.envs.
LEMMA EnvsTyped ==
  ASSUME TypeOK
  PROVE  /\ DOMAIN envs \subseteq Envs
         /\ \A e \in DOMAIN envs : envs[e] \in Definition
<1>1. CASE envs \in Files
  BY <1>1, EnvAssumption
<1>2. CASE envs = Empty
  BY <1>2 DEF Empty
<1> QED
  BY <1>1, <1>2 DEF TypeOK

\* A resolver underway keeps its type when its key, its set of secrets or its
\* place changes.
LEMMA IdleTyped == Idle \in BuildState
  BY EnvAssumption DEF Idle, BuildState, Undefined, Definition

\* The name a reload may fall back to is the name of an environment.
LEMMA FallbackTyped ==
  ASSUME active \in Envs, NEW content \in Contents
  PROVE  Fallback(content) \subseteq Envs
  BY ContentsTyped, EnvAssumption DEF Fallback, Parsed

LEMMA RenderedTyped ==
  ASSUME NEW defined, NEW error \in BOOLEAN, NEW name \in Envs
  PROVE  Rendered(defined, error, name) \in StatusText
<1>1. (name \in DOMAIN defined) \in BOOLEAN
  OBVIOUS
<1> QED
  BY <1>1 DEF Rendered, StatusText

\* The loop of a resolver: from a state with nothing but secrets of its own
\* environment, it ends, or awaits another of them.
LEMMA LoopStep ==
  ASSUME NEW build \in BuildState, active \in Envs, SecretsInv(build),
         build.steady => build.name = active,
         NEW after \in NextSecret(build)
  PROVE  after \in BuildState /\ KeyInv(after) /\ SecretsInv(after) /\ NameInv(after)
<1>1. CASE build.todo = {}
  <2>1. after = [build EXCEPT !.at = "done"]
    BY <1>1 DEF NextSecret
  <2> QED
    BY <2>1 DEF BuildState, KeyInv, SecretsInv, NameInv, Parked
<1>2. CASE build.todo # {}
  <2>1. PICK v \in build.todo :
          after = [build EXCEPT !.at = "get", !.key = <<active, v>>, !.todo = @ \ {v}]
    BY <1>2 DEF NextSecret
  <2>2. v \in Vars /\ <<active, v>> \in Keys
    BY DEF BuildState, Keys
  <2>3. after \in BuildState
    BY <2>1, <2>2 DEF BuildState
  <2>4. /\ after.at = "get" /\ after.key = <<active, v>> /\ after.env = build.env
        /\ after.todo = build.todo \ {v} /\ after.secrets = build.secrets
        /\ after.steady = build.steady /\ after.name = build.name
    BY <2>1 DEF BuildState
  <2>5. KeyInv(after)
    BY <2>1, <2>2, <2>4 DEF KeyInv, SecretsInv
  <2> QED
    BY <2>3, <2>4, <2>5 DEF SecretsInv, NameInv
<1> QED
  BY <1>1, <1>2

\* A secret that was asked for is one of the resolver's own environment.
LEMMA TakeStep ==
  ASSUME NEW build \in BuildState, build.at \in Parked,
         KeyInv(build), SecretsInv(build), NameInv(build)
  PROVE  /\ Take(build) \in BuildState /\ SecretsInv(Take(build))
         /\ Take(build).steady => Take(build).name = active
<1>1. build.key \in Keys
  BY DEF KeyInv
<1>2. Take(build) \in BuildState
  BY <1>1 DEF Take, BuildState
<1>3. /\ Take(build).secrets = build.secrets \cup {build.key}
      /\ Take(build).env = build.env /\ Take(build).todo = build.todo
      /\ Take(build).name = build.name /\ Take(build).steady = build.steady
  BY DEF Take, BuildState
<1>4. SecretsInv(Take(build))
  BY <1>3 DEF SecretsInv, KeyInv
<1> QED
  BY <1>2, <1>3, <1>4 DEF NameInv, Parked

----------------------------------------------------------------------------
(* Steps of a resolver.                                                    *)

\* What a step of one resolver must establish.
LEMMA BuildStepInv ==
  ASSUME TypeOK, BuildInv, NEW b \in Builds, NEW after \in BuildState,
         KeyInv(after), SecretsInv(after), NameInv(after), BuildStep(b, after)
  PROVE  BuildInv' /\ builds' \in [Builds -> BuildState]
<1>1. builds' = [builds EXCEPT ![b] = after] /\ active' = active
  BY DEF BuildStep, envVars
<1>2. builds' \in [Builds -> BuildState]
  BY <1>1 DEF TypeOK
<1>3. ASSUME NEW c \in Builds
      PROVE  KeyInv(builds'[c]) /\ SecretsInv(builds'[c]) /\ NameInv(builds'[c])
  BY <1>1 DEF BuildInv, TypeOK
<1>4. ASSUME NEW c \in Builds
      PROVE  NameInv(builds[c])'
  BY <1>1, <1>3 DEF NameInv
<1> QED
  BY <1>2, <1>3, <1>4 DEF BuildInv, KeyInv, SecretsInv

\* The steps that go on with the loop.
LEMMA LoopStepInv ==
  ASSUME TypeOK, BuildInv, NEW b \in Builds, NEW build \in BuildState,
         SecretsInv(build), build.steady => build.name = active,
         \E after \in NextSecret(build) : BuildStep(b, after)
  PROVE  BuildInv' /\ builds' \in [Builds -> BuildState]
<1>1. PICK after \in NextSecret(build) : BuildStep(b, after)
  OBVIOUS
<1>2. after \in BuildState /\ KeyInv(after) /\ SecretsInv(after) /\ NameInv(after)
  BY LoopStep DEF TypeOK
<1> QED
  BY <1>1, <1>2, BuildStepInv

\* Every step of a resolver keeps the invariant of the resolvers.
LEMMA ResolverSteps ==
  ASSUME TypeOK, BuildInv, NEW b \in Builds,
         \/ Build(b) \/ SecretGot(b) \/ SecretRechecked(b) \/ PromptCancelled(b)
         \/ PromptAnswered(b) \/ SecretStored(b) \/ Resolved(b)
  PROVE  BuildInv' /\ builds' \in [Builds -> BuildState]
<1> DEFINE build == builds[b]
<1>1. build \in BuildState /\ KeyInv(build) /\ SecretsInv(build) /\ NameInv(build)
  BY DEF TypeOK, BuildInv
<1>2. ASSUME build.at \in Parked,
             \E after \in NextSecret(Take(build)) : BuildStep(b, after)
      PROVE  BuildInv' /\ builds' \in [Builds -> BuildState]
  BY <1>1, <1>2, TakeStep, LoopStepInv
<1>3. ASSUME NEW place \in Parked, build.at \in Parked,
             BuildStep(b, [build EXCEPT !.at = place])
      PROVE  BuildInv' /\ builds' \in [Builds -> BuildState]
  <2> DEFINE after == [build EXCEPT !.at = place]
  <2>1. after \in BuildState
    BY <1>1 DEF BuildState, Parked
  <2>2. /\ after.at = place /\ after.key = build.key /\ after.env = build.env
        /\ after.todo = build.todo /\ after.secrets = build.secrets
        /\ after.steady = build.steady /\ after.name = build.name
    BY <1>1 DEF BuildState
  <2>3. KeyInv(after) /\ SecretsInv(after) /\ NameInv(after)
    BY <1>1, <1>3, <2>2 DEF KeyInv, SecretsInv, NameInv, Parked
  <2> HIDE DEF after
  <2> QED
    BY <1>3, <2>1, <2>3, BuildStepInv DEF after
<1>4. CASE Build(b)
  <2> DEFINE own == IF active \in DOMAIN envs THEN envs[active] ELSE Undefined
             todo == {v \in Vars : own[v] = "secret"}
             first == [Idle EXCEPT !.env = own, !.name = active, !.todo = todo]
  <2>1. own \in Definition
    BY EnvsTyped DEF Undefined, Definition
  <2>2. todo \subseteq Vars /\ active \in Envs
    BY DEF TypeOK
  <2>3. /\ first.env = own /\ first.name = active /\ first.todo = todo
        /\ first.secrets = {} /\ first \in BuildState
    <3> HIDE DEF own, todo
    <3> QED
      BY <2>1, <2>2, IdleTyped DEF Idle, BuildState
  <2>4. SecretsInv(first)
    BY <2>3 DEF SecretsInv
  <2>5. \E after \in NextSecret(first) : BuildStep(b, after)
    BY <1>4 DEF Build
  <2> HIDE DEF first
  <2> QED
    BY <2>3, <2>4, <2>5, LoopStepInv
<1>5. CASE SecretGot(b)
  <2>1. CASE build.key \in keychain
    BY <1>2, <1>5, <2>1 DEF SecretGot, Parked
  <2>2. CASE build.key \notin keychain
    <3> DEFINE key == <<active, build.key[2]>>
               after == [build EXCEPT !.at = "recheck", !.key = key]
    <3>1. build.at \in Parked /\ build.key \in Keys
      BY <1>1, <1>5 DEF SecretGot, Parked, KeyInv
    <3>2. key \in Keys
      BY <3>1 DEF Keys, TypeOK
    <3>3. after \in BuildState
      BY <1>1, <3>2 DEF BuildState
    <3>4. /\ after.at = "recheck" /\ after.key = key /\ after.env = build.env
          /\ after.todo = build.todo /\ after.secrets = build.secrets
          /\ after.steady = build.steady /\ after.name = build.name
      BY <1>1 DEF BuildState
    <3>5. key[1] = active /\ key[2] = build.key[2]
      OBVIOUS
    <3> HIDE DEF key
    <3>6. KeyInv(after)
      BY <1>1, <3>1, <3>2, <3>4, <3>5 DEF KeyInv, NameInv, Parked
    <3>7. SecretsInv(after) /\ NameInv(after)
      BY <1>1, <3>1, <3>4 DEF SecretsInv, NameInv, Parked
    <3>8. BuildStep(b, after)
      BY <1>5, <2>2 DEF SecretGot, PromptedKey, key
    <3> HIDE DEF after
    <3> QED
      BY <3>3, <3>6, <3>7, <3>8, BuildStepInv
  <2> QED
    BY <2>1, <2>2
<1>6. CASE SecretRechecked(b)
  <2>1. build.at \in Parked
    BY <1>6 DEF SecretRechecked, Parked
  <2>2. CASE build.key \in keychain
    BY <1>2, <1>6, <2>1, <2>2 DEF SecretRechecked
  <2>3. CASE build.key \notin keychain
    BY <1>3, <1>6, <2>1, <2>3 DEF SecretRechecked, Parked
  <2> QED
    BY <2>2, <2>3
<1>7. CASE PromptCancelled(b)
  BY <1>1, <1>7, LoopStepInv DEF PromptCancelled, NameInv
<1>8. CASE PromptAnswered(b)
  BY <1>3, <1>8 DEF PromptAnswered, Parked
<1>9. CASE SecretStored(b)
  BY <1>2, <1>9 DEF SecretStored, Parked
<1>10. CASE Resolved(b)
  <2>1. KeyInv(Idle) /\ SecretsInv(Idle) /\ NameInv(Idle)
    BY DEF KeyInv, SecretsInv, NameInv, Idle, Parked
  <2> QED
    BY <1>10, <2>1, IdleTyped, BuildStepInv DEF Resolved
<1> QED
  BY <1>4, <1>5, <1>6, <1>7, <1>8, <1>9, <1>10

\* A change of the selection makes every resolver underway unsteady.
LEMMA UnsteadyInv ==
  ASSUME TypeOK, BuildInv, builds' = Unsteady
  PROVE  BuildInv' /\ builds' \in [Builds -> BuildState]
<1>1. ASSUME NEW b \in Builds
      PROVE  /\ builds'[b] \in BuildState
             /\ KeyInv(builds[b])' /\ SecretsInv(builds[b])' /\ NameInv(builds[b])'
  <2>1. /\ builds[b] \in BuildState
        /\ KeyInv(builds[b]) /\ SecretsInv(builds[b]) /\ NameInv(builds[b])
    BY DEF TypeOK, BuildInv
  <2>2. builds'[b] = [builds[b] EXCEPT !.steady = @ /\ active' = active]
    BY DEF Unsteady
  <2>3. builds'[b] \in BuildState
    BY <2>1, <2>2 DEF BuildState
  <2>4. /\ builds'[b].at = builds[b].at /\ builds'[b].key = builds[b].key
        /\ builds'[b].env = builds[b].env /\ builds'[b].todo = builds[b].todo
        /\ builds'[b].secrets = builds[b].secrets
        /\ builds'[b].name = builds[b].name
    BY <2>1, <2>2 DEF BuildState
  <2>5. builds'[b].steady => builds[b].steady /\ active' = active
    BY <2>1, <2>2 DEF BuildState
  <2>6. KeyInv(builds[b])'
    BY <2>1, <2>4, <2>5 DEF KeyInv
  <2>7. SecretsInv(builds[b])'
    BY <2>1, <2>4, <2>5 DEF SecretsInv
  <2>8. NameInv(builds[b])'
    BY <2>1, <2>4, <2>5 DEF NameInv
  <2> QED
    BY <2>3, <2>6, <2>7, <2>8
<1>2. DOMAIN builds' = Builds /\ builds' = [b \in Builds |-> builds'[b]]
  BY DEF Unsteady
<1> QED
  BY <1>1, <1>2 DEF BuildInv

----------------------------------------------------------------------------
(* The invariant.                                                          *)

\* Selections, secrets and reloads are typed, and all resolvers stay sound.
StateInv == TypeOK /\ BuildInv

LEMMA InitState == Init => StateInv
<1> SUFFICES ASSUME Init PROVE StateInv
  OBVIOUS
<1>1. NoFile \in Contents
  BY DEF Contents
<1>2. reloads \in [Reloads -> ReloadState]
  BY <1>1 DEF Init, Resting, At, ReloadState
<1>3. builds \in [Builds -> BuildState]
  BY IdleTyped DEF Init
<1>4. changes \in 0..MaxChanges /\ updating \in 0..MaxUpdates
  BY EnvAssumption DEF Init
<1>5. TypeOK
  BY <1>2, <1>3, <1>4 DEF Init, TypeOK
<1>6. KeyInv(Idle) /\ SecretsInv(Idle) /\ NameInv(Idle)
  BY DEF KeyInv, SecretsInv, NameInv, Idle, Parked
<1> QED
  BY <1>5, <1>6 DEF Init, StateInv, BuildInv

\* A step that leaves the selection and the resolvers alone.
LEMMA BuildsAlone ==
  ASSUME BuildInv, UNCHANGED <<active, builds>>
  PROVE  BuildInv'
  BY DEF BuildInv, KeyInv, SecretsInv, NameInv

LEMMA NextState ==
  ASSUME StateInv, [Next]_vars
  PROVE  StateInv'
<1> USE DEF StateInv
<1>1. ASSUME NEW content \in Contents, FileChanges(content)
      PROVE  StateInv'
  <2>1. changes' \in 0..MaxChanges /\ notices' \in Nat
    BY <1>1, EnvAssumption DEF FileChanges, TypeOK
  <2>2. TypeOK'
    BY <1>1, <2>1 DEF FileChanges, TypeOK, envVars
  <2> QED
    BY <1>1, <2>2, BuildsAlone DEF FileChanges, envVars
<1>2. ASSUME NEW r \in Reloads, ReloadStarts(r)
      PROVE  StateInv'
  <2>1. At("reading", NoFile) \in ReloadState
    BY DEF At, ReloadState, Contents
  <2>2. reloads' \in [Reloads -> ReloadState] /\ notices' \in Nat
    BY <1>2, <2>1 DEF ReloadStarts, TypeOK
  <2>3. (overlapped \/ \E k \in Reloads : reloads[k].at # "idle") \in BOOLEAN
    OBVIOUS
  <2>4. TypeOK'
    BY <1>2, <2>2, <2>3 DEF ReloadStarts, TypeOK, envVars
  <2> QED
    BY <1>2, <2>4, BuildsAlone DEF ReloadStarts, envVars
<1>3. ASSUME NEW r \in Reloads, FileRead(r)
      PROVE  StateInv'
  <2>1. At("read", file) \in ReloadState
    BY DEF At, ReloadState, TypeOK
  <2>2. TypeOK'
    BY <1>3, <2>1 DEF FileRead, TypeOK, envVars
  <2> QED
    BY <1>3, <2>2, BuildsAlone DEF FileRead, envVars
<1>4. ASSUME NEW r \in Reloads, ReloadContinues(r)
      PROVE  StateInv'
  <2> DEFINE content == reloads[r].content
  <2>1. content \in Contents
    BY DEF TypeOK, ReloadState
  <2>2. envs' = content.envs /\ active' \in Fallback(content)
    BY <1>4 DEF ReloadContinues, Parsed
  <2>3. envs' \in Files \cup {Empty} /\ active' \in Envs
    BY <2>1, <2>2, ContentsTyped, FallbackTyped DEF TypeOK
  <2>4. loadError' \in BOOLEAN
    <3>1. (content = Malformed) \in BOOLEAN
      OBVIOUS
    <3> QED
      BY <1>4, <3>1 DEF ReloadContinues
  <2>5. status' \in StatusText
    BY <1>4, <2>3, <2>4, RenderedTyped DEF ReloadContinues
  <2>6. reloads' \in [Reloads -> ReloadState]
    <3>1. Resting \in ReloadState
      BY DEF Resting, At, ReloadState, Contents
    <3> QED
      BY <1>4, <3>1 DEF ReloadContinues, TypeOK
  <2>7. BuildInv' /\ builds' \in [Builds -> BuildState]
    BY <1>4, UnsteadyInv DEF ReloadContinues
  <2> QED
    BY <1>4, <2>3, <2>4, <2>5, <2>6, <2>7 DEF ReloadContinues, TypeOK
<1>5. CASE PickOpens
  <2>1. TypeOK'
    BY <1>5, EnvsTyped DEF PickOpens, TypeOK, diskVars, envVars
  <2> QED
    BY <1>5, <2>1, BuildsAlone DEF PickOpens, envVars
<1>6. CASE PickCancelled
  <2>1. TypeOK'
    BY <1>6 DEF PickCancelled, TypeOK, diskVars, envVars
  <2> QED
    BY <1>6, <2>1, BuildsAlone DEF PickCancelled, envVars
<1>7. ASSUME NEW name \in Envs, Picks(name)
      PROVE  StateInv'
  <2>1. BuildInv' /\ builds' \in [Builds -> BuildState]
    BY <1>7, UnsteadyInv DEF Picks
  <2>2. updating' \in 0..MaxUpdates
    BY <1>7, EnvAssumption DEF Picks, TypeOK
  <2> QED
    BY <1>7, <2>1, <2>2 DEF Picks, TypeOK, diskVars
<1>8. CASE Updated
  <2>1. updating' \in 0..MaxUpdates
    BY <1>8, EnvAssumption DEF Updated, TypeOK
  <2>2. status' \in StatusText
    BY <1>8, RenderedTyped DEF Updated, TypeOK
  <2>3. TypeOK'
    BY <1>8, <2>1, <2>2 DEF Updated, TypeOK, diskVars, envVars
  <2> QED
    BY <1>8, <2>3, BuildsAlone DEF Updated, envVars
<1>9. ASSUME NEW key \in Keys, SetSecret(key)
      PROVE  StateInv'
  <2>1. TypeOK'
    BY <1>9 DEF SetSecret, TypeOK, diskVars, envVars
  <2> QED
    BY <1>9, <2>1, BuildsAlone DEF SetSecret, envVars
<1>10. ASSUME NEW b \in Builds,
              \/ Build(b) \/ SecretGot(b) \/ SecretRechecked(b)
              \/ PromptCancelled(b) \/ PromptAnswered(b) \/ SecretStored(b)
              \/ Resolved(b)
       PROVE  StateInv'
  <2>1. BuildInv' /\ builds' \in [Builds -> BuildState]
    BY <1>10, ResolverSteps
  <2>2. keychain' \subseteq Keys
    <3>1. CASE SecretStored(b)
      <4>1. builds[b].key \in Keys
        BY <3>1 DEF SecretStored, BuildInv, KeyInv, Parked
      <4> QED
        BY <3>1, <4>1 DEF SecretStored, TypeOK
    <3>2. CASE ~SecretStored(b)
      BY <1>10, <3>2 DEF Build, SecretGot, SecretRechecked, PromptCancelled,
                         PromptAnswered, Resolved, TypeOK
    <3> QED
      BY <3>1, <3>2
  <2>3. UNCHANGED <<diskVars, envVars, updating, offered, status>>
    BY <1>10 DEF Build, SecretGot, SecretRechecked, PromptCancelled,
                 PromptAnswered, SecretStored, Resolved, BuildStep
  <2> QED
    BY <2>1, <2>2, <2>3 DEF TypeOK, diskVars, envVars
<1>11. CASE UNCHANGED vars
  <2>1. TypeOK'
    BY <1>11 DEF vars, TypeOK, diskVars, envVars
  <2> QED
    BY <1>11, <2>1, BuildsAlone DEF vars, envVars
<1> QED
  BY <1>1, <1>2, <1>3, <1>4, <1>5, <1>6, <1>7, <1>8, <1>9, <1>10, <1>11 DEF Next

----------------------------------------------------------------------------
(* Theorems.                                                               *)

\* Every variable keeps its type, for any files, reloads and resolvers.
THEOREM EnvironmentsTyped == Spec => []TypeOK
<1>1. StateInv => TypeOK
  BY DEF StateInv
<1> QED
  BY <1>1, InitState, NextState, PTL DEF Spec

\* While the selection stays, a resolver that buildResolver makes holds secrets
\* of one environment only, the one whose variables it resolves.
THEOREM SteadyBuildsUseOneEnvironment == Spec => []SteadyBuildUsesOneEnvironment
<1>1. StateInv => SteadyBuildUsesOneEnvironment
  BY DEF StateInv, BuildInv, SecretsInv, SteadyBuildUsesOneEnvironment
<1> QED
  BY <1>1, InitState, NextState, PTL DEF Spec

\* The status bar tells the truth once no selection is being stored.
THEOREM StatusStaysCurrent == Spec => []StatusIsCurrent
<1>1. Init => StatusIsCurrent
  BY DEF Init, StatusIsCurrent
<1>2. ASSUME StateInv, StatusIsCurrent, [Next]_vars
      PROVE  StatusIsCurrent'
  <2>1. CASE UNCHANGED <<envVars, updating, status>>
    BY <1>2, <2>1 DEF StatusIsCurrent, Rendered, envVars
  <2>2. ASSUME NEW r \in Reloads, ReloadContinues(r)
        PROVE  StatusIsCurrent'
    BY <2>2 DEF ReloadContinues, StatusIsCurrent, Rendered
  <2>3. ASSUME NEW name \in Envs, Picks(name)
        PROVE  StatusIsCurrent'
    <3>1. updating' # 0
      BY <1>2, <2>3 DEF Picks, StateInv, TypeOK
    <3> QED
      BY <3>1 DEF StatusIsCurrent
  <2>4. CASE Updated
    BY <2>4 DEF Updated, StatusIsCurrent, Rendered, envVars
  <2> QED
    BY <1>2, <2>1, <2>2, <2>3, <2>4
    DEF Next, vars, FileChanges, ReloadStarts, FileRead, PickOpens,
        PickCancelled, SetSecret, Build, SecretGot, SecretRechecked,
        PromptCancelled, PromptAnswered, SecretStored, Resolved, BuildStep
<1> QED
  BY <1>1, <1>2, InitState, NextState, PTL DEF Spec

\* Reloads and resolvers never take a defined selection away.
THEOREM SelectionsAreKept == Spec => SelectionIsKept
<1> DEFINE Kept == \/ active' \in offered
                   \/ active \notin DOMAIN envs' /\ active' \in DOMAIN envs'
<1>1. ASSUME [Next]_vars
      PROVE  [active' # active => Kept]_vars
  <2>1. CASE UNCHANGED active
    BY <2>1
  <2>2. ASSUME NEW r \in Reloads, ReloadContinues(r)
        PROVE  active' # active => Kept
    BY <2>2 DEF ReloadContinues, Fallback
  <2>3. ASSUME NEW name \in Envs, Picks(name)
        PROVE  active' # active => Kept
    BY <2>3 DEF Picks
  <2> QED
    BY <1>1, <2>1, <2>2, <2>3
    DEF Next, vars, envVars, FileChanges, ReloadStarts, FileRead, PickOpens,
        PickCancelled, Updated, SetSecret, Build, SecretGot, SecretRechecked,
        PromptCancelled, PromptAnswered, SecretStored, Resolved, BuildStep
<1> QED
  BY <1>1, PTL DEF Spec, SelectionIsKept

\* If no two reloads overlap, the environments are those of the file as soon as
\* all its changes are reported and reloaded.
THEOREM ReloadsBringTheFile == Spec => []FreshUnlessOverlapped
<1> DEFINE Inv == ReloadInv /\ FreshUnlessOverlapped
<1>1. Init => Inv
  <2> SUFFICES ASSUME Init PROVE Inv
    OBVIOUS
  <2>1. PICK k \in Reloads :
          reloads = [r \in Reloads |->
                       IF r = k THEN At("reading", NoFile) ELSE Resting]
    BY DEF Init
  <2>2. \A r \in Reloads : reloads[r].at = IF r = k THEN "reading" ELSE "idle"
    BY <2>1 DEF At, Resting
  <2>3. ReloadInv
    BY <2>2 DEF ReloadInv
  <2> QED
    BY <2>2, <2>3 DEF FreshUnlessOverlapped
<1>2. ASSUME StateInv, Inv, [Next]_vars
      PROVE  Inv'
  <2>1. CASE UNCHANGED <<diskVars, envs, loadError>>
    BY <1>2, <2>1 DEF ReloadInv, FreshUnlessOverlapped, diskVars
  <2>2. ASSUME NEW content \in Contents, FileChanges(content)
        PROVE  Inv'
    <3>1. notices' # 0
      BY <1>2, <2>2 DEF FileChanges, StateInv, TypeOK
    <3> QED
      BY <1>2, <2>2, <3>1 DEF FileChanges, ReloadInv, FreshUnlessOverlapped
  <2>3. ASSUME NEW r \in Reloads, ReloadStarts(r)
        PROVE  Inv'
    <3>1. reloads' = [reloads EXCEPT ![r] = At("reading", NoFile)]
      BY <2>3 DEF ReloadStarts
    <3>2. \A k \in Reloads :
            reloads'[k] = IF k = r THEN At("reading", NoFile) ELSE reloads[k]
      BY <1>2, <3>1 DEF StateInv, TypeOK
    <3>3. reloads'[r].at = "reading"
      BY <3>2 DEF At
    <3>4. ~overlapped' => \A k \in Reloads : reloads[k].at = "idle"
      BY <2>3 DEF ReloadStarts
    <3> QED
      BY <3>2, <3>3, <3>4 DEF ReloadInv, FreshUnlessOverlapped
  <2>4. ASSUME NEW r \in Reloads, FileRead(r)
        PROVE  Inv'
    <3>1. \A k \in Reloads :
            reloads'[k] = IF k = r THEN At("read", file) ELSE reloads[k]
      BY <1>2, <2>4 DEF FileRead, StateInv, TypeOK
    <3>2. reloads'[r].at = "read" /\ reloads'[r].content = file
      BY <3>1 DEF At
    <3> QED
      BY <1>2, <2>4, <3>1, <3>2 DEF FileRead, ReloadInv, FreshUnlessOverlapped
  <2>5. ASSUME NEW r \in Reloads, ReloadContinues(r)
        PROVE  Inv'
    <3>1. \A k \in Reloads : reloads'[k] = IF k = r THEN Resting ELSE reloads[k]
      BY <1>2, <2>5 DEF ReloadContinues, StateInv, TypeOK
    <3>2. reloads'[r].at = "idle"
      BY <3>1 DEF Resting, At
    <3>3. ReloadInv'
      BY <1>2, <2>5, <3>1, <3>2 DEF ReloadContinues, ReloadInv
    <3>4. notices = 0 /\ ~overlapped => reloads[r].content = file
      BY <1>2, <2>5 DEF ReloadContinues, ReloadInv
    <3>5. envs' = reloads[r].content.envs
      BY <2>5 DEF ReloadContinues, Parsed
    <3>6. loadError' = (reloads[r].content = Malformed)
      BY <2>5 DEF ReloadContinues
    <3> QED
      BY <2>5, <3>3, <3>4, <3>5, <3>6 DEF ReloadContinues, FreshUnlessOverlapped
  <2> QED
    BY <1>2, <2>1, <2>2, <2>3, <2>4, <2>5
    DEF Next, vars, envVars, PickOpens, PickCancelled, Picks, Updated, SetSecret,
        Build, SecretGot, SecretRechecked, PromptCancelled, PromptAnswered,
        SecretStored, Resolved, BuildStep
<1> QED
  BY <1>1, <1>2, InitState, NextState, PTL DEF Spec

(***************************************************************************)
(* Redaction.                                                              *)
(***************************************************************************)

\* There is a least number in every set of numbers, and a greatest in every
\* bounded one.
LEMMA LeastNumber ==
  ASSUME NEW T, T \subseteq Nat, T # {}
  PROVE  \E x \in T : \A y \in T : x <= y
<1> DEFINE R == OpToRel(<, Nat)
<1>1. PICK x \in T : \A y \in T : ~(<<y, x>> \in R)
  BY WFMin, NatLessThanWellFounded
<1>2. \A y \in T : ~(y < x)
  BY <1>1 DEF OpToRel
<1>3. \A y \in T : y \in Nat /\ x \in Nat
  OBVIOUS
<1> QED
  BY <1>2, <1>3

LEMMA MaxOf ==
  ASSUME NEW n \in Nat, NEW J \in SUBSET (0..n), J # {}
  PROVE  /\ Max(J) \in J /\ Max(J) \in 0..n
         /\ \A j \in J : Max(J) >= j
<1> DEFINE D == {n - j : j \in J}
<1>1. D \subseteq Nat /\ D # {}
  <2>1. \A j \in J : j \in 0..n /\ n - j \in Nat
    OBVIOUS
  <2>2. PICK j \in J : TRUE
    OBVIOUS
  <2>3. n - j \in D
    OBVIOUS
  <2> QED
    BY <2>1, <2>3
<1>2. PICK d \in D : \A y \in D : d <= y
  BY <1>1, LeastNumber
<1>3. PICK m \in J : d = n - m
  OBVIOUS
<1>4. \A j \in J : m >= j
  <2>1. ASSUME NEW j \in J PROVE m >= j
    <3>1. n - j \in D
      OBVIOUS
    <3>2. n - m <= n - j /\ m \in Int /\ j \in Int
      BY <1>2, <1>3, <3>1
    <3> QED
      BY <3>2
  <2> QED
    BY <2>1
<1> HIDE DEF D
<1>5. Max(J) \in J /\ \A j \in J : Max(J) >= j
  BY <1>4 DEF Max
<1> QED
  BY <1>5

\* A greatest element is the only one.
LEMMA MaxIs ==
  ASSUME NEW n \in Nat, NEW J \in SUBSET (0..n), NEW m \in J,
         \A j \in J : j <= m
  PROVE  Max(J) = m
<1>1. Max(J) \in J /\ Max(J) \in 0..n /\ Max(J) >= m
  BY MaxOf
<1>2. Max(J) <= m /\ m \in 0..n
  BY <1>1
<1> QED
  BY <1>1, <1>2

-----------------------------------------------------------------------------
(* Folds.                                                                  *)

LEMMA GreatestOf ==
  ASSUME NEW n \in Nat, NEW x \in SUBSET (1..n), NEW k \in x, \A y \in x : y <= k
  PROVE  Max(x) = k
<1>1. x \in SUBSET (0..n)
  OBVIOUS
<1> QED
  BY <1>1, MaxIs

LEMMA GreatestIn ==
  ASSUME NEW n \in Nat, NEW x \in SUBSET (1..n), x # {}
  PROVE  Max(x) \in x
<1>1. x \in SUBSET (0..n)
  OBVIOUS
<1> QED
  BY <1>1, MaxOf

\* The numbers up to one, as a fold takes them.
LEMMA UpTo ==
  ASSUME NEW n \in Nat, NEW k \in 1..n
  PROVE  /\ 1..k \in SUBSET (1..n) /\ 1..k # {} /\ Max(1..k) = k
         /\ (1..k) \ {k} = 1..(k - 1)
<1>1. k \in 1..k /\ 1..k \in SUBSET (1..n)
  OBVIOUS
<1>2. Max(1..k) = k
  <2>1. \A y \in 1..k : y <= k
    OBVIOUS
  <2> QED
    BY <1>1, <2>1, GreatestOf
<1>3. (1..k) \ {k} = 1..(k - 1)
  <2>1. \A i \in Int : i \in (1..k) \ {k} <=> i \in 1..(k - 1)
    OBVIOUS
  <2>2. 1..k \subseteq Int /\ 1..(k - 1) \subseteq Int
    OBVIOUS
  <2> QED
    BY <2>1, <2>2
<1> QED
  BY <1>1, <1>2, <1>3

\* The function that a fold over the numbers up to one is computed by, if each
\* step is a function's.
Folds(it, base, g, D) ==
  it = [x \in SUBSET D |-> IF x = {} THEN base ELSE g[it[x \ {Max(x)}], Max(x)]]

LEMMA FoldsOn ==
  ASSUME NEW n \in Nat, NEW base, NEW g, NEW it, Folds(it, base, g, 1..n)
  PROVE  \E new : Folds(new, base, g, 1..(n + 1))
<1> DEFINE new == [x \in SUBSET (1..(n + 1)) |->
                     IF n + 1 \in x THEN g[it[x \ {n + 1}], n + 1] ELSE it[x]]
<1>1. ASSUME NEW x \in SUBSET (1..(n + 1))
      PROVE  new[x] = IF x = {} THEN base ELSE g[new[x \ {Max(x)}], Max(x)]
  <2>1. CASE n + 1 \in x
    <3>1. Max(x) = n + 1
      <4>1. n + 1 \in Nat /\ \A y \in x : y <= n + 1
        OBVIOUS
      <4> QED
        BY <2>1, <4>1, GreatestOf
    <3>2. /\ x \ {n + 1} \in SUBSET (1..(n + 1)) /\ n + 1 \notin x \ {n + 1}
      OBVIOUS
    <3>3. new[x \ {n + 1}] = it[x \ {n + 1}]
      BY <3>2
    <3> QED
      BY <2>1, <3>1, <3>3
  <2>2. CASE n + 1 \notin x
    <3>1. x \in SUBSET (1..n) /\ new[x] = it[x]
      BY <2>2
    <3>2. it[x] = IF x = {} THEN base ELSE g[it[x \ {Max(x)}], Max(x)]
      BY <3>1 DEF Folds
    <3>3. x \ {Max(x)} \in SUBSET (1..(n + 1)) /\ n + 1 \notin x \ {Max(x)}
      BY <2>2
    <3>4. new[x \ {Max(x)}] = it[x \ {Max(x)}]
      BY <3>3
    <3> QED
      BY <3>1, <3>2, <3>4
  <2> QED
    BY <2>1, <2>2
<1>2. new = [x \in SUBSET (1..(n + 1)) |-> new[x]]
  OBVIOUS
<1> HIDE DEF new
<1>3. Folds(new, base, g, 1..(n + 1))
  BY <1>1, <1>2 DEF Folds
<1> QED
  BY <1>3

LEMMA FoldExists ==
  ASSUME NEW n \in Nat, NEW base, NEW g
  PROVE  \E it : Folds(it, base, g, 1..n)
<1> DEFINE T == {k \in Nat : ~\E it : Folds(it, base, g, 1..k)}
<1>1. SUFFICES ASSUME T # {} PROVE FALSE
  OBVIOUS
<1>2. PICK k \in T : \A y \in T : k <= y
  BY <1>1, LeastNumber
<1>3. CASE k = 0
  <2>1. PICK it : it = [x \in SUBSET (1..0) |-> base]
    OBVIOUS
  <2>2. ASSUME NEW x \in SUBSET (1..0) PROVE x = {}
    BY <2>2
  <2>3. it = [x \in SUBSET (1..0) |->
                IF x = {} THEN base ELSE g[it[x \ {Max(x)}], Max(x)]]
    BY <2>1, <2>2
  <2> QED
    BY <1>2, <1>3, <2>3 DEF Folds
<1>4. CASE k # 0
  <2>1. k - 1 \in Nat /\ k - 1 \notin T
    BY <1>2, <1>4
  <2>2. PICK it : Folds(it, base, g, 1..(k - 1))
    BY <2>1
  <2>3. \E new : Folds(new, base, g, 1..((k - 1) + 1))
    BY <2>1, <2>2, FoldsOn
  <2>4. (k - 1) + 1 = k
    BY <1>2
  <2> QED
    BY <1>2, <2>3, <2>4
<1> QED
  BY <1>3, <1>4

\* What holds at first, and after each step if it held before, holds.
LEMMA Inductive ==
  ASSUME NEW n \in Nat, NEW S, 0 \in S,
         \A k \in 1..n : k - 1 \in S => k \in S
  PROVE  0..n \subseteq S
<1> DEFINE T == {k \in Nat : k <= n /\ k \notin S}
<1>1. SUFFICES ASSUME T # {} PROVE FALSE
  OBVIOUS
<1>2. PICK k \in T : \A y \in T : k <= y
  BY <1>1, LeastNumber
<1>3. k # 0 /\ k \in 1..n
  BY <1>2
<1>4. k - 1 \in Nat /\ k - 1 \notin T /\ k - 1 <= n
  BY <1>2, <1>3
<1> QED
  BY <1>2, <1>3, <1>4

\* It stays within the set of states that its steps stay in.
LEMMA FoldsStay ==
  ASSUME NEW n \in Nat, NEW S, NEW base \in S, NEW g \in [S \X (1..n) -> S],
         NEW it, Folds(it, base, g, 1..n)
  PROVE  \A x \in SUBSET (1..n) : it[x] \in S
<1> DEFINE P == {k \in Nat : \A x \in SUBSET (1..n) :
                   (\A y \in x : y <= k) => it[x] \in S}
<1>1. 0 \in P
  <2>1. ASSUME NEW x \in SUBSET (1..n), \A y \in x : y <= 0 PROVE it[x] = base
    <3>1. x = {}
      BY <2>1
    <3> QED
      BY <3>1 DEF Folds
  <2> QED
    BY <2>1
<1>2. ASSUME NEW k \in 1..n, k - 1 \in P PROVE k \in P
  <2>1. ASSUME NEW x \in SUBSET (1..n), \A y \in x : y <= k PROVE it[x] \in S
    <3>1. CASE k \in x
      <4>1. Max(x) = k
        BY <2>1, <3>1, GreatestOf
      <4>2. it[x] = g[it[x \ {k}], k]
        BY <3>1, <4>1 DEF Folds
      <4>3. x \ {k} \in SUBSET (1..n) /\ \A y \in x \ {k} : y <= k - 1
        BY <2>1
      <4>4. it[x \ {k}] \in S
        BY <1>2, <4>3
      <4> QED
        BY <4>2, <4>4
    <3>2. CASE k \notin x
      <4>1. \A y \in x : y <= k - 1
        BY <2>1, <3>2
      <4> QED
        BY <1>2, <4>1
    <3> QED
      BY <3>1, <3>2
  <2> QED
    BY <2>1
<1> HIDE DEF P
<1>3. 0..n \subseteq P
  BY <1>1, <1>2, Inductive
<1>4. n \in P
  BY <1>3
<1> QED
  BY <1>4 DEF P

\* One state after the other: a fold over the numbers up to one, as a path.
Path(f, base, g, n, S) ==
  /\ f[0] = base /\ \A k \in 1..n : f[k] = g[f[k - 1], k]
  /\ \A k \in 0..n : f[k] \in S

Computes(it, base, g, n, S) ==
  /\ base \in S /\ g \in [S \X (1..n) -> S]
  /\ it[{}] = base
  /\ \A x \in SUBSET (1..n) :
       x # {} /\ it[x \ {Max(x)}] \in S => it[x] = g[it[x \ {Max(x)}], Max(x)]

LEMMA FoldsAsPath ==
  ASSUME NEW n \in Nat, NEW S, NEW base, NEW g, NEW it,
         Computes(it, base, g, n, S)
  PROVE  \E f : Path(f, base, g, n, S) /\ f[n] = it[1..n]
<1> DEFINE f == [k \in 0..n |-> it[1..k]]
           T == {k \in 0..n : f[k] \in S /\ (k # 0 => f[k] = g[f[k - 1], k])}
<1>1. f[0] = base /\ f[n] = it[1..n] /\ 0 \in 0..n
  <2>1. 0 \in 0..n /\ n \in 0..n
    OBVIOUS
  <2>2. 1..0 = {}
    OBVIOUS
  <2>3. f[0] = it[1..0] /\ f[n] = it[1..n]
    BY <2>1
  <2>4. it[{}] = base
    BY DEF Computes
  <2> HIDE DEF f
  <2> QED
    BY <2>1, <2>2, <2>3, <2>4
<1>0. base \in S /\ g \in [S \X (1..n) -> S]
  BY DEF Computes
<1>2. 0 \in T
  <2> HIDE DEF f
  <2> QED
    BY <1>0, <1>1
<1>3. ASSUME NEW k \in 1..n, k - 1 \in T PROVE k \in T
  <2>1. k \in 0..n /\ k - 1 \in 0..n /\ k # 0
    OBVIOUS
  <2>2. f[k] = it[1..k] /\ f[k - 1] = it[1..(k - 1)] /\ f[k - 1] \in S
    BY <1>3, <2>1
  <2>3. /\ 1..k \in SUBSET (1..n) /\ 1..k # {} /\ Max(1..k) = k
        /\ (1..k) \ {k} = 1..(k - 1)
    BY UpTo
  <2>4. it[1..k] = g[it[1..(k - 1)], k]
    <3>1. it[(1..k) \ {Max(1..k)}] \in S
      BY <2>2, <2>3
    <3>2. it[1..k] = g[it[(1..k) \ {Max(1..k)}], Max(1..k)]
      BY <2>3, <3>1 DEF Computes
    <3> QED
      BY <2>3, <3>2
  <2>5. f[k] = g[f[k - 1], k] /\ f[k] \in S
    BY <1>0, <2>2, <2>4
  <2> QED
    BY <2>1, <2>5
<1> HIDE DEF f, T
<1>4. 0..n \subseteq T
  BY <1>2, <1>3, Inductive
<1>5. ASSUME NEW k \in 1..n PROVE f[k] = g[f[k - 1], k]
  <2>1. k \in 0..n /\ k # 0
    OBVIOUS
  <2>2. k \in T
    BY <1>4, <2>1
  <2> QED
    BY <2>1, <2>2 DEF T
<1>6. \A k \in 0..n : f[k] \in S
  BY <1>4 DEF T
<1>7. Path(f, base, g, n, S)
  BY <1>1, <1>5, <1>6 DEF Path
<1> QED
  BY <1>1, <1>7

\* There is a function that such a fold is computed by, within its states.
Within(z, base, g, n, S) ==
  /\ z = [x \in SUBSET (1..n) |-> z[x]] /\ z[{}] = base
  /\ \A x \in SUBSET (1..n) :
       x # {} => /\ Max(x) \in 1..n /\ z[x \ {Max(x)}] \in S
                 /\ z[x] = g[z[x \ {Max(x)}], Max(x)]

LEMMA FoldsWithin ==
  ASSUME NEW n \in Nat, NEW S, NEW base \in S, NEW g \in [S \X (1..n) -> S]
  PROVE  \E z : Within(z, base, g, n, S)
<1>1. PICK z : Folds(z, base, g, 1..n)
  BY FoldExists
<1>2. \A x \in SUBSET (1..n) : z[x] \in S
  BY <1>1, FoldsStay
<1>3. z = [x \in SUBSET (1..n) |-> z[x]] /\ z[{}] = base
  BY <1>1 DEF Folds
<1>4. ASSUME NEW x \in SUBSET (1..n), x # {}
      PROVE  /\ Max(x) \in 1..n /\ z[x \ {Max(x)}] \in S
             /\ z[x] = g[z[x \ {Max(x)}], Max(x)]
  <2>1. Max(x) \in x
    BY <1>4, GreatestIn
  <2>2. z[x] = g[z[x \ {Max(x)}], Max(x)]
    BY <1>1, <1>4 DEF Folds
  <2> QED
    BY <1>2, <2>1, <2>2
<1>5. Within(z, base, g, n, S)
  BY <1>3, <1>4 DEF Within
<1> QED
  BY <1>5

-----------------------------------------------------------------------------
(* Types.                                                                  *)

Items == [reference : Texts, value : Texts]
States == [local : Seq(Texts), queue : Seq(Texts), additions : Nat, total : Nat,
           truncated : BOOLEAN]

LEMMA ConcatTexts ==
  ASSUME NEW t \in Texts, NEW u \in Texts
  PROVE  t \o u \in Texts
BY DEF Texts

\* The states of a split and join.
Scans == [text : Texts, next : Nat]

LEMMA ReplacingTyped ==
  ASSUME NEW t \in Texts, NEW s \in Texts, NEW r \in Texts, NEW acc \in Scans,
         NEW i \in 1..Len(t)
  PROVE  Replacing(acc, i, t, s, r) \in Scans
<1>1. i + Len(s) \in Nat /\ i + 1 \in Nat /\ t[i] \in Atoms
  BY DEF Texts
<1>2. acc.text \o r \in Texts /\ Append(acc.text, t[i]) \in Texts
  BY <1>1 DEF Texts, Scans
<1> QED
  BY <1>1, <1>2 DEF Replacing, Scans

\* A split and join goes from atom to atom.
ReplacedPathIs(f, t, s, r, n) ==
  /\ f[0] = [text |-> <<>>, next |-> 1]
  /\ \A k \in 1..n : f[k] = Replacing(f[k - 1], k, t, s, r)
  /\ \A k \in 0..n : f[k] \in Scans
  /\ Replaced(t, s, r) = f[n].text

LEMMA ReplacedPath ==
  ASSUME NEW t \in Texts, NEW s \in Texts, NEW r \in Texts, NEW n, n = Len(t)
  PROVE  \E f : ReplacedPathIs(f, t, s, r, n)
<1> DEFINE base == [text |-> <<>>, next |-> 1]
           seq == [i \in DOMAIN t |-> i]
           g == [p \in Scans \X (1..n) |-> Replacing(p[1], seq[p[2]], t, s, r)]
           Iterates(z) == z = [x \in SUBSET (DOMAIN seq) |->
                                 IF x = {} THEN base
                                 ELSE Replacing(z[x \ {Max(x)}], seq[Max(x)], t, s, r)]
           it == CHOOSE z : Iterates(z)
<1>1. n \in Nat /\ DOMAIN seq = 1..n /\ base \in Scans
      /\ \A i \in 1..n : seq[i] = i
  BY DEF Texts, Scans
<1>2. Replaced(t, s, r) = it[DOMAIN seq].text
  BY DEF Replaced, FoldLeftDomain, FoldLeft, MapThenFoldSet
<1>3. \A k \in 1..n : seq[k] = k
  BY <1>1
<1> HIDE DEF seq
<1>4. g \in [Scans \X (1..n) -> Scans]
  BY <1>1, ReplacingTyped
<1>5. \A q \in Scans, k \in 1..n : g[q, k] = Replacing(q, seq[k], t, s, r)
  OBVIOUS
<1>6. PICK z : Within(z, base, g, n, Scans)
  BY <1>1, <1>4, FoldsWithin
<1> HIDE DEF g, base
<1>7. Iterates(it)
  <2>1. \A x \in SUBSET (1..n) :
          x # {} => z[x] = Replacing(z[x \ {Max(x)}], seq[Max(x)], t, s, r)
    BY <1>5, <1>6 DEF Within
  <2>2. Iterates(z)
    BY <1>1, <1>6, <2>1 DEF Within
  <2> QED
    BY <2>2
<1> HIDE DEF it
<1>8. Computes(it, base, g, n, Scans)
  <2>1. \A x \in SUBSET (1..n) :
          x # {} /\ it[x \ {Max(x)}] \in Scans =>
            it[x] = g[it[x \ {Max(x)}], Max(x)]
    <3>1. \A x \in SUBSET (1..n) : x # {} => Max(x) \in 1..n
      BY <1>6 DEF Within
    <3>2. \A x \in SUBSET (1..n) :
            x # {} => it[x] = Replacing(it[x \ {Max(x)}], seq[Max(x)], t, s, r)
      BY <1>1, <1>7
    <3> QED
      BY <1>5, <3>1, <3>2
  <2>2. it[{}] = base
    BY <1>1, <1>7
  <2> QED
    BY <1>1, <1>4, <2>1, <2>2 DEF Computes
<1>11. PICK f : Path(f, base, g, n, Scans) /\ f[n] = it[1..n]
  BY <1>1, <1>8, FoldsAsPath
<1>12. \A k \in 1..n : f[k] = Replacing(f[k - 1], k, t, s, r)
  <2>1. ASSUME NEW k \in 1..n PROVE f[k] = Replacing(f[k - 1], k, t, s, r)
    <3>1. k - 1 \in 0..n
      BY <1>1
    <3>2. f[k] = Replacing(f[k - 1], seq[k], t, s, r)
      BY <1>5, <1>11, <3>1 DEF Path
    <3> QED
      BY <1>3, <3>2
  <2> QED
    BY <2>1
<1>13. f[0] = base /\ \A k \in 0..n : f[k] \in Scans
  BY <1>11 DEF Path
<1> QED
  BY <1>1, <1>2, <1>11, <1>12, <1>13 DEF base, ReplacedPathIs

LEMMA ReplacedTyped ==
  ASSUME NEW t \in Texts, NEW s \in Texts, NEW r \in Texts
  PROVE  Replaced(t, s, r) \in Texts
<1>1. PICK n : n = Len(t) /\ n \in Nat
  BY DEF Texts
<1>2. PICK f : ReplacedPathIs(f, t, s, r, n)
  BY <1>1, ReplacedPath
<1>3. f[n] \in Scans /\ Replaced(t, s, r) = f[n].text
  BY <1>1, <1>2 DEF ReplacedPathIs
<1> QED
  BY <1>3 DEF Scans

-----------------------------------------------------------------------------
(* The closure of one base.                                                *)

LEMMA RangeOfAppend ==
  ASSUME NEW S, NEW s \in Seq(S), NEW v \in S
  PROVE  Range(Append(s, v)) = Range(s) \cup {v}
<1>1. PICK n : n = Len(s) /\ n \in Nat /\ DOMAIN s = 1..n
  OBVIOUS
<1>2. DOMAIN Append(s, v) = 1..(n + 1) /\ Append(s, v)[n + 1] = v
      /\ \A i \in 1..n : Append(s, v)[i] = s[i]
  BY <1>1, AppendProperties
<1>3. \A i \in 1..(n + 1) : i \in 1..n \/ i = n + 1
  BY <1>1
<1>4. 1..n \subseteq 1..(n + 1) /\ n + 1 \in 1..(n + 1)
  BY <1>1
<1> QED
  BY <1>1, <1>2, <1>3, <1>4 DEF Range

LEMMA RangeOfTail ==
  ASSUME NEW S, NEW s \in Seq(S), s # <<>>
  PROVE  Range(s) = {Head(s)} \cup Range(Tail(s)) /\ Head(s) \in S
         /\ Tail(s) \in Seq(S)
<1>1. PICK n : n = Len(s) /\ n \in Nat /\ DOMAIN s = 1..n /\ n # 0
  BY EmptySeq
<1>2. Head(s) = s[1] /\ DOMAIN Tail(s) = 1..(n - 1)
      /\ \A i \in 1..(n - 1) : Tail(s)[i] = s[i + 1]
  BY <1>1, HeadTailProperties
<1>3. \A i \in 1..n : i = 1 \/ (i - 1 \in 1..(n - 1) /\ i = (i - 1) + 1)
  BY <1>1
<1>4. 1 \in 1..n /\ \A i \in 1..(n - 1) : i + 1 \in 1..n
  BY <1>1
<1>5. Head(s) \in S /\ Tail(s) \in Seq(S)
  BY <1>1, HeadTailProperties
<1>6. Range(s) \subseteq {Head(s)} \cup Range(Tail(s))
  <2>1. ASSUME NEW i \in 1..n PROVE s[i] \in {Head(s)} \cup Range(Tail(s))
    BY <1>2, <1>3 DEF Range
  <2> QED
    BY <1>1, <2>1 DEF Range
<1>7. {Head(s)} \cup Range(Tail(s)) \subseteq Range(s)
  BY <1>1, <1>2, <1>4 DEF Range
<1> QED
  BY <1>5, <1>6, <1>7

LEMMA AddedTyped ==
  ASSUME NEW s \in States, NEW v \in Texts, NEW h \in Nat
  PROVE  Added(s, v, h) \in States
<1>1. Append(s.local, v) \in Seq(Texts) /\ Append(s.queue, v) \in Seq(Texts)
      /\ s.additions + 1 \in Nat /\ s.total + 1 \in Nat
  BY AppendProperties DEF States
<1> QED
  BY <1>1 DEF Added, States

Passes == [state : States, text : Texts]

LEMMA ParticipatesTyped ==
  ASSUME NEW acc \in Passes, NEW inj \in Items, NEW v,
         NEW h \in Nat
  PROVE  Participates(acc, inj, v, h) \in Passes
<1>1. /\ acc.state \in States /\ acc.text \in Texts
      /\ inj.value \in Texts /\ inj.reference \in Texts
  BY DEF Passes, Items
<1>2. /\ Added(acc.state, inj.value, h) \in States
      /\ Replaced(acc.text, inj.reference, inj.value) \in Texts
  BY <1>1, AddedTyped, ReplacedTyped
<1> QED
  BY <1>2 DEF Participates, Passes

Pass(s, v, h) ==
  FoldLeft(LAMBDA acc, inj : Participates(acc, inj, v, h),
           [state |-> s, text |-> v], injected.items)

\* A pass goes from substitution to substitution.
PassPathIs(f, s, v, h, m) ==
  /\ f[0] = [state |-> s, text |-> v]
  /\ \A k \in 1..m : f[k] = Participates(f[k - 1], injected.items[k], v, h)
  /\ \A k \in 0..m : f[k] \in Passes
  /\ Pass(s, v, h) = f[m]

LEMMA PassPath ==
  ASSUME injected.items \in Seq(Items), NEW s \in States,
         NEW v \in Texts, NEW h \in Nat, NEW m, m = Len(injected.items)
  PROVE  \E f : PassPathIs(f, s, v, h, m)
<1> DEFINE base == [state |-> s, text |-> v]
           seq == injected.items
           g == [p \in Passes \X (1..m) |-> Participates(p[1], seq[p[2]], v, h)]
           Iterates(z) == z = [x \in SUBSET (DOMAIN seq) |->
                                 IF x = {} THEN base
                                 ELSE Participates(z[x \ {Max(x)}], seq[Max(x)], v, h)]
           it == CHOOSE z : Iterates(z)
<1>1. m \in Nat /\ DOMAIN seq = 1..m /\ base \in Passes
      /\ \A k \in 1..m : seq[k] \in Items
  <2>1. m \in Nat /\ DOMAIN seq = 1..m /\ \A k \in 1..m : seq[k] \in Items
    OBVIOUS
  <2>2. base \in Passes
    BY DEF Passes
  <2> QED
    BY <2>1, <2>2
<1>2. Pass(s, v, h) = it[DOMAIN seq]
  BY DEF Pass, FoldLeft, MapThenFoldSet
<1>3. \A k \in 1..m : seq[k] = injected.items[k]
  BY <1>1
<1> HIDE DEF seq
<1>4. g \in [Passes \X (1..m) -> Passes]
  BY <1>1, ParticipatesTyped
<1>5. \A q \in Passes, k \in 1..m : g[q, k] = Participates(q, seq[k], v, h)
  OBVIOUS
<1>6. PICK z : Within(z, base, g, m, Passes)
  BY <1>1, <1>4, FoldsWithin
<1> HIDE DEF g, base
<1>7. Iterates(it)
  <2>1. \A x \in SUBSET (1..m) :
          x # {} => z[x] = Participates(z[x \ {Max(x)}], seq[Max(x)], v, h)
    BY <1>5, <1>6 DEF Within
  <2>2. Iterates(z)
    BY <1>1, <1>6, <2>1 DEF Within
  <2> QED
    BY <2>2
<1> HIDE DEF it
<1>8. Computes(it, base, g, m, Passes)
  <2>1. \A x \in SUBSET (1..m) :
          x # {} /\ it[x \ {Max(x)}] \in Passes =>
            it[x] = g[it[x \ {Max(x)}], Max(x)]
    <3>1. \A x \in SUBSET (1..m) : x # {} => Max(x) \in 1..m
      BY <1>6 DEF Within
    <3>2. \A x \in SUBSET (1..m) :
            x # {} => it[x] = Participates(it[x \ {Max(x)}], seq[Max(x)], v, h)
      BY <1>1, <1>7
    <3> QED
      BY <1>5, <3>1, <3>2
  <2>2. it[{}] = base
    BY <1>1, <1>7
  <2> QED
    BY <1>1, <1>4, <2>1, <2>2 DEF Computes
<1>11. PICK f : Path(f, base, g, m, Passes) /\ f[m] = it[1..m]
  BY <1>1, <1>8, FoldsAsPath
<1>12. \A k \in 1..m : f[k] = Participates(f[k - 1], injected.items[k], v, h)
  <2>1. ASSUME NEW k \in 1..m PROVE f[k] =
            Participates(f[k - 1], injected.items[k], v, h)
    <3>1. k - 1 \in 0..m
      BY <1>1
    <3>2. f[k] = Participates(f[k - 1], seq[k], v, h)
      BY <1>5, <1>11, <3>1 DEF Path
    <3> QED
      BY <1>3, <3>2
  <2> QED
    BY <2>1
<1>13. f[0] = base /\ \A k \in 0..m : f[k] \in Passes
  BY <1>11 DEF Path
<1> QED
  BY <1>1, <1>2, <1>11, <1>12, <1>13 DEF base, PassPathIs

LEMMA PassTyped ==
  ASSUME injected.items \in Seq(Items), NEW s \in States, NEW v \in Texts,
         NEW h \in Nat
  PROVE  Pass(s, v, h) \in Passes
<1>1. PICK m : m = Len(injected.items) /\ m \in Nat
  OBVIOUS
<1>2. PICK f : PassPathIs(f, s, v, h, m)
  BY <1>1, PassPath
<1> QED
  BY <1>1, <1>2 DEF PassPathIs

\* The state that a pass starts from.
Dequeued(s) == [s EXCEPT !.queue = Tail(@)]

LEMMA DequeuedTyped ==
  ASSUME NEW s \in States, s.queue # <<>>
  PROVE  /\ Dequeued(s) \in States /\ Head(s.queue) \in Texts
         /\ Range(s.queue) = {Head(s.queue)} \cup Range(Dequeued(s).queue)
         /\ Dequeued(s).local = s.local /\ Dequeued(s).truncated = s.truncated
<1>1. s.queue \in Seq(Texts)
  BY DEF States
<1>2. /\ Range(s.queue) = {Head(s.queue)} \cup Range(Tail(s.queue))
      /\ Head(s.queue) \in Texts /\ Tail(s.queue) \in Seq(Texts)
  BY <1>1, RangeOfTail
<1>3. Dequeued(s) \in States /\ Dequeued(s).queue = Tail(s.queue)
      /\ Dequeued(s).local = s.local /\ Dequeued(s).truncated = s.truncated
  BY <1>2 DEF Dequeued, States
<1> QED
  BY <1>2, <1>3

LEMMA ExpandedIs ==
  ASSUME NEW s, NEW h, NEW v, v = Head(s.queue), NEW p, p = Pass(Dequeued(s), v, h)
  PROVE  Expanded(s, h, injected.items) =
      IF Expandable(v, injected.items) THEN Added(p.state, p.text, h)
                          ELSE p.state
<1>1. Expanded(s, h, injected.items) =
        IF Expandable(Head(s.queue), injected.items)
        THEN Added(Pass(Dequeued(s), Head(s.queue), h).state,
                   Pass(Dequeued(s), Head(s.queue), h).text, h)
        ELSE Pass(Dequeued(s), Head(s.queue), h).state
  BY DEF Expanded, Pass, Dequeued
<1> QED
  BY <1>1

LEMMA TurnTyped ==
  ASSUME injected.items \in Seq(Items), NEW s \in States, NEW h \in Nat
  PROVE  Turn(s, h, injected.items) \in States
<1>1. ASSUME s.queue # <<>> PROVE Expanded(s, h, injected.items) \in States
  <2>1. PICK v, p : v = Head(s.queue) /\ p = Pass(Dequeued(s), v, h)
    OBVIOUS
  <2>2. p \in Passes
    BY <1>1, <2>1, DequeuedTyped, PassTyped
  <2>3. p.state \in States /\ p.text \in Texts
    BY <2>2 DEF Passes
  <2>4. Added(p.state, p.text, h) \in States
    BY <2>3, AddedTyped
  <2>5. Expanded(s, h, injected.items) =
            IF Expandable(v, injected.items) THEN Added(p.state, p.text, h)
                         ELSE p.state
    BY <2>1, ExpandedIs
  <2> QED
    BY <2>3, <2>4, <2>5
<1> QED
  BY <1>1 DEF Turn

Opening(base, total) ==
  [local |-> <<base>>, queue |-> <<base>>, additions |-> 0, total |-> total,
   truncated |-> FALSE]

LEMMA OpeningTyped ==
  ASSUME NEW base \in Texts, NEW total \in Nat
  PROVE  Opening(base, total) \in States
<1>1. <<base>> \in Seq(Texts)
  OBVIOUS
<1> QED
  BY <1>1 DEF Opening, States

Turns(s, h) ==
  FoldLeft(LAMBDA u, i :
      Turn(u, h, injected.items), s, [i \in 1..(Budget + 1) |-> i])

\* A closure goes from turn to turn.
TurnsPathIs(f, s, h, n) ==
  /\ f[0] = s
  /\ \A k \in 1..n : f[k] = Turn(f[k - 1], h, injected.items)
  /\ \A k \in 0..n : f[k] \in States
  /\ Turns(s, h) = f[n]

LEMMA TurnsPath ==
  ASSUME Budget \in Nat, injected.items \in Seq(Items), NEW s \in States,
         NEW h \in Nat, NEW n, n = Budget + 1
  PROVE  \E f : TurnsPathIs(f, s, h, n)
<1> DEFINE base == s
           seq == [i \in 1..(Budget + 1) |-> i]
           g == [p \in States \X (1..n) |-> Turn(p[1], h, injected.items)]
           Iterates(z) == z = [x \in SUBSET (DOMAIN seq) |->
                                 IF x = {} THEN base
                                 ELSE Turn(z[x \ {Max(x)}], h, injected.items)]
           it == CHOOSE z : Iterates(z)
<1>1. n \in Nat /\ DOMAIN seq = 1..n /\ base \in States
      /\ \A i \in 1..n : seq[i] = i
  OBVIOUS
<1>2. Turns(s, h) = it[DOMAIN seq]
  BY DEF Turns, FoldLeft, MapThenFoldSet
<1>3. \A k \in 1..n : seq[k] = k
  BY <1>1
<1> HIDE DEF seq
<1>4. g \in [States \X (1..n) -> States]
  BY <1>1, TurnTyped
<1>5. \A q \in States, k \in 1..n : g[q, k] = Turn(q, h, injected.items)
  OBVIOUS
<1>6. PICK z : Within(z, base, g, n, States)
  BY <1>1, <1>4, FoldsWithin
<1> HIDE DEF g, base
<1>7. Iterates(it)
  <2>1. \A x \in SUBSET (1..n) :
          x # {} => z[x] = Turn(z[x \ {Max(x)}], h, injected.items)
    BY <1>5, <1>6 DEF Within
  <2>2. Iterates(z)
    BY <1>1, <1>6, <2>1 DEF Within
  <2> QED
    BY <2>2
<1> HIDE DEF it
<1>8. Computes(it, base, g, n, States)
  <2>1. \A x \in SUBSET (1..n) :
          x # {} /\ it[x \ {Max(x)}] \in States =>
            it[x] = g[it[x \ {Max(x)}], Max(x)]
    <3>1. \A x \in SUBSET (1..n) : x # {} => Max(x) \in 1..n
      BY <1>6 DEF Within
    <3>2. \A x \in SUBSET (1..n) :
            x # {} => it[x] = Turn(it[x \ {Max(x)}], h, injected.items)
      BY <1>1, <1>7
    <3> QED
      BY <1>5, <3>1, <3>2
  <2>2. it[{}] = base
    BY <1>1, <1>7
  <2> QED
    BY <1>1, <1>4, <2>1, <2>2 DEF Computes
<1>11. PICK f : Path(f, base, g, n, States) /\ f[n] = it[1..n]
  BY <1>1, <1>8, FoldsAsPath
<1>12. \A k \in 1..n : f[k] = Turn(f[k - 1], h, injected.items)
  <2>1. ASSUME NEW k \in 1..n PROVE f[k] = Turn(f[k - 1], h, injected.items)
    <3>1. k - 1 \in 0..n
      BY <1>1
    <3>2. f[k] = Turn(f[k - 1], h, injected.items)
      BY <1>5, <1>11, <3>1 DEF Path
    <3> QED
      BY <1>3, <3>2
  <2> QED
    BY <2>1
<1>13. f[0] = base /\ \A k \in 0..n : f[k] \in States
  BY <1>11 DEF Path
<1> QED
  BY <1>1, <1>2, <1>11, <1>12, <1>13 DEF base, TurnsPathIs

LEMMA TurnsTyped ==
  ASSUME Budget \in Nat, injected.items \in Seq(Items), NEW s \in States,
         NEW h \in Nat
  PROVE  Turns(s, h) \in States
<1>1. PICK n : n = Budget + 1 /\ n \in Nat
  OBVIOUS
<1>2. PICK f : TurnsPathIs(f, s, h, n)
  BY <1>1, TurnsPath
<1> QED
  BY <1>1, <1>2 DEF TurnsPathIs

-----------------------------------------------------------------------------
(* With its share of the bound left, what earlier bases added to the total  *)
(* makes no difference to a closure.                                        *)

Alike(s, u, total, h) ==
  /\ s \in States /\ u \in States
  /\ s.local = u.local /\ s.queue = u.queue /\ s.truncated = u.truncated
  /\ s.additions = u.additions /\ s.additions <= h
  /\ s.total = total + s.additions /\ u.total = u.additions

LEMMA AddedAlike ==
  ASSUME Budget \in Nat, NEW total \in Nat, NEW h \in Nat, total + h <= Budget,
         NEW s, NEW u, Alike(s, u, total, h), NEW v \in Texts
  PROVE  Alike(Added(s, v, h), Added(u, v, h), total, h)
<1>1. s \in States /\ u \in States
  BY DEF Alike
<1>2. Added(s, v, h) \in States /\ Added(u, v, h) \in States
  BY <1>1, AddedTyped
<1>3. PICK a, t : a = s.additions /\ t = s.total
  OBVIOUS
<1>4. /\ a \in Nat /\ u.additions = a /\ t = total + a /\ u.total = a
      /\ u.local = s.local /\ u.queue = s.queue /\ a <= h
      /\ u.truncated = s.truncated
  BY <1>1, <1>3 DEF Alike, States
<1>5. (a >= h \/ t >= Budget) <=> a >= h
  BY <1>4
<1>6. (a >= h \/ u.total >= Budget) <=> a >= h
  BY <1>4
<1>7. CASE v = <<>> \/ Contains(s.local, v)
  BY <1>4, <1>7 DEF Added, Alike
<1>8. CASE ~(v = <<>> \/ Contains(s.local, v)) /\ a >= h
  <2>1. /\ Added(s, v, h) = [s EXCEPT !.truncated = TRUE]
        /\ Added(u, v, h) = [u EXCEPT !.truncated = TRUE]
    BY <1>3, <1>4, <1>5, <1>6, <1>8 DEF Added
  <2> QED
    BY <1>1, <1>2, <1>3, <1>4, <2>1 DEF Alike, States
<1>9. CASE ~(v = <<>> \/ Contains(s.local, v)) /\ ~(a >= h)
  <2>1. /\ Added(s, v, h) =
             [s EXCEPT !.local = Append(@, v), !.queue = Append(@, v),
                       !.additions = @ + 1, !.total = @ + 1]
        /\ Added(u, v, h) =
             [u EXCEPT !.local = Append(@, v), !.queue = Append(@, v),
                       !.additions = @ + 1, !.total = @ + 1]
    BY <1>3, <1>4, <1>5, <1>6, <1>9 DEF Added
  <2>2. a + 1 <= h /\ t + 1 = total + (a + 1)
    BY <1>4, <1>9
  <2>3. PICK x, y : x = Added(s, v, h) /\ y = Added(u, v, h)
    OBVIOUS
  <2>4. /\ x.local = Append(s.local, v) /\ x.queue = Append(s.queue, v)
        /\ x.additions = a + 1 /\ x.total = t + 1 /\ x.truncated = s.truncated
    BY <1>1, <1>3, <2>1, <2>3 DEF States
  <2>5. /\ y.local = Append(u.local, v) /\ y.queue = Append(u.queue, v)
        /\ y.additions = a + 1 /\ y.total = a + 1 /\ y.truncated = u.truncated
    BY <1>1, <1>4, <2>1, <2>3 DEF States
  <2>6. Alike(x, y, total, h)
    BY <1>2, <1>4, <2>2, <2>3, <2>4, <2>5 DEF Alike
  <2> QED
    BY <2>3, <2>6
<1> QED
  BY <1>7, <1>8, <1>9

LEMMA PassAlike ==
  ASSUME Budget \in Nat, injected.items \in Seq(Items),
         NEW total \in Nat, NEW h \in Nat, total + h <= Budget,
         NEW s, NEW u, Alike(s, u, total, h), NEW v \in Texts
  PROVE  /\ Alike(Pass(s, v, h).state, Pass(u, v, h).state, total, h)
         /\ Pass(s, v, h).text = Pass(u, v, h).text
<1>1. PICK m : m = Len(injected.items) /\ m \in Nat
  OBVIOUS
<1>2. s \in States /\ u \in States
  BY DEF Alike
<1>3. PICK f : PassPathIs(f, s, v, h, m)
  BY <1>1, <1>2, PassPath
<1>4. PICK g : PassPathIs(g, u, v, h, m)
  BY <1>1, <1>2, PassPath
<1> DEFINE T == {k \in 0..m : /\ Alike(f[k].state, g[k].state, total, h)
                              /\ f[k].text = g[k].text}
<1>5. 0 \in T
  BY <1>1, <1>3, <1>4 DEF PassPathIs
<1>6. ASSUME NEW k \in 1..m, k - 1 \in T PROVE k \in T
  <2>1. PICK inj, a, b : inj = injected.items[k] /\ a = f[k - 1] /\ b = g[k - 1]
    OBVIOUS
  <2>2. /\ f[k] = Participates(a, inj, v, h) /\ g[k] = Participates(b, inj, v, h)
        /\ inj \in Items /\ k \in 0..m
    BY <1>1, <1>3, <1>4, <2>1 DEF PassPathIs
  <2>3. Alike(a.state, b.state, total, h) /\ a.text = b.text
    BY <1>6, <2>1
  <2>4. inj.value \in Texts
    BY <2>2 DEF Items
  <2>5. Alike(Added(a.state, inj.value, h), Added(b.state, inj.value, h), total, h)
    BY <2>3, <2>4, AddedAlike
  <2>6. Alike(f[k].state, g[k].state, total, h) /\ f[k].text = g[k].text
    BY <2>2, <2>3, <2>5 DEF Participates
  <2> QED
    BY <2>2, <2>6
<1>7. m \in T
  <2> HIDE DEF T
  <2>1. 0..m \subseteq T
    BY <1>1, <1>5, <1>6, Inductive
  <2> QED
    BY <1>1, <2>1
<1> QED
  BY <1>3, <1>4, <1>7 DEF PassPathIs

LEMMA TurnAlike ==
  ASSUME Budget \in Nat, injected.items \in Seq(Items),
         NEW total \in Nat, NEW h \in Nat, total + h <= Budget,
         NEW s, NEW u, Alike(s, u, total, h)
  PROVE  Alike(Turn(s, h, injected.items), Turn(u, h, injected.items), total, h)
<1>1. s \in States /\ u \in States /\ s.queue = u.queue /\ u.additions = s.additions
  BY DEF Alike
<1>2. (s.additions >= h \/ s.total >= Budget) <=> s.additions >= h
  BY <1>1 DEF Alike, States
<1>3. (u.additions >= h \/ u.total >= Budget) <=> s.additions >= h
  BY <1>1 DEF Alike, States
<1>4. CASE s.queue = <<>> \/ s.additions >= h
  BY <1>1, <1>2, <1>3, <1>4 DEF Turn
<1>5. CASE ~(s.queue = <<>> \/ s.additions >= h)
  <2>1. /\ Turn(s, h, injected.items) = Expanded(s, h, injected.items)
        /\ Turn(u, h, injected.items) = Expanded(u, h, injected.items)
    BY <1>1, <1>2, <1>3, <1>5 DEF Turn
  <2>2. PICK v, p, q : /\ v = Head(s.queue) /\ p = Pass(Dequeued(s), v, h)
                       /\ q = Pass(Dequeued(u), v, h)
    OBVIOUS
  <2>3. Dequeued(s) \in States /\ Dequeued(u) \in States /\ v \in Texts
    BY <1>1, <1>5, <2>2, DequeuedTyped
  <2>4. Alike(Dequeued(s), Dequeued(u), total, h)
    BY <1>1, <2>3 DEF Alike, Dequeued, States
  <2>5. Alike(p.state, q.state, total, h) /\ p.text = q.text
    BY <2>2, <2>3, <2>4, PassAlike
  <2>6. p.text \in Texts
    BY <2>2, <2>3, PassTyped DEF Passes
  <2>7. Alike(Added(p.state, p.text, h), Added(q.state, q.text, h), total, h)
    BY <2>5, <2>6, AddedAlike
  <2>8. /\ Expanded(s, h, injected.items) =
               IF Expandable(v, injected.items) THEN Added(p.state, p.text, h)
                            ELSE p.state
        /\ Expanded(u, h, injected.items) =
               IF Expandable(v, injected.items) THEN Added(q.state, q.text, h)
                            ELSE q.state
    BY <1>1, <2>2, ExpandedIs
  <2> QED
    BY <2>1, <2>5, <2>7, <2>8
<1> QED
  BY <1>4, <1>5

LEMMA TurnsAlike ==
  ASSUME Budget \in Nat, injected.items \in Seq(Items),
         NEW total \in Nat, NEW h \in Nat, total + h <= Budget,
         NEW s, NEW u, Alike(s, u, total, h)
  PROVE  Alike(Turns(s, h), Turns(u, h), total, h)
<1>1. PICK n : n = Budget + 1 /\ n \in Nat
  OBVIOUS
<1>2. s \in States /\ u \in States
  BY DEF Alike
<1>3. PICK f : TurnsPathIs(f, s, h, n)
  BY <1>1, <1>2, TurnsPath
<1>4. PICK g : TurnsPathIs(g, u, h, n)
  BY <1>1, <1>2, TurnsPath
<1> DEFINE T == {k \in 0..n : Alike(f[k], g[k], total, h)}
<1>5. 0 \in T
  BY <1>1, <1>3, <1>4 DEF TurnsPathIs
<1>6. ASSUME NEW k \in 1..n, k - 1 \in T PROVE k \in T
  <2>1. /\ f[k] = Turn(f[k - 1], h, injected.items)
        /\ g[k] = Turn(g[k - 1], h, injected.items) /\ k \in 0..n
    BY <1>1, <1>3, <1>4 DEF TurnsPathIs
  <2>2. Alike(f[k - 1], g[k - 1], total, h)
    BY <1>6
  <2>3. Alike(f[k], g[k], total, h)
    BY <2>1, <2>2, TurnAlike
  <2> QED
    BY <2>1, <2>3
<1>7. n \in T
  <2> HIDE DEF T
  <2>1. 0..n \subseteq T
    BY <1>1, <1>5, <1>6, Inductive
  <2> QED
    BY <1>1, <2>1
<1> QED
  BY <1>3, <1>4, <1>7 DEF TurnsPathIs

-----------------------------------------------------------------------------
(* A closure that is not truncated has the values of all references in it.  *)

\* The values of the substitutions up to one whose references a variant holds.
Has(s, v, k) ==
  \A j \in 1..k : Includes(v, injected.items[j].reference) =>
                    injected.items[j].value \in Range(s.local) \cup {<<>>}

Served(s) ==
  s.truncated \/
    \A v \in Range(s.local) \ Range(s.queue) : Has(s, v, Len(injected.items))

\* What adding to a state leaves.
Extends(u, s) ==
  /\ s.truncated => u.truncated
  /\ Range(s.local) \subseteq Range(u.local)
  /\ Range(s.queue) \subseteq Range(u.queue)
  /\ Range(u.local) \subseteq Range(s.local) \cup Range(u.queue)

LEMMA ExtendsOn ==
  ASSUME NEW s, NEW u, NEW w, Extends(u, s), Extends(w, u)
  PROVE  Extends(w, s)
BY DEF Extends

LEMMA ExtendsSame ==
  ASSUME NEW s
  PROVE  Extends(s, s)
BY DEF Extends

LEMMA AddedExtends ==
  ASSUME NEW s \in States, NEW v \in Texts, NEW h
  PROVE  /\ Extends(Added(s, v, h), s)
         /\ Added(s, v, h).truncated \/ v \in Range(Added(s, v, h).local) \cup {<<>>}
<1>1. s.local \in Seq(Texts) /\ s.queue \in Seq(Texts)
  BY DEF States
<1>2. CASE v = <<>> \/ Contains(s.local, v)
  <2>1. Added(s, v, h) = s
    BY <1>2 DEF Added
  <2>2. v = <<>> \/ v \in Range(s.local)
    BY <1>1, <1>2 DEF Contains, Range
  <2> QED
    BY <2>1, <2>2, ExtendsSame
<1>3. CASE Added(s, v, h) = [s EXCEPT !.truncated = TRUE]
  <2>1. /\ Added(s, v, h).truncated /\ Added(s, v, h).local = s.local
        /\ Added(s, v, h).queue = s.queue
    BY <1>3 DEF States
  <2> QED
    BY <2>1 DEF Extends
<1>4. CASE Added(s, v, h) =
             [s EXCEPT !.local = Append(@, v), !.queue = Append(@, v),
                       !.additions = @ + 1, !.total = @ + 1]
  <2>1. PICK x : x = Added(s, v, h)
    OBVIOUS
  <2>2. /\ x.truncated = s.truncated /\ x.local = Append(s.local, v)
        /\ x.queue = Append(s.queue, v)
    BY <1>4, <2>1 DEF States
  <2>3. /\ Range(x.local) = Range(s.local) \cup {v}
        /\ Range(x.queue) = Range(s.queue) \cup {v}
    BY <1>1, <2>2, RangeOfAppend
  <2>4. Extends(x, s) /\ v \in Range(x.local)
    BY <2>2, <2>3 DEF Extends
  <2> QED
    BY <2>1, <2>4
<1> QED
  BY <1>2, <1>3, <1>4 DEF Added

LEMMA HasMore ==
  ASSUME NEW s, NEW u, Extends(u, s), NEW v, NEW k, Has(s, v, k)
  PROVE  Has(u, v, k)
BY DEF Has, Extends

LEMMA PassServes ==
  ASSUME injected.items \in Seq(Items), NEW s \in States, NEW v \in Texts,
         NEW h \in Nat, NEW p, p = Pass(s, v, h).state
  PROVE  Extends(p, s) /\ (p.truncated \/ Has(p, v, Len(injected.items)))
<1>1. PICK m : m = Len(injected.items) /\ m \in Nat
  OBVIOUS
<1>2. PICK f : PassPathIs(f, s, v, h, m)
  BY <1>1, PassPath
<1> DEFINE F(k) == /\ Extends(f[k].state, s)
                   /\ f[k].state.truncated \/ Has(f[k].state, v, k)
           T == {k \in 0..m : F(k)}
<1>3. 0 \in T
  <2>1. f[0].state = s /\ 0 \in 0..m
    BY <1>1, <1>2 DEF PassPathIs
  <2>2. Has(s, v, 0)
    BY DEF Has
  <2> QED
    BY <2>1, <2>2, ExtendsSame
<1>4. ASSUME NEW k \in 1..m, k - 1 \in T PROVE k \in T
  <2>1. PICK inj, a : inj = injected.items[k] /\ a = f[k - 1]
    OBVIOUS
  <2>2. f[k] = Participates(a, inj, v, h) /\ inj \in Items /\ k \in 0..m
        /\ a \in Passes
    <3>1. k \in 0..m /\ k - 1 \in 0..m
      BY <1>1
    <3>2. inj \in Items
      BY <1>1, <2>1
    <3>3. f[k] = Participates(a, inj, v, h)
      BY <1>2, <2>1 DEF PassPathIs
    <3>4. a \in Passes
      BY <1>2, <2>1, <3>1 DEF PassPathIs
    <3> QED
      BY <3>1, <3>2, <3>3, <3>4
  <2>3. Extends(a.state, s) /\ (a.state.truncated \/ Has(a.state, v, k - 1))
    BY <1>4, <2>1
  <2>4. a.state \in States /\ inj.value \in Texts
    BY <2>2 DEF Items, Passes
  <2>5. \A j \in 1..k : j \in 1..(k - 1) \/ j = k
    BY <1>1
  <2>6. CASE ~Includes(v, inj.reference)
    <3>1. f[k] = a
      BY <2>2, <2>6 DEF Participates
    <3>2. Has(a.state, v, k - 1) => Has(a.state, v, k)
      BY <2>1, <2>5, <2>6 DEF Has
    <3> QED
      BY <2>2, <2>3, <3>1, <3>2
  <2>7. CASE Includes(v, inj.reference)
    <3>1. PICK x : x = Added(a.state, inj.value, h)
      OBVIOUS
    <3>2. f[k].state = x
      BY <2>2, <2>7, <3>1 DEF Participates
    <3>3. Extends(x, a.state) /\ (x.truncated \/ inj.value \in Range(x.local) \cup {<<>>})
      BY <2>4, <3>1, AddedExtends
    <3>4. Extends(x, s)
      BY <2>3, <3>3, ExtendsOn
    <3>5. ASSUME ~x.truncated PROVE Has(x, v, k)
      <4>1. Has(a.state, v, k - 1)
        BY <2>3, <3>3, <3>5 DEF Extends
      <4>2. Has(x, v, k - 1)
        BY <3>3, <4>1, HasMore
      <4> QED
        BY <2>1, <2>5, <3>3, <3>5, <4>2 DEF Has
    <3> QED
      BY <2>2, <3>2, <3>4, <3>5
  <2> QED
    BY <2>6, <2>7
<1>5. m \in T
  <2> HIDE DEF T
  <2>1. 0..m \subseteq T
    BY <1>1, <1>3, <1>4, Inductive
  <2> QED
    BY <1>1, <2>1
<1> QED
  BY <1>1, <1>2, <1>5 DEF PassPathIs

LEMMA ServedOn ==
  ASSUME NEW s, Served(s), NEW d, d.local = s.local, d.truncated = s.truncated,
         NEW v, Range(s.queue) = {v} \cup Range(d.queue),
         NEW u, Extends(u, d), u.truncated \/ Has(u, v, Len(injected.items))
  PROVE  Served(u)
<1>1. SUFFICES ASSUME ~u.truncated, NEW w \in Range(u.local) \ Range(u.queue)
               PROVE  Has(u, w, Len(injected.items))
  BY DEF Served
<1>2. CASE w = v
  BY <1>1, <1>2
<1>3. CASE w # v
  <2>1. w \in Range(s.local) \ Range(s.queue) /\ ~s.truncated
    BY <1>1, <1>3 DEF Extends
  <2>2. Has(s, w, Len(injected.items))
    BY <2>1 DEF Served
  <2>3. Has(d, w, Len(injected.items))
    BY <2>2 DEF Has
  <2> QED
    BY <2>3, HasMore
<1> QED
  BY <1>2, <1>3

LEMMA TurnServes ==
  ASSUME injected.items \in Seq(Items), NEW s \in States, NEW h \in Nat, Served(s)
  PROVE  Served(Turn(s, h, injected.items))
<1>1. ASSUME s.queue # <<>> PROVE Served(Expanded(s, h, injected.items))
  <2>1. PICK v, d, p, q : /\ v = Head(s.queue) /\ d = Dequeued(s)
                          /\ p = Pass(d, v, h) /\ q = p.state
    OBVIOUS
  <2>2. /\ d \in States /\ v \in Texts /\ Range(s.queue) = {v} \cup Range(d.queue)
        /\ d.local = s.local /\ d.truncated = s.truncated
    BY <1>1, <2>1, DequeuedTyped
  <2>3. p.state \in States /\ p.text \in Texts
    BY <2>1, <2>2, PassTyped DEF Passes
  <2>4. Extends(q, d) /\ (q.truncated \/ Has(q, v, Len(injected.items)))
    BY <2>1, <2>2, PassServes
  <2>5. PICK a : a = Added(q, p.text, h)
    OBVIOUS
  <2>6. Extends(a, q)
    BY <2>1, <2>3, <2>5, AddedExtends
  <2>7. Extends(a, d) /\ (a.truncated \/ Has(a, v, Len(injected.items)))
    <3>1. Extends(a, d)
      BY <2>4, <2>6, ExtendsOn
    <3>2. q.truncated => a.truncated
      BY <2>6 DEF Extends
    <3>3. Has(q, v, Len(injected.items)) => Has(a, v, Len(injected.items))
      BY <2>6, HasMore
    <3> QED
      BY <2>4, <3>1, <3>2, <3>3
  <2>8. Served(q) /\ Served(a)
    BY <2>2, <2>4, <2>7, ServedOn
  <2>9. Expanded(s, h, injected.items) =
            IF Expandable(v, injected.items) THEN Added(p.state, p.text, h)
                         ELSE p.state
    BY <2>1, ExpandedIs
  <2> QED
    BY <2>1, <2>5, <2>8, <2>9
<1> QED
  BY <1>1 DEF Turn

LEMMA TurnsServe ==
  ASSUME Budget \in Nat, injected.items \in Seq(Items), NEW s \in States,
         NEW h \in Nat, Served(s)
  PROVE  Served(Turns(s, h))
<1>1. PICK n : n = Budget + 1 /\ n \in Nat
  OBVIOUS
<1>2. PICK f : TurnsPathIs(f, s, h, n)
  BY <1>1, TurnsPath
<1> DEFINE T == {k \in 0..n : Served(f[k])}
<1>3. 0 \in T
  BY <1>1, <1>2 DEF TurnsPathIs
<1>4. ASSUME NEW k \in 1..n, k - 1 \in T PROVE k \in T
  <2>1. /\ f[k] = Turn(f[k - 1], h, injected.items)
        /\ f[k - 1] \in States /\ k \in 0..n
    BY <1>1, <1>2 DEF TurnsPathIs
  <2>2. Served(f[k])
    BY <1>4, <2>1, TurnServes
  <2> QED
    BY <2>1, <2>2
<1>5. n \in T
  <2> HIDE DEF T
  <2>1. 0..n \subseteq T
    BY <1>1, <1>3, <1>4, Inductive
  <2> QED
    BY <1>1, <2>1
<1> QED
  BY <1>2, <1>5 DEF TurnsPathIs

\* A closure, and whether the states at its end are worth another turn.
LEMMA ClosedIs ==
  ASSUME NEW base, NEW h, NEW total, NEW e, e = Turns(Opening(base, total), h)
  PROVE  Closed(base, h, total, injected.items) =
           [e EXCEPT !.truncated =
              @ \/ \E k \in DOMAIN e.queue : Expandable(e.queue[k], injected.items)]
<1>1. Closed(base, h, total, injected.items) =
        [Turns(Opening(base, total), h) EXCEPT !.truncated =
           @ \/ \E k \in DOMAIN Turns(Opening(base, total), h).queue :
                  Expandable(Turns(Opening(base, total), h).queue[k], injected.items)]
  BY DEF Closed, Turns, Opening
<1> QED
  BY <1>1

LEMMA ClosedTyped ==
  ASSUME Budget \in Nat, injected.items \in Seq(Items), NEW base \in Texts,
         NEW h \in Nat, NEW total \in Nat
  PROVE  Closed(base, h, total, injected.items) \in States
<1>1. PICK e : e = Turns(Opening(base, total), h)
  OBVIOUS
<1>2. e \in States
  BY <1>1, OpeningTyped, TurnsTyped
<1>3. PICK more : more = \E k \in DOMAIN e.queue :
          Expandable(e.queue[k], injected.items)
  OBVIOUS
<1>4. Closed(base, h, total, injected.items) = [e EXCEPT !.truncated = @ \/ more]
  BY <1>1, <1>3, ClosedIs
<1>5. (e.truncated \/ more) \in BOOLEAN
  OBVIOUS
<1> QED
  BY <1>2, <1>4, <1>5 DEF States

\* With its share left, a closure is what it would be alone, and uses up no
\* more than its share.
LEMMA ClosedAlike ==
  ASSUME Budget \in Nat, injected.items \in Seq(Items), NEW base \in Texts,
         NEW h \in Nat, NEW total \in Nat, total + h <= Budget
  PROVE  /\ Closed(base, h, total, injected.items).local
              = Closed(base, h, 0, injected.items).local
         /\ Closed(base, h, total, injected.items).total <= total + h
<1>1. PICK d, e : /\ d = Turns(Opening(base, total), h)
                  /\ e = Turns(Opening(base, 0), h)
  OBVIOUS
<1>2. Alike(Opening(base, total), Opening(base, 0), total, h)
  <2>1. Opening(base, total) \in States /\ Opening(base, 0) \in States
    BY OpeningTyped
  <2> QED
    BY <2>1 DEF Alike, Opening
<1>3. Alike(d, e, total, h)
  BY <1>1, <1>2, TurnsAlike
<1>4. /\ Closed(base, h, total, injected.items) =
           [d EXCEPT !.truncated =
              @ \/ \E k \in DOMAIN d.queue : Expandable(d.queue[k], injected.items)]
      /\ Closed(base, h, 0, injected.items) =
           [e EXCEPT !.truncated =
              @ \/ \E k \in DOMAIN e.queue : Expandable(e.queue[k], injected.items)]
  BY <1>1, ClosedIs
<1>5. d \in States /\ e \in States
  BY <1>3 DEF Alike
<1>6. /\ Closed(base, h, total, injected.items).local = d.local
      /\ Closed(base, h, 0, injected.items).local = e.local
      /\ Closed(base, h, total, injected.items).total = d.total
  BY <1>4, <1>5 DEF States
<1>7. d.local = e.local /\ d.total <= total + h
  <2>1. PICK a : a = d.additions /\ a \in Nat
    BY <1>5 DEF States
  <2>2. d.total = total + a /\ a <= h /\ d.local = e.local
    BY <1>3, <2>1 DEF Alike
  <2> QED
    BY <2>1, <2>2
<1> QED
  BY <1>6, <1>7

LEMMA ClosedServes ==
  ASSUME Budget \in Nat, injected.items \in Seq(Items), NEW base \in Texts,
         NEW h \in Nat, NEW total \in Nat, NEW c, c =
             Closed(base, h, total, injected.items)
  PROVE  ~c.truncated =>
           \A inj \in Range(injected.items) :
             (\E v \in Range(c.local) : Includes(v, inj.reference)) =>
                inj.value \in Range(c.local) \cup {<<>>}
<1>1. PICK s, e : s = Opening(base, total) /\ e = Turns(s, h)
  OBVIOUS
<1>2. s \in States /\ e \in States
  BY <1>1, OpeningTyped, TurnsTyped
<1>3. Served(s)
  <2>1. Range(s.local) \ Range(s.queue) = {}
    BY <1>1 DEF Opening
  <2> QED
    BY <2>1 DEF Served
<1>4. Served(e)
  BY <1>1, <1>2, <1>3, TurnsServe
<1>5. c = [e EXCEPT !.truncated =
             @ \/ \E k \in DOMAIN e.queue : Expandable(e.queue[k], injected.items)]
  BY <1>1, ClosedIs
<1>6. /\ c.local = e.local
      /\ c.truncated = (e.truncated \/ \E k \in DOMAIN e.queue :
             Expandable(e.queue[k], injected.items))
  BY <1>2, <1>5 DEF States
<1>7. SUFFICES ASSUME ~c.truncated, NEW inj \in Range(injected.items),
                      NEW v \in Range(e.local), Includes(v, inj.reference)
               PROVE  inj.value \in Range(e.local) \cup {<<>>}
  BY <1>6
<1>8. PICK m : m = Len(injected.items) /\ DOMAIN injected.items = 1..m
  OBVIOUS
<1>9. PICK j \in 1..m : inj = injected.items[j]
  BY <1>7, <1>8 DEF Range
<1>10. Expandable(v, injected.items)
  BY <1>7, <1>8, <1>9 DEF Expandable
<1>11. v \notin Range(e.queue) /\ ~e.truncated
  BY <1>6, <1>7, <1>10 DEF Range
<1>12. Has(e, v, m)
  BY <1>4, <1>7, <1>8, <1>11 DEF Served
<1> QED
  BY <1>7, <1>9, <1>12 DEF Has

-----------------------------------------------------------------------------
(* The closures of all bases.                                              *)

Closures == [total : Nat, all : Seq(States)]

LEMMA AlsoClosedTyped ==
  ASSUME Budget \in Nat, injected.items \in Seq(Items), NEW acc \in Closures,
         NEW base \in Texts, NEW h \in Nat
  PROVE  AlsoClosed(acc, base, h, injected.items) \in Closures
<1>1. PICK c : c = Closed(base, h, acc.total, injected.items)
  OBVIOUS
<1>2. acc.total \in Nat /\ acc.all \in Seq(States)
  BY DEF Closures
<1>3. c \in States
  BY <1>1, <1>2, ClosedTyped
<1>4. c.total \in Nat /\ Append(acc.all, c) \in Seq(States)
  BY <1>2, <1>3, AppendProperties DEF States
<1> QED
  BY <1>1, <1>4 DEF AlsoClosed, Closures

Closing(bases, h) ==
  FoldLeft(LAMBDA acc, base : AlsoClosed(acc, base, h, injected.items),
           [total |-> 0, all |-> <<>>], bases)

\* One base is closed after the other.
ClosingPathIs(f, bases, h, n) ==
  /\ f[0] = [total |-> 0, all |-> <<>>]
  /\ \A k \in 1..n : f[k] = AlsoClosed(f[k - 1], bases[k], h, injected.items)
  /\ \A k \in 0..n : f[k] \in Closures
  /\ Closing(bases, h) = f[n]

LEMMA ClosingPath ==
  ASSUME Budget \in Nat, injected.items \in Seq(Items), NEW bases \in Seq(Texts),
         NEW h \in Nat, NEW n, n = Len(bases)
  PROVE  \E f : ClosingPathIs(f, bases, h, n)
<1> DEFINE base == [total |-> 0, all |-> <<>>]
           seq == bases
           g == [p \in Closures \X (1..n) |->
               AlsoClosed(p[1], seq[p[2]], h, injected.items)]
           Iterates(z) == z = [x \in SUBSET (DOMAIN seq) |->
                                 IF x = {} THEN base
                                 ELSE AlsoClosed(z[x \ {Max(x)}], seq[Max(x)], h, injected.items)]
           it == CHOOSE z : Iterates(z)
<1>1. n \in Nat /\ DOMAIN seq = 1..n /\ base \in Closures
      /\ \A k \in 1..n : seq[k] \in Texts
  <2>1. n \in Nat /\ DOMAIN seq = 1..n /\ \A k \in 1..n : seq[k] \in Texts
    OBVIOUS
  <2>2. base \in Closures
    BY DEF Closures
  <2> QED
    BY <2>1, <2>2
<1>2. Closing(bases, h) = it[DOMAIN seq]
  BY DEF Closing, FoldLeft, MapThenFoldSet
<1>3. \A k \in 1..n : seq[k] = bases[k]
  BY <1>1
<1> HIDE DEF seq
<1>4. g \in [Closures \X (1..n) -> Closures]
  BY <1>1, AlsoClosedTyped
<1>5. \A q \in Closures, k \in 1..n : g[q, k] =
          AlsoClosed(q, seq[k], h, injected.items)
  OBVIOUS
<1>6. PICK z : Within(z, base, g, n, Closures)
  BY <1>1, <1>4, FoldsWithin
<1> HIDE DEF g, base
<1>7. Iterates(it)
  <2>1. \A x \in SUBSET (1..n) :
          x # {} => z[x] =
              AlsoClosed(z[x \ {Max(x)}], seq[Max(x)], h, injected.items)
    BY <1>5, <1>6 DEF Within
  <2>2. Iterates(z)
    BY <1>1, <1>6, <2>1 DEF Within
  <2> QED
    BY <2>2
<1> HIDE DEF it
<1>8. Computes(it, base, g, n, Closures)
  <2>1. \A x \in SUBSET (1..n) :
          x # {} /\ it[x \ {Max(x)}] \in Closures =>
            it[x] = g[it[x \ {Max(x)}], Max(x)]
    <3>1. \A x \in SUBSET (1..n) : x # {} => Max(x) \in 1..n
      BY <1>6 DEF Within
    <3>2. \A x \in SUBSET (1..n) :
            x # {} => it[x] =
                AlsoClosed(it[x \ {Max(x)}], seq[Max(x)], h, injected.items)
      BY <1>1, <1>7
    <3> QED
      BY <1>5, <3>1, <3>2
  <2>2. it[{}] = base
    BY <1>1, <1>7
  <2> QED
    BY <1>1, <1>4, <2>1, <2>2 DEF Computes
<1>11. PICK f : Path(f, base, g, n, Closures) /\ f[n] = it[1..n]
  BY <1>1, <1>8, FoldsAsPath
<1>12. \A k \in 1..n : f[k] = AlsoClosed(f[k - 1], bases[k], h, injected.items)
  <2>1. ASSUME NEW k \in 1..n PROVE f[k] =
            AlsoClosed(f[k - 1], bases[k], h, injected.items)
    <3>1. k - 1 \in 0..n
      BY <1>1
    <3>2. f[k] = AlsoClosed(f[k - 1], seq[k], h, injected.items)
      BY <1>5, <1>11, <3>1 DEF Path
    <3> QED
      BY <1>3, <3>2
  <2> QED
    BY <2>1
<1>13. f[0] = base /\ \A k \in 0..n : f[k] \in Closures
  BY <1>11 DEF Path
<1> QED
  BY <1>1, <1>2, <1>11, <1>12, <1>13 DEF base, ClosingPathIs

LEMMA ShareFits ==
  ASSUME Budget \in Nat \ {0}, NEW n \in Nat \ {0}, n <= Budget
  PROVE  /\ Share(n) = Budget \div n /\ Share(n) \in Nat
         /\ n * Share(n) <= Budget
<1>1. Share(n) = Budget \div n
  BY DEF Share
<1>2. PICK h : h = Budget \div n
  OBVIOUS
<1>3. h \in Nat /\ n * h <= Budget
  BY <1>2
<1> QED
  BY <1>1, <1>2, <1>3

LEMMA ProductsGrow ==
  ASSUME NEW k \in Nat \ {0}, NEW n \in Nat, k <= n, NEW h \in Nat
  PROVE  /\ (k - 1) * h \in Nat /\ (k - 1) * h + h = k * h
         /\ k * h <= n * h
OBVIOUS

\* Each base was closed with no more than the shares of those before it gone.
InTurn(x, bases, h, n) ==
  /\ x \in Seq(States) /\ Len(x) = n
  /\ \A i \in 1..n : \E total \in Nat :
       total + h <= Budget /\ x[i] = Closed(bases[i], h, total, injected.items)

LEMMA ClosingIs ==
  ASSUME Budget \in Nat, injected.items \in Seq(Items), NEW bases \in Seq(Texts),
         NEW h \in Nat, NEW n, n = Len(bases), n * h <= Budget
  PROVE  InTurn(Closing(bases, h).all, bases, h, n)
<1>1. n \in Nat
  OBVIOUS
<1>2. PICK f : ClosingPathIs(f, bases, h, n)
  BY ClosingPath
<1> DEFINE F(k) == /\ Len(f[k].all) = k /\ f[k].total <= k * h
                   /\ \A i \in 1..k : \E total \in Nat :
                        /\ total + h <= Budget
                        /\ f[k].all[i] = Closed(bases[i], h, total, injected.items)
           T == {k \in 0..n : F(k)}
<1>3. 0 \in T
  <2>1. f[0] = [total |-> 0, all |-> <<>>] /\ 0 \in 0..n /\ 0 * h = 0
    BY <1>1, <1>2 DEF ClosingPathIs
  <2> QED
    BY <2>1
<1>4. ASSUME NEW k \in 1..n, k - 1 \in T PROVE k \in T
  <2>1. PICK a, x, t : a = f[k - 1] /\ t = a.total /\ x = a.all
    OBVIOUS
  <2>2. PICK c, base : base = bases[k] /\ c = Closed(base, h, t, injected.items)
    OBVIOUS
  <2>3. /\ f[k] = AlsoClosed(a, base, h, injected.items)
        /\ a \in Closures /\ base \in Texts
        /\ k \in 0..n /\ k - 1 \in Nat
    BY <1>1, <1>2, <2>1, <2>2 DEF ClosingPathIs
  <2>4. t \in Nat /\ x \in Seq(States)
    BY <2>1, <2>3 DEF Closures
  <2>5. /\ Len(x) = k - 1 /\ t <= (k - 1) * h
        /\ \A i \in 1..(k - 1) : \E total \in Nat :
             total + h <= Budget /\ x[i] =
                 Closed(bases[i], h, total, injected.items)
    BY <1>4, <2>1
  <2>6. (k - 1) * h \in Nat /\ (k - 1) * h + h = k * h /\ k * h <= n * h
    BY <1>1, ProductsGrow
  <2>7. t + h <= Budget /\ t + h <= k * h /\ n * h \in Nat /\ k * h \in Nat
    BY <1>1, <2>4, <2>5, <2>6
  <2>8. c.total <= t + h /\ c \in States /\ c.total \in Nat
    <3>1. c.total <= t + h
      BY <2>2, <2>3, <2>4, <2>7, ClosedAlike
    <3>2. c \in States
      BY <2>2, <2>3, <2>4, ClosedTyped
    <3> QED
      BY <3>1, <3>2 DEF States
  <2>9. c.total <= k * h
    BY <2>4, <2>7, <2>8
  <2>10. f[k] = [total |-> c.total, all |-> Append(x, c)]
    BY <2>1, <2>2, <2>3 DEF AlsoClosed
  <2>11. /\ Len(Append(x, c)) = k /\ Append(x, c)[k] = c
         /\ \A i \in 1..(k - 1) : Append(x, c)[i] = x[i]
    BY <2>3, <2>4, <2>5, <2>8, AppendProperties
  <2>12. ASSUME NEW i \in 1..k
         PROVE  \E total \in Nat :
                  /\ total + h <= Budget
                  /\ Append(x, c)[i] = Closed(bases[i], h, total, injected.items)
    <3>1. i \in 1..(k - 1) \/ i = k
      BY <2>3
    <3> QED
      BY <2>2, <2>4, <2>5, <2>7, <2>11, <3>1
  <2>13. F(k)
    BY <2>9, <2>10, <2>11, <2>12
  <2> QED
    BY <2>3, <2>13
<1>5. n \in T
  <2> HIDE DEF T
  <2>1. 0..n \subseteq T
    BY <1>1, <1>3, <1>4, Inductive
  <2> QED
    BY <1>1, <2>1
<1>6. f[n].all \in Seq(States) /\ Closing(bases, h) = f[n]
  BY <1>1, <1>2 DEF ClosingPathIs, Closures
<1> QED
  BY <1>5, <1>6 DEF InTurn

\* What the closure of a base has to be, by the record that is kept of it.
FairTo(mine, base, share) ==
  /\ mine.variants = Closed(base, share, 0, injected.items).local
  /\ ~mine.truncated => \A inj \in Range(injected.items) :
       (\E v \in Range(mine.variants) : Includes(v, inj.reference))
         => inj.value \in Range(mine.variants) \cup {<<>>}

LEMMA DerivedIsFair ==
  ASSUME Budget \in Nat \ {0}, injected.items \in Seq(Items),
         NEW bases \in Seq(Texts), Len(bases) <= Budget, NEW k \in DOMAIN bases
  PROVE  FairTo(Derived(bases, injected.items).perBase[k], bases[k],
                Budget \div Len(bases))
<1>1. PICK n, h : n = Len(bases) /\ h = Share(n)
  OBVIOUS
<1>2. n \in Nat \ {0} /\ n <= Budget /\ k \in 1..n /\ bases[k] \in Texts
  BY <1>1
<1>3. h = Budget \div n /\ h \in Nat /\ n * h <= Budget
  BY <1>1, <1>2, ShareFits
<1>4. PICK x : x = Closing(bases, h).all
  OBVIOUS
<1>5. InTurn(x, bases, h, n)
  <2>1. Budget \in Nat /\ n = Len(bases)
    BY <1>1
  <2> QED
    BY <1>3, <1>4, <2>1, ClosingIs
<1>6. Derived(bases, injected.items) = Collected(bases, x)
  <2>1. Derived(bases, injected.items) =
            Collected(bases, Closing(bases, Share(Len(bases))).all)
    BY DEF Derived, Closing
  <2> QED
    BY <1>1, <1>4, <2>1
<1>7. Derived(bases, injected.items).perBase[k] =
          [variants |-> x[k].local, truncated |-> x[k].truncated]
  <2>1. k \in DOMAIN x
    BY <1>2, <1>5 DEF InTurn
  <2> QED
    BY <1>6, <2>1 DEF Collected
<1>8. PICK total \in Nat :
        /\ total + h <= Budget
        /\ x[k] = Closed(bases[k], h, total, injected.items)
  <2>1. \E total \in Nat :
          /\ total + h <= Budget
          /\ x[k] = Closed(bases[k], h, total, injected.items)
    BY <1>2, <1>5 DEF InTurn
  <2> QED
    BY <2>1
<1>9. x[k].local = Closed(bases[k], h, 0, injected.items).local
  <2>1. PICK base : base = bases[k] /\ base \in Texts
    BY <1>2
  <2>2. Budget \in Nat /\ h \in Nat /\ total \in Nat /\ total + h <= Budget
    BY <1>3, <1>8
  <2>3. Closed(base, h, total, injected.items).local =
            Closed(base, h, 0, injected.items).local
    BY <2>1, <2>2, ClosedAlike
  <2> QED
    BY <1>8, <2>1, <2>3
<1>10. ~x[k].truncated => \A inj \in Range(injected.items) :
         (\E v \in Range(x[k].local) : Includes(v, inj.reference))
           => inj.value \in Range(x[k].local) \cup {<<>>}
  BY <1>2, <1>3, <1>8, ClosedServes
<1> QED
  BY <1>1, <1>3, <1>7, <1>9, <1>10 DEF FairTo

-----------------------------------------------------------------------------
(* Parts of texts.                                                         *)

LEMMA PartOfText ==
  ASSUME NEW t \in Texts, NEW m \in Int, m >= 1, NEW n \in Int, n <= Len(t)
  PROVE  SubSeq(t, m, n) \in Texts
<1>1. \A i \in m..n : t[i] \in Atoms
  <2>1. \A i \in m..n : i \in 1..Len(t)
    BY DEF Texts
  <2> QED
    BY <2>1 DEF Texts
<1> QED
  BY <1>1, SubSeqProperties DEF Texts

LEMMA MinOf ==
  ASSUME NEW T, T \subseteq Nat, T # {}
  PROVE  Min(T) \in T /\ \A y \in T : Min(T) <= y
<1>1. \E x \in T : \A y \in T : x <= y
  BY LeastNumber
<1>2. \E x : x \in T /\ \A y \in T : x =< y
  BY <1>1
<1> QED
  BY <1>2 DEF Min

\* The first of the numbers from one on, or the one past the end.
LEMMA MinFrom ==
  ASSUME NEW n \in Nat, NEW a \in Nat, NEW D, D \subseteq a..n
  PROVE  /\ Min(D \cup {n + 1}) \in Nat /\ Min(D \cup {n + 1}) <= n + 1
         /\ a <= n + 1 => a <= Min(D \cup {n + 1})
<1>1. D \cup {n + 1} \subseteq Nat /\ D \cup {n + 1} # {}
  OBVIOUS
<1>2. PICK m : m = Min(D \cup {n + 1})
  OBVIOUS
<1>3. m \in D \cup {n + 1} /\ m <= n + 1
  BY <1>1, <1>2, MinOf
<1>4. m \in a..n \/ m = n + 1
  BY <1>3
<1> QED
  BY <1>2, <1>3, <1>4

LEMMA FirstIn ==
  ASSUME NEW t \in Texts, NEW a \in Nat, NEW S
  PROVE  /\ First(t, a, S) \in Nat /\ First(t, a, S) <= Len(t) + 1
         /\ a <= Len(t) + 1 => a <= First(t, a, S)
<1>1. PICK n : n = Len(t) /\ n \in Nat
  BY DEF Texts
<1>2. PICK D : D = {k \in a..n : t[k] \in S}
  OBVIOUS
<1>3. D \subseteq a..n /\ First(t, a, S) = Min(D \cup {n + 1})
  BY <1>1, <1>2 DEF First
<1> QED
  BY <1>1, <1>3, MinFrom

LEMMA TrimTyped ==
  ASSUME NEW t \in Texts
  PROVE  Trim(t) \in Texts
<1>1. PICK n : n = Len(t) /\ n \in Nat /\ DOMAIN t = 1..n
  BY DEF Texts
<1>2. PICK D : D = {k \in DOMAIN t : t[k] # " "}
  OBVIOUS
<1>3. D \subseteq 1..n
  BY <1>1, <1>2
<1>4. CASE D = {}
  <2>1. Trim(t) = <<>>
    BY <1>2, <1>4 DEF Trim
  <2> QED
    BY <2>1 DEF Texts
<1>5. CASE D # {}
  <2>1. Min(D) \in D
    <3>1. D \subseteq Nat
      BY <1>3
    <3> QED
      BY <1>5, <3>1, MinOf
  <2>2. Max(D) \in D
    BY <1>1, <1>3, <1>5, GreatestIn
  <2>3. /\ Min(D) \in Int /\ Min(D) >= 1
        /\ Max(D) \in Int /\ Max(D) <= Len(t)
    <3>1. Min(D) \in 1..n /\ Max(D) \in 1..n
      BY <1>3, <2>1, <2>2
    <3> QED
      BY <1>1, <3>1
  <2>4. Trim(t) = SubSeq(t, Min(D), Max(D))
    BY <1>2, <1>5 DEF Trim
  <2> QED
    BY <2>3, <2>4, PartOfText
<1> QED
  BY <1>4, <1>5

\* Two of an atom in a row are both in the text.
LEMMA TwiceIn ==
  ASSUME NEW t \in Texts, NEW i \in Int, NEW a, Twice(t, i, a)
  PROVE  i < Len(t)
BY DEF Twice

-----------------------------------------------------------------------------
(* The chain stage.                                                        *)

\* What becomes of a candidate.
Readings(t) ==
  {c \in [is : {"open", "closed", "abandoned"}, at : Nat] :
     /\ 1 <= c.at /\ c.at <= Len(t) + 1
     /\ c.is = "closed" => c.at < Len(t)}

LEMMA ReadingTyped ==
  ASSUME NEW t \in Texts, NEW c \in Readings(t), NEW j \in 1..Len(t)
  PROVE  Reading(t, c, j) \in Readings(t)
<1>1. PICK n : n = Len(t) /\ n \in Nat
  BY DEF Texts
<1>2. PICK D : D = {i \in (j + 1)..n : t[i] # " "}
  OBVIOUS
<1>3. PICK k : k = Min(D \cup {n + 1})
  OBVIOUS
<1>4. k \in Nat /\ k <= n + 1 /\ 1 <= k
  <2>1. j + 1 \in Nat /\ j + 1 <= n + 1 /\ 1 <= j + 1
    BY <1>1
  <2>0. D \subseteq (j + 1)..n
    BY <1>2
  <2>2. k \in Nat /\ k <= n + 1 /\ j + 1 <= k
    BY <1>1, <1>3, <2>0, <2>1, MinFrom
  <2> QED
    BY <2>1, <2>2
<1>5. PICK close : close = First(t, k + 1, {t[k]})
  OBVIOUS
<1>6. close \in Nat /\ close <= n + 1 /\ (k <= n => k + 1 <= close)
  <2>1. k + 1 \in Nat
    BY <1>4
  <2> QED
    BY <1>1, <1>4, <1>5, <2>1, FirstIn
<1>7. Reading(t, c, j) =
        IF c.is # "open" \/ j < c.at THEN c
        ELSE IF Twice(t, j, "}") THEN [is |-> "closed", at |-> j]
        ELSE IF t[j] = "}" THEN [is |-> "abandoned", at |-> j]
        ELSE IF t[j] # "[" THEN [is |-> "open", at |-> j + 1]
        ELSE IF k > Len(t) \/ t[k] \notin Quotes THEN [is |-> "open", at |-> k]
        ELSE [is |-> "open", at |-> IF close > Len(t) THEN close ELSE close + 1]
  BY <1>1, <1>2, <1>3, <1>5 DEF Reading
<1>8. \A w, i : /\ w \in {"open", "abandoned"} /\ i \in Nat /\ 1 <= i /\ i <= n + 1
                => [is |-> w, at |-> i] \in Readings(t)
  BY <1>1 DEF Readings
<1>9. Twice(t, j, "}") => [is |-> "closed", at |-> j] \in Readings(t)
  <2>1. Twice(t, j, "}") => j < n
    BY <1>1 DEF Twice
  <2>2. j \in Nat /\ 1 <= j /\ j <= n + 1
    BY <1>1
  <2> QED
    BY <1>1, <2>1, <2>2 DEF Readings
<1>10. j \in Nat /\ 1 <= j /\ j <= n + 1 /\ j + 1 \in Nat /\ 1 <= j + 1 /\ j + 1 <= n + 1
  BY <1>1
<1>11. CASE k <= n
  <2>1. close + 1 \in Nat /\ 1 <= close /\ 1 <= close + 1
        /\ (~(close > n) => close + 1 <= n + 1)
    BY <1>1, <1>4, <1>6, <1>11
  <2>2. [is |-> "open", at |-> IF close > Len(t) THEN close ELSE close + 1]
          \in Readings(t)
    BY <1>1, <1>6, <1>8, <2>1
  <2> QED
    BY <1>4, <1>7, <1>8, <1>9, <1>10, <2>2
<1>12. CASE ~(k <= n)
  <2>1. k > Len(t)
    BY <1>1, <1>4, <1>12
  <2> QED
    BY <1>4, <1>7, <1>8, <1>9, <1>10, <2>1
<1> QED
  BY <1>11, <1>12

\* A candidate is read from atom to atom.
LEMMA ReadingsStay ==
  ASSUME NEW t \in Texts, NEW n, n = Len(t), NEW start \in Nat, 1 <= start,
         start <= n + 1
  PROVE  \E q \in Readings(t) : Candidate(t, start) = q
<1> DEFINE base == [is |-> "open", at |-> start]
           seq == [i \in DOMAIN t |-> i]
           g == [p \in Readings(t) \X (1..n) |-> Reading(t, p[1], seq[p[2]])]
           Iterates(z) == z = [x \in SUBSET (DOMAIN seq) |->
                                 IF x = {} THEN base
                                 ELSE Reading(t, z[x \ {Max(x)}], seq[Max(x)])]
           it == CHOOSE z : Iterates(z)
<1>1. n \in Nat /\ DOMAIN seq = 1..n /\ base \in Readings(t)
      /\ \A i \in 1..n : seq[i] = i
  BY DEF Texts, Readings
<1>2. Candidate(t, start) = it[DOMAIN seq]
  BY DEF Candidate, FoldLeftDomain, FoldLeft, MapThenFoldSet
<1> HIDE DEF seq
<1>4. g \in [Readings(t) \X (1..n) -> Readings(t)]
  BY <1>1, ReadingTyped
<1>5. \A q \in Readings(t), k \in 1..n : g[q, k] = Reading(t, q, seq[k])
  OBVIOUS
<1>6. PICK z : Within(z, base, g, n, Readings(t))
  BY <1>1, <1>4, FoldsWithin
<1> HIDE DEF g, base
<1>7. Iterates(it)
  <2>1. \A x \in SUBSET (1..n) :
          x # {} => z[x] = Reading(t, z[x \ {Max(x)}], seq[Max(x)])
    BY <1>5, <1>6 DEF Within
  <2>2. Iterates(z)
    BY <1>1, <1>6, <2>1 DEF Within
  <2> QED
    BY <2>2
<1> HIDE DEF it
<1>8. Computes(it, base, g, n, Readings(t))
  <2>1. \A x \in SUBSET (1..n) :
          x # {} /\ it[x \ {Max(x)}] \in Readings(t) =>
            it[x] = g[it[x \ {Max(x)}], Max(x)]
    <3>1. \A x \in SUBSET (1..n) : x # {} => Max(x) \in 1..n
      BY <1>6 DEF Within
    <3>2. \A x \in SUBSET (1..n) :
            x # {} => it[x] = Reading(t, it[x \ {Max(x)}], seq[Max(x)])
      BY <1>1, <1>7
    <3> QED
      BY <1>5, <3>1, <3>2
  <2>2. it[{}] = base
    BY <1>1, <1>7
  <2> QED
    BY <1>1, <1>4, <2>1, <2>2 DEF Computes
<1>11. PICK f : Path(f, base, g, n, Readings(t)) /\ f[n] = it[1..n]
  BY <1>1, <1>8, FoldsAsPath
<1> QED
  <2>1. n \in 0..n
    BY <1>1
  <2>2. it[1..n] \in Readings(t)
    BY <1>11, <2>1 DEF Path
  <2>3. Candidate(t, start) = it[1..n]
    BY <1>1, <1>2
  <2> QED
    BY <2>2, <2>3

\* What is found in a text: where it starts and ends, and what it encloses.
FoundIn(t) ==
  [start : 1..Len(t), end : {e \in Nat : 1 <= e /\ e <= Len(t) + 1}, inner : Texts]

ChainScans(t) ==
  [next : Nat, opened : Nat, list : Seq(FoundIn(t)), truncated : BOOLEAN]

LEMMA CandidateTyped ==
  ASSUME NEW t \in Texts, NEW i \in 1..Len(t), i < Len(t)
  PROVE  Candidate(t, i + 2) \in Readings(t)
<1>1. i + 2 \in Nat /\ 1 <= i + 2 /\ i + 2 <= Len(t) + 1
  BY DEF Texts
<1>2. \E q \in Readings(t) : Candidate(t, i + 2) = q
  BY <1>1, ReadingsStay
<1> QED
  BY <1>2

LEMMA AfterAbandonedTyped ==
  ASSUME NEW t \in Texts, NEW i \in Nat
  PROVE  AfterAbandoned(t, i) \in Nat
<1> DEFINE E == {j \in i..Len(t) : Twice(t, j, "}")}
           D == {k + 2 : k \in E}
<1>1. E \subseteq i..Len(t)
  OBVIOUS
<1>4. AfterAbandoned(t, i) = Min(D \cup {Len(t) + 1})
  BY DEF AfterAbandoned
<1> HIDE DEF E
<1>2. D \cup {Len(t) + 1} \subseteq Nat
  <2>1. Len(t) + 1 \in Nat
    BY DEF Texts
  <2>2. \A k \in E : k + 2 \in Nat
    BY <1>1
  <2> QED
    BY <2>1, <2>2
<1>3. Min(D \cup {Len(t) + 1}) \in D \cup {Len(t) + 1}
  BY <1>2, MinOf
<1> QED
  BY <1>2, <1>3, <1>4

LEMMA ScannedTyped ==
  ASSUME NEW t \in Texts, NEW scan \in ChainScans(t), NEW i \in 1..Len(t),
         NEW c \in Readings(t)
  PROVE  Scanned(t, scan, i, c) \in ChainScans(t)
<1>1. /\ c.at \in Nat /\ 1 <= c.at /\ c.at <= Len(t) + 1 /\ Len(t) \in Nat
      /\ c.is = "closed" => c.at < Len(t)
  BY DEF Readings, Texts
<1> DEFINE inner == Trim(SubSeq(t, i + 2, c.at - 1))
           next == IF c.is = "closed" THEN c.at + 2
                   ELSE IF c.is = "open" THEN Len(t) + 1
                   ELSE AfterAbandoned(t, c.at)
           ph == [start |-> i, end |-> c.at + 2, inner |-> inner]
           list == IF c.is # "closed" \/ inner = <<>> THEN scan.list
                   ELSE Append(scan.list, ph)
<1>2. Scanned(t, scan, i, c) =
        [scan EXCEPT !.opened = scan.opened + 1, !.next = next, !.list = list]
  BY DEF Scanned
<1>3. inner \in Texts
  <2>1. i + 2 \in Int /\ i + 2 >= 1 /\ c.at - 1 \in Int /\ c.at - 1 <= Len(t)
    BY <1>1
  <2> QED
    BY <2>1, PartOfText, TrimTyped
<1>5. next \in Nat
  <2>1. c.at + 2 \in Nat /\ Len(t) + 1 \in Nat
    BY <1>1
  <2>2. AfterAbandoned(t, c.at) \in Nat
    BY <1>1, AfterAbandonedTyped
  <2> QED
    BY <2>1, <2>2
<1>7. c.is = "closed" => ph \in FoundIn(t)
  <2>1. c.is = "closed" =>
            c.at + 2 \in Nat /\ 1 <= c.at + 2 /\ c.at + 2 <= Len(t) + 1
    BY <1>1
  <2> QED
    BY <1>3, <2>1 DEF FoundIn
<1>9. list \in Seq(FoundIn(t))
  BY <1>7, AppendProperties DEF ChainScans
<1> HIDE DEF next, list
<1>10. scan.opened + 1 \in Nat /\ scan \in ChainScans(t)
  BY DEF ChainScans
<1> QED
  BY <1>2, <1>5, <1>9, <1>10 DEF ChainScans

LEMMA ScanningTyped ==
  ASSUME NEW t \in Texts, NEW scan \in ChainScans(t), NEW i \in 1..Len(t),
         NEW budget
  PROVE  Scanning(t, scan, i, budget) \in ChainScans(t)
<1>1. Twice(t, i, "{") => Candidate(t, i + 2) \in Readings(t)
  <2>1. i < Len(t) => Candidate(t, i + 2) \in Readings(t)
    BY CandidateTyped
  <2>2. Twice(t, i, "{") => i < Len(t)
    BY DEF Twice
  <2> QED
    BY <2>1, <2>2
<1>2. Twice(t, i, "{") => Scanned(t, scan, i, Candidate(t, i + 2)) \in ChainScans(t)
  <2>1. PICK c : c = Candidate(t, i + 2)
    OBVIOUS
  <2>2. c \in Readings(t) => Scanned(t, scan, i, c) \in ChainScans(t)
    BY ScannedTyped
  <2> QED
    BY <1>1, <2>1, <2>2
<1>3. [scan EXCEPT !.next = Len(t) + 1, !.truncated = TRUE] \in ChainScans(t)
  <2>1. Len(t) + 1 \in Nat
    BY DEF Texts
  <2> QED
    BY <2>1 DEF ChainScans
<1> QED
  BY <1>2, <1>3 DEF Scanning

\* A text is scanned from atom to atom.
LEMMA ScansStay ==
  ASSUME NEW t \in Texts, NEW n, n = Len(t), NEW budget
  PROVE  \E q \in ChainScans(t) : Placeholders(t, budget) = q
<1> DEFINE base == [next |-> 1, opened |-> 0, list |-> <<>>, truncated |-> FALSE]
           seq == [i \in DOMAIN t |-> i]
           g == [p \in ChainScans(t) \X (1..n) |->
               Scanning(t, p[1], seq[p[2]], budget)]
           Iterates(z) == z = [x \in SUBSET (DOMAIN seq) |->
                                 IF x = {} THEN base
                                 ELSE Scanning(t, z[x \ {Max(x)}], seq[Max(x)], budget)]
           it == CHOOSE z : Iterates(z)
<1>1. n \in Nat /\ DOMAIN seq = 1..n /\ base \in ChainScans(t)
      /\ \A i \in 1..n : seq[i] = i
  BY DEF Texts, ChainScans
<1>2. Placeholders(t, budget) = it[DOMAIN seq]
  BY DEF Placeholders, FoldLeftDomain, FoldLeft, MapThenFoldSet
<1> HIDE DEF seq
<1>4. g \in [ChainScans(t) \X (1..n) -> ChainScans(t)]
  BY <1>1, ScanningTyped
<1>5. \A q \in ChainScans(t), k \in 1..n : g[q, k] = Scanning(t, q, seq[k], budget)
  OBVIOUS
<1>6. PICK z : Within(z, base, g, n, ChainScans(t))
  BY <1>1, <1>4, FoldsWithin
<1> HIDE DEF g, base
<1>7. Iterates(it)
  <2>1. \A x \in SUBSET (1..n) :
          x # {} => z[x] = Scanning(t, z[x \ {Max(x)}], seq[Max(x)], budget)
    BY <1>5, <1>6 DEF Within
  <2>2. Iterates(z)
    BY <1>1, <1>6, <2>1 DEF Within
  <2> QED
    BY <2>2
<1> HIDE DEF it
<1>8. Computes(it, base, g, n, ChainScans(t))
  <2>1. \A x \in SUBSET (1..n) :
          x # {} /\ it[x \ {Max(x)}] \in ChainScans(t) =>
            it[x] = g[it[x \ {Max(x)}], Max(x)]
    <3>1. \A x \in SUBSET (1..n) : x # {} => Max(x) \in 1..n
      BY <1>6 DEF Within
    <3>2. \A x \in SUBSET (1..n) :
            x # {} => it[x] = Scanning(t, it[x \ {Max(x)}], seq[Max(x)], budget)
      BY <1>1, <1>7
    <3> QED
      BY <1>5, <3>1, <3>2
  <2>2. it[{}] = base
    BY <1>1, <1>7
  <2> QED
    BY <1>1, <1>4, <2>1, <2>2 DEF Computes
<1>11. PICK f : Path(f, base, g, n, ChainScans(t)) /\ f[n] = it[1..n]
  BY <1>1, <1>8, FoldsAsPath
<1> QED
  <2>1. n \in 0..n
    BY <1>1
  <2>2. it[1..n] \in ChainScans(t)
    BY <1>11, <2>1 DEF Path
  <2>3. Placeholders(t, budget) = it[1..n]
    BY <1>1, <1>2
  <2> QED
    BY <2>2, <2>3

\* What the chain has for a placeholder.
Answers(store) ==
  [is : {"value", "error", "literal"}, value : Texts,
   from : SUBSET Range(store.captures)]

LEMMA LookupTyped ==
  ASSUME NEW store, IsStore(store), NEW inner,
         inner[3] \in {"response", "request"}
  PROVE  /\ Lookup(store, inner).found \in BOOLEAN
         /\ Lookup(store, inner).value \in Texts
<1> DEFINE Is(x) == x.found \in BOOLEAN /\ x.value \in Texts
           InBody(body) == IF body.json /\ JsonPath(Rest(inner)).keys \in DOMAIN body.at
                       THEN Found(body.at[JsonPath(Rest(inner)).keys]) ELSE Nothing
<1>1. Is(Nothing)
  BY DEF Nothing, Texts
<1>2. \A v \in Texts : Is(Found(v))
  BY DEF Found
<1>3. ASSUME NEW body, IsBody(body) PROVE Is(InBody(body))
  <2>1. JsonPath(Rest(inner)).keys \in DOMAIN body.at =>
          body.at[JsonPath(Rest(inner)).keys] \in Texts
    BY <1>3 DEF IsBody
  <2> HIDE DEF Is
  <2> QED
    BY <1>1, <1>2, <2>1
<1> HIDE DEF InBody
<1>4. Lookup(store, inner) =
        IF ~Recorded(store, inner[3], inner[1]) THEN Nothing
        ELSE IF inner[3] = "request" THEN InBody(store.requests[inner[1]])
        ELSE IF inner[5] = "status" THEN Found(store.responses[inner[1]].status)
        ELSE IF inner[5] = "body" THEN InBody(store.responses[inner[1]].body)
        ELSE IF Rest(inner) \in DOMAIN store.responses[inner[1]].headers
             THEN Found(store.responses[inner[1]].headers[Rest(inner)])
        ELSE Nothing
  BY DEF Lookup, InBody
<1>5. CASE ~Recorded(store, inner[3], inner[1])
  BY <1>1, <1>4, <1>5
<1>6. CASE Recorded(store, inner[3], inner[1]) /\ inner[3] = "request"
  <2>1. IsBody(store.requests[inner[1]])
    <3>1. inner[3] # "response"
      BY <1>6
    <3> QED
      BY <1>6, <3>1 DEF Recorded, IsStore
  <2>2. Lookup(store, inner) = InBody(store.requests[inner[1]])
    BY <1>4, <1>6
  <2> HIDE DEF Is
  <2>3. Is(Lookup(store, inner))
    BY <1>3, <2>1, <2>2
  <2> QED
    BY <2>3 DEF Is
<1>7. CASE Recorded(store, inner[3], inner[1]) /\ inner[3] # "request"
  <2>1. PICK r : r = store.responses[inner[1]]
    OBVIOUS
  <2>2. IsResponse(r)
    <3>1. inner[3] = "response"
      BY <1>7
    <3> QED
      BY <1>7, <2>1, <3>1 DEF Recorded, IsStore
  <2>3. /\ r.status \in Texts /\ IsBody(r.body)
        /\ \A h \in DOMAIN r.headers : r.headers[h] \in Texts
    BY <2>2 DEF IsResponse
  <2>4. Lookup(store, inner) =
          IF inner[5] = "status" THEN Found(r.status)
          ELSE IF inner[5] = "body" THEN InBody(r.body)
          ELSE IF Rest(inner) \in DOMAIN r.headers
               THEN Found(r.headers[Rest(inner)])
          ELSE Nothing
    BY <1>4, <1>7, <2>1
  <2> HIDE DEF Is
  <2>5. Is(Lookup(store, inner))
    BY <1>1, <1>2, <1>3, <2>3, <2>4
  <2> QED
    BY <2>5 DEF Is
<1> QED
  BY <1>5, <1>6, <1>7

LEMMA AnswerTyped ==
  ASSUME NEW store, IsStore(store), NEW inner
  PROVE  Answer(store, inner) \in Answers(store)
<1> DEFINE Of(is, value, from) == [is |-> is, value |-> value, from |-> from]
<1>1. <<>> \in Texts
  BY DEF Texts
<1>2. Of("error", <<>>, {}) \in Answers(store) /\ Of("literal", <<>>, {}) \in Answers(store)
  BY <1>1 DEF Answers
<1>3. CASE IsReference(inner)
  <2>1. inner[3] \in {"response", "request"}
    BY <1>3 DEF IsReference, Shaped
  <2>2. PICK found : found = Lookup(store, inner)
    OBVIOUS
  <2>3. found.value \in Texts
    BY <2>1, <2>2, LookupTyped
  <2>4. Of("value", found.value, {}) \in Answers(store)
    BY <2>3 DEF Answers
  <2>5. Answer(store, inner) = IF found.found THEN Of("value", found.value, {})
                               ELSE Of("error", <<>>, {})
    BY <1>3, <2>2 DEF Answer
  <2> QED
    BY <1>2, <2>4, <2>5
<1>4. CASE ~IsReference(inner) /\ ~MalformedReference(store, inner) /\ IsCapture(store, inner)
  <2>1. PICK c : c = store.captures[inner[1]]
    OBVIOUS
  <2>2. inner[1] \in DOMAIN store.captures
    BY <1>4 DEF IsCapture
  <2>3. c.value \in Texts /\ c \in Range(store.captures)
    BY <2>1, <2>2 DEF IsStore, Range
  <2>4. Answer(store, inner) = Of("value", c.value, {c})
    BY <1>4, <2>1 DEF Answer
  <2> QED
    BY <2>3, <2>4 DEF Answers
<1>5. CASE ~IsReference(inner) /\ ~(~MalformedReference(store, inner) /\ IsCapture(store, inner))
  <2>1. Answer(store, inner) \in {Of("error", <<>>, {}), Of("literal", <<>>, {})}
    BY <1>5 DEF Answer
  <2> QED
    BY <1>2, <2>1
<1> QED
  BY <1>3, <1>4, <1>5

\* A text some of whose placeholders were answered.
Answering(store) ==
  [text : Texts, cursor : Nat \ {0}, refs : Nat,
   captured : SUBSET Range(store.captures), diagnosed : BOOLEAN]

LEMMA AnsweredTyped ==
  ASSUME NEW store, NEW acc \in Answering(store), NEW t \in Texts,
         NEW ph \in FoundIn(t), NEW answer \in Answers(store)
  PROVE  Answered(acc, t, ph, answer) \in Answering(store)
<1>1. /\ ph.start \in Int /\ ph.start >= 1 /\ ph.start - 1 \in Int
      /\ ph.start - 1 <= Len(t)
      /\ ph.end \in Nat \ {0} /\ ph.end - 1 \in Int /\ ph.end - 1 <= Len(t)
      /\ acc.cursor \in Int /\ acc.cursor >= 1
  BY DEF FoundIn, Answering, Texts
<1>2. PICK a, b : /\ a = SubSeq(t, acc.cursor, ph.start - 1)
                  /\ b = SubSeq(t, ph.start, ph.end - 1)
  OBVIOUS
<1>3. a \in Texts /\ b \in Texts
  BY <1>1, <1>2, PartOfText
<1>4. PICK full, replaced : /\ full = (acc.refs >= MaxRefs)
                            /\ replaced = (answer.is = "value" /\ ~full)
  OBVIOUS
<1>5. PICK c : c = IF replaced THEN answer.value ELSE b
  OBVIOUS
<1>6. c \in Texts
  BY <1>3, <1>5 DEF Answers
<1>7. acc.text \in Texts /\ acc.text \o a \in Texts /\ (acc.text \o a) \o c \in Texts
  BY <1>3, <1>6, ConcatTexts DEF Answering
<1>8. PICK refs, captured, diagnosed :
         /\ refs = IF answer.is = "literal" \/ full THEN acc.refs ELSE acc.refs + 1
         /\ captured = IF replaced THEN acc.captured \cup answer.from
                       ELSE acc.captured
         /\ diagnosed = (acc.diagnosed \/ (answer.is # "literal" /\ ~replaced))
  OBVIOUS
<1>9. refs \in Nat
  BY <1>8 DEF Answering
<1>10. captured \in SUBSET Range(store.captures)
  BY <1>8 DEF Answering, Answers
<1>11. diagnosed \in BOOLEAN
  BY <1>8
<1>12. Answered(acc, t, ph, answer) =
         [text |-> (acc.text \o a) \o c, cursor |-> ph.end, refs |-> refs,
          captured |-> captured, diagnosed |-> diagnosed]
  BY <1>2, <1>4, <1>5, <1>8 DEF Answered
<1> QED
  BY <1>1, <1>7, <1>9, <1>10, <1>11, <1>12 DEF Answering

\* A request some of whose fields were resolved.
Contexts(store) ==
  [texts : Seq(Texts), refs : Nat, budget : Int,
   captured : SUBSET Range(store.captures), diagnosed : BOOLEAN]

\* Placeholders are answered one after the other.
LEMMA AnswersStay ==
  ASSUME NEW store, IsStore(store), NEW ctx \in Contexts(store), NEW t \in Texts,
         NEW list \in Seq(FoundIn(t)), NEW n, n = Len(list)
  PROVE  \E q \in Answering(store) : AllAnswered(store, ctx, t, list) = q
<1> DEFINE base == [text |-> <<>>, cursor |-> 1, refs |-> ctx.refs,
                     captured |-> ctx.captured, diagnosed |-> ctx.diagnosed]
           seq == list
           g == [p \in Answering(store) \X (1..n) |->
               Answered(p[1], t, seq[p[2]], Answer(store, seq[p[2]].inner))]
           Iterates(z) == z = [x \in SUBSET (DOMAIN seq) |->
                                 IF x = {} THEN base
                                 ELSE Answered(z[x \ {Max(x)}], t, seq[Max(x)], Answer(store, seq[Max(x)].inner))]
           it == CHOOSE z : Iterates(z)
<1>1. n \in Nat /\ DOMAIN seq = 1..n /\ base \in Answering(store)
      /\ \A k \in 1..n : seq[k] \in FoundIn(t)
  <2>1. n \in Nat /\ DOMAIN seq = 1..n /\ \A k \in 1..n : seq[k] \in FoundIn(t)
    OBVIOUS
  <2>2. base \in Answering(store)
    BY DEF Answering, Contexts, Texts
  <2> QED
    BY <2>1, <2>2
<1>2. AllAnswered(store, ctx, t, list) = it[DOMAIN seq]
  BY DEF AllAnswered, FoldLeft, MapThenFoldSet
<1> HIDE DEF seq
<1>4. g \in [Answering(store) \X (1..n) -> Answering(store)]
  <2>1. ASSUME NEW q \in Answering(store), NEW ph \in FoundIn(t)
        PROVE  Answered(q, t, ph, Answer(store, ph.inner)) \in Answering(store)
    <3>1. PICK answer : answer = Answer(store, ph.inner)
      OBVIOUS
    <3>2. answer \in Answers(store)
      BY <3>1, AnswerTyped
    <3> QED
      BY <3>1, <3>2, AnsweredTyped
  <2> QED
    BY <1>1, <2>1
<1>5. \A q \in Answering(store), k \in 1..n : g[q, k] =
          Answered(q, t, seq[k], Answer(store, seq[k].inner))
  OBVIOUS
<1>6. PICK z : Within(z, base, g, n, Answering(store))
  BY <1>1, <1>4, FoldsWithin
<1> HIDE DEF g, base
<1>7. Iterates(it)
  <2>1. \A x \in SUBSET (1..n) :
          x # {} => z[x] =
              Answered(z[x \ {Max(x)}], t, seq[Max(x)], Answer(store, seq[Max(x)].inner))
    BY <1>5, <1>6 DEF Within
  <2>2. Iterates(z)
    BY <1>1, <1>6, <2>1 DEF Within
  <2> QED
    BY <2>2
<1> HIDE DEF it
<1>8. Computes(it, base, g, n, Answering(store))
  <2>1. \A x \in SUBSET (1..n) :
          x # {} /\ it[x \ {Max(x)}] \in Answering(store) =>
            it[x] = g[it[x \ {Max(x)}], Max(x)]
    <3>1. \A x \in SUBSET (1..n) : x # {} => Max(x) \in 1..n
      BY <1>6 DEF Within
    <3>2. \A x \in SUBSET (1..n) :
            x # {} => it[x] =
                Answered(it[x \ {Max(x)}], t, seq[Max(x)], Answer(store, seq[Max(x)].inner))
      BY <1>1, <1>7
    <3> QED
      BY <1>5, <3>1, <3>2
  <2>2. it[{}] = base
    BY <1>1, <1>7
  <2> QED
    BY <1>1, <1>4, <2>1, <2>2 DEF Computes
<1>11. PICK f : Path(f, base, g, n, Answering(store)) /\ f[n] = it[1..n]
  BY <1>1, <1>8, FoldsAsPath
<1> QED
  <2>1. n \in 0..n
    BY <1>1
  <2>2. it[1..n] \in Answering(store)
    BY <1>11, <2>1 DEF Path
  <2>3. AllAnswered(store, ctx, t, list) = it[1..n]
    BY <1>1, <1>2
  <2> QED
    BY <2>2, <2>3

LEMMA ResolveTextTyped ==
  ASSUME NEW store, IsStore(store), NEW ctx \in Contexts(store), NEW t \in Texts
  PROVE  ResolveText(store, ctx, t) \in Contexts(store)
<1>1. PICK scan : scan = Placeholders(t, ctx.budget)
  OBVIOUS
<1>2. scan \in ChainScans(t)
  BY <1>1, ScansStay
<1>3. PICK list : list = scan.list
  OBVIOUS
<1>4. list \in Seq(FoundIn(t)) /\ scan.opened \in Int /\ scan.truncated \in BOOLEAN
  BY <1>2, <1>3 DEF ChainScans
<1>5. PICK end : end = AllAnswered(store, ctx, t, list)
  OBVIOUS
<1>6. end \in Answering(store)
  BY <1>4, <1>5, AnswersStay
<1>7. PICK rest : rest = SubSeq(t, end.cursor, Len(t))
  OBVIOUS
<1>8. rest \in Texts
  <2>1. end.cursor \in Int /\ end.cursor >= 1 /\ Len(t) \in Int /\ Len(t) <= Len(t)
    BY <1>6 DEF Answering, Texts
  <2> QED
    BY <1>7, <2>1, PartOfText
<1>9. end.text \o rest \in Texts
  BY <1>6, <1>8, ConcatTexts DEF Answering
<1>10. ResolveText(store, ctx, t) =
         [texts |-> Append(ctx.texts, end.text \o rest), refs |-> end.refs,
          budget |-> ctx.budget - scan.opened, captured |-> end.captured,
          diagnosed |-> end.diagnosed \/ scan.truncated]
  BY <1>1, <1>3, <1>5, <1>7 DEF ResolveText, Completed, Diagnosed
<1>11. Append(ctx.texts, end.text \o rest) \in Seq(Texts)
  BY <1>9, AppendProperties DEF Contexts
<1>12. end.refs \in Nat /\ end.captured \in SUBSET Range(store.captures)
       /\ ctx.budget - scan.opened \in Int
  BY <1>4, <1>6 DEF Answering, Contexts
<1>13. (end.diagnosed \/ scan.truncated) \in BOOLEAN
  OBVIOUS
<1> QED
  BY <1>10, <1>11, <1>12, <1>13 DEF Contexts

\* The fields of a request are resolved one after the other.
LEMMA RequestStays ==
  ASSUME NEW store, IsStore(store), NEW fields \in Seq(Texts), NEW n, n =
      Len(fields)
  PROVE  \E q \in Contexts(store) : ResolveRequest(store, fields) = q
<1> DEFINE base == [texts |-> <<>>, refs |-> 0, budget |-> MaxRefs, captured |-> {},
                     diagnosed |-> FALSE]
           seq == fields
           g == [p \in Contexts(store) \X (1..n) |->
               ResolveText(store, p[1], seq[p[2]])]
           Iterates(z) == z = [x \in SUBSET (DOMAIN seq) |->
                                 IF x = {} THEN base
                                 ELSE ResolveText(store, z[x \ {Max(x)}], seq[Max(x)])]
           it == CHOOSE z : Iterates(z)
<1>1. n \in Nat /\ DOMAIN seq = 1..n /\ base \in Contexts(store)
      /\ \A k \in 1..n : seq[k] \in Texts
  <2>1. n \in Nat /\ DOMAIN seq = 1..n /\ \A k \in 1..n : seq[k] \in Texts
    OBVIOUS
  <2>2. base \in Contexts(store)
    BY ChainTextAssumption DEF Contexts
  <2> QED
    BY <2>1, <2>2
<1>2. ResolveRequest(store, fields) = it[DOMAIN seq]
  BY DEF ResolveRequest, FoldLeft, MapThenFoldSet
<1> HIDE DEF seq
<1>4. g \in [Contexts(store) \X (1..n) -> Contexts(store)]
  BY <1>1, ResolveTextTyped
<1>5. \A q \in Contexts(store), k \in 1..n : g[q, k] = ResolveText(store, q, seq[k])
  OBVIOUS
<1>6. PICK z : Within(z, base, g, n, Contexts(store))
  BY <1>1, <1>4, FoldsWithin
<1> HIDE DEF g, base
<1>7. Iterates(it)
  <2>1. \A x \in SUBSET (1..n) :
          x # {} => z[x] = ResolveText(store, z[x \ {Max(x)}], seq[Max(x)])
    BY <1>5, <1>6 DEF Within
  <2>2. Iterates(z)
    BY <1>1, <1>6, <2>1 DEF Within
  <2> QED
    BY <2>2
<1> HIDE DEF it
<1>8. Computes(it, base, g, n, Contexts(store))
  <2>1. \A x \in SUBSET (1..n) :
          x # {} /\ it[x \ {Max(x)}] \in Contexts(store) =>
            it[x] = g[it[x \ {Max(x)}], Max(x)]
    <3>1. \A x \in SUBSET (1..n) : x # {} => Max(x) \in 1..n
      BY <1>6 DEF Within
    <3>2. \A x \in SUBSET (1..n) :
            x # {} => it[x] = ResolveText(store, it[x \ {Max(x)}], seq[Max(x)])
      BY <1>1, <1>7
    <3> QED
      BY <1>5, <3>1, <3>2
  <2>2. it[{}] = base
    BY <1>1, <1>7
  <2> QED
    BY <1>1, <1>4, <2>1, <2>2 DEF Computes
<1>11. PICK f : Path(f, base, g, n, Contexts(store)) /\ f[n] = it[1..n]
  BY <1>1, <1>8, FoldsAsPath
<1> QED
  <2>1. n \in 0..n
    BY <1>1
  <2>2. it[1..n] \in Contexts(store)
    BY <1>11, <2>1 DEF Path
  <2>3. ResolveRequest(store, fields) = it[1..n]
    BY <1>1, <1>2
  <2> QED
    BY <2>2, <2>3

LEMMA FiniteRange ==
  ASSUME NEW f, IsFiniteSet(DOMAIN f)
  PROVE  IsFiniteSet(Range(f))
<1>1. PICK g : g = [x \in DOMAIN f |-> f[x]]
  OBVIOUS
<1>2. g \in Surjection(DOMAIN f, Range(f))
  BY <1>1 DEF Surjection, Range
<1> QED
  BY <1>2, FS_Surjection

\* The secrets that resolving a request gives are texts, and finitely many.
LEMMA ResolvedSecretsTyped ==
  ASSUME NEW store, IsStore(store), NEW resolved \in Contexts(store)
  PROVE  /\ ResolvedSecrets(store, resolved) \subseteq Texts
         /\ IsFiniteSet(ResolvedSecrets(store, resolved))
<1>1. PICK V : V = {c.value : c \in Range(store.captures)}
  OBVIOUS
<1>2. /\ \A n \in DOMAIN store.captures : store.captures[n].value \in Texts
      /\ IsFiniteSet(DOMAIN store.captures)
      /\ store.hints \subseteq Texts /\ IsFiniteSet(store.hints)
  BY DEF IsStore
<1>3. V \subseteq Texts
  BY <1>1, <1>2 DEF Range
<1>4. IsFiniteSet(V)
  <2>1. PICK g : g = [n \in DOMAIN store.captures |-> store.captures[n].value]
    OBVIOUS
  <2>2. V = Range(g) /\ DOMAIN g = DOMAIN store.captures
    BY <1>1, <2>1 DEF Range
  <2> QED
    BY <1>2, <2>2, FiniteRange
<1>5. IsFiniteSet(V \cup store.hints) /\ V \cup store.hints \subseteq Texts
  BY <1>2, <1>3, <1>4, FS_Union
<1>6. ResolvedSecrets(store, resolved) \subseteq V \cup store.hints
  <2>1. resolved.captured \subseteq Range(store.captures)
    BY DEF Contexts
  <2>2. CapturedSecrets(store, resolved) \subseteq V
    BY <1>1, <2>1 DEF CapturedSecrets
  <2>3. Carried(store, resolved.texts) \subseteq V \cup store.hints
    BY <1>1 DEF Carried, SecretValues
  <2> QED
    BY <2>2, <2>3 DEF ResolvedSecrets
<1> QED
  BY <1>5, <1>6, FS_Subset

-----------------------------------------------------------------------------
(* The env stage.                                                          *)

\* References in a text: what they are, and where they start and end.
ReferencesIn(t) ==
  [start : 1..Len(t), end : {e \in Nat : 1 <= e /\ e <= Len(t) + 1},
   text : Texts, expr : Texts]

Matches(t) == [next : Nat, list : Seq(ReferencesIn(t))]

LEMMA MatchingTyped ==
  ASSUME NEW t \in Texts, NEW acc \in Matches(t), NEW i \in 1..Len(t)
  PROVE  Matching(t, acc, i) \in Matches(t)
<1> DEFINE close == First(t, i + 2, {"}"})
           ref == [start |-> i, end |-> close + 2,
                   text |-> SubSeq(t, i, close + 1),
                   expr |-> Trim(SubSeq(t, i + 2, close - 1))]
<1>1. Matching(t, acc, i) =
        IF i < acc.next \/ ~Twice(t, i, "{") \/ close = i + 2
           \/ ~Twice(t, close, "}") THEN acc
        ELSE [next |-> close + 2, list |-> Append(acc.list, ref)]
  BY DEF Matching
<1>2. close \in Nat
  <2>1. i + 2 \in Nat
    BY DEF Texts
  <2> QED
    BY <2>1, FirstIn
<1>3. Twice(t, close, "}") => close < Len(t)
  BY DEF Twice
<1> HIDE DEF close
<1>4. ASSUME close < Len(t)
      PROVE  [next |-> close + 2, list |-> Append(acc.list, ref)] \in Matches(t)
  <2>1. /\ close + 2 \in Nat /\ 1 <= close + 2 /\ close + 2 <= Len(t) + 1
        /\ close + 1 \in Int /\ close + 1 <= Len(t)
        /\ close - 1 \in Int /\ close - 1 <= Len(t)
        /\ i \in Int /\ i >= 1 /\ i + 2 \in Int /\ i + 2 >= 1
    BY <1>2, <1>4 DEF Texts
  <2>2. SubSeq(t, i, close + 1) \in Texts
    BY <2>1, PartOfText
  <2>3. SubSeq(t, i + 2, close - 1) \in Texts
    BY <2>1, PartOfText
  <2>4. Trim(SubSeq(t, i + 2, close - 1)) \in Texts
    BY <2>3, TrimTyped
  <2>5. ref \in ReferencesIn(t)
    BY <2>1, <2>2, <2>4 DEF ReferencesIn
  <2> HIDE DEF ref
  <2>6. Append(acc.list, ref) \in Seq(ReferencesIn(t))
    BY <2>5, AppendProperties DEF Matches
  <2> QED
    BY <2>1, <2>6 DEF Matches
<1> HIDE DEF ref
<1> QED
  BY <1>1, <1>3, <1>4

\* References are matched from atom to atom.
LEMMA MatchesStay ==
  ASSUME NEW t \in Texts, NEW n, n = Len(t)
  PROVE  \E q \in Matches(t) : References(t) = q.list
<1> DEFINE base == [next |-> 1, list |-> <<>>]
           seq == [i \in DOMAIN t |-> i]
           g == [p \in Matches(t) \X (1..n) |-> Matching(t, p[1], seq[p[2]])]
           Iterates(z) == z = [x \in SUBSET (DOMAIN seq) |->
                                 IF x = {} THEN base
                                 ELSE Matching(t, z[x \ {Max(x)}], seq[Max(x)])]
           it == CHOOSE z : Iterates(z)
<1>1. n \in Nat /\ DOMAIN seq = 1..n /\ base \in Matches(t)
      /\ \A i \in 1..n : seq[i] = i
  BY DEF Texts, Matches
<1>2. References(t) = it[DOMAIN seq].list
  BY DEF References, FoldLeftDomain, FoldLeft, MapThenFoldSet
<1> HIDE DEF seq
<1>4. g \in [Matches(t) \X (1..n) -> Matches(t)]
  BY <1>1, MatchingTyped
<1>5. \A q \in Matches(t), k \in 1..n : g[q, k] = Matching(t, q, seq[k])
  OBVIOUS
<1>6. PICK z : Within(z, base, g, n, Matches(t))
  BY <1>1, <1>4, FoldsWithin
<1> HIDE DEF g, base
<1>7. Iterates(it)
  <2>1. \A x \in SUBSET (1..n) :
          x # {} => z[x] = Matching(t, z[x \ {Max(x)}], seq[Max(x)])
    BY <1>5, <1>6 DEF Within
  <2>2. Iterates(z)
    BY <1>1, <1>6, <2>1 DEF Within
  <2> QED
    BY <2>2
<1> HIDE DEF it
<1>8. Computes(it, base, g, n, Matches(t))
  <2>1. \A x \in SUBSET (1..n) :
          x # {} /\ it[x \ {Max(x)}] \in Matches(t) =>
            it[x] = g[it[x \ {Max(x)}], Max(x)]
    <3>1. \A x \in SUBSET (1..n) : x # {} => Max(x) \in 1..n
      BY <1>6 DEF Within
    <3>2. \A x \in SUBSET (1..n) :
            x # {} => it[x] = Matching(t, it[x \ {Max(x)}], seq[Max(x)])
      BY <1>1, <1>7
    <3> QED
      BY <1>5, <3>1, <3>2
  <2>2. it[{}] = base
    BY <1>1, <1>7
  <2> QED
    BY <1>1, <1>4, <2>1, <2>2 DEF Computes
<1>11. PICK f : Path(f, base, g, n, Matches(t)) /\ f[n] = it[1..n]
  BY <1>1, <1>8, FoldsAsPath
<1> QED
  <2>1. n \in 0..n
    BY <1>1
  <2>2. it[1..n] \in Matches(t)
    BY <1>11, <2>1 DEF Path
  <2>3. References(t) = it[1..n].list
    BY <1>1, <1>2
  <2> QED
    BY <2>2, <2>3

LEMMA ReferencesTyped ==
  ASSUME NEW t \in Texts
  PROVE  References(t) \in Seq(ReferencesIn(t))
<1>1. PICK q \in Matches(t) : References(t) = q.list
  BY MatchesStay
<1> QED
  BY <1>1 DEF Matches

\* A field some of whose references were substituted.
Substitutions ==
  [text : Texts, cursor : Nat \ {0}, used : Nat, records : Seq(Items)]

\* Those references that something resolves.
Resolvables(t) == {ref \in ReferencesIn(t) : Resolvable(ref.expr)}

Supplies == IsEnvironment(env) /\ generated \in Seq(Texts) \ {<<>>}

LEMMA GeneratedTyped ==
  ASSUME Supplies, NEW used \in Nat
  PROVE  Generated(used) \in Texts
<1>1. PICK n : n = Len(generated) /\ n \in Nat /\ n # 0
              /\ \A k \in 1..n : generated[k] \in Texts
  <2>1. generated \in Seq(Texts) /\ generated # <<>>
    BY DEF Supplies
  <2> QED
    BY <2>1, EmptySeq
<1>2. PICK k : k = IF used < n THEN used + 1 ELSE n
  OBVIOUS
<1>3. k \in 1..n
  BY <1>1, <1>2
<1>4. Generated(used) = generated[k]
  BY <1>1, <1>2 DEF Generated
<1> QED
  BY <1>1, <1>3, <1>4

LEMMA SubstitutingTyped ==
  ASSUME Supplies, NEW t \in Texts, NEW acc \in Substitutions,
         NEW ref \in Resolvables(t)
  PROVE  Substituting(t, acc, ref) \in Substitutions
<1>1. /\ ref.start - 1 \in Int /\ ref.start - 1 <= Len(t)
      /\ ref.end \in Nat \ {0} /\ ref.text \in Texts
      /\ acc.cursor \in Int /\ acc.cursor >= 1
      /\ acc.used \in Nat /\ acc.text \in Texts /\ acc.records \in Seq(Items)
  BY DEF Resolvables, ReferencesIn, Substitutions, Texts
<1>2. PICK value : value = IF IsBuiltin(ref.expr) THEN Generated(acc.used)
                           ELSE env.values[ref.expr]
  OBVIOUS
<1>3. value \in Texts
  <2>1. ~IsBuiltin(ref.expr) => ref.expr \in DOMAIN env.values
    BY DEF Resolvables, Resolvable
  <2>2. ~IsBuiltin(ref.expr) => env.values[ref.expr] \in Texts
    BY <2>1 DEF Supplies, IsEnvironment
  <2>3. Generated(acc.used) \in Texts
    BY <1>1, GeneratedTyped
  <2> QED
    BY <1>2, <2>2, <2>3
<1>4. PICK a : a = SubSeq(t, acc.cursor, ref.start - 1)
  OBVIOUS
<1>5. a \in Texts
  BY <1>1, <1>4, PartOfText
<1>6. acc.text \o a \in Texts /\ (acc.text \o a) \o value \in Texts
  BY <1>1, <1>3, <1>5, ConcatTexts
<1>7. PICK item : item = [reference |-> ref.text, value |-> value]
  OBVIOUS
<1>8. item \in Items
  BY <1>1, <1>3, <1>7 DEF Items
<1>9. Append(acc.records, item) \in Seq(Items)
  BY <1>1, <1>8, AppendProperties
<1>10. PICK used : used = acc.used + IF IsBuiltin(ref.expr) THEN 1 ELSE 0
  OBVIOUS
<1>11. used \in Nat
  BY <1>1, <1>10
<1>12. Substituting(t, acc, ref) =
         [text |-> (acc.text \o a) \o value, cursor |-> ref.end, used |-> used,
          records |-> Append(acc.records, item)]
  BY <1>2, <1>4, <1>7, <1>10 DEF Substituting
<1> QED
  BY <1>1, <1>6, <1>9, <1>11, <1>12 DEF Substitutions

\* A request some of whose fields were substituted.
Stages == [texts : Seq(Texts), used : Nat, records : Seq(Seq(Items))]

\* The texts all of whose references something resolves.
Serviceable == {t \in Texts : \A ref \in Range(References(t)) :
    Resolvable(ref.expr)}

SubstitutingAll(t, used) ==
  FoldLeft(LAMBDA acc, ref : Substituting(t, acc, ref),
           [text |-> <<>>, cursor |-> 1, used |-> used, records |-> <<>>],
           References(t))

\* References are substituted one after the other.
LEMMA SubstitutionsStay ==
  ASSUME Supplies, NEW t \in Serviceable, NEW used \in Nat,
         NEW n, n = Len(References(t))
  PROVE  \E q \in Substitutions : SubstitutingAll(t, used) = q
<1> DEFINE base == [text |-> <<>>, cursor |-> 1, used |-> used, records |-> <<>>]
           seq == References(t)
           g == [p \in Substitutions \X (1..n) |-> Substituting(t, p[1], seq[p[2]])]
           Iterates(z) == z = [x \in SUBSET (DOMAIN seq) |->
                                 IF x = {} THEN base
                                 ELSE Substituting(t, z[x \ {Max(x)}], seq[Max(x)])]
           it == CHOOSE z : Iterates(z)
<1>1. n \in Nat /\ DOMAIN seq = 1..n /\ base \in Substitutions /\ t \in Texts
      /\ \A k \in 1..n : seq[k] \in Resolvables(t)
  <2>1. t \in Texts
    BY DEF Serviceable
  <2>2. seq \in Seq(ReferencesIn(t))
    BY <2>1, ReferencesTyped
  <2>3. n \in Nat /\ DOMAIN seq = 1..n /\ \A k \in 1..n : seq[k] \in ReferencesIn(t)
    <3> HIDE DEF seq
    <3>1. n = Len(seq)
      BY DEF seq
    <3> QED
      BY <2>2, <3>1
  <2>4. \A k \in 1..n : seq[k] \in Resolvables(t)
    BY <2>3 DEF Serviceable, Resolvables, Range
  <2>5. base \in Substitutions
    BY DEF Substitutions, Texts
  <2> QED
    BY <2>1, <2>3, <2>4, <2>5
<1>2. SubstitutingAll(t, used) = it[DOMAIN seq]
  BY DEF SubstitutingAll, FoldLeft, MapThenFoldSet
<1> HIDE DEF seq
<1>4. g \in [Substitutions \X (1..n) -> Substitutions]
  BY <1>1, SubstitutingTyped
<1>5. \A q \in Substitutions, k \in 1..n : g[q, k] = Substituting(t, q, seq[k])
  OBVIOUS
<1>6. PICK z : Within(z, base, g, n, Substitutions)
  BY <1>1, <1>4, FoldsWithin
<1> HIDE DEF g, base
<1>7. Iterates(it)
  <2>1. \A x \in SUBSET (1..n) :
          x # {} => z[x] = Substituting(t, z[x \ {Max(x)}], seq[Max(x)])
    BY <1>5, <1>6 DEF Within
  <2>2. Iterates(z)
    BY <1>1, <1>6, <2>1 DEF Within
  <2> QED
    BY <2>2
<1> HIDE DEF it
<1>8. Computes(it, base, g, n, Substitutions)
  <2>1. \A x \in SUBSET (1..n) :
          x # {} /\ it[x \ {Max(x)}] \in Substitutions =>
            it[x] = g[it[x \ {Max(x)}], Max(x)]
    <3>1. \A x \in SUBSET (1..n) : x # {} => Max(x) \in 1..n
      BY <1>6 DEF Within
    <3>2. \A x \in SUBSET (1..n) :
            x # {} => it[x] = Substituting(t, it[x \ {Max(x)}], seq[Max(x)])
      BY <1>1, <1>7
    <3> QED
      BY <1>5, <3>1, <3>2
  <2>2. it[{}] = base
    BY <1>1, <1>7
  <2> QED
    BY <1>1, <1>4, <2>1, <2>2 DEF Computes
<1>11. PICK f : Path(f, base, g, n, Substitutions) /\ f[n] = it[1..n]
  BY <1>1, <1>8, FoldsAsPath
<1> QED
  <2>1. n \in 0..n
    BY <1>1
  <2>2. it[1..n] \in Substitutions
    BY <1>11, <2>1 DEF Path
  <2>3. SubstitutingAll(t, used) = it[1..n]
    BY <1>1, <1>2
  <2> QED
    BY <2>2, <2>3

LEMMA SubstitutedTyped ==
  ASSUME Supplies, NEW ctx \in Stages, NEW t \in Serviceable
  PROVE  Substituted(ctx, t) \in Stages
<1>1. PICK used : used = ctx.used /\ used \in Nat
  BY DEF Stages
<1>2. PICK end : end = SubstitutingAll(t, used)
  OBVIOUS
<1>3. PICK n : n = Len(References(t))
  OBVIOUS
<1>4. end \in Substitutions
  BY <1>1, <1>2, <1>3, SubstitutionsStay
<1>5. PICK rest : rest = SubSeq(t, end.cursor, Len(t))
  OBVIOUS
<1>6. t \in Texts
  BY DEF Serviceable
<1>7. rest \in Texts
  <2>1. end.cursor \in Int /\ end.cursor >= 1 /\ Len(t) \in Int /\ Len(t) <= Len(t)
    BY <1>4, <1>6 DEF Substitutions, Texts
  <2> QED
    BY <1>5, <1>6, <2>1, PartOfText
<1>8. end.text \o rest \in Texts
  BY <1>4, <1>7, ConcatTexts DEF Substitutions
<1>9. Append(ctx.texts, end.text \o rest) \in Seq(Texts)
  BY <1>8, AppendProperties DEF Stages
<1>10. Append(ctx.records, end.records) \in Seq(Seq(Items))
  BY <1>4, AppendProperties DEF Stages, Substitutions
<1>11. Substituted(ctx, t) =
         [texts |-> Append(ctx.texts, end.text \o rest), used |-> end.used,
          records |-> Append(ctx.records, end.records)]
  <2>1. end = SubstitutingAll(t, ctx.used)
    BY <1>1, <1>2
  <2> QED
    BY <1>5, <2>1 DEF Substituted, SubstitutingAll
<1>12. end.used \in Nat
  BY <1>4 DEF Substitutions
<1> QED
  BY <1>9, <1>10, <1>11, <1>12 DEF Stages

SubstitutingRequest(fields) ==
  FoldLeft(Substituted, [texts |-> <<>>, used |-> 0, records |-> <<>>], fields)

\* The fields are substituted one after the other.
LEMMA StagesStay ==
  ASSUME Supplies, NEW fields \in Seq(Serviceable), NEW n, n = Len(fields)
  PROVE  \E q \in Stages : SubstitutingRequest(fields) = q
<1> DEFINE base == [texts |-> <<>>, used |-> 0, records |-> <<>>]
           seq == fields
           g == [p \in Stages \X (1..n) |-> Substituted(p[1], seq[p[2]])]
           Iterates(z) == z = [x \in SUBSET (DOMAIN seq) |->
                                 IF x = {} THEN base
                                 ELSE Substituted(z[x \ {Max(x)}], seq[Max(x)])]
           it == CHOOSE z : Iterates(z)
<1>1. n \in Nat /\ DOMAIN seq = 1..n /\ base \in Stages
      /\ \A k \in 1..n : seq[k] \in Serviceable
  <2>1. n \in Nat /\ DOMAIN seq = 1..n /\ \A k \in 1..n : seq[k] \in Serviceable
    OBVIOUS
  <2>2. base \in Stages
    BY DEF Stages
  <2> QED
    BY <2>1, <2>2
<1>2. SubstitutingRequest(fields) = it[DOMAIN seq]
  BY DEF SubstitutingRequest, FoldLeft, MapThenFoldSet
<1> HIDE DEF seq
<1>4. g \in [Stages \X (1..n) -> Stages]
  BY <1>1, SubstitutedTyped
<1>5. \A q \in Stages, k \in 1..n : g[q, k] = Substituted(q, seq[k])
  OBVIOUS
<1>6. PICK z : Within(z, base, g, n, Stages)
  BY <1>1, <1>4, FoldsWithin
<1> HIDE DEF g, base
<1>7. Iterates(it)
  <2>1. \A x \in SUBSET (1..n) :
          x # {} => z[x] = Substituted(z[x \ {Max(x)}], seq[Max(x)])
    BY <1>5, <1>6 DEF Within
  <2>2. Iterates(z)
    BY <1>1, <1>6, <2>1 DEF Within
  <2> QED
    BY <2>2
<1> HIDE DEF it
<1>8. Computes(it, base, g, n, Stages)
  <2>1. \A x \in SUBSET (1..n) :
          x # {} /\ it[x \ {Max(x)}] \in Stages =>
            it[x] = g[it[x \ {Max(x)}], Max(x)]
    <3>1. \A x \in SUBSET (1..n) : x # {} => Max(x) \in 1..n
      BY <1>6 DEF Within
    <3>2. \A x \in SUBSET (1..n) :
            x # {} => it[x] = Substituted(it[x \ {Max(x)}], seq[Max(x)])
      BY <1>1, <1>7
    <3> QED
      BY <1>5, <3>1, <3>2
  <2>2. it[{}] = base
    BY <1>1, <1>7
  <2> QED
    BY <1>1, <1>4, <2>1, <2>2 DEF Computes
<1>11. PICK f : Path(f, base, g, n, Stages) /\ f[n] = it[1..n]
  BY <1>1, <1>8, FoldsAsPath
<1> QED
  <2>1. n \in 0..n
    BY <1>1
  <2>2. it[1..n] \in Stages
    BY <1>11, <2>1 DEF Path
  <2>3. SubstitutingRequest(fields) = it[1..n]
    BY <1>1, <1>2
  <2> QED
    BY <2>2, <2>3

\* What was recorded of substitutions, as far as the bound goes.
Records == [items : Seq(Items), overflow : BOOLEAN]

LEMMA CappedTyped ==
  ASSUME MaxInjected \in Nat, NEW items \in Seq(Items)
  PROVE  Capped(items) \in Records
<1>1. PICK n : n = IF Len(items) < MaxInjected THEN Len(items) ELSE MaxInjected
  OBVIOUS
<1>2. n \in Int /\ n <= Len(items) /\ 1 \in Int
  BY <1>1
<1>3. \A i \in 1..n : items[i] \in Items
  BY <1>2
<1>4. SubSeq(items, 1, n) \in Seq(Items)
  BY <1>2, <1>3, SubSeqProperties
<1>5. (Len(items) > MaxInjected) \in BOOLEAN
  OBVIOUS
<1>6. Capped(items) = [items |-> SubSeq(items, 1, n),
                       overflow |-> Len(items) > MaxInjected]
  BY <1>1 DEF Capped
<1> QED
  BY <1>4, <1>5, <1>6 DEF Records

LEMMA MergedTyped ==
  ASSUME MaxInjected \in Nat, NEW a \in Records, NEW b \in Records
  PROVE  Merged(a, b) \in Records
<1>1. PICK c : c = Capped(a.items \o b.items)
  OBVIOUS
<1>2. a.items \o b.items \in Seq(Items)
  BY ConcatProperties DEF Records
<1>3. c \in Records
  BY <1>1, <1>2, CappedTyped
<1>4. Merged(a, b) = [items |-> c.items,
                      overflow |-> a.overflow \/ b.overflow \/ c.overflow]
  BY <1>1 DEF Merged
<1>5. (a.overflow \/ b.overflow \/ c.overflow) \in BOOLEAN
  OBVIOUS
<1> QED
  BY <1>3, <1>4, <1>5 DEF Records

Merging(records) ==
  FoldLeft(Merged, Capped(<<>>), [f \in DOMAIN records |-> Capped(records[f])])

\* The fields' records are merged one after the other.
LEMMA RecordsStay ==
  ASSUME MaxInjected \in Nat, NEW records \in Seq(Seq(Items)),
         NEW n, n = Len(records)
  PROVE  \E q \in Records : Merging(records) = q
<1> DEFINE base == Capped(<<>>)
           seq == [f \in DOMAIN records |-> Capped(records[f])]
           g == [p \in Records \X (1..n) |-> Merged(p[1], seq[p[2]])]
           Iterates(z) == z = [x \in SUBSET (DOMAIN seq) |->
                                 IF x = {} THEN base
                                 ELSE Merged(z[x \ {Max(x)}], seq[Max(x)])]
           it == CHOOSE z : Iterates(z)
<1>1. n \in Nat /\ DOMAIN seq = 1..n /\ base \in Records
      /\ \A k \in 1..n : seq[k] \in Records
  <2>1. n \in Nat /\ DOMAIN records = 1..n /\ \A k \in 1..n :
            records[k] \in Seq(Items)
    OBVIOUS
  <2>2. \A k \in 1..n : Capped(records[k]) \in Records
    BY <2>1, CappedTyped
  <2>3. <<>> \in Seq(Items)
    OBVIOUS
  <2>4. base \in Records
    BY <2>3, CappedTyped
  <2> QED
    BY <2>1, <2>2, <2>4
<1>2. Merging(records) = it[DOMAIN seq]
  BY DEF Merging, FoldLeft, MapThenFoldSet
<1> HIDE DEF seq
<1>4. g \in [Records \X (1..n) -> Records]
  BY <1>1, MergedTyped
<1>5. \A q \in Records, k \in 1..n : g[q, k] = Merged(q, seq[k])
  OBVIOUS
<1>6. PICK z : Within(z, base, g, n, Records)
  BY <1>1, <1>4, FoldsWithin
<1> HIDE DEF g, base
<1>7. Iterates(it)
  <2>1. \A x \in SUBSET (1..n) :
          x # {} => z[x] = Merged(z[x \ {Max(x)}], seq[Max(x)])
    BY <1>5, <1>6 DEF Within
  <2>2. Iterates(z)
    BY <1>1, <1>6, <2>1 DEF Within
  <2> QED
    BY <2>2
<1> HIDE DEF it
<1>8. Computes(it, base, g, n, Records)
  <2>1. \A x \in SUBSET (1..n) :
          x # {} /\ it[x \ {Max(x)}] \in Records =>
            it[x] = g[it[x \ {Max(x)}], Max(x)]
    <3>1. \A x \in SUBSET (1..n) : x # {} => Max(x) \in 1..n
      BY <1>6 DEF Within
    <3>2. \A x \in SUBSET (1..n) :
            x # {} => it[x] = Merged(it[x \ {Max(x)}], seq[Max(x)])
      BY <1>1, <1>7
    <3> QED
      BY <1>5, <3>1, <3>2
  <2>2. it[{}] = base
    BY <1>1, <1>7
  <2> QED
    BY <1>1, <1>4, <2>1, <2>2 DEF Computes
<1>11. PICK f : Path(f, base, g, n, Records) /\ f[n] = it[1..n]
  BY <1>1, <1>8, FoldsAsPath
<1> QED
  <2>1. n \in 0..n
    BY <1>1
  <2>2. it[1..n] \in Records
    BY <1>11, <2>1 DEF Path
  <2>3. Merging(records) = it[1..n]
    BY <1>1, <1>2
  <2> QED
    BY <2>2, <2>3

-----------------------------------------------------------------------------
(* Numbers in ascending order.                                             *)

Below(E, x) == {d \in E : d <= x}
Rank(E, x) == Cardinality(Below(E, x))

\* A greater element has a greater rank.
LEMMA RanksGrow ==
  ASSUME NEW E \in SUBSET Int, IsFiniteSet(E), NEW x \in E, NEW y \in E, x < y
  PROVE  Rank(E, x) < Rank(E, y)
<1>1. Below(E, x) \subseteq Below(E, y) /\ Below(E, x) # Below(E, y)
  <2>1. \A d \in E : d \in Int /\ (d <= x => d <= y)
    OBVIOUS
  <2>2. y \in Below(E, y) /\ y \notin Below(E, x)
    BY DEF Below
  <2> QED
    BY <2>1, <2>2 DEF Below
<1>2. IsFiniteSet(Below(E, y))
  BY FS_Subset DEF Below
<1>3. /\ Rank(E, x) <= Rank(E, y) /\ Rank(E, x) # Rank(E, y)
  BY <1>1, <1>2, FS_Subset DEF Rank
<1>4. IsFiniteSet(Below(E, x)) /\ Rank(E, x) \in Int /\ Rank(E, y) \in Int
  BY <1>1, <1>2, FS_Subset, FS_CardinalityType DEF Rank
<1> QED
  BY <1>3, <1>4

LEMMA RankBounds ==
  ASSUME NEW E \in SUBSET Int, IsFiniteSet(E), NEW x \in E
  PROVE  Rank(E, x) \in 1..Cardinality(E)
<1>1. /\ IsFiniteSet(Below(E, x)) /\ Below(E, x) # {}
      /\ Cardinality(Below(E, x)) <= Cardinality(E)
  BY FS_Subset DEF Below
<1>2. Cardinality(Below(E, x)) \in Nat /\ Cardinality(Below(E, x)) # 0
  BY <1>1, FS_CardinalityType, FS_EmptySet
<1>3. Cardinality(E) \in Nat
  BY FS_CardinalityType
<1> QED
  BY <1>1, <1>2, <1>3 DEF Rank

\* Every rank is that of one element.
LEMMA Ranked ==
  ASSUME NEW E \in SUBSET Int, IsFiniteSet(E), NEW k \in 1..Cardinality(E)
  PROVE  /\ InOrder(E)[k] \in E
         /\ Rank(E, InOrder(E)[k]) = k
         /\ \A e \in E : Rank(E, e) = k => e = InOrder(E)[k]
<1> DEFINE n == Cardinality(E)
           f == [e \in E |-> Rank(E, e)]
<1>1. n \in Nat /\ IsFiniteSet(1..n) /\ Cardinality(1..n) = n
  BY FS_CardinalityType, FS_Interval
<1>2. f \in [E -> 1..n]
  BY RankBounds
<1>3. \A x, y \in E : x # y => f[x] # f[y]
  <2> SUFFICES ASSUME NEW x \in E, NEW y \in E, x < y
               PROVE  f[x] # f[y]
    OBVIOUS
  <2>1. Rank(E, x) \in Int /\ Rank(E, y) \in Int /\ Rank(E, x) < Rank(E, y)
    BY RanksGrow, RankBounds
  <2> QED
    BY <2>1
<1> HIDE DEF f
<1>4. f \in Injection(E, 1..n)
  BY <1>2, <1>3 DEF Injection, IsInjective
<1>5. f \in Surjection(E, 1..n)
  BY <1>1, <1>4, FS_Injection
<1>6. PICK e \in E : f[e] = k
  BY <1>5 DEF Surjection
<1>7. \A d \in E : Rank(E, d) = k <=> d = e
  BY <1>3, <1>6 DEF f
<1>8. InOrder(E)[k] = CHOOSE d \in E : Rank(E, d) = k
  BY DEF InOrder, Rank, Below
<1> QED
  BY <1>6, <1>7, <1>8 DEF f

-----------------------------------------------------------------------------
(* What holds of every state.                                              *)

LEMMA PickedTyped ==
  ASSUME NEW S, NEW s \in Seq(S), NEW E, E \subseteq DOMAIN s
  PROVE  Picked(s, E) \in Seq(S)
<1>1. PICK n : n = Len(s) /\ n \in Nat /\ DOMAIN s = 1..n /\ \A k \in 1..n :
          s[k] \in S
  OBVIOUS
<1>2. E \in SUBSET Int /\ IsFiniteSet(E)
  <2>1. IsFiniteSet(1..n)
    BY <1>1, FS_Interval
  <2> QED
    BY <1>1, <2>1, FS_Subset
<1>3. PICK c : c = Cardinality(E) /\ c \in Nat
  BY <1>2, FS_CardinalityType
<1>4. DOMAIN InOrder(E) = 1..c
  BY <1>3 DEF InOrder
<1>5. Picked(s, E) = [k \in 1..c |-> s[InOrder(E)[k]]]
  BY <1>4 DEF Picked
<1>6. ASSUME NEW k \in 1..c PROVE s[InOrder(E)[k]] \in S
  <2>1. InOrder(E)[k] \in E
    BY <1>2, <1>3, Ranked
  <2> QED
    BY <1>1, <2>1
<1> QED
  BY <1>3, <1>5, <1>6

LEMMA SetToSeqTyped ==
  ASSUME NEW S, NEW T, T \subseteq S, IsFiniteSet(T)
  PROVE  SetToSeq(T) \in Seq(S)
<1>1. PICK n : n = Cardinality(T) /\ n \in Nat /\ ExistsBijection(1..n, T)
  BY FS_CardinalityType
<1>2. \E f \in [1..n -> T] : IsInjective(f)
  BY <1>1 DEF ExistsBijection, Bijection, Injection
<1>3. SetToSeq(T) \in [1..n -> T]
  BY <1>1, <1>2 DEF SetToSeq
<1>4. SetToSeq(T) \in [1..n -> S]
  BY <1>3
<1> QED
  BY <1>1, <1>4

\* The run's inputs are as they were, what the stages gave is of its type, and
\* the closure is that of the secrets there are.
RedactionTyped ==
  /\ env \in Environments /\ chain \in Stores
  /\ request \in Requests /\ generated \in Generations
  /\ chained.texts \in Seq(Texts)
  /\ chained.secrets \subseteq Texts /\ IsFiniteSet(chained.secrets)
  /\ wire \in Seq(Texts)
  /\ injected \in Records

ClosureIsDerived == pc = "derived" => closure =
    Derived(Bases(Secrets), injected.items)

LEMMA SecretsTyped ==
  ASSUME RedactionTyped
  PROVE  Bases(Secrets) \in Seq(Texts)
<1>1. /\ IsEnvironment(env) /\ chained.secrets \subseteq Texts
      /\ IsFiniteSet(chained.secrets)
  BY RedactionAssumption DEF RedactionTyped
<1>2. PICK V : V = {env.values[n] : n \in env.secret}
  OBVIOUS
<1>3. V \subseteq Texts
  BY <1>1, <1>2 DEF IsEnvironment
<1>4. IsFiniteSet(V)
  <2>1. PICK g : g = [n \in env.secret |-> env.values[n]]
    OBVIOUS
  <2>2. V = Range(g) /\ DOMAIN g = env.secret
    BY <1>2, <2>1 DEF Range
  <2>3. IsFiniteSet(env.secret)
    BY <1>1 DEF IsEnvironment
  <2> QED
    BY <2>2, <2>3, FiniteRange
<1>5. SetToSeq(chained.secrets) \in Seq(Texts) /\ SetToSeq(V) \in Seq(Texts)
  BY <1>1, <1>3, <1>4, SetToSeqTyped
<1>6. Secrets = SetToSeq(chained.secrets) \o SetToSeq(V)
  BY <1>2 DEF Secrets
<1>7. Secrets \in Seq(Texts)
  BY <1>5, <1>6, ConcatProperties
<1>8. PICK s : s = Secrets
  OBVIOUS
<1>9. PICK E : /\ E = {k \in DOMAIN s : /\ s[k] # <<>>
                                       /\ \A j \in DOMAIN s : s[j] = s[k] => k <= j}
               /\ E \subseteq DOMAIN s
  OBVIOUS
<1>10. Bases(s) = Picked(s, E)
  BY <1>9 DEF Bases
<1> QED
  BY <1>7, <1>8, <1>9, <1>10, PickedTyped

LEMMA RedactionTypedAtFirst ==
  ASSUME RedactionInit
  PROVE  RedactionTyped
<1>1. Capped(<<>>) \in Records
  <2>1. MaxInjected \in Nat /\ <<>> \in Seq(Items)
    BY RedactionAssumption
  <2> QED
    BY <2>1, CappedTyped
<1>2. <<>> \in Seq(Texts) /\ {} \subseteq Texts /\ IsFiniteSet({})
  BY FS_EmptySet
<1> QED
  BY <1>1, <1>2 DEF RedactionInit, RedactionTyped

LEMMA PreparingKeepsTypes ==
  ASSUME RedactionTyped, Prepare
  PROVE  RedactionTyped'
<1>1. PICK fields, n : fields = Fields(request) /\ n = Len(fields)
  OBVIOUS
<1>2. fields \in Seq(Texts) /\ IsStore(chain)
  BY <1>1, RedactionAssumption DEF RedactionTyped
<1>3. PICK resolved : resolved = ResolveRequest(chain, fields)
  OBVIOUS
<1>4. resolved \in Contexts(chain)
  BY <1>1, <1>2, <1>3, RequestStays
<1>5. /\ ResolvedSecrets(chain, resolved) \subseteq Texts
      /\ IsFiniteSet(ResolvedSecrets(chain, resolved))
  BY <1>2, <1>4, ResolvedSecretsTyped
<1>6. resolved.texts \in Seq(Texts)
  BY <1>4 DEF Contexts
<1>7. Prepared(resolved)
  BY <1>1, <1>3 DEF Prepare
<1>8. \/ chained' = chained
      \/ chained' = [texts |-> resolved.texts,
                     secrets |-> ResolvedSecrets(chain, resolved)]
  BY <1>7 DEF Prepared
<1>9. /\ chained'.texts \in Seq(Texts) /\ chained'.secrets \subseteq Texts
      /\ IsFiniteSet(chained'.secrets)
  BY <1>5, <1>6, <1>8 DEF RedactionTyped
<1>10. UNCHANGED <<inputs, wire, injected>>
  BY DEF Prepare
<1> QED
  BY <1>9, <1>10 DEF RedactionTyped, inputs

LEMMA SubstitutingKeepsTypes ==
  ASSUME RedactionTyped, Substitute
  PROVE  RedactionTyped'
<1>1. PICK fields, n : fields = chained.texts /\ n = Len(fields)
  OBVIOUS
<1>2. Supplies
  BY RedactionAssumption DEF RedactionTyped, Supplies
<1>3. fields \in Seq(Serviceable)
  <2>1. fields \in Seq(Texts)
    BY <1>1 DEF RedactionTyped
  <2>2. \A f \in DOMAIN fields : \A ref \in Range(References(fields[f])) :
          Resolvable(ref.expr)
    BY <1>1 DEF Substitute, AllResolved
  <2>3. \A f \in DOMAIN fields : fields[f] \in Serviceable
    BY <2>1, <2>2 DEF Serviceable
  <2> QED
    BY <2>1, <2>3
<1>4. PICK all : all = SubstitutingRequest(fields)
  OBVIOUS
<1>5. all \in Stages
  BY <1>1, <1>2, <1>3, <1>4, StagesStay
<1>6. PICK records, m : records = all.records /\ m = Len(records)
  OBVIOUS
<1>7. all.texts \in Seq(Texts) /\ records \in Seq(Seq(Items))
  BY <1>5, <1>6 DEF Stages
<1>8. Merging(records) \in Records
  <2>1. MaxInjected \in Nat
    BY RedactionAssumption
  <2> QED
    BY <1>6, <1>7, <2>1, RecordsStay
<1>9. wire' = all.texts /\ injected' = Merging(records)
  <2>1. /\ wire' = SubstitutingRequest(chained.texts).texts
        /\ injected' = Merging(SubstitutingRequest(chained.texts).records)
    BY DEF Substitute, SubstitutingRequest, Merging
  <2> QED
    BY <1>1, <1>4, <1>6, <2>1
<1>10. UNCHANGED <<inputs, chained>>
  BY DEF Substitute
<1> QED
  BY <1>7, <1>8, <1>9, <1>10 DEF RedactionTyped, inputs

\* The fields, the secrets and the substitutions are what they are said to be.
THEOREM RedactionIsTyped == RedactionSpec => []RedactionTyped
<1>1. RedactionInit => RedactionTyped
  BY RedactionTypedAtFirst
<1>2. RedactionTyped /\ [RedactionNext]_redactionVars => RedactionTyped'
  <2> SUFFICES ASSUME RedactionTyped, [RedactionNext]_redactionVars
               PROVE  RedactionTyped'
    OBVIOUS
  <2>1. ASSUME UNCHANGED <<inputs, chained, wire, injected>> PROVE RedactionTyped'
    BY <2>1 DEF RedactionTyped, inputs
  <2>2. CASE Prepare
    BY <2>2, PreparingKeepsTypes
  <2>3. CASE Substitute
    BY <2>3, SubstitutingKeepsTypes
  <2>4. CASE Unresolved \/ Derive \/ Block
    BY <2>1, <2>4 DEF Unresolved, Derive, Block
  <2>5. CASE Render \/ CopyAsCurl \/ Record
    BY <2>1, <2>5 DEF Render, CopyAsCurl, Record
  <2>6. CASE Finished \/ UNCHANGED redactionVars
    BY <2>1, <2>6 DEF Finished, redactionVars
  <2> QED
    BY <2>2, <2>3, <2>4, <2>5, <2>6 DEF RedactionNext
<1> QED
  BY <1>1, <1>2, PTL DEF RedactionSpec

LEMMA ClosureFollows ==
  ASSUME ClosureIsDerived, [RedactionNext]_redactionVars
  PROVE  ClosureIsDerived'
<1>1. CASE Derive
  <2>1. closure' = Derived(Bases(Secrets), injected.items) 
        /\ UNCHANGED <<env, chained, injected>>
    BY <1>1 DEF Derive, inputs
  <2>2. Derived(Bases(Secrets), injected.items)' =
            Derived(Bases(Secrets), injected.items)
    <3>1. Bases(Secrets)' = Bases(Secrets)
      BY <2>1 DEF Bases, Secrets
    <3> QED
      BY <2>1, <3>1
  <2> QED
    BY <2>1, <2>2 DEF ClosureIsDerived
<1>2. CASE Prepare \/ Substitute \/ Unresolved \/ Block
  BY <1>2 DEF Prepare, Prepared, Substitute, Unresolved, Block, ClosureIsDerived
<1>3. CASE Render \/ CopyAsCurl \/ Record
  BY <1>3 DEF Render, CopyAsCurl, Record, ClosureIsDerived
<1>4. CASE Finished
  BY <1>4 DEF Finished, redactionVars, ClosureIsDerived
<1>5. CASE UNCHANGED redactionVars
  <2>1. UNCHANGED <<pc, closure, env, chained, injected>>
    BY <1>5 DEF redactionVars, inputs
  <2>2. Derived(Bases(Secrets), injected.items)' =
            Derived(Bases(Secrets), injected.items)
    <3>1. Bases(Secrets)' = Bases(Secrets)
      BY <2>1 DEF Bases, Secrets
    <3> QED
      BY <2>1, <3>1
  <2> QED
    BY <2>1, <2>2 DEF ClosureIsDerived
<1> QED
  BY <1>1, <1>2, <1>3, <1>4, <1>5 DEF RedactionNext

\* ClosuresAreFair: each secret's closure is what its own share of the bound
\* gives, whatever the others' are, and unless it is reported as truncated it
\* has every value that a reference in it was given.
THEOREM SecretsCloseFairly == RedactionSpec => []ClosuresAreFair
<1>1. RedactionTyped /\ ClosureIsDerived => ClosuresAreFair
  <2> SUFFICES ASSUME RedactionTyped, ClosureIsDerived, NEW bases,
                      bases = Bases(Secrets), pc = "derived", Len(bases) <= Budget,
                      NEW k \in DOMAIN bases
               PROVE  FairTo(closure.perBase[k], bases[k], Budget \div Len(bases))
    BY DEF ClosuresAreFair, FairTo
  <2>1. bases \in Seq(Texts)
    BY SecretsTyped
  <2>2. injected.items \in Seq(Items) /\ Budget \in Nat \ {0}
    BY RedactionAssumption DEF RedactionTyped, Records
  <2>3. closure = Derived(bases, injected.items)
    BY DEF ClosureIsDerived
  <2> QED
    BY <2>1, <2>2, <2>3, DerivedIsFair
<1>2. RedactionInit => ClosureIsDerived
  BY DEF RedactionInit, ClosureIsDerived
<1>3. ClosureIsDerived /\ [RedactionNext]_redactionVars => ClosureIsDerived'
  BY ClosureFollows
<1>4. RedactionSpec => []ClosureIsDerived
  BY <1>2, <1>3, PTL DEF RedactionSpec
<1> QED
  BY <1>1, <1>4, RedactionIsTyped, PTL

\* Finitely many numbers have a bound.
LEMMA BoundOn ==
  ASSUME NEW p \in Nat, NEW g \in [1..p -> Nat]
  PROVE  \E n \in Nat : \A i \in 1..p : g[i] <= n
<1> DEFINE T == {k \in 0..p : \E n \in Nat : \A i \in 1..k : g[i] <= n}
<1>1. 0 \in T
  OBVIOUS
<1>2. ASSUME NEW k \in 1..p, k - 1 \in T PROVE k \in T
  <2>1. PICK n \in Nat : \A i \in 1..(k - 1) : g[i] <= n
    BY <1>2
  <2>2. PICK m \in Nat : m >= n /\ m >= g[k]
    <3>1. g[k] \in Nat
      OBVIOUS
    <3> QED
      BY <3>1
  <2>3. ASSUME NEW i \in 1..k PROVE g[i] <= m
    <3>1. i \in 1..p /\ g[i] \in Nat /\ (i = k \/ i \in 1..(k - 1))
      OBVIOUS
    <3> QED
      BY <2>1, <2>2, <3>1
  <2>4. k \in 0..p
    OBVIOUS
  <2> QED
    BY <2>3, <2>4
<1> HIDE DEF T
<1>3. 0..p \subseteq T
  BY <1>1, <1>2, Inductive
<1>4. p \in T
  BY <1>3
<1> QED
  BY <1>4 DEF T

-----------------------------------------------------------------------------
(* Sequences of sequences.                                                 *)

LEMMA RangeOfConcat ==
  ASSUME NEW S, NEW s \in Seq(S), NEW u \in Seq(S)
  PROVE  s \o u \in Seq(S) /\ Range(s \o u) = Range(s) \cup Range(u)
<1>0. PICK m, n : m = Len(s) /\ n = Len(u)
  OBVIOUS
<1>1. m \in Nat /\ n \in Nat /\ DOMAIN s = 1..m /\ DOMAIN u = 1..n
  BY <1>0
<1>2. PICK c : c = s \o u
  OBVIOUS
<1>3. /\ c \in Seq(S) /\ DOMAIN c = 1..(m + n)
      /\ \A i \in 1..m : c[i] = s[i]
      /\ \A i \in 1..n : c[m + i] = u[i]
  BY <1>0, <1>1, <1>2, ConcatProperties
<1>4. \A i \in 1..(m + n) : i \in 1..m \/ (i - m \in 1..n /\ i = m + (i - m))
  BY <1>1
<1>5. 1..m \subseteq 1..(m + n) /\ \A i \in 1..n : m + i \in 1..(m + n)
  BY <1>1
<1>6. Range(c) \subseteq Range(s) \cup Range(u)
  <2>1. ASSUME NEW i \in 1..(m + n) PROVE c[i] \in Range(s) \cup Range(u)
    <3>1. CASE i \in 1..m
      BY <1>1, <1>3, <3>1 DEF Range
    <3>2. CASE i - m \in 1..n /\ i = m + (i - m)
      <4>1. PICK j \in 1..n : i = m + j
        BY <3>2
      <4> QED
        BY <1>1, <1>3, <4>1 DEF Range
    <3> QED
      BY <1>4, <3>1, <3>2
  <2> QED
    BY <1>3, <2>1 DEF Range
<1>7. Range(s) \subseteq Range(c)
  BY <1>1, <1>3, <1>5 DEF Range
<1>8. Range(u) \subseteq Range(c)
  BY <1>1, <1>3, <1>5 DEF Range
<1> QED
  BY <1>2, <1>3, <1>6, <1>7, <1>8

\* Flattening goes from sequence to sequence.
FlattenPathIs(f, ss, n, A) ==
  /\ n \in Nat /\ DOMAIN ss = 1..n
  /\ f[0] = <<>>
  /\ \A k \in 1..n : f[k] = f[k - 1] \o ss[k] /\ ss[k] \in Seq(A)
  /\ \A k \in 0..n : f[k] \in Seq(A)
  /\ FlattenSeq(ss) = f[n]

LEMMA FlattenPath ==
  ASSUME NEW A, NEW ss \in Seq(Seq(A)), NEW n, n = Len(ss)
  PROVE  \E f : FlattenPathIs(f, ss, n, A)
<1> DEFINE S == Seq(A)
           g == [p \in S \X (1..n) |-> p[1] \o ss[p[2]]]
           Flattens(z) == z = [i \in 1..n |->
                                 IF i = 1 THEN ss[i] ELSE z[i - 1] \o ss[i]]
           flatten == CHOOSE z : Flattens(z)
<1>1. n \in Nat /\ DOMAIN ss = 1..n /\ \A k \in 1..n : ss[k] \in S
  OBVIOUS
<1>2. <<>> \in S
  OBVIOUS
<1>3. g \in [S \X (1..n) -> S]
  <2>1. ASSUME NEW q \in S, NEW k \in 1..n PROVE q \o ss[k] \in S
    <3>1. PICK u : u = ss[k] /\ u \in S
      BY <1>1
    <3> QED
      BY <3>1, ConcatProperties
  <2> HIDE DEF S
  <2> QED
    BY <2>1
<1>4. \A q \in S, k \in 1..n : g[q, k] = q \o ss[k]
  OBVIOUS
<1>5. FlattenSeq(ss) = IF n = 0 THEN ss ELSE flatten[n]
  BY DEF FlattenSeq
<1> HIDE DEF S, g
<1>6. PICK it : Within(it, <<>>, g, n, S)
  BY <1>1, <1>2, <1>3, FoldsWithin
<1>7. Computes(it, <<>>, g, n, S)
  BY <1>2, <1>3, <1>6 DEF Within, Computes
<1>8. PICK f : Path(f, <<>>, g, n, S) /\ f[n] = it[1..n]
  BY <1>1, <1>7, FoldsAsPath
<1>9. f[0] = <<>> /\ \A k \in 0..n : f[k] \in S
  BY <1>8 DEF Path
<1>10. ASSUME NEW k \in 1..n PROVE f[k] = f[k - 1] \o ss[k]
  <2>1. k - 1 \in 0..n
    BY <1>1
  <2> QED
    BY <1>4, <1>8, <1>9, <2>1 DEF Path
<1>11. Flattens([i \in 1..n |-> f[i]])
  <2>1. PICK z : z = [i \in 1..n |-> f[i]]
    OBVIOUS
  <2>2. ASSUME NEW i \in 1..n
        PROVE  f[i] = IF i = 1 THEN ss[i] ELSE z[i - 1] \o ss[i]
    <3>1. CASE i = 1
      <4>1. f[i] = <<>> \o ss[i]
        <5>1. i - 1 = 0 /\ f[0] = <<>>
          BY <1>9, <3>1
        <5> QED
          BY <1>10, <5>1
      <4>2. PICK u : u = ss[i] /\ u \in Seq(A)
        BY <1>1 DEF S
      <4>3. <<>> \o u = u
        BY <4>2, ConcatEmptySeq
      <4> QED
        BY <3>1, <4>1, <4>2, <4>3
    <3>2. CASE i # 1
      <4>1. i - 1 \in 1..n
        BY <1>1, <3>2
      <4> QED
        BY <1>10, <2>1, <3>2, <4>1
    <3> QED
      BY <3>1, <3>2
  <2>3. Flattens(z)
    BY <2>1, <2>2
  <2> QED
    BY <2>1, <2>3
<1>12. Flattens(flatten)
  BY <1>11
<1> HIDE DEF flatten
<1>13. n # 0 => flatten[n] = f[n]
  <2> DEFINE T == {k \in 0..n : k = 0 \/ flatten[k] = f[k]}
  <2>1. 0 \in T
    BY <1>1
  <2>2. ASSUME NEW k \in 1..n, k - 1 \in T PROVE k \in T
    <3>1. flatten[k] = IF k = 1 THEN ss[k] ELSE flatten[k - 1] \o ss[k]
      BY <1>12
    <3>2. PICK z : z = [i \in 1..n |-> f[i]] /\ Flattens(z)
      BY <1>11
    <3>3. f[k] = IF k = 1 THEN ss[k] ELSE z[k - 1] \o ss[k]
      BY <3>2
    <3>4. k # 1 => k - 1 \in 1..n /\ k - 1 # 0
      BY <1>1
    <3>5. k # 1 => z[k - 1] = flatten[k - 1]
      BY <2>2, <3>2, <3>4
    <3>6. k \in 0..n
      BY <1>1
    <3> QED
      BY <3>1, <3>3, <3>5, <3>6
  <2>3. 0..n \subseteq T
    <3> HIDE DEF T
    <3> QED
      BY <1>1, <2>1, <2>2, Inductive
  <2> QED
    BY <1>1, <2>3
<1>14. FlattenSeq(ss) = f[n]
  <2>1. CASE n = 0
    <3>1. ss = <<>>
      BY <1>1, <2>1, EmptySeq
    <3> QED
      BY <1>5, <1>9, <2>1, <3>1
  <2> QED
    BY <1>5, <1>13, <2>1
<1> QED
  BY <1>1, <1>9, <1>10, <1>14 DEF S, FlattenPathIs

LEMMA FlattenTyped ==
  ASSUME NEW A, NEW ss \in Seq(Seq(A))
  PROVE  /\ FlattenSeq(ss) \in Seq(A)
         /\ Range(FlattenSeq(ss)) = UNION {Range(ss[k]) : k \in DOMAIN ss}
<1>1. PICK n : n = Len(ss)
  OBVIOUS
<1>2. PICK f : FlattenPathIs(f, ss, n, A)
  BY <1>1, FlattenPath
<1>3. n \in Nat /\ DOMAIN ss = 1..n /\ f[n] \in Seq(A) /\ FlattenSeq(ss) = f[n]
  BY <1>2 DEF FlattenPathIs
<1> DEFINE T == {k \in 0..n : Range(f[k]) = UNION {Range(ss[j]) : j \in 1..k}}
<1>4. 0 \in T
  <2>1. f[0] = <<>> /\ 0 \in 0..n
    BY <1>2, <1>3 DEF FlattenPathIs
  <2>2. Range(f[0]) = {} /\ 1..0 = {}
    BY <2>1 DEF Range
  <2> QED
    BY <2>1, <2>2
<1>5. ASSUME NEW k \in 1..n, k - 1 \in T PROVE k \in T
  <2>1. k \in 0..n /\ k - 1 \in 0..n
    BY <1>3
  <2>2. f[k] = f[k - 1] \o ss[k] /\ f[k - 1] \in Seq(A) /\ ss[k] \in Seq(A)
    BY <1>2, <2>1 DEF FlattenPathIs
  <2>3. Range(f[k]) = Range(f[k - 1]) \cup Range(ss[k])
    BY <2>2, RangeOfConcat
  <2>4. 1..k = 1..(k - 1) \cup {k}
    BY <1>3
  <2>5. Range(f[k - 1]) = UNION {Range(ss[j]) : j \in 1..(k - 1)}
    BY <1>5
  <2> QED
    BY <2>1, <2>3, <2>4, <2>5
<1>6. n \in T
  <2> HIDE DEF T
  <2>1. 0..n \subseteq T
    BY <1>3, <1>4, <1>5, Inductive
  <2> QED
    BY <1>3, <2>1
<1> QED
  BY <1>3, <1>6

LEMMA FlattenLast ==
  ASSUME NEW A, NEW ss \in Seq(Seq(A)), ss # <<>>, ss[Len(ss)] # <<>>
  PROVE  FlattenSeq(ss) # <<>>
<1>1. PICK n : n = Len(ss) /\ n \in Nat /\ n # 0
  BY EmptySeq
<1>2. PICK f : FlattenPathIs(f, ss, n, A)
  BY <1>1, FlattenPath
<1>3. PICK s, u : s = f[n - 1] /\ u = ss[n]
  OBVIOUS
<1>4. FlattenSeq(ss) = s \o u /\ s \in Seq(A) /\ u \in Seq(A)
  <2>1. n \in 1..n /\ n - 1 \in 0..n
    BY <1>1
  <2> QED
    BY <1>2, <1>3, <2>1 DEF FlattenPathIs
<1>5. Len(u) # 0
  BY <1>1, <1>3, <1>4, EmptySeq
<1>6. Len(s \o u) = Len(s) + Len(u) /\ Len(s) \in Nat /\ Len(u) \in Nat
  BY <1>4, ConcatProperties
<1>7. Len(s \o u) # 0
  BY <1>5, <1>6
<1> QED
  BY <1>4, <1>7

-----------------------------------------------------------------------------
(* One marker per secret.                                                  *)

LEMMA PickedRange ==
  ASSUME NEW S, NEW s \in Seq(S), NEW E, E \subseteq DOMAIN s
  PROVE  Range(Picked(s, E)) = {s[k] : k \in E}
<1>1. E \in SUBSET Int /\ IsFiniteSet(E)
  <2>1. PICK n : n \in Nat /\ DOMAIN s = 1..n
    OBVIOUS
  <2>2. IsFiniteSet(1..n)
    BY <2>1, FS_Interval
  <2> QED
    BY <2>1, <2>2, FS_Subset
<1>2. PICK c : c = Cardinality(E) /\ c \in Nat
  BY <1>1, FS_CardinalityType
<1>3. Picked(s, E) = [k \in 1..c |-> s[InOrder(E)[k]]]
  BY <1>2 DEF Picked, InOrder
<1>4. Range(Picked(s, E)) = {s[InOrder(E)[k]] : k \in 1..c}
  BY <1>3 DEF Range
<1>5. \A k \in 1..c : InOrder(E)[k] \in E
  BY <1>1, <1>2, Ranked
<1>6. ASSUME NEW e \in E PROVE \E k \in 1..c : InOrder(E)[k] = e
  <2>1. Rank(E, e) \in 1..c
    BY <1>1, <1>2, RankBounds
  <2>2. InOrder(E)[Rank(E, e)] = e
    BY <1>1, <1>2, <2>1, Ranked
  <2> QED
    BY <2>1, <2>2
<1> QED
  BY <1>4, <1>5, <1>6

LEMMA WithoutRepeatsTyped ==
  ASSUME NEW S, NEW s \in Seq(S)
  PROVE  /\ WithoutRepeats(s) \in Seq(S)
         /\ Range(WithoutRepeats(s)) \subseteq Range(s)
<1>1. PICK E : E = {k \in DOMAIN s : \A j \in DOMAIN s : s[j] = s[k] => k <= j}
  OBVIOUS
<1>2. WithoutRepeats(s) = Picked(s, E) /\ E \subseteq DOMAIN s
  BY <1>1 DEF WithoutRepeats
<1>3. Picked(s, E) \in Seq(S) /\ Range(Picked(s, E)) = {s[k] : k \in E}
  BY <1>2, PickedTyped, PickedRange
<1> QED
  BY <1>2, <1>3 DEF Range

\* Texts that have an atom at least.
Solid == Texts \ {<<>>}

LEMMA EscapedAtomTyped ==
  ASSUME NEW a \in Atoms
  PROVE  EscapedAtom(a) \in Solid
<1>1. PICK b : b = "\\" /\ b \in Atoms
  BY RedactorAssumption
<1>2. EscapedAtom(a) \in {<<a>>, <<b, a>>}
  BY <1>1, Zenon DEF EscapedAtom
<1>3. <<a>> \in Solid /\ <<b, a>> \in Solid
  BY <1>1 DEF Solid, Texts
<1> QED
  BY <1>2, <1>3

LEMMA EscapedTyped ==
  ASSUME NEW t \in Solid
  PROVE  Escaped(t) \in Solid
<1>1. PICK n : n = Len(t) /\ n \in Nat \ {0} /\ DOMAIN t = 1..n
                /\ \A i \in 1..n : t[i] \in Atoms
  BY EmptySeq DEF Solid, Texts
<1>2. PICK ss : ss = [i \in 1..n |-> EscapedAtom(t[i])]
  OBVIOUS
<1>3. \A i \in 1..n : ss[i] \in Seq(Atoms) /\ ss[i] # <<>>
  BY <1>1, <1>2, EscapedAtomTyped DEF Solid, Texts
<1>4. ss \in Seq(Seq(Atoms)) /\ Len(ss) = n
  BY <1>1, <1>2, <1>3
<1>5. ss # <<>> /\ ss[Len(ss)] # <<>>
  BY <1>1, <1>3, <1>4
<1>6. FlattenSeq(ss) \in Seq(Atoms) /\ FlattenSeq(ss) # <<>>
  BY <1>4, <1>5, FlattenTyped, FlattenLast
<1>7. Escaped(t) = FlattenSeq(ss)
  BY <1>1, <1>2 DEF Escaped
<1> QED
  BY <1>6, <1>7 DEF Solid, Texts

LEMMA FormsOfTyped ==
  ASSUME NEW t \in Texts
  PROVE  FormsOf(t) \in Seq(Solid)
<1>1. CASE t = <<>>
  BY <1>1 DEF FormsOf
<1>2. CASE t # <<>>
  <2>1. t \in Solid /\ Escaped(t) \in Solid
    BY <1>2, EscapedTyped DEF Solid
  <2>2. PICK e : e = Escaped(t)
    OBVIOUS
  <2>3. <<t, e>> \in Seq(Solid)
    BY <2>1, <2>2
  <2> QED
    BY <1>2, <2>2, <2>3 DEF FormsOf
<1> QED
  BY <1>1, <1>2

LEMMA FormsTyped ==
  ASSUME NEW secrets \in Seq(Texts)
  PROVE  Forms(secrets) \in Seq(Solid)
<1>1. PICK n : n = Len(secrets) /\ n \in Nat /\ DOMAIN secrets = 1..n
                /\ \A k \in 1..n : secrets[k] \in Texts
  OBVIOUS
<1>2. PICK ss : ss = [k \in 1..n |-> FormsOf(secrets[k])]
  OBVIOUS
<1>3. \A k \in 1..n : ss[k] \in Seq(Solid)
  BY <1>1, <1>2, FormsOfTyped
<1>4. ss \in Seq(Seq(Solid))
  BY <1>1, <1>2, <1>3
<1>5. FlattenSeq(ss) \in Seq(Solid)
  BY <1>4, FlattenTyped
<1>6. Forms(secrets) = WithoutRepeats(FlattenSeq(ss))
  BY <1>1, <1>2 DEF Forms
<1> QED
  BY <1>5, <1>6, WithoutRepeatsTyped

\* From longer to shorter.
Descends(s) == \A i, j \in DOMAIN s : i < j => Len(s[i]) >= Len(s[j])

LEMMA DescendsOn ==
  ASSUME NEW S, NEW s \in Seq(S), NEW u \in Seq(S), Descends(s), NEW m \in Nat,
         \A v \in S : Len(v) \in Nat,
         \A v \in Range(s) : Len(v) > m, \A v \in Range(u) : Len(v) = m
  PROVE  /\ Descends(s \o u) /\ \A v \in Range(s \o u) : Len(v) >= m
<1>0. PICK p, n : p = Len(s) /\ n = Len(u)
  OBVIOUS
<1>1. p \in Nat /\ n \in Nat /\ DOMAIN s = 1..p /\ DOMAIN u = 1..n
  BY <1>0
<1>2. PICK c : c = s \o u
  OBVIOUS
<1>3. /\ DOMAIN c = 1..(p + n)
      /\ \A i \in 1..p : c[i] = s[i]
      /\ \A i \in 1..n : c[p + i] = u[i]
  BY <1>0, <1>1, <1>2, ConcatProperties
<1>4. \A i \in 1..(p + n) :
          i \in 1..p \/ (i - p \in 1..n /\ i = p + (i - p) /\ i > p)
  BY <1>1
<1>5. \A i \in 1..p : Len(c[i]) > m /\ Len(c[i]) \in Nat
  BY <1>1, <1>3 DEF Range
<1>6. ASSUME NEW i \in 1..(p + n), i > p PROVE Len(c[i]) = m
  <2>1. i - p \in 1..n /\ i = p + (i - p)
    BY <1>1, <1>4, <1>6
  <2>2. c[i] = u[i - p]
    BY <1>3, <2>1
  <2> QED
    BY <1>1, <2>1, <2>2 DEF Range
<1>7. ASSUME NEW i \in 1..(p + n), NEW j \in 1..(p + n), i < j
      PROVE  Len(c[i]) >= Len(c[j])
  <2>1. CASE j > p
    <3>1. Len(c[j]) = m
      BY <1>6, <2>1
    <3>2. i \in 1..p \/ i > p
      BY <1>4
    <3> QED
      BY <1>5, <1>6, <3>1, <3>2
  <2>2. CASE j \in 1..p
    <3>1. i \in 1..p
      BY <1>1, <1>7, <2>2
    <3>2. Len(s[i]) >= Len(s[j])
      BY <1>1, <1>7, <2>2, <3>1 DEF Descends
    <3> QED
      BY <1>3, <2>2, <3>1, <3>2
  <2> QED
    BY <1>4, <2>1, <2>2
<1>8. \A v \in Range(c) : Len(v) >= m
  BY <1>3, <1>4, <1>5, <1>6 DEF Range
<1> QED
  BY <1>2, <1>3, <1>7, <1>8 DEF Descends

LEMMA OfLengthTyped ==
  ASSUME NEW forms \in Seq(Solid), NEW n
  PROVE  /\ OfLength(forms, n) \in Seq(Solid)
         /\ Range(OfLength(forms, n)) = {v \in Range(forms) : Len(v) = n}
<1>1. PICK E : E = {k \in DOMAIN forms : Len(forms[k]) = n}
  OBVIOUS
<1>2. OfLength(forms, n) = Picked(forms, E) /\ E \subseteq DOMAIN forms
  BY <1>1 DEF OfLength
<1>3. /\ Picked(forms, E) \in Seq(Solid)
      /\ Range(Picked(forms, E)) = {forms[k] : k \in E}
  BY <1>2, PickedTyped, PickedRange
<1>4. {forms[k] : k \in E} = {v \in Range(forms) : Len(v) = n}
  BY <1>1 DEF Range
<1> QED
  BY <1>2, <1>3, <1>4

LEMMA LongestFirstIs ==
  ASSUME NEW forms \in Seq(Solid)
  PROVE  /\ LongestFirst(forms) \in Seq(Solid)
         /\ Range(LongestFirst(forms)) = Range(forms)
         /\ Descends(LongestFirst(forms))
<1>1. PICK J : J = {Len(forms[k]) : k \in DOMAIN forms} \cup {0}
  OBVIOUS
<1>2. \A v \in Solid : Len(v) \in Nat /\ Len(v) # 0
  BY EmptySeq DEF Solid, Texts
<1>3. PICK p : p \in Nat /\ DOMAIN forms = 1..p /\ \A k \in 1..p :
          forms[k] \in Solid
  OBVIOUS
<1>4. PICK b \in Nat : \A j \in J : j <= b
  <2>1. PICK g : g = [k \in 1..p |-> Len(forms[k])]
    OBVIOUS
  <2>2. g \in [1..p -> Nat]
    BY <1>2, <1>3, <2>1
  <2>3. PICK b \in Nat : \A i \in 1..p : g[i] <= b
    BY <1>3, <2>2, BoundOn
  <2>4. \A j \in J : j <= b
    BY <1>1, <1>3, <2>1, <2>3
  <2> QED
    BY <2>4
<1>5. PICK n : n = Max(J)
  OBVIOUS
<1>6. n \in Nat /\ \A j \in J : j <= n
  <2>1. J \in SUBSET (0..b) /\ J # {}
    BY <1>1, <1>2, <1>3, <1>4
  <2>2. n \in 0..b /\ \A j \in J : n >= j
    BY <1>4, <1>5, <2>1, MaxOf
  <2>3. \A j \in J : j \in Int /\ n \in Int
    BY <2>1, <2>2
  <2> QED
    BY <2>2, <2>3
<1>7. PICK ss : ss = [k \in 1..n |-> OfLength(forms, n + 1 - k)]
  OBVIOUS
<1>8. LongestFirst(forms) = FlattenSeq(ss)
  BY <1>1, <1>5, <1>7 DEF LongestFirst
<1>9. \A k \in 1..n : /\ ss[k] \in Seq(Solid)
                      /\ Range(ss[k]) = {v \in Range(forms) : Len(v) = n + 1 - k}
  BY <1>7, OfLengthTyped
<1>10. ss \in Seq(Seq(Solid)) /\ Len(ss) = n /\ DOMAIN ss = 1..n
  BY <1>6, <1>7, <1>9
<1>11. FlattenSeq(ss) \in Seq(Solid)
       /\ Range(FlattenSeq(ss)) = UNION {Range(ss[k]) : k \in 1..n}
  BY <1>10, FlattenTyped
<1>12. UNION {Range(ss[k]) : k \in 1..n} = Range(forms)
  <2>1. ASSUME NEW v \in Range(forms) PROVE \E k \in 1..n : v \in Range(ss[k])
    <3>1. PICK m : m = Len(v)
      OBVIOUS
    <3>2. m \in J /\ m \in Nat /\ m # 0
      BY <1>1, <1>2, <1>3, <3>1 DEF Range
    <3>3. m <= n
      BY <1>6, <3>2
    <3>4. n + 1 - m \in 1..n /\ n + 1 - (n + 1 - m) = m
      BY <1>6, <3>2, <3>3
    <3> QED
      BY <1>9, <3>1, <3>4
  <2> QED
    BY <1>9, <2>1
<1>13. PICK f : FlattenPathIs(f, ss, n, Solid)
  BY <1>10, FlattenPath
<1> DEFINE T == {k \in 0..n : /\ Descends(f[k])
                              /\ \A v \in Range(f[k]) : Len(v) > n - k}
<1>14. 0 \in T
  <2>1. f[0] = <<>> /\ 0 \in 0..n
    BY <1>6, <1>13 DEF FlattenPathIs
  <2> QED
    BY <2>1 DEF Descends, Range
<1>15. ASSUME NEW k \in 1..n, k - 1 \in T PROVE k \in T
  <2>1. PICK s, u, m : s = f[k - 1] /\ u = ss[k] /\ m = n + 1 - k
    OBVIOUS
  <2>2. k \in 0..n /\ k - 1 \in 0..n /\ m \in Nat /\ m = n - (k - 1)
        /\ n - k \in Int /\ m > n - k
    BY <1>6, <2>1
  <2>3. f[k] = s \o u /\ s \in Seq(Solid) /\ u \in Seq(Solid)
    BY <1>13, <2>1, <2>2 DEF FlattenPathIs
  <2>4. Descends(s) /\ \A v \in Range(s) : Len(v) > m
    BY <1>15, <2>1, <2>2
  <2>5. \A v \in Range(u) : Len(v) = m
    BY <1>9, <2>1
  <2>6. Descends(s \o u) /\ \A v \in Range(s \o u) : Len(v) >= m
    BY <1>2, <2>2, <2>3, <2>4, <2>5, DescendsOn
  <2>7. \A v \in Range(s \o u) : Len(v) \in Nat
    BY <1>2, <2>3, ConcatProperties DEF Range
  <2>8. \A v \in Range(s \o u) : Len(v) > n - k
    BY <2>2, <2>6, <2>7
  <2> QED
    BY <2>2, <2>3, <2>6, <2>8
<1>16. n \in T
  <2> HIDE DEF T
  <2>1. 0..n \subseteq T
    BY <1>6, <1>14, <1>15, Inductive
  <2> QED
    BY <1>6, <2>1
<1>17. FlattenSeq(ss) = f[n]
  BY <1>13 DEF FlattenPathIs
<1> QED
  BY <1>8, <1>11, <1>12, <1>16, <1>17

LEMMA PrefixGrows ==
  ASSUME NEW A, NEW t \in Seq(A), NEW k \in 1..Len(t)
  PROVE  Append(SubSeq(t, 1, k - 1), t[k]) = SubSeq(t, 1, k)
<1>1. PICK u : u = SubSeq(t, 1, k - 1)
  OBVIOUS
<1>2. u \in Seq(A) /\ t[k] \in A
  <2>1. \A i \in 1..(k - 1) : t[i] \in A
    OBVIOUS
  <2>2. 1 \in Int /\ k - 1 \in Int
    OBVIOUS
  <2> QED
    BY <1>1, <2>1, <2>2, SubSeqProperties
<1>3. 1 \in 1..Len(t) /\ k \in 1..Len(t)
  OBVIOUS
<1>4. SubSeq(t, 1, k) = u \o <<t[k]>>
  BY <1>1, <1>3, SubSeqRecursiveSecond
<1>5. Append(u, t[k]) = u \o <<t[k]>>
  BY <1>2, AppendIsConcat
<1> QED
  BY <1>1, <1>4, <1>5

LEMMA FoundAt ==
  ASSUME NEW A, NEW t \in Seq(A), NEW u \in Seq(A), u # <<>>, NEW i \in Nat,
         i + Len(u) <= Len(t), SubSeq(t, i + 1, i + Len(u)) = u
  PROVE  \A k \in 1..Len(u) : i + k \in 1..Len(t) /\ u[k] = t[i + k]
<1>0. PICK n, m : n = Len(t) /\ m = Len(u)
  OBVIOUS
<1>1. n \in Nat /\ m \in Nat /\ n = Len(t) /\ m = Len(u)
      /\ \A k \in 1..n : t[k] \in A
  BY <1>0
<1>2. ASSUME NEW k \in 1..m PROVE i + k \in 1..n /\ u[k] = t[i + k]
  <2>1. i + k \in 1..n /\ i + 1 \in 1..n /\ i + m \in 1..n
    BY <1>1, <1>2
  <2>2. PICK p, q : p = i + 1 /\ q = i + m
    OBVIOUS
  <2>3. /\ p \in Int /\ q \in Int /\ k \in 1..(q - p + 1) /\ i + k = p + k - 1
        /\ \A j \in p..q : t[j] \in A
    BY <1>1, <1>2, <2>2
  <2>4. SubSeq(t, p, q)[k] = t[p + k - 1]
    BY <2>3, SubSeqProperties
  <2>5. SubSeq(t, p, q) = u
    BY <1>1, <2>2
  <2> QED
    BY <2>1, <2>3, <2>4, <2>5
<1> QED
  BY <1>1, <1>2

\* A split and join of a text without the separator.
LEMMA ReplacedAbsent ==
  ASSUME NEW t \in Texts, NEW s \in Solid, NEW r \in Texts, ~Includes(t, s)
  PROVE  Replaced(t, s, r) = t
<1>1. PICK n, m : n = Len(t) /\ m = Len(s) /\ n \in Nat /\ m \in Nat \ {0}
                  /\ t \in Seq(Atoms)
  BY EmptySeq DEF Texts, Solid
<1>2. PICK f : ReplacedPathIs(f, t, s, r, n)
  BY <1>1, ReplacedPath DEF Solid
<1>3. ASSUME NEW i \in 1..n PROVE ~Occurs(s, t, i)
  <2>1. ASSUME Occurs(s, t, i) PROVE FALSE
    <3>1. i + m - 1 <= n /\ SubSeq(t, i, i + m - 1) = s
      BY <1>1, <2>1 DEF Occurs
    <3>2. i - 1 \in 0..(n - m) /\ (i - 1) + 1 = i /\ (i - 1) + m = i + m - 1
      BY <1>1, <3>1
    <3>3. SubSeq(t, (i - 1) + 1, (i - 1) + m) = s
      BY <3>1, <3>2
    <3> QED
      BY <1>1, <3>2, <3>3 DEF Includes
  <2> QED
    BY <2>1
<1> DEFINE T == {k \in 0..n : f[k] = [text |-> SubSeq(t, 1, k), next |-> k + 1]}
<1>4. 0 \in T
  <2>1. SubSeq(t, 1, 0) = <<>> /\ 0 + 1 = 1 /\ 0 \in 0..n
    BY <1>1, SubSeqEmpty
  <2> QED
    BY <1>2, <2>1 DEF ReplacedPathIs
<1>5. ASSUME NEW k \in 1..n, k - 1 \in T PROVE k \in T
  <2>1. PICK a : a = f[k - 1]
    OBVIOUS
  <2>2. a = [text |-> SubSeq(t, 1, k - 1), next |-> k] /\ k \in 0..n
    BY <1>1, <1>5, <2>1
  <2>3. f[k] = Replacing(a, k, t, s, r)
    BY <1>2, <2>1 DEF ReplacedPathIs
  <2>4. f[k] = [text |-> Append(SubSeq(t, 1, k - 1), t[k]), next |-> k + 1]
    <3>1. ~(k < a.next) /\ ~Occurs(s, t, k)
      BY <1>3, <2>2
    <3>2. Replacing(a, k, t, s, r) = [text |-> Append(a.text, t[k]), next |-> k + 1]
      BY <3>1 DEF Replacing
    <3> QED
      BY <2>2, <2>3, <3>2
  <2>5. Append(SubSeq(t, 1, k - 1), t[k]) = SubSeq(t, 1, k)
    BY <1>1, PrefixGrows
  <2> QED
    BY <2>2, <2>4, <2>5
<1>6. n \in T
  <2> HIDE DEF T
  <2>1. 0..n \subseteq T
    BY <1>1, <1>4, <1>5, Inductive
  <2> QED
    BY <1>1, <2>1
<1>7. SubSeq(t, 1, n) = t
  BY <1>1, SubSeqFull
<1>8. Replaced(t, s, r) = f[n].text
  BY <1>2 DEF ReplacedPathIs
<1> QED
  BY <1>6, <1>7, <1>8

\* A secret in the middle of a text.
Around(a, s) == <<a>> \o s \o <<a>>

IsAround(t, a, s, m) ==
  /\ m \in Nat /\ t \in Seq(Atoms) /\ Len(t) = m + 2
  /\ t[1] = a /\ t[m + 2] = a
  /\ \A i \in 1..m : t[i + 1] = s[i]

LEMMA AroundIs ==
  ASSUME NEW a \in Atoms, NEW s \in Seq(Atoms), NEW m, m = Len(s),
         NEW t, t = Around(a, s)
  PROVE  IsAround(t, a, s, m)
<1>1. PICK one, u : one = <<a>> /\ u = one \o s
  OBVIOUS
<1>2. m \in Nat /\ one \in Seq(Atoms) /\ Len(one) = 1 /\ one[1] = a
  BY <1>1
<1>3. /\ u \in Seq(Atoms) /\ Len(u) = 1 + m
      /\ \A i \in 1..(1 + m) : u[i] = IF i <= 1 THEN one[i] ELSE s[i - 1]
  BY <1>1, <1>2, ConcatProperties
<1>4. t = u \o one
  BY <1>1 DEF Around
<1>5. /\ t \in Seq(Atoms) /\ Len(t) = (1 + m) + 1
      /\ \A i \in 1..((1 + m) + 1) :
           t[i] = IF i <= 1 + m THEN u[i] ELSE one[i - (1 + m)]
  <2>1. PICK p : p = Len(u) /\ p = 1 + m
    BY <1>3
  <2>2. u \in Seq(Atoms) /\ one \in Seq(Atoms) /\ Len(one) = 1
    BY <1>2, <1>3
  <2>3. /\ t \in Seq(Atoms) /\ Len(t) = p + 1
        /\ \A i \in 1..(p + 1) : t[i] = IF i <= p THEN u[i] ELSE one[i - p]
    <3>1. /\ t \in Seq(Atoms) /\ Len(t) = Len(u) + Len(one)
          /\ \A i \in 1..(Len(u) + Len(one)) :
               t[i] = IF i <= Len(u) THEN u[i] ELSE one[i - Len(u)]
      <4>1. /\ u \o one \in Seq(Atoms) /\ Len(u \o one) = Len(u) + Len(one)
            /\ \A i \in 1..(Len(u) + Len(one)) :
                 (u \o one)[i] = IF i <= Len(u) THEN u[i] ELSE one[i - Len(u)]
        BY <2>2, ConcatProperties
      <4> QED
        BY <1>4, <4>1
    <3> QED
      BY <2>1, <2>2, <3>1
  <2> QED
    BY <2>1, <2>3
<1>6. t[1] = a /\ t[m + 2] = a
  <2>1. 1 \in 1..((1 + m) + 1) /\ m + 2 \in 1..((1 + m) + 1) /\ 1 <= 1 + m
        /\ ~(m + 2 <= 1 + m) /\ (m + 2) - (1 + m) = 1 /\ 1 \in 1..(1 + m)
    BY <1>2
  <2>2. t[1] = u[1] /\ u[1] = one[1] /\ t[m + 2] = one[(m + 2) - (1 + m)]
    BY <1>3, <1>5, <2>1
  <2> QED
    BY <1>2, <2>1, <2>2
<1>7. ASSUME NEW i \in 1..m PROVE t[i + 1] = s[i]
  <2>1. i + 1 \in 1..((1 + m) + 1) /\ i + 1 \in 1..(1 + m) /\ i + 1 <= 1 + m
        /\ ~(i + 1 <= 1) /\ (i + 1) - 1 = i
    BY <1>2
  <2>2. t[i + 1] = u[i + 1]
    BY <1>5, <2>1
  <2>3. u[i + 1] = s[(i + 1) - 1]
    BY <1>3, <2>1
  <2> QED
    BY <2>1, <2>2, <2>3
<1>8. (1 + m) + 1 = m + 2
  BY <1>2
<1> QED
  BY <1>2, <1>5, <1>6, <1>7, <1>8 DEF IsAround

\* The forms are masked one after the other.
MaskingPathIs(f, text, forms, marker, n) ==
  /\ f[0] = text
  /\ \A k \in 1..n : f[k] = Replaced(f[k - 1], forms[k], marker)
  /\ \A k \in 0..n : f[k] \in Texts
  /\ MaskedInTurn(text, forms, marker) = f[n]

LEMMA MaskingPath ==
  ASSUME NEW text \in Texts, NEW forms \in Seq(Solid), NEW marker \in Texts,
         NEW n, n = Len(forms)
  PROVE  \E f : MaskingPathIs(f, text, forms, marker, n)
<1> DEFINE base == text
           seq == forms
           g == [p \in Texts \X (1..n) |-> Replaced(p[1], seq[p[2]], marker)]
           Iterates(z) == z = [x \in SUBSET (DOMAIN seq) |->
                                 IF x = {} THEN base
                                 ELSE Replaced(z[x \ {Max(x)}], seq[Max(x)], marker)]
           it == CHOOSE z : Iterates(z)
<1>1. n \in Nat /\ DOMAIN seq = 1..n /\ base \in Texts
      /\ \A k \in 1..n : seq[k] \in Texts
  <2>1. n \in Nat /\ DOMAIN seq = 1..n /\ \A k \in 1..n : seq[k] \in Solid
    OBVIOUS
  <2> QED
    BY <2>1 DEF Solid
<1>2. MaskedInTurn(text, forms, marker) = it[DOMAIN seq]
  BY DEF MaskedInTurn, FoldLeft, MapThenFoldSet
<1>3. \A k \in 1..n : seq[k] = forms[k]
  BY <1>1
<1> HIDE DEF seq
<1>4. g \in [Texts \X (1..n) -> Texts]
  BY <1>1, ReplacedTyped
<1>5. \A q \in Texts, k \in 1..n : g[q, k] = Replaced(q, seq[k], marker)
  OBVIOUS
<1>6. PICK z : Within(z, base, g, n, Texts)
  BY <1>1, <1>4, FoldsWithin
<1> HIDE DEF g, base
<1>7. Iterates(it)
  <2>1. \A x \in SUBSET (1..n) :
          x # {} => z[x] = Replaced(z[x \ {Max(x)}], seq[Max(x)], marker)
    BY <1>5, <1>6 DEF Within
  <2>2. Iterates(z)
    BY <1>1, <1>6, <2>1 DEF Within
  <2> QED
    BY <2>2
<1> HIDE DEF it
<1>8. Computes(it, base, g, n, Texts)
  <2>1. \A x \in SUBSET (1..n) :
          x # {} /\ it[x \ {Max(x)}] \in Texts =>
            it[x] = g[it[x \ {Max(x)}], Max(x)]
    <3>1. \A x \in SUBSET (1..n) : x # {} => Max(x) \in 1..n
      BY <1>6 DEF Within
    <3>2. \A x \in SUBSET (1..n) :
            x # {} => it[x] = Replaced(it[x \ {Max(x)}], seq[Max(x)], marker)
      BY <1>1, <1>7
    <3> QED
      BY <1>5, <3>1, <3>2
  <2>2. it[{}] = base
    BY <1>1, <1>7
  <2> QED
    BY <1>1, <1>4, <2>1, <2>2 DEF Computes
<1>11. PICK f : Path(f, base, g, n, Texts) /\ f[n] = it[1..n]
  BY <1>1, <1>8, FoldsAsPath
<1>12. \A k \in 1..n : f[k] = Replaced(f[k - 1], forms[k], marker)
  <2>1. ASSUME NEW k \in 1..n PROVE f[k] = Replaced(f[k - 1], forms[k], marker)
    <3>1. k - 1 \in 0..n
      BY <1>1
    <3>2. f[k] = Replaced(f[k - 1], seq[k], marker)
      BY <1>5, <1>11, <3>1 DEF Path
    <3> QED
      BY <1>3, <3>2
  <2> QED
    BY <2>1
<1>13. f[0] = base /\ \A k \in 0..n : f[k] \in Texts
  BY <1>11 DEF Path
<1> QED
  BY <1>1, <1>2, <1>11, <1>12, <1>13 DEF base, MaskingPathIs

\* Masking the secret itself leaves the marker.
LEMMA ReplacedOnce ==
  ASSUME NEW a \in Atoms, NEW s \in Solid, NEW r \in Texts, a \notin Range(s)
  PROVE  Replaced(Around(a, s), s, r) = Around(a, r)
<1>1. PICK t, m, n : t = Around(a, s) /\ m = Len(s) /\ n = m + 2
  OBVIOUS
<1>2. m \in Nat \ {0} /\ s \in Seq(Atoms) /\ r \in Seq(Atoms) /\ s \in Texts
  BY <1>1, EmptySeq DEF Solid, Texts
<1>3. /\ t \in Seq(Atoms) /\ Len(t) = n /\ t[1] = a /\ t[m + 2] = a
      /\ \A i \in 1..m : t[i + 1] = s[i]
  <2>1. IsAround(t, a, s, m)
    BY <1>1, <1>2, AroundIs
  <2> QED
    BY <1>1, <2>1 DEF IsAround
<1>4. PICK f : ReplacedPathIs(f, t, s, r, n)
  BY <1>2, <1>3, ReplacedPath DEF Texts
<1>5. \A i \in 1..m : s[i] # a
  <2>1. DOMAIN s = 1..m
    BY <1>1, <1>2
  <2> QED
    BY <2>1 DEF Range
<1>6. PICK b : b = <<a>> /\ b \in Seq(Atoms)
  <2>1. <<a>> \in Seq(Atoms)
    OBVIOUS
  <2> QED
    BY <2>1
<1>7. f[1] = [text |-> b, next |-> 2]
  <2>1. ~Occurs(s, t, 1)
    <3>1. ASSUME Occurs(s, t, 1) PROVE FALSE
      <4>1. SubSeq(t, 1, 1 + m - 1) = s
        BY <1>1, <3>1 DEF Occurs
      <4>2. SubSeq(t, 0 + 1, 0 + Len(s)) = s /\ 0 + Len(s) <= Len(t) /\ s # <<>>
        BY <1>1, <1>2, <1>3, <4>1 DEF Solid
      <4>3. s[1] = t[0 + 1]
        BY <1>1, <1>2, <1>3, <4>2, FoundAt
      <4> QED
        BY <1>2, <1>3, <1>5, <4>3
    <3> QED
      BY <3>1
  <2>2. f[0] = [text |-> <<>>, next |-> 1] /\ f[1] = Replacing(f[0], 1, t, s, r)
    <3>1. 1 \in 1..n /\ 1 - 1 = 0
      BY <1>1, <1>2
    <3> QED
      BY <1>4, <3>1 DEF ReplacedPathIs
  <2>3. f[1] = [text |-> Append(<<>>, t[1]), next |-> 2]
    BY <2>1, <2>2 DEF Replacing
  <2>4. Append(<<>>, a) = b
    BY <1>6
  <2> QED
    BY <1>3, <2>3, <2>4
<1>8. f[2] = [text |-> b \o r, next |-> m + 2]
  <2>1. Occurs(s, t, 2)
    <3>1. PICK u : u = SubSeq(t, 2, m + 1)
      OBVIOUS
    <3>2. /\ u \in Seq(Atoms) /\ Len(u) = m
          /\ \A i \in 1..m : u[i] = t[2 + i - 1]
      <4>1. \A i \in 2..(m + 1) : t[i] \in Atoms
        BY <1>1, <1>2, <1>3
      <4>2. 2 \in Int /\ m + 1 \in Int /\ 2 <= m + 1 /\ (m + 1) - 2 + 1 = m
        BY <1>2
      <4> QED
        BY <3>1, <4>1, <4>2, SubSeqProperties
    <3>3. \A i \in 1..m : u[i] = s[i]
      <4>1. \A i \in 1..m : 2 + i - 1 = i + 1
        BY <1>2
      <4> QED
        BY <1>3, <3>2, <4>1
    <3>4. u = s
      BY <1>1, <1>2, <3>2, <3>3, SeqEqual
    <3>5. 2 + Len(s) - 1 = m + 1 /\ m + 1 <= Len(t)
      BY <1>1, <1>2, <1>3
    <3> QED
      BY <3>1, <3>4, <3>5 DEF Occurs
  <2>2. f[2] = Replacing(f[1], 2, t, s, r)
    <3>1. 2 \in 1..n /\ 2 - 1 = 1
      BY <1>1, <1>2
    <3> QED
      BY <1>4, <3>1 DEF ReplacedPathIs
  <2>3. f[2] = [text |-> b \o r, next |-> 2 + m]
    BY <1>1, <1>7, <2>1, <2>2 DEF Replacing
  <2>4. 2 + m = m + 2
    BY <1>2
  <2> QED
    BY <2>3, <2>4
<1> DEFINE T == {k \in 0..(m + 1) : k > 1 => f[k] = f[2]}
<1>9. m + 1 \in T
  <2>1. 0 \in T
    BY <1>2
  <2>2. ASSUME NEW k \in 1..(m + 1), k - 1 \in T PROVE k \in T
    <3>1. k \in 0..(m + 1) /\ (k > 2 => k - 1 > 1) /\ k \in 1..n
      BY <1>1, <1>2
    <3>2. CASE k > 2
      <4>1. f[k - 1] = f[2]
        BY <2>2, <3>1, <3>2
      <4>2. f[k] = Replacing(f[k - 1], k, t, s, r)
        BY <1>4, <3>1 DEF ReplacedPathIs
      <4>3. k < f[k - 1].next
        BY <1>2, <1>8, <4>1
      <4>4. f[k] = f[k - 1]
        BY <4>2, <4>3 DEF Replacing
      <4> QED
        BY <3>1, <4>1, <4>4
    <3>3. CASE ~(k > 2)
      <4>1. k > 1 => k = 2
        BY <3>3
      <4> QED
        BY <3>1, <4>1
    <3> QED
      BY <3>2, <3>3
  <2> HIDE DEF T
  <2>3. m + 1 \in Nat
    BY <1>2
  <2>4. 0..(m + 1) \subseteq T
    BY <2>1, <2>2, <2>3, Inductive
  <2> QED
    BY <2>3, <2>4
<1>10. f[m + 1] = [text |-> b \o r, next |-> m + 2]
  BY <1>2, <1>8, <1>9
<1>11. f[n] = [text |-> Append(b \o r, a), next |-> n + 1]
  <2>1. n \in 1..n /\ n - 1 = m + 1 /\ ~(n < m + 2)
    BY <1>1, <1>2
  <2>2. f[n] = Replacing(f[m + 1], n, t, s, r)
    BY <1>4, <2>1 DEF ReplacedPathIs
  <2>3. ~Occurs(s, t, n)
    <3>1. ASSUME Occurs(s, t, n) PROVE FALSE
      <4>1. n + m - 1 <= n /\ SubSeq(t, n, n + m - 1) = s
        BY <1>1, <1>3, <3>1 DEF Occurs
      <4>2. m = 1 /\ n = (n - 1) + 1 /\ n - 1 \in Nat /\ (n - 1) + m <= n
            /\ (n - 1) + m = n + m - 1
        BY <1>1, <1>2, <4>1
      <4>3. SubSeq(t, (n - 1) + 1, (n - 1) + Len(s)) = s /\ s # <<>>
            /\ (n - 1) + Len(s) <= Len(t)
        BY <1>1, <1>3, <4>1, <4>2 DEF Solid
      <4>4. s[1] = t[(n - 1) + 1]
        BY <1>1, <1>2, <1>3, <4>2, <4>3, FoundAt
      <4>5. s[1] = a
        BY <1>1, <1>3, <4>2, <4>4
      <4> QED
        BY <1>2, <1>5, <4>5
    <3> QED
      BY <3>1
  <2>4. f[n] = [text |-> Append(b \o r, t[n]), next |-> n + 1]
    BY <1>10, <2>1, <2>2, <2>3 DEF Replacing
  <2> QED
    BY <1>1, <1>3, <2>4
<1>12. Append(b \o r, a) = Around(a, r)
  <2>1. PICK u : u = b \o r
    OBVIOUS
  <2>2. u \in Seq(Atoms)
    BY <1>2, <1>6, <2>1, ConcatProperties
  <2>3. Append(u, a) = u \o <<a>>
    BY <2>2, AppendIsConcat
  <2> QED
    BY <1>6, <2>1, <2>3 DEF Around
<1>13. Replaced(t, s, r) = f[n].text
  BY <1>4 DEF ReplacedPathIs
<1> QED
  BY <1>1, <1>11, <1>12, <1>13

\* A secret in a text holds no other one that is as long at least.
LEMMA LongerAbsent ==
  ASSUME NEW a \in Atoms, NEW s \in Solid, NEW u \in Solid, u # s,
         Len(u) >= Len(s), a \notin Range(u)
  PROVE  ~Includes(Around(a, s), u)
<1>1. PICK t, m, n : t = Around(a, s) /\ m = Len(s) /\ n = Len(u)
  OBVIOUS
<1>2. /\ m \in Nat \ {0} /\ s \in Seq(Atoms) /\ n \in Nat \ {0} /\ u \in Seq(Atoms)
      /\ u # <<>> /\ n >= m
  BY <1>1, EmptySeq DEF Solid, Texts
<1>3. /\ t \in Seq(Atoms) /\ Len(t) = m + 2 /\ t[1] = a /\ t[m + 2] = a
      /\ \A i \in 1..m : t[i + 1] = s[i]
  <2>1. IsAround(t, a, s, m)
    BY <1>1, <1>2, AroundIs
  <2> QED
    BY <1>1, <2>1 DEF IsAround
<1>4. \A i \in 1..n : u[i] # a
  <2>1. DOMAIN u = 1..n
    BY <1>1, <1>2
  <2> QED
    BY <2>1 DEF Range
<1>5. ASSUME NEW i \in 0..((m + 2) - n), SubSeq(t, i + 1, i + n) = u PROVE FALSE
  <2>1. i \in Nat /\ i + n <= m + 2
    BY <1>2
  <2>2. \A k \in 1..n : u[k] = t[i + k]
    <3>1. i + Len(u) <= Len(t) /\ SubSeq(t, i + 1, i + Len(u)) = u
      BY <1>1, <1>3, <1>5, <2>1
    <3>2. \A k \in 1..Len(u) : i + k \in 1..Len(t) /\ u[k] = t[i + k]
      <4>1. t \in Seq(Atoms) /\ u \in Seq(Atoms) /\ u # <<>> /\ i \in Nat
        BY <1>2, <1>3, <2>1
      <4> QED
        BY <3>1, <4>1, FoundAt
    <3> QED
      BY <1>1, <3>2
  <2>3. i # 0
    <3>1. ASSUME i = 0 PROVE FALSE
      <4>1. 1 \in 1..n /\ i + 1 = 1
        BY <1>2, <3>1
      <4>2. u[1] = a
        BY <1>3, <2>2, <4>1
      <4> QED
        BY <1>4, <4>1, <4>2
    <3> QED
      BY <3>1
  <2>4. i + n # m + 2
    <3>1. ASSUME i + n = m + 2 PROVE FALSE
      <4>1. n \in 1..n
        BY <1>2
      <4>2. u[n] = a
        BY <1>3, <2>2, <3>1, <4>1
      <4> QED
        BY <1>4, <4>1, <4>2
    <3> QED
      BY <3>1
  <2>5. i = 1 /\ n = m
    BY <1>2, <2>1, <2>3, <2>4
  <2>6. \A k \in 1..m : u[k] = s[k]
    <3>1. \A k \in 1..m : i + k = k + 1
      BY <1>2, <2>5
    <3> QED
      BY <1>3, <2>2, <2>5, <3>1
  <2>7. u = s
    BY <1>1, <1>2, <2>5, <2>6, SeqEqual
  <2> QED
    BY <2>7
<1> QED
  BY <1>1, <1>3, <1>5 DEF Includes

\* A text has no part whose atoms it has not.
LEMMA ForeignAbsent ==
  ASSUME NEW a \in Atoms, NEW r \in Texts, NEW u \in Solid, a \notin Range(u),
         Range(u) \cap Range(r) = {}
  PROVE  ~Includes(Around(a, r), u)
<1>1. PICK t, m, n : t = Around(a, r) /\ m = Len(r) /\ n = Len(u)
  OBVIOUS
<1>2. /\ m \in Nat /\ r \in Seq(Atoms) /\ n \in Nat \ {0} /\ u \in Seq(Atoms)
      /\ u # <<>>
  BY <1>1, EmptySeq DEF Solid, Texts
<1>3. /\ t \in Seq(Atoms) /\ Len(t) = m + 2 /\ t[1] = a /\ t[m + 2] = a
      /\ \A i \in 1..m : t[i + 1] = r[i]
  <2>1. IsAround(t, a, r, m)
    BY <1>1, <1>2, AroundIs
  <2> QED
    BY <1>1, <2>1 DEF IsAround
<1>4. u[1] \in Range(u)
  BY <1>1, <1>2 DEF Range
<1>5. ASSUME NEW i \in 0..((m + 2) - n), SubSeq(t, i + 1, i + n) = u PROVE FALSE
  <2>1. i \in Nat /\ i + n <= m + 2 /\ i + 1 \in 1..(m + 2) /\ 1 \in 1..n
    BY <1>2
  <2>2. u[1] = t[i + 1]
    <3>1. i + Len(u) <= Len(t) /\ SubSeq(t, i + 1, i + Len(u)) = u
      BY <1>1, <1>3, <1>5, <2>1
    <3>2. \A k \in 1..Len(u) : i + k \in 1..Len(t) /\ u[k] = t[i + k]
      <4>1. t \in Seq(Atoms) /\ u \in Seq(Atoms) /\ u # <<>> /\ i \in Nat
        BY <1>2, <1>3, <2>1
      <4> QED
        BY <3>1, <4>1, FoundAt
    <3> QED
      BY <1>1, <2>1, <3>2
  <2>3. i = 0 \/ i = m + 1 \/ i \in 1..m
    BY <1>2, <2>1
  <2>4. CASE i \in 1..m
    <3>1. t[i + 1] = r[i] /\ r[i] \in Range(r)
      BY <1>1, <1>2, <1>3, <2>4 DEF Range
    <3> QED
      BY <1>4, <2>2, <3>1
  <2>5. CASE i = 0 \/ i = m + 1
    <3>1. i + 1 = 1 \/ i + 1 = m + 2
      BY <1>2, <2>5
    <3> QED
      BY <1>3, <1>4, <2>2, <3>1
  <2> QED
    BY <2>3, <2>4, <2>5
<1> QED
  BY <1>1, <1>3, <1>5 DEF Includes

\* Which marker is chosen depends on what forms there are, not on their order.
LEMMA PlaceholderIs ==
  ASSUME NEW forms, NEW others, Range(forms) = Range(others)
  PROVE  /\ Placeholder(forms, Marker) \in Texts
         /\ Placeholder(others, Marker) = Placeholder(forms, Marker)
<1>1. PICK ms : ms = <<Marker>> \o Fallbacks
  OBVIOUS
<1>2. PICK n : n = Len(ms) /\ n \in Nat /\ \A i \in 1..n : ms[i] \in Texts
  <2>1. Marker \in Texts /\ Fallbacks \in Seq(Texts)
    BY RedactorAssumption
  <2>2. PICK one : one = <<Marker>> /\ one \in Seq(Texts)
    <3>1. PICK m : m = Marker /\ m \in Texts
      BY <2>1
    <3>2. <<m>> \in Seq(Texts)
      BY <3>1
    <3> QED
      BY <3>1, <3>2
  <2>3. ms \in Seq(Texts)
    BY <1>1, <2>1, <2>2, ConcatProperties
  <2> QED
    BY <2>3
<1>3. PICK I : I = {i \in 1..n : \A k \in DOMAIN forms : ~Includes(ms[i], forms[k])}
  OBVIOUS
<1>4. I = {i \in 1..n : \A k \in DOMAIN others : ~Includes(ms[i], others[k])}
  <2>1. ASSUME NEW i \in 1..n
        PROVE  (\A k \in DOMAIN forms : ~Includes(ms[i], forms[k]))
                 <=> (\A k \in DOMAIN others : ~Includes(ms[i], others[k]))
    BY DEF Range
  <2> QED
    BY <1>3, <2>1
<1>5. PICK c : c = IF I # {} THEN Min(I) ELSE 0
  OBVIOUS
<1>6. Placeholder(forms, Marker) = IF c = 0 THEN <<>> ELSE ms[c]
  BY <1>1, <1>2, <1>3, <1>5 DEF Placeholder, SelectInSeq
<1>7. Placeholder(others, Marker) = IF c = 0 THEN <<>> ELSE ms[c]
  BY <1>1, <1>2, <1>4, <1>5 DEF Placeholder, SelectInSeq
<1>8. c # 0 => ms[c] \in Texts
  <2>1. I # {} => Min(I) \in I
    <3>1. I \subseteq Nat
      BY <1>3
    <3> QED
      BY <3>1, MinOf
  <2> QED
    BY <1>2, <1>3, <1>5, <2>1
<1>9. <<>> \in Texts
  BY DEF Texts
<1> QED
  BY <1>6, <1>7, <1>8, <1>9

LEMMA MaskedInTurnIs ==
  ASSUME NEW forms \in Seq(Solid), Descends(forms), NEW r \in Texts,
         NEW a \in Atoms, NEW s \in Range(forms),
         \A u \in Range(forms) : a \notin Range(u) /\ Range(u) \cap Range(r) = {}
  PROVE  MaskedInTurn(Around(a, s), forms, r) = Around(a, r)
<1>1. PICK n : n = Len(forms) /\ n \in Nat /\ DOMAIN forms = 1..n
                /\ \A k \in 1..n : forms[k] \in Solid /\ forms[k] \in Range(forms)
  BY DEF Range
<1>2. PICK j \in 1..n : forms[j] = s /\ \A i \in 1..n : forms[i] = s => j <= i
  <2>1. PICK J : J = {i \in 1..n : forms[i] = s}
    OBVIOUS
  <2>2. J \subseteq Nat /\ J # {}
    BY <1>1, <2>1 DEF Range
  <2>3. PICK j \in J : \A i \in J : j <= i
    BY <2>2, LeastNumber
  <2> QED
    BY <2>1, <2>3
<1>3. s \in Solid
  BY <1>1, <1>2
<1>4. PICK before, after : before = Around(a, s) /\ after = Around(a, r)
  OBVIOUS
<1>5. before \in Texts /\ after \in Texts
  <2>1. s \in Seq(Atoms) /\ r \in Seq(Atoms)
    BY <1>3 DEF Solid, Texts
  <2> QED
    BY <1>4, <2>1, AroundIs DEF IsAround, Texts
<1>6. PICK f : MaskingPathIs(f, before, forms, r, n)
  BY <1>1, <1>5, MaskingPath
<1> DEFINE T == {k \in 0..n : f[k] = IF k < j THEN before ELSE after}
<1>7. 0 \in T
  BY <1>1, <1>6 DEF MaskingPathIs
<1>8. ASSUME NEW k \in 1..n, k - 1 \in T PROVE k \in T
  <2>1. PICK u : u = forms[k] /\ u \in Solid /\ u \in Range(forms)
    BY <1>1
  <2>2. f[k] = Replaced(f[k - 1], u, r) /\ k \in 0..n
    BY <1>1, <1>6, <2>1 DEF MaskingPathIs
  <2>3. CASE k < j
    <3>1. f[k - 1] = before
      BY <1>8, <2>3
    <3>2. u # s /\ Len(u) >= Len(s)
      <4>1. j \in DOMAIN forms /\ k \in DOMAIN forms
        BY <1>1, <1>2
      <4> QED
        BY <1>2, <2>1, <2>3, <4>1 DEF Descends
    <3>3. ~Includes(before, u)
      BY <1>3, <1>4, <2>1, <3>2, LongerAbsent
    <3>4. Replaced(before, u, r) = before
      BY <1>5, <2>1, <3>3, ReplacedAbsent
    <3> QED
      BY <2>2, <2>3, <3>1, <3>4
  <2>4. CASE k = j
    <3>1. f[k - 1] = before /\ u = s
      BY <1>2, <1>8, <2>1, <2>4
    <3>2. Replaced(before, s, r) = after
      BY <1>3, <1>4, ReplacedOnce
    <3> QED
      BY <2>2, <2>4, <3>1, <3>2
  <2>5. CASE k > j
    <3>1. f[k - 1] = after
      BY <1>8, <2>5
    <3>2. ~Includes(after, u)
      BY <1>4, <2>1, ForeignAbsent
    <3>3. Replaced(after, u, r) = after
      BY <1>5, <2>1, <3>2, ReplacedAbsent
    <3> QED
      BY <2>2, <2>5, <3>1, <3>3
  <2> QED
    BY <2>3, <2>4, <2>5
<1>9. n \in T
  <2> HIDE DEF T
  <2>1. 0..n \subseteq T
    BY <1>1, <1>7, <1>8, Inductive
  <2> QED
    BY <1>1, <2>1
<1>10. f[n] = after
  BY <1>2, <1>9
<1> QED
  BY <1>4, <1>6, <1>10 DEF MaskingPathIs

LEMMA OneMarker ==
  ASSUME NEW secrets \in Seq(Texts), NEW forms, forms = Forms(secrets),
         NEW r, r = Placeholder(forms, Marker),
         NEW a \in Atoms, NEW s \in Range(forms),
         \A u \in Range(forms) : a \notin Range(u) /\ Range(u) \cap Range(r) = {}
  PROVE  Redacted(Around(a, s), secrets) = Around(a, r)
<1>1. forms \in Seq(Solid)
  BY FormsTyped
<1>2. PICK l : l = LongestFirst(forms)
  OBVIOUS
<1>3. l \in Seq(Solid) /\ Range(l) = Range(forms) /\ Descends(l)
  BY <1>1, <1>2, LongestFirstIs
<1>4. r \in Texts /\ Placeholder(l, Marker) = r
  BY <1>3, PlaceholderIs
<1>5. PICK before, after : before = Around(a, s) /\ after = Around(a, r)
  OBVIOUS
<1>6. Redacted(before, secrets) = WithoutForms(before, l, r)
  BY <1>2, <1>4 DEF Redacted, Masked, MaskedForms
<1>7. MaskedInTurn(before, l, r) = after
  BY <1>3, <1>4, <1>5, MaskedInTurnIs
<1>8. \A k \in DOMAIN l : ~Includes(after, l[k])
  <2>1. ASSUME NEW k \in DOMAIN l PROVE ~Includes(after, l[k])
    <3>1. PICK u : u = l[k] /\ u \in Solid /\ u \in Range(l)
      BY <1>3 DEF Range
    <3> QED
      BY <1>3, <1>4, <1>5, <3>1, ForeignAbsent
  <2> QED
    BY <2>1
<1>9. WithoutForms(before, l, r) = after
  BY <1>7, <1>8 DEF WithoutForms
<1> QED
  BY <1>5, <1>6, <1>9

LEMMA DerivedTyped ==
  ASSUME Budget \in Nat \ {0}, injected.items \in Seq(Items),
         NEW bases \in Seq(Texts)
  PROVE  Derived(bases, injected.items).variants \in Seq(Texts)
<1>1. PICK n, h : n = Len(bases) /\ h = Share(n) /\ n \in Nat
  OBVIOUS
<1>2. h \in Nat
  BY <1>1 DEF Share
<1>3. PICK x : x = Closing(bases, h).all
  OBVIOUS
<1>4. x \in Seq(States)
  <2>1. PICK f : ClosingPathIs(f, bases, h, n)
    BY <1>1, <1>2, ClosingPath
  <2> QED
    BY <1>1, <1>3, <2>1 DEF ClosingPathIs, Closures
<1>5. Derived(bases, injected.items) = Collected(bases, x)
  <2>1. Derived(bases, injected.items) =
            Collected(bases, Closing(bases, Share(Len(bases))).all)
    BY DEF Derived, Closing
  <2> QED
    BY <1>1, <1>3, <2>1
<1>6. PICK ss : ss = [k \in DOMAIN x |-> x[k].local]
  OBVIOUS
<1>7. ss \in Seq(Seq(Texts))
  <2>1. PICK m \in Nat : DOMAIN x = 1..m /\ \A k \in 1..m : x[k] \in States
    BY <1>4
  <2>2. \A k \in 1..m : ss[k] \in Seq(Texts)
    BY <1>6, <2>1 DEF States
  <2> QED
    BY <1>6, <2>1, <2>2
<1>8. PICK u : u = FlattenSeq(ss) /\ u \in Seq(Texts)
  BY <1>7, FlattenTyped
<1>9. bases \o u \in Seq(Texts)
  BY <1>8, ConcatProperties
<1>10. Collected(bases, x).variants = WithoutRepeats(bases \o u)
  BY <1>6, <1>8 DEF Collected
<1> QED
  BY <1>5, <1>9, <1>10, WithoutRepeatsTyped

LeaveOneMarker(forms, r, atoms) ==
  \A k \in DOMAIN forms : \A a \in atoms :
    Redacted(<<a>> \o forms[k] \o <<a>>, closure.variants) = <<a>> \o r \o <<a>>

LEMMA ClosureLeavesOneMarker ==
  ASSUME RedactionTyped, ClosureIsDerived, pc = "derived",
         NEW forms, forms = Forms(closure.variants),
         NEW r, r = Placeholder(forms, Marker),
         \A k \in DOMAIN forms : Range(forms[k]) \cap Range(r) = {},
         NEW atoms, atoms = {a \in UNION {Range(wire[f]) : f \in DOMAIN wire} :
                               \A k \in DOMAIN forms : a \notin Range(forms[k])}
  PROVE  LeaveOneMarker(forms, r, atoms)
<1> SUFFICES ASSUME NEW k \in DOMAIN forms, NEW a \in atoms
             PROVE  Redacted(<<a>> \o forms[k] \o <<a>>, closure.variants)
                      = <<a>> \o r \o <<a>>
  BY DEF LeaveOneMarker
<1>1. closure.variants \in Seq(Texts)
  <2>1. PICK bases : bases = Bases(Secrets) /\ bases \in Seq(Texts)
    BY SecretsTyped
  <2>2. injected.items \in Seq(Items) /\ Budget \in Nat \ {0}
    BY RedactionAssumption DEF RedactionTyped, Records
  <2>3. closure = Derived(bases, injected.items)
    BY <2>1 DEF ClosureIsDerived
  <2> QED
    BY <2>1, <2>2, <2>3, DerivedTyped
<1>2. a \in Atoms
  <2>1. PICK f \in DOMAIN wire : a \in Range(wire[f])
    OBVIOUS
  <2>2. wire \in Seq(Seq(Atoms))
    BY DEF RedactionTyped, Texts
  <2>3. PICK t : t = wire[f] /\ t \in Seq(Atoms)
    BY <2>1, <2>2
  <2> QED
    BY <2>1, <2>3 DEF Range
<1>3. PICK s : s = forms[k] /\ s \in Range(forms)
  BY DEF Range
<1>4. \A u \in Range(forms) : a \notin Range(u) /\ Range(u) \cap Range(r) = {}
  BY DEF Range
<1>5. Redacted(Around(a, s), closure.variants) = Around(a, r)
  BY <1>1, <1>2, <1>3, <1>4, OneMarker
<1> QED
  BY <1>3, <1>5 DEF Around

\* OneMarkerPerSecret: in a text that has nothing else in common with them, a
\* secret or its JSON form leaves one marker, whatever longer form it is part of
\* and whatever shorter one is part of it.
THEOREM SecretsLeaveOneMarker == RedactionSpec => []OneMarkerPerSecret
<1>1. RedactionTyped /\ ClosureIsDerived => OneMarkerPerSecret
  <2> DEFINE forms == Forms(closure.variants)
             r == Placeholder(forms, Marker)
             atoms == {a \in UNION {Range(wire[f]) : f \in DOMAIN wire} :
                         \A k \in DOMAIN forms : a \notin Range(forms[k])}
  <2>1. ((pc = "derived" /\ (\A k \in DOMAIN forms :
                               Range(forms[k]) \cap Range(r) = {}))
           => LeaveOneMarker(forms, r, atoms)) => OneMarkerPerSecret
    BY Zenon DEF OneMarkerPerSecret, LeaveOneMarker
  <2> HIDE DEF forms, r, atoms
  <2>2. ASSUME RedactionTyped, ClosureIsDerived, pc = "derived",
               \A k \in DOMAIN forms : Range(forms[k]) \cap Range(r) = {}
        PROVE  LeaveOneMarker(forms, r, atoms)
    <3>1. PICK f, m, b : f = forms /\ m = r /\ b = atoms
      OBVIOUS
    <3>2. f = Forms(closure.variants) /\ m = Placeholder(f, Marker)
      BY <3>1 DEF forms, r
    <3>3. b = {a \in UNION {Range(wire[g]) : g \in DOMAIN wire} :
                 \A k \in DOMAIN f : a \notin Range(f[k])}
      BY <3>1 DEF atoms
    <3>4. LeaveOneMarker(f, m, b)
      BY <2>2, <3>1, <3>2, <3>3, ClosureLeavesOneMarker
    <3> QED
      BY <3>1, <3>4
  <2> QED
    BY <2>1, <2>2
<1>2. RedactionInit => ClosureIsDerived
  BY DEF RedactionInit, ClosureIsDerived
<1>3. ClosureIsDerived /\ [RedactionNext]_redactionVars => ClosureIsDerived'
  BY ClosureFollows
<1>4. RedactionSpec => []ClosureIsDerived
  BY <1>2, <1>3, PTL DEF RedactionSpec
<1> QED
  BY <1>1, <1>4, RedactionIsTyped, PTL
=============================================================================
