-------------------------- MODULE ReflectionCache --------------------------
(***************************************************************************)
(* The cache of gRPC server descriptors (src/core/grpcReflection.ts):      *)
(* calls of getFileDescriptors that share fetches, entries that expire,    *)
(* and invalidate, clear and size at any moment in between.                *)
(*                                                                         *)
(* A target stands for its cache key.  A fetch is named by the call that   *)
(* started it, and descriptors by the fetch that brought them.             *)
(***************************************************************************)
EXTENDS Naturals

CONSTANTS
  Targets,    \* the servers, each a host, a port and plaintext or not
  Calls,      \* the calls that may be made
  Undefined,  \* undefined
  Ttls,       \* the times to live, in ticks; 0 disables the cache
  MaxTime     \* bound: the clock stops

ASSUME CacheAssumption ==
  Undefined \notin Calls /\ Ttls \subseteq Nat /\ MaxTime \in Nat

VARIABLES
  ttl,      \* ttlMs
  now,      \* the clock
  entries,  \* each target's entry, or Undefined
  inflight, \* each target's promise: a fetch, or Undefined
  fetch,    \* each fetch
  call,     \* each call
  outdated, \* history: each target's fetches that ended before it was last
            \* invalidated with no fetch running
  cleared   \* history: the targets that clear() met with a fetch running
            \* that has run, or another one, ever since

cacheVars == <<ttl, now, entries, inflight, fetch, call, outdated, cleared>>

Entry == [from : Calls, expiresAt : 0..(MaxTime + ttl)]

NoFetch == [state |-> "none", target |-> Undefined, threw |-> FALSE]
Fetches == [state : {"none", "running", "served", "failed"},
            target : Targets \cup {Undefined}, threw : BOOLEAN]

\* A call ends served with the descriptors of a fetch, or failed.  Histories:
\* when it was made, when what it was served with expires, and which fetches
\* were outdated when it was made.
NoCall == [state |-> "none", target |-> Undefined, on |-> Undefined, at |-> 0,
           expires |-> 0, outdated |-> {}]
CallStates == [state : {"none", "waiting", "served", "failed"},
               target : Targets \cup {Undefined}, on : Calls \cup {Undefined},
               at : 0..MaxTime, expires : 0..(MaxTime + ttl),
               outdated : SUBSET Calls]

Running(t) == {f \in Calls : fetch[f].state = "running" /\ fetch[f].target = t}

\* ------------------------------------------------------------------------
\* getFileDescriptors, up to its first await.

\* Faulty variant: an entry is served at the moment it expires.
LivesAtExpiry(t) == entries[t] # Undefined /\ entries[t].expiresAt >= now

Lives(t) == entries[t] # Undefined /\ entries[t].expiresAt > now

\* Faulty variant: every call fetches.
NeverInFlight(t) == FALSE

InFlight(t) == inflight[t] # Undefined

Made(t) ==
  [NoCall EXCEPT !.target = t, !.at = now, !.outdated = outdated[t]]

GetCached(c, t) ==
  /\ call[c].state = "none" /\ Lives(t)
  /\ call' = [call EXCEPT ![c] =
                [Made(t) EXCEPT !.state = "served", !.on = entries[t].from,
                                !.expires = entries[t].expiresAt]]
  /\ UNCHANGED <<ttl, now, entries, inflight, fetch, outdated, cleared>>

\* The promise may have been rejected before it came into the map.
GetShared(c, t) ==
  /\ call[c].state = "none" /\ ~Lives(t) /\ InFlight(t)
  /\ LET f == inflight[t]
         state == IF fetch[f].state = "running" THEN "waiting" ELSE "failed"
     IN call' = [call EXCEPT ![c] = [Made(t) EXCEPT !.state = state, !.on = f]]
  /\ UNCHANGED <<ttl, now, entries, inflight, fetch, outdated, cleared>>

\* The fetcher starts, or throws before it returns a promise: then finally
\* runs first, and the rejected promise is put into the map after it.
GetFetched(c, t, threw) ==
  /\ call[c].state = "none" /\ ~Lives(t) /\ ~InFlight(t)
  /\ inflight' = [inflight EXCEPT ![t] = c]
  /\ fetch' = [fetch EXCEPT ![c] =
                 [state |-> IF threw THEN "failed" ELSE "running",
                  target |-> t, threw |-> threw]]
  /\ call' = [call EXCEPT ![c] =
                [Made(t) EXCEPT
                   !.state = IF threw THEN "failed" ELSE "waiting",
                   !.on = c]]
  /\ UNCHANGED <<ttl, now, entries, outdated, cleared>>

\* ------------------------------------------------------------------------
\* A fetch ends: its descriptors are valid or not, or the fetcher rejects.
\* Every call that waits for it gets what it gives.

\* Faulty variant: only success clears the way.
ReleasedIfServed(f, state) ==
  IF state = "served" THEN [inflight EXCEPT ![fetch[f].target] = Undefined]
  ELSE inflight

\* finally deletes whatever promise the map holds for the target.
Released(f, state) == [inflight EXCEPT ![fetch[f].target] = Undefined]

Settle(f, state) ==
  LET t == fetch[f].target IN
  /\ fetch[f].state = "running"
  /\ fetch' = [fetch EXCEPT ![f].state = state]
  /\ inflight' = Released(f, state)
  /\ entries' = IF state = "served" /\ ttl > 0
                THEN [entries EXCEPT ![t] = [from |-> f,
                                             expiresAt |-> now + ttl]]
                ELSE entries
  /\ call' = [c \in Calls |->
       IF call[c].state = "waiting" /\ call[c].on = f
       THEN [call[c] EXCEPT !.state = state, !.expires = now + ttl]
       ELSE call[c]]
  /\ cleared' = IF Running(t) = {f} THEN cleared \ {t} ELSE cleared
  /\ UNCHANGED <<ttl, now, outdated>>

\* ------------------------------------------------------------------------
\* The other operations, and the clock.

Ended == {f \in Calls : fetch[f].state \in {"served", "failed"}}
Outdates(ts) ==
  [t \in Targets |-> IF t \in ts /\ Running(t) = {}
                     THEN {f \in Ended : fetch[f].target = t}
                     ELSE outdated[t]]

Invalidate(t) ==
  /\ entries' = [entries EXCEPT ![t] = Undefined]
  /\ outdated' = Outdates({t})
  /\ UNCHANGED <<ttl, now, inflight, fetch, call, cleared>>

ClearCache ==
  /\ entries' = [t \in Targets |-> Undefined]
  /\ inflight' = [t \in Targets |-> Undefined]
  /\ outdated' = Outdates(Targets)
  /\ cleared' = cleared \cup {t \in Targets : Running(t) # {}}
  /\ UNCHANGED <<ttl, now, fetch, call>>

Size ==
  /\ entries' = [t \in Targets |-> IF Lives(t) THEN entries[t] ELSE Undefined]
  /\ UNCHANGED <<ttl, now, inflight, fetch, call, outdated, cleared>>

Tick ==
  /\ now < MaxTime /\ now' = now + 1
  /\ UNCHANGED <<ttl, entries, inflight, fetch, call, outdated, cleared>>

CacheInit ==
  /\ ttl \in Ttls /\ now = 0
  /\ entries = [t \in Targets |-> Undefined]
  /\ inflight = [t \in Targets |-> Undefined]
  /\ fetch = [c \in Calls |-> NoFetch]
  /\ call = [c \in Calls |-> NoCall]
  /\ outdated = [t \in Targets |-> {}]
  /\ cleared = {}

CacheNext ==
  \/ \E c \in Calls, t \in Targets :
       \/ GetCached(c, t) \/ GetShared(c, t)
       \/ \E threw \in BOOLEAN : GetFetched(c, t, threw)
  \/ \E f \in Calls, state \in {"served", "failed"} : Settle(f, state)
  \/ \E t \in Targets : Invalidate(t)
  \/ ClearCache \/ Size \/ Tick

CacheSpec == CacheInit /\ [][CacheNext]_cacheVars

\* ------------------------------------------------------------------------
\* Properties.

\* Every variable has its type.
TypeOK ==
  /\ ttl \in Ttls /\ now \in 0..MaxTime
  /\ entries \in [Targets -> Entry \cup {Undefined}]
  /\ inflight \in [Targets -> Calls \cup {Undefined}]
  /\ fetch \in [Calls -> Fetches]
  /\ call \in [Calls -> CallStates]
  /\ outdated \in [Targets -> SUBSET Calls]
  /\ cleared \subseteq Targets

\* "Concurrent lookups for the same key coalesce into a single fetch" (:17),
\* unless clear() forgot one that was running: its end then also makes the
\* map forget the one that came after it.
OneFetchPerTarget ==
  \A t \in Targets : \A f, g \in Running(t) : f = g \/ t \in cleared

\* "Failed fetches are NOT cached; the next call retries" (:20): what a call
\* finds in the map is a fetch of its target that is running, unless the
\* fetcher threw before it returned a promise.
FailuresAreRetried ==
  \A t \in Targets : inflight[t] # Undefined =>
    /\ fetch[inflight[t]].target = t
    /\ fetch[inflight[t]].state = "running" \/ fetch[inflight[t]].threw

\* Descriptors are served to calls made before they expire, from a fetch of
\* the call's own target, and never from one that ended before the target was
\* invalidated, if no fetch was running then (:14, :115).
AnswersAreFresh ==
  \A c \in Calls : call[c].state = "served" =>
    /\ fetch[call[c].on].state = "served"
    /\ fetch[call[c].on].target = call[c].target
    /\ call[c].on \notin call[c].outdated
    /\ ttl > 0 => call[c].at < call[c].expires
=============================================================================
