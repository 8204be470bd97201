----------------------------- MODULE CachedRead -----------------------------
(***************************************************************************)
(* A read of an outside source shared by the callers of a process: the     *)
(* promise of the read is cached for a while, and forgotten when it fails. *)
(* It is the cache of prices of apps/api/src/jupiter.ts and that of the    *)
(* pool of apps/api/src/routes/pool.ts.                                    *)
(*                                                                         *)
(* A read makes CALLS calls one after another; the first brings the value, *)
(* the others complete it.  A rejected promise runs its catch before any   *)
(* caller continues, so that failing and forgetting are one step.          *)
(***************************************************************************)
EXTENDS Integers, Sequences, FiniteSets

CONSTANTS
  Callers,
  CALLS,
  TIMEOUT,      \* UPSTREAM_TIMEOUT_MS of each call
  BOUNDED,      \* whether a call ends after TIMEOUT, retries included
  CACHE,        \* cacheMs
  OWN_ONLY,     \* whether a failed read forgets no entry but its own
  MAX_CLOCK,    \* bounds the clock
  LAST_CALL     \* no call after this moment

CachedReadAssumption ==
  /\ {CALLS, TIMEOUT, CACHE} \subseteq Nat \ {0}
  /\ {BOUNDED, OWN_ONLY} \subseteq BOOLEAN
  /\ {MAX_CLOCK, LAST_CALL} \subseteq Nat

\* Whoever forgets what is cached has read it: other reads leave the entry alone, or each
\* has ended before the next can begin.
SharingAssumption == OWN_ONLY \/ (BOUNDED /\ CALLS * TIMEOUT < CACHE)

VARIABLES
  clock,
  upstream,     \* what the source has: a value and the moment it is of
  fetches,      \* the reads begun so far
  entry,        \* the index of the cached read, 0 without one
  callers

cacheVars == <<clock, upstream, fetches, entry, callers>>

Running(f) == fetches[f].state = "running"

NewFetch ==
  [started |-> clock, asked |-> clock, calls |-> 0, state |-> "running", value |-> <<>>]

CacheInit(value) ==
  /\ clock = 0
  /\ upstream = value
  /\ fetches = <<>>
  /\ entry = 0
  /\ callers = [c \in Callers |-> [phase |-> "new", at |-> 0, fetch |-> 0]]

TimeIsUp(f) == Running(f) /\ BOUNDED /\ clock - fetches[f].asked >= TIMEOUT

\* An abort is not late.
Tick ==
  /\ clock < MAX_CLOCK
  /\ \A f \in DOMAIN fetches : ~TimeIsUp(f)
  /\ clock' = clock + 1
  /\ UNCHANGED <<upstream, fetches, entry, callers>>

Change(value) ==
  /\ upstream' = value
  /\ UNCHANGED <<clock, fetches, entry, callers>>

Hit == entry # 0 /\ clock - fetches[entry].started < CACHE

\* quote and read: the cached promise, or a new one in its place.
Call(c) ==
  /\ callers[c].phase = "new"
  /\ clock <= LAST_CALL
  /\ fetches' = IF Hit THEN fetches ELSE Append(fetches, NewFetch)
  /\ entry' = IF Hit THEN entry ELSE Len(fetches')
  /\ callers' = [callers EXCEPT ![c] = [phase |-> "waiting", at |-> clock, fetch |-> entry']]
  /\ UNCHANGED <<clock, upstream>>

\* A call returns; after the last one the promise resolves, to "empty" without a value.
Respond(f, found) ==
  LET last == fetches[f].calls + 1 = CALLS
  IN  /\ Running(f)
      /\ fetches' = [fetches EXCEPT
           ![f].calls = @ + 1,
           ![f].asked = IF found /\ ~last THEN clock ELSE fetches[f].started,
           ![f].value = IF fetches[f].calls = 0 THEN <<upstream>> ELSE @,
           ![f].state = IF ~found THEN "empty" ELSE IF last THEN "resolved" ELSE @]
      /\ UNCHANGED <<clock, upstream, entry, callers>>

\* Slip: whatever is cached is forgotten.
EntryAfterAny(f) == 0

EntryAfter(f) == IF OWN_ONLY /\ entry # f THEN entry ELSE 0

Reject(f, reason) ==
  /\ Running(f)
  /\ fetches' = [fetches EXCEPT ![f].state = reason, ![f].asked = fetches[f].started]
  /\ entry' = EntryAfter(f)
  /\ UNCHANGED <<clock, upstream, callers>>

\* AbortSignal.timeout
TimeOut(f) == TimeIsUp(f) /\ Reject(f, "unavailable")

ValueOf(fetch) == fetch.value[1]

Settled(c) == callers[c].phase = "waiting" /\ ~Running(callers[c].fetch)

Leave(c, answer) ==
  /\ callers' = [callers EXCEPT ![c].phase = answer]
  /\ UNCHANGED <<clock, upstream, fetches, entry>>

\* Also: no failure is cached.
CacheTypeOK ==
  /\ clock \in 0..MAX_CLOCK
  /\ entry \in 0..Len(fetches)
  /\ entry # 0 => fetches[entry].state \in {"running", "resolved", "empty"}
  /\ Len(fetches) <= Cardinality(Callers)
  /\ \A c \in Callers : callers[c].fetch \in 0..Len(fetches) /\ callers[c].at <= clock

-----------------------------------------------------------------------------
\* jupiter.ts:45: callers that arrive together share one request: a read is never begun
\* while another that began less than CACHE ago is under way.
CallersShare ==
  \A f, g \in DOMAIN fetches :
    f < g /\ Running(f) /\ Running(g) => fetches[g].started - fetches[f].started >= CACHE
=============================================================================
