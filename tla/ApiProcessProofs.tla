-------------------------- MODULE ApiProcessProofs --------------------------
(***************************************************************************)
(* What the process of apps/api promises, for any number of requests,      *)
(* callers and signals.                                                    *)
(*                                                                         *)
(* How it ends: all that is asked of its grace and of the time the         *)
(* database takes is that together they stay below the patience of the     *)
(* platform.  What it reads once for many callers: all that is asked of    *)
(* the cache is that whoever forgets a read has made it, or that a read is *)
(* over before what it brings is out of date.  What it tells of silent     *)
(* sources: the network and the indexer together are never quiet for       *)
(* longer than the silence it waits for.                                   *)
(***************************************************************************)
EXTENDS ApiProcess, Sequences, SequenceTheorems, WellFoundedInduction, TLAPS

\* The clock starts with the first signal, and is read when the database is closed.
ClockInv ==
  /\ clock \in Nat /\ endingSince \in Nat
  /\ stage \in {"starting", "serving"} => clock = 0
  /\ stage = "draining" => clock <= GRACE
  /\ stage = "closing" => endingSince <= GRACE /\ clock <= endingSince + DATABASE_ENDS

\* A keeper runs in a complete environment and next to a journal; a worker that was not
\* started never is, and one that was told to stop does not wait for its next tick.
States == {"off", "waiting", "ticking", "stopped", "stopped in a tick"}

WorkersInv ==
  /\ workers \in [Workers -> States]
  /\ workers["keeper"] # "off" => env = Optional /\ workers["journal"] # "off"
  /\ signals \in Nat
  /\ signals > 0 => /\ stage # "starting"
                    /\ \A w \in Workers : workers[w] \notin {"waiting", "ticking"}

\* What the last stages know of the requests and of the database.
EndInv ==
  /\ stage \in {"closing", "exited"} <=> database # "open"
  /\ drained => running = {} /\ database # "open"
  /\ database # "open" /\ code = 0 => drained
  /\ stage = "exited" /\ code = 0 => database = "ended"
  /\ DatabaseOutlivesRequests

ProcessInv == ClockInv /\ WorkersInv /\ EndInv

-----------------------------------------------------------------------------
\* What a configuration that is accepted makes the process run.
LEMMA KeeperNeeds ==
  /\ Accepts(env) /\ Config["keeper"] => env = Optional
  /\ env = Optional => Config["journal"]
  /\ env = Optional => Config.rates /\ Config.pool
<1>1. /\ Config["keeper"] = ({"KEEPER_SECRET_KEY", "DEVNET_RPC_URL", "STABLE_MINT"} \subseteq env)
      /\ Config["journal"] = ("DEVNET_RPC_URL" \in env)
      /\ Config.rates = (RATE_VARIABLES \subseteq env)
      /\ Config.pool = ({"DEVNET_RPC_URL", "STABLE_MINT"} \subseteq env)
  BY DEF Config
<1>2. Accepts(env) /\ "KEEPER_SECRET_KEY" \in env => env = Optional
  BY DEF Accepts
<1>3. env = Optional => /\ RATE_VARIABLES \subseteq env
                       /\ {"DEVNET_RPC_URL", "STABLE_MINT"} \subseteq env
  BY DEF Optional
<1> QED
  BY <1>1, <1>2, <1>3

LEMMA InitInv == Init => ProcessInv
<1> SUFFICES ASSUME Init PROVE ProcessInv
  OBVIOUS
<1>1. ClockInv
  BY DEF Init, ClockInv
<1>2. WorkersInv
  <2>1. workers \in [Workers -> States] /\ signals = 0
    BY DEF Init, States
  <2>2. workers["keeper"] = "off"
    BY DEF Init, Workers
  <2> QED
    BY <2>1, <2>2 DEF WorkersInv
<1>3. EndInv
  BY DEF Init, EndInv, DatabaseOutlivesRequests
<1> QED
  BY <1>1, <1>2, <1>3 DEF ProcessInv

LEMMA ClockStep ==
  ASSUME ApiProcessAssumption, ClockInv, [Next]_vars
  PROVE  ClockInv'
<1>1. GRACE \in Nat /\ DATABASE_ENDS \in Nat
  BY DEF ApiProcessAssumption
<1>2. CASE UNCHANGED vars
  BY <1>2 DEF vars, ClockInv
<1>3. ASSUME NEW pairFits \in BOOLEAN, Start(pairFits) PROVE ClockInv'
  BY <1>3 DEF Start, ClockInv
<1>4. ASSUME NEW r \in Requests, Ask(r) \/ AnswerRequest(r) PROVE ClockInv'
  BY <1>4 DEF Ask, AnswerRequest, ClockInv
<1>5. ASSUME NEW w \in Workers, BeginTick(w) \/ EndTick(w) PROVE ClockInv'
  BY <1>5 DEF BeginTick, EndTick, Work, ClockInv
<1>6. CASE Signal
  BY <1>1, <1>6 DEF Signal, Alive, ClockInv
<1>7. CASE Drain \/ DrainFails \/ ShutdownTimedOut
  BY <1>1, <1>7 DEF Drain, DrainFails, ShutdownTimedOut, GraceIsOver, CloseDatabase, ClockInv
<1>8. ASSUME NEW ended \in BOOLEAN, DatabaseEnds(ended) PROVE ClockInv'
  BY <1>8 DEF DatabaseEnds, ClockInv
<1>9. CASE Tick
  BY <1>1, <1>9 DEF Tick, GraceIsOver, ClockInv
<1> QED
  BY <1>2, <1>3, <1>4, <1>5, <1>6, <1>7, <1>8, <1>9 DEF Next

LEMMA WorkersStep ==
  ASSUME WorkersInv, [Next]_vars
  PROVE  WorkersInv'
<1>1. CASE UNCHANGED <<env, workers, signals>> /\ (stage' = stage \/ stage' # "starting")
  BY <1>1 DEF WorkersInv
<1>2. ASSUME NEW pairFits \in BOOLEAN, Start(pairFits) PROVE WorkersInv'
  <2>1. CASE Accepts(env) /\ pairFits
    <3>1. /\ workers' = [w \in Workers |-> IF Config[w] THEN "waiting" ELSE "off"]
          /\ env' = env /\ signals' = signals /\ stage = "starting" /\ stage' = "serving"
      BY <1>2, <2>1 DEF Start
    <3>2. signals = 0
      BY <3>1 DEF WorkersInv
    <3>3. workers' \in [Workers -> States]
      BY <3>1 DEF States
    <3>4. workers'["keeper"] # "off" => Config["keeper"]
      BY <3>1 DEF Workers
    <3>5. Config["journal"] => workers'["journal"] # "off"
      BY <3>1 DEF Workers
    <3>6. workers'["keeper"] # "off" => env' = Optional /\ workers'["journal"] # "off"
      BY <2>1, <3>1, <3>4, <3>5, KeeperNeeds
    <3> QED
      BY <3>1, <3>2, <3>3, <3>6 DEF WorkersInv
  <2>2. CASE ~(Accepts(env) /\ pairFits)
    BY <1>1, <1>2, <2>2 DEF Start
  <2> QED
    BY <2>1, <2>2
<1>3. ASSUME NEW r \in Requests, Ask(r) \/ AnswerRequest(r) PROVE WorkersInv'
  BY <1>1, <1>3 DEF Ask, AnswerRequest
<1>4. ASSUME NEW w \in Workers, BeginTick(w) \/ EndTick(w) PROVE WorkersInv'
  <2>1. /\ workers' = [workers EXCEPT ![w] = workers'[w]]
        /\ workers[w] # "off" /\ workers'[w] \in {"waiting", "ticking", "stopped"}
        /\ workers'[w] = "waiting" => workers[w] = "ticking"
        /\ workers'[w] = "ticking" => workers[w] = "waiting"
    BY <1>4 DEF BeginTick, EndTick, AfterTick, WorkersInv
  <2>2. UNCHANGED <<env, stage, signals>>
    BY <1>4 DEF BeginTick, EndTick, Work
  <2>3. /\ workers' \in [Workers -> States]
        /\ \A x \in Workers : workers'[x] = "off" <=> workers[x] = "off"
    BY <2>1 DEF WorkersInv, States
  <2>4. workers'["keeper"] # "off" => env' = Optional /\ workers'["journal"] # "off"
    BY <2>2, <2>3 DEF Workers, WorkersInv
  <2>5. signals > 0 => \A x \in Workers : workers'[x] \notin {"waiting", "ticking"}
    <3> SUFFICES ASSUME signals > 0, NEW x \in Workers
                 PROVE  workers'[x] \notin {"waiting", "ticking"}
      OBVIOUS
    <3>1. \A y \in Workers : workers[y] \notin {"waiting", "ticking"}
      BY DEF WorkersInv
    <3> QED
      BY <2>1, <3>1 DEF WorkersInv
  <2> QED
    BY <2>2, <2>3, <2>4, <2>5 DEF WorkersInv
<1>5. CASE Signal
  <2>1. /\ workers' = [w \in Workers |-> Stopped(workers[w])]
        /\ env' = env /\ signals' = signals + 1 /\ stage' # "starting"
    BY <1>5 DEF Signal, Alive
  <2>2. /\ workers' \in [Workers -> {"off", "stopped", "stopped in a tick"}]
        /\ \A w \in Workers : workers'[w] = "off" <=> workers[w] = "off"
    BY <2>1 DEF Stopped, WorkersInv, States
  <2>3. workers'["keeper"] # "off" => env' = Optional /\ workers'["journal"] # "off"
    BY <2>1, <2>2 DEF Workers, WorkersInv
  <2>4. /\ workers' \in [Workers -> States]
        /\ \A w \in Workers : workers'[w] \notin {"waiting", "ticking"}
    BY <2>2 DEF States
  <2> QED
    BY <2>1, <2>3, <2>4 DEF WorkersInv
<1>6. CASE Drain \/ DrainFails \/ ShutdownTimedOut
  BY <1>1, <1>6 DEF Drain, DrainFails, ShutdownTimedOut, CloseDatabase
<1>7. ASSUME NEW ended \in BOOLEAN, DatabaseEnds(ended) PROVE WorkersInv'
  BY <1>1, <1>7 DEF DatabaseEnds
<1>8. CASE Tick
  BY <1>1, <1>8 DEF Tick
<1>9. CASE UNCHANGED vars
  BY <1>1, <1>9 DEF vars
<1> QED
  BY <1>2, <1>3, <1>4, <1>5, <1>6, <1>7, <1>8, <1>9 DEF Next

LEMMA EndStep ==
  ASSUME ApiProcessAssumption, ClockInv, EndInv, [Next]_vars
  PROVE  EndInv'
<1>1. CASE UNCHANGED <<running, database, drained, code, clock>>
           /\ (stage \in {"closing", "exited"} \/ stage' \in {"closing", "exited"}
                 => stage' = stage)
  BY <1>1 DEF EndInv, DatabaseOutlivesRequests
<1>2. CASE UNCHANGED vars
  BY <1>1, <1>2 DEF vars
<1>3. ASSUME NEW pairFits \in BOOLEAN, Start(pairFits) PROVE EndInv'
  BY <1>1, <1>3 DEF Start
<1>4. ASSUME NEW r \in Requests, Ask(r) \/ AnswerRequest(r) PROVE EndInv'
  BY <1>4 DEF Ask, AnswerRequest, EndInv, DatabaseOutlivesRequests
<1>5. ASSUME NEW w \in Workers, BeginTick(w) \/ EndTick(w) PROVE EndInv'
  BY <1>1, <1>5 DEF BeginTick, EndTick, Work
<1>6. CASE Signal
  BY <1>1, <1>6 DEF Signal, Alive
<1>7. CASE Drain \/ DrainFails
  BY <1>7 DEF Drain, DrainFails, CloseDatabase, EndInv, DatabaseOutlivesRequests
<1>8. CASE ShutdownTimedOut
  <2>1. clock' = clock /\ ~(clock < GRACE)
    BY <1>8 DEF ShutdownTimedOut, GraceIsOver, CloseDatabase, ClockInv, ApiProcessAssumption
  <2> QED
    BY <1>8, <2>1 DEF ShutdownTimedOut, GraceIsOver, CloseDatabase, EndInv,
                      DatabaseOutlivesRequests
<1>9. ASSUME NEW ended \in BOOLEAN, DatabaseEnds(ended) PROVE EndInv'
  <2>1. /\ stage = "closing" /\ stage' = "exited" /\ UNCHANGED <<running, drained, clock>>
        /\ database' \in {"ended", "refused to end"}
    BY <1>9 DEF DatabaseEnds
  <2>2. code' = 0 => code = 0 /\ database' = "ended"
    <3>1. CASE ended = TRUE
      BY <1>9, <3>1 DEF DatabaseEnds, ExitCode
    <3>2. CASE ended = FALSE
      <4>1. code' = ExitCode(FALSE)
        BY <1>9, <3>2 DEF DatabaseEnds
      <4> QED
        BY <4>1 DEF ExitCode
    <3> QED
      BY <1>9, <3>1, <3>2
  <2> QED
    BY <2>1, <2>2 DEF EndInv, DatabaseOutlivesRequests
<1>10. CASE Tick
  <2>1. clock' = clock + 1 /\ UNCHANGED <<stage, running, database, drained, code>>
    BY <1>10 DEF Tick
  <2>2. clock' < GRACE => clock < GRACE
    BY <2>1 DEF ClockInv, ApiProcessAssumption
  <2> QED
    BY <2>1, <2>2 DEF EndInv, DatabaseOutlivesRequests
<1> QED
  BY <1>2, <1>3, <1>4, <1>5, <1>6, <1>7, <1>8, <1>9, <1>10 DEF Next

LEMMA Inductive == ApiProcessAssumption /\ Spec => []ProcessInv
<1> SUFFICES ASSUME ApiProcessAssumption PROVE Spec => []ProcessInv
  OBVIOUS
<1>1. ProcessInv /\ [Next]_vars => ProcessInv'
  BY ClockStep, WorkersStep, EndStep DEF ProcessInv
<1> QED
  BY InitInv, <1>1, PTL DEF Spec

\* index.ts:17 and FR-015: a keeper that runs has all it needs; the database outlives the
\* requests unless the grace is over; an exit that claims success answered everything and
\* let go of the database; and the platform never has to kill the process.
THEOREM EndsInOrder ==
  ApiProcessAssumption /\ Spec =>
    [](/\ KeeperHasAllItNeeds /\ DatabaseOutlivesRequests
       /\ SuccessIsTrue /\ NeverKilled)
<1> SUFFICES ASSUME ApiProcessAssumption
             PROVE  Spec => [](/\ KeeperHasAllItNeeds /\ DatabaseOutlivesRequests
                               /\ SuccessIsTrue /\ NeverKilled)
  OBVIOUS
<1>1. ASSUME ProcessInv
      PROVE  KeeperHasAllItNeeds /\ DatabaseOutlivesRequests /\ SuccessIsTrue /\ NeverKilled
  <2>1. KeeperHasAllItNeeds
    BY <1>1, KeeperNeeds DEF ProcessInv, WorkersInv, KeeperHasAllItNeeds
  <2>2. DatabaseOutlivesRequests
    BY <1>1 DEF ProcessInv, EndInv
  <2>3. SuccessIsTrue
    BY <1>1 DEF ProcessInv, EndInv, SuccessIsTrue
  <2>4. NeverKilled
    BY <1>1 DEF ProcessInv, ClockInv, NeverKilled, Alive, ApiProcessAssumption
  <2> QED
    BY <2>1, <2>2, <2>3, <2>4
<1> QED
  BY Inductive, <1>1, PTL

\* After the first signal neither the keeper nor the journal begins a tick, in whatever
\* order the signal, the timers and the ticks under way come.
THEOREM StoppedStaysStopped ==
  ApiProcessAssumption /\ Spec => [][NoTickAfterSignal]_vars
<1> SUFFICES ASSUME ApiProcessAssumption PROVE Spec => [][NoTickAfterSignal]_vars
  OBVIOUS
<1>1. ASSUME ProcessInv, [Next]_vars PROVE [NoTickAfterSignal]_vars
  <2> SUFFICES ASSUME signals > 0, NEW w \in Workers, workers'[w] = "ticking"
               PROVE  workers[w] = "ticking"
    BY DEF NoTickAfterSignal
  <2>1. workers \in [Workers -> States] /\ stage # "starting"
        /\ \A x \in Workers : workers[x] \notin {"waiting", "ticking"}
    BY <1>1 DEF ProcessInv, WorkersInv
  <2>2. CASE workers' = workers
    BY <2>2
  <2>3. ASSUME NEW x \in Workers, EndTick(x) PROVE workers[w] = "ticking"
    BY <2>1, <2>3 DEF EndTick, AfterTick
  <2>4. CASE Signal
    BY <2>1, <2>4 DEF Signal, Stopped
  <2> QED
    BY <1>1, <2>1, <2>2, <2>3, <2>4
       DEF Next, vars, Start, Ask, AnswerRequest, BeginTick, Drain, DrainFails,
           ShutdownTimedOut, CloseDatabase, DatabaseEnds, Tick
<1> QED
  BY Inductive, <1>1, PTL DEF Spec

-----------------------------------------------------------------------------
(***************************************************************************)
(* What the process reads once for many callers.                           *)
(***************************************************************************)
CONSTANTS Callers, CALLS, TIMEOUT, BOUNDED, CACHE, OWN_ONLY, MAX_CLOCK, LAST_CALL

VARIABLES upstream, fetches, entry, callers

Cache == INSTANCE CachedRead

\* A read: it is under way between its calls, and each of them has its time.
ReadInv(read) ==
  /\ DOMAIN read = {"started", "asked", "calls", "state", "value"}
  /\ read.started \in Nat /\ read.started <= clock
  /\ read.calls \in 0..CALLS
  /\ read.state = "resolved" => read.calls = CALLS
  /\ read.state = "running" =>
       /\ read.calls < CALLS
       /\ read.asked \in read.started..clock
       /\ BOUNDED => /\ clock - read.asked <= TIMEOUT
                     /\ read.asked - read.started <= read.calls * TIMEOUT

\* The cached read is under way or has ended well; any other that is under way began long
\* enough ago, or there is none.
EntryInv ==
  /\ entry \in 0..Len(fetches)
  /\ \A f \in DOMAIN fetches : Cache!Running(f) /\ f # entry =>
       OWN_ONLY /\ clock - fetches[f].started >= CACHE

\* Who called has a read that was fresh then.
CallerInv(caller) ==
  /\ DOMAIN caller = {"phase", "at", "fetch"}
  /\ caller.phase # "new" =>
       /\ caller.at \in 0..clock
       /\ caller.fetch \in DOMAIN fetches
       /\ fetches[caller.fetch].started > caller.at - CACHE

CacheInv ==
  /\ clock \in Nat
  /\ \E S : fetches \in Seq(S)
  /\ \A f \in DOMAIN fetches : ReadInv(fetches[f])
  /\ EntryInv
  /\ Cache!CallersShare
  /\ DOMAIN callers = Callers
  /\ \A c \in Callers : CallerInv(callers[c])

CacheAssumption == Cache!CachedReadAssumption /\ Cache!SharingAssumption

\* A read that is bounded is over before what it brings is out of date.
LEMMA BoundedReadIsShort ==
  ASSUME CacheAssumption, CacheInv, NEW f \in DOMAIN fetches, Cache!Running(f), ~OWN_ONLY
  PROVE  clock - fetches[f].started < CACHE
<1>1. /\ BOUNDED /\ CALLS * TIMEOUT < CACHE
      /\ CALLS \in Nat /\ TIMEOUT \in Nat /\ CACHE \in Nat /\ clock \in Nat
  BY DEF CacheAssumption, Cache!CachedReadAssumption, Cache!SharingAssumption, CacheInv
<1>2. PICK started, wasAsked, calls :
        started = fetches[f].started /\ wasAsked = fetches[f].asked /\ calls = fetches[f].calls
  OBVIOUS
<1>3. /\ started \in Nat /\ wasAsked \in started..clock /\ calls \in 0..CALLS /\ calls < CALLS
      /\ clock - wasAsked <= TIMEOUT /\ wasAsked - started <= calls * TIMEOUT
  BY <1>1, <1>2 DEF CacheInv, ReadInv, Cache!Running
<1>4. calls * TIMEOUT + TIMEOUT <= CALLS * TIMEOUT
  <2>1. PICK d \in Nat : CALLS = calls + 1 + d
    <3>1. CALLS - calls - 1 \in Nat /\ CALLS = calls + 1 + (CALLS - calls - 1)
      BY <1>1, <1>3
    <3>2. QED
      BY <3>1
  <2>2. CALLS * TIMEOUT = calls * TIMEOUT + TIMEOUT + d * TIMEOUT
    BY <1>1, <1>3, <2>1
  <2>3. d * TIMEOUT \in Nat /\ calls * TIMEOUT \in Nat
    BY <1>1, <1>3, <2>1
  <2>4. QED
    BY <1>1, <2>2, <2>3
<1>5. calls * TIMEOUT \in Nat /\ CALLS * TIMEOUT \in Nat
  BY <1>1, <1>3
<1>6. clock - started < CACHE
  BY <1>1, <1>3, <1>4, <1>5
<1>7. QED
  BY <1>2, <1>6

LEMMA CacheStarts ==
  ASSUME CacheAssumption, NEW value, Cache!CacheInit(value)
  PROVE  CacheInv
<1>1. fetches = <<>> /\ clock = 0 /\ entry = 0 /\ DOMAIN callers = Callers
      /\ \A c \in Callers : /\ callers[c].phase = "new"
                             /\ DOMAIN callers[c] = {"phase", "at", "fetch"}
  BY DEF Cache!CacheInit
<1>2. fetches \in Seq({}) /\ Len(fetches) = 0 /\ \A f : f \notin DOMAIN fetches
  BY <1>1
<1>3. QED
  BY <1>1, <1>2 DEF CacheInv, EntryInv, CallerInv, Cache!CallersShare

\* Time passes.
LEMMA CacheTicks ==
  ASSUME CacheAssumption, CacheInv, Cache!Tick
  PROVE  CacheInv'
<1>1. /\ clock \in Nat /\ clock' = clock + 1
      /\ UNCHANGED <<fetches, entry, callers>>
      /\ \A f \in DOMAIN fetches : ~Cache!TimeIsUp(f)
      /\ CACHE \in Nat /\ TIMEOUT \in Nat
  BY DEF CacheInv, Cache!Tick, CacheAssumption, Cache!CachedReadAssumption
<1>2. ASSUME NEW f \in DOMAIN fetches PROVE ReadInv(fetches[f])'
  <2>1. ReadInv(fetches[f])
    BY DEF CacheInv
  <2>2. ~(Cache!Running(f) /\ BOUNDED /\ clock - fetches[f].asked >= TIMEOUT)
    BY <1>1 DEF Cache!TimeIsUp
  <2>3. QED
    BY <1>1, <2>1, <2>2 DEF ReadInv, Cache!Running
<1>3. EntryInv'
  <2>1. ASSUME NEW f \in DOMAIN fetches, Cache!Running(f), f # entry
        PROVE  OWN_ONLY /\ clock + 1 - fetches[f].started >= CACHE
    <3>1. fetches[f].started \in Nat /\ OWN_ONLY /\ clock - fetches[f].started >= CACHE
      BY <2>1 DEF CacheInv, EntryInv, ReadInv
    <3>2. QED
      BY <1>1, <3>1
  <2>2. entry \in 0..Len(fetches)
    BY DEF CacheInv, EntryInv
  <2>3. \A f \in DOMAIN fetches : Cache!Running(f)' <=> Cache!Running(f)
    BY <1>1 DEF Cache!Running
  <2>4. \A f \in DOMAIN fetches' : Cache!Running(f)' /\ f # entry' =>
          OWN_ONLY /\ clock' - fetches'[f].started >= CACHE
    <3>1. SUFFICES ASSUME NEW f \in DOMAIN fetches, Cache!Running(f), f # entry
                   PROVE  OWN_ONLY /\ clock' - fetches[f].started >= CACHE
      BY <1>1, <2>3
    <3>2. OWN_ONLY
      BY <2>1, <3>1
    <3>3. clock + 1 - fetches[f].started >= CACHE /\ fetches[f].started \in Nat
      BY <2>1, <3>1 DEF CacheInv, ReadInv
    <3>4. clock' - fetches[f].started >= CACHE
      BY <1>1, <3>3
    <3>5. QED
      BY <3>2, <3>4
  <2>5. entry' \in 0..Len(fetches')
    BY <1>1, <2>2
  <2>6. QED
    BY <2>4, <2>5 DEF EntryInv
<1>4. QED
  BY <1>1, <1>2, <1>3 DEF CacheInv, CallerInv, Cache!CallersShare, Cache!Running

\* The source changes, or a caller leaves.
LEMMA CacheLeft ==
  ASSUME CacheInv, UNCHANGED <<clock, fetches, entry>>,
         \/ callers' = callers
         \/ \E c \in Callers : \E answer :
              /\ callers' = [callers EXCEPT ![c].phase = answer]
              /\ callers[c].phase # "new"
  PROVE  CacheInv'
<1>1. DOMAIN callers' = Callers /\ \A c \in Callers :
        \/ callers'[c] = callers[c]
        \/ /\ callers[c].phase # "new" /\ callers'[c].at = callers[c].at
           /\ callers'[c].fetch = callers[c].fetch
           /\ DOMAIN callers'[c] = DOMAIN callers[c]
  BY DEF CacheInv, CallerInv
<1>2. \A c \in Callers : CallerInv(callers[c])'
  BY <1>1 DEF CacheInv, CallerInv
<1>3. QED
  BY <1>1, <1>2 DEF CacheInv, ReadInv, EntryInv, Cache!CallersShare, Cache!Running

\* A read that moves on, or ends: what it is of and when it began stay.
LEMMA ReadMovesOn ==
  ASSUME CacheAssumption, CacheInv, NEW f \in DOMAIN fetches, NEW read,
         fetches' = [fetches EXCEPT ![f] = read], ReadInv(read),
         read.started = fetches[f].started,
         read.state = "running" => Cache!Running(f),
         UNCHANGED <<clock, callers>>,
         \/ entry' = entry
         \/ entry' = 0 /\ entry = f /\ read.state # "running"
  PROVE  CacheInv'
<1>1. PICK S : fetches \in Seq(S)
  BY DEF CacheInv
<1>2. fetches' \in Seq(S \union {read}) /\ DOMAIN fetches' = DOMAIN fetches
      /\ Len(fetches') = Len(fetches)
  <2>1. fetches \in Seq(S \union {read})
    BY <1>1
  <2>2. QED
    BY <2>1
<1>3. ASSUME NEW g \in DOMAIN fetches
      PROVE  /\ fetches'[g].started = fetches[g].started
             /\ fetches'[g].state = "running" => fetches[g].state = "running"
             /\ ReadInv(fetches'[g])
             /\ g # f => fetches'[g] = fetches[g]
  BY DEF CacheInv, Cache!Running
<1>4. \A g \in DOMAIN fetches : ReadInv(fetches[g])'
  BY <1>3 DEF ReadInv
<1>5. EntryInv'
  <2>1. entry' \in 0..Len(fetches')
    BY <1>1, <1>2 DEF CacheInv, EntryInv
  <2>2. ASSUME NEW g \in DOMAIN fetches, Cache!Running(g)', g # entry'
        PROVE  OWN_ONLY /\ clock - fetches[g].started >= CACHE
    <3>1. Cache!Running(g)
      BY <1>3, <2>2 DEF Cache!Running
    <3>2. g # entry
      BY <2>2 DEF Cache!Running
    <3>3. QED
      BY <3>1, <3>2 DEF CacheInv, EntryInv
  <2>3. QED
    BY <1>2, <1>3, <2>1, <2>2 DEF EntryInv
<1>6. Cache!CallersShare'
  BY <1>2, <1>3 DEF CacheInv, Cache!CallersShare, Cache!Running
<1>7. \A c \in Callers : CallerInv(callers[c])'
  BY <1>2, <1>3 DEF CacheInv, CallerInv
<1>8. QED
  BY <1>2, <1>4, <1>5, <1>6, <1>7 DEF CacheInv

\* A call of a read returns.
LEMMA CacheResponds ==
  ASSUME CacheAssumption, CacheInv, NEW f \in DOMAIN fetches, NEW found \in BOOLEAN,
         Cache!Respond(f, found)
  PROVE  CacheInv'
<1> DEFINE old == fetches[f]
           last == old.calls + 1 = CALLS
           read == [old EXCEPT !.calls = @ + 1,
                               !.asked = IF found /\ ~last THEN clock ELSE old.started,
                               !.value = IF old.calls = 0 THEN <<upstream>> ELSE @,
                               !.state = IF ~found THEN "empty" ELSE IF last THEN "resolved" ELSE @]
<1>1. /\ old.state = "running" /\ fetches' = [fetches EXCEPT ![f] = read]
      /\ UNCHANGED <<clock, callers, entry>>
  BY DEF Cache!Respond, Cache!Running
<1>2. ReadInv(old) /\ clock \in Nat /\ CALLS \in Nat /\ TIMEOUT \in Nat
  BY DEF CacheInv, CacheAssumption, Cache!CachedReadAssumption
<1>3. /\ DOMAIN read = {"started", "asked", "calls", "state", "value"}
      /\ read.started = old.started /\ read.calls = old.calls + 1
      /\ read.asked = IF found /\ ~last THEN clock ELSE old.started
      /\ read.state = IF ~found THEN "empty" ELSE IF last THEN "resolved" ELSE "running"
  BY <1>1, <1>2 DEF ReadInv
<1>4. ASSUME read.state = "running", BOUNDED
      PROVE  read.asked - read.started <= read.calls * TIMEOUT
  <2>1. PICK started, wasAsked, calls :
          started = old.started /\ wasAsked = old.asked /\ calls = old.calls
    OBVIOUS
  <2>2. /\ started \in Nat /\ wasAsked \in started..clock /\ calls \in Nat
        /\ clock - wasAsked <= TIMEOUT /\ wasAsked - started <= calls * TIMEOUT
    BY <1>1, <1>2, <1>4, <2>1 DEF ReadInv
  <2>3. (calls + 1) * TIMEOUT = calls * TIMEOUT + TIMEOUT /\ calls * TIMEOUT \in Nat
    BY <1>2, <2>2
  <2>4. read.asked = clock /\ read.started = started /\ read.calls = calls + 1
    BY <1>3, <1>4, <2>1
  <2>5. clock - started <= (calls + 1) * TIMEOUT
    BY <1>2, <2>2, <2>3
  <2>6. QED
    BY <2>4, <2>5
<1> HIDE DEF read
<1>5. ReadInv(read)
  <2>1. /\ old.started \in Nat /\ old.started <= clock /\ old.calls \in 0..CALLS
        /\ old.calls < CALLS
    BY <1>1, <1>2 DEF ReadInv
  <2>2. read.state = "running" => /\ read.asked = clock /\ read.calls < CALLS
    BY <1>2, <1>3, <2>1
  <2>3. read.state = "resolved" => read.calls = CALLS
    BY <1>3
  <2>4. QED
    BY <1>2, <1>3, <1>4, <2>1, <2>2, <2>3 DEF ReadInv
<1>6. read.started = fetches[f].started /\ Cache!Running(f)
  BY <1>1, <1>3 DEF Cache!Running
<1>7. QED
  BY <1>1, <1>5, <1>6, ReadMovesOn

\* A call of a read fails or is cut off, and what is cached of it is forgotten.
LEMMA CacheRejects ==
  ASSUME CacheAssumption, CacheInv, NEW f \in DOMAIN fetches, NEW reason,
         reason \notin {"running", "resolved"}, Cache!Reject(f, reason)
  PROVE  CacheInv'
<1> DEFINE old == fetches[f]
           read == [old EXCEPT !.state = reason, !.asked = old.started]
<1>1. /\ Cache!Running(f) /\ fetches' = [fetches EXCEPT ![f] = read]
      /\ UNCHANGED <<clock, callers>>
      /\ entry' = Cache!EntryAfter(f)
  BY DEF Cache!Reject
<1>2. ReadInv(old)
  BY DEF CacheInv
<1>3. /\ DOMAIN read = DOMAIN old /\ read.started = old.started /\ read.calls = old.calls
      /\ read.state = reason
  BY <1>2 DEF ReadInv
<1> HIDE DEF read
<1>4. ReadInv(read)
  BY <1>2, <1>3 DEF ReadInv
<1>5. entry' = entry \/ (entry' = 0 /\ entry = f)
  BY <1>1 DEF Cache!EntryAfter, CacheInv, EntryInv
<1>6. QED
  BY <1>1, <1>3, <1>4, <1>5, ReadMovesOn

\* A caller takes over the cached read, or begins one in its place.
LEMMA CacheCalled ==
  ASSUME CacheAssumption, CacheInv, NEW c \in Callers, Cache!Call(c)
  PROVE  CacheInv'
<1> DEFINE caller == [phase |-> "waiting", at |-> clock, fetch |-> entry']
<1>1. /\ UNCHANGED clock
      /\ callers' = [callers EXCEPT ![c] = caller]
      /\ clock \in Nat /\ CACHE \in Nat \ {0}
  BY DEF Cache!Call, CacheInv, CacheAssumption, Cache!CachedReadAssumption
<1>2. CASE Cache!Hit
  <2>1. UNCHANGED <<fetches, entry>> /\ entry # 0 /\ clock - fetches[entry].started < CACHE
    BY <1>2 DEF Cache!Call, Cache!Hit
  <2>2. PICK S : fetches \in Seq(S)
    BY DEF CacheInv
  <2>3. entry \in DOMAIN fetches /\ fetches[entry].started \in Nat
    BY <2>1, <2>2 DEF CacheInv, EntryInv, ReadInv
  <2>4. CallerInv(caller)
    BY <1>1, <2>1, <2>3 DEF CallerInv
  <2>5. \A d \in Callers : callers'[d] = callers[d] \/ callers'[d] = caller
    BY <1>1 DEF CacheInv
  <2>6. DOMAIN callers' = Callers
    BY <1>1 DEF CacheInv
  <2> HIDE DEF caller
  <2>7. \A d \in Callers : CallerInv(callers'[d])
    BY <2>4, <2>5 DEF CacheInv
  <2>8. \A d \in Callers : CallerInv(callers[d])'
    BY <1>1, <2>1, <2>7 DEF CallerInv
  <2>9. QED
    BY <1>1, <2>1, <2>6, <2>8 DEF CacheInv, ReadInv, EntryInv, Cache!CallersShare, Cache!Running
<1>3. CASE ~Cache!Hit
  <2> DEFINE new == Cache!NewFetch
  <2>1. fetches' = Append(fetches, new) /\ entry' = Len(fetches')
    BY <1>3 DEF Cache!Call
  <2>2. /\ DOMAIN new = {"started", "asked", "calls", "state", "value"}
        /\ new.started = clock /\ new.asked = clock /\ new.calls = 0 /\ new.state = "running"
    BY DEF Cache!NewFetch
  <2>3. PICK S : fetches \in Seq(S)
    BY DEF CacheInv
  <2> HIDE DEF new
  <2>4. PICK n \in Nat : n = Len(fetches)
    BY <2>3
  <2>5. /\ fetches' \in Seq(S \union {new}) /\ Len(fetches') = n + 1 /\ entry' = n + 1
        /\ DOMAIN fetches = 1..n /\ DOMAIN fetches' = 1..(n + 1)
        /\ fetches'[n + 1] = new /\ \A g \in 1..n : fetches'[g] = fetches[g]
    <3>1. fetches \in Seq(S \union {new})
      BY <2>3
    <3>2. QED
      BY <2>1, <2>4, <3>1
  <2>6. ReadInv(new)
    <3>1. CALLS \in Nat \ {0} /\ TIMEOUT \in Nat /\ 0 * TIMEOUT = 0
      BY DEF CacheAssumption, Cache!CachedReadAssumption
    <3>2. QED
      BY <1>1, <2>2, <3>1 DEF ReadInv
  <2>7. \A g \in 1..(n + 1) : ReadInv(fetches[g])'
    BY SMTT(40), <1>1, <2>4, <2>5, <2>6 DEF CacheInv, ReadInv
  <2>8. ASSUME NEW g \in 1..n, Cache!Running(g)
        PROVE  OWN_ONLY /\ clock - fetches[g].started >= CACHE
    <3>1. CASE g # entry
      BY <2>5, <2>8, <3>1 DEF CacheInv, EntryInv
    <3>2. CASE g = entry
      <4>1. clock - fetches[g].started >= CACHE
        <5>1. ~(clock - fetches[entry].started < CACHE) /\ fetches[g].started \in Nat
          BY <1>3, <2>5, <3>2 DEF Cache!Hit, CacheInv, ReadInv
        <5>2. QED
          BY <1>1, <3>2, <5>1
      <4>2. ~(clock - fetches[g].started < CACHE)
        <5>1. fetches[g].started \in Nat
          BY <2>5 DEF CacheInv, ReadInv
        <5>2. QED
          BY <1>1, <4>1, <5>1
      <4>3. OWN_ONLY
        BY <2>5, <2>8, <4>2, BoundedReadIsShort
      <4>4. QED
        BY <4>1, <4>3
    <3>3. QED
      BY <3>1, <3>2
  <2>9. EntryInv'
    BY <1>1, <2>5, <2>8 DEF EntryInv, Cache!Running
  <2>10. Cache!CallersShare'
    <3>1. ASSUME NEW f \in 1..(n + 1), NEW g \in 1..(n + 1), f < g,
                 Cache!Running(f)', Cache!Running(g)'
          PROVE  fetches'[g].started - fetches'[f].started >= CACHE
      <4>1. f \in 1..n /\ fetches'[f] = fetches[f] /\ Cache!Running(f)
        BY <2>5, <3>1 DEF Cache!Running
      <4>2. CASE g = n + 1
        BY <2>2, <2>5, <2>8, <4>1, <4>2
      <4>3. CASE g # n + 1
        <5>1. g \in 1..n /\ fetches'[g] = fetches[g] /\ Cache!Running(g)
          BY <2>5, <3>1, <4>3 DEF Cache!Running
        <5>2. QED
          BY <2>5, <3>1, <4>1, <5>1 DEF CacheInv, Cache!CallersShare
      <4>4. QED
        BY <4>2, <4>3
    <3>2. QED
      BY <2>5, <3>1 DEF Cache!CallersShare
  <2>11. ASSUME NEW d \in Callers PROVE CallerInv(callers[d])'
    <3>1. CASE d = c
      <4>1. callers'[d] = caller
        BY <1>1, <3>1 DEF CacheInv
      <4>2. QED
        BY <1>1, <2>2, <2>4, <2>5, <4>1 DEF CallerInv
    <3>2. CASE d # c
      <4>1. callers'[d] = callers[d] /\ CallerInv(callers[d])
        BY <1>1, <3>2 DEF CacheInv
      <4>2. \A g \in DOMAIN fetches : g \in DOMAIN fetches' /\ fetches'[g] = fetches[g]
        BY <2>4, <2>5
      <4>3. QED
        BY <1>1, <4>1, <4>2 DEF CallerInv
    <3>3. QED
      BY <3>1, <3>2
  <2>12. DOMAIN callers' = Callers
    BY <1>1 DEF CacheInv
  <2>13. QED
    BY <1>1, <2>5, <2>7, <2>9, <2>10, <2>11, <2>12 DEF CacheInv
<1>4. QED
  BY <1>2, <1>3

\* What a read has to show for itself came from the source, when its first call returned.
LEMMA ReadBrings ==
  ASSUME CacheAssumption, CacheInv, NEW f \in DOMAIN fetches, NEW found \in BOOLEAN, NEW reason,
         Cache!Respond(f, found) \/ Cache!Reject(f, reason)
  PROVE  /\ UNCHANGED <<clock, upstream, callers>>
         /\ \A g \in DOMAIN fetches' :
              /\ g \in DOMAIN fetches /\ fetches'[g].started = fetches[g].started
              /\ \/ fetches'[g].value = <<upstream>>
                 \/ /\ fetches'[g].value = fetches[g].value
                    /\ fetches'[g].calls = fetches[g].calls \/ fetches[g].calls > 0
<1>1. ReadInv(fetches[f]) /\ CALLS \in Nat
  BY DEF CacheAssumption, Cache!CachedReadAssumption, CacheInv
<1>2. UNCHANGED <<clock, upstream, callers>>
  BY DEF Cache!Respond, Cache!Reject
<1>3. DOMAIN fetches' = DOMAIN fetches /\ \A g \in DOMAIN fetches : g # f => fetches'[g] = fetches[g]
  BY DEF Cache!Respond, Cache!Reject
<1>4. /\ DOMAIN fetches[f] = {"started", "asked", "calls", "state", "value"}
      /\ fetches[f].calls \in Nat
  BY <1>1 DEF ReadInv
<1>5. CASE Cache!Respond(f, found)
  <2> DEFINE old == fetches[f]
             last == old.calls + 1 = CALLS
             read == [old EXCEPT !.calls = @ + 1,
                        !.asked = IF found /\ ~last THEN clock ELSE old.started,
                        !.value = IF old.calls = 0 THEN <<upstream>> ELSE @,
                        !.state = IF ~found THEN "empty" ELSE IF last THEN "resolved" ELSE @]
  <2>1. fetches' = [fetches EXCEPT ![f] = read]
    BY <1>5 DEF Cache!Respond
  <2>2. /\ read.started = old.started
        /\ read.value = IF old.calls = 0 THEN <<upstream>> ELSE old.value
    BY <1>4
  <2> HIDE DEF read
  <2>3. fetches'[f] = read
    BY <2>1
  <2>4. fetches'[f].started = fetches[f].started /\ (fetches'[f].value = <<upstream>> \/
          (fetches'[f].value = fetches[f].value /\ fetches[f].calls > 0))
    BY <1>4, <2>2, <2>3
  <2>5. QED
    BY <1>2, <1>3, <2>4
<1>6. CASE Cache!Reject(f, reason)
  <2>1. /\ fetches'[f].started = fetches[f].started /\ fetches'[f].calls = fetches[f].calls
        /\ fetches'[f].value = fetches[f].value
    BY <1>4, <1>6 DEF Cache!Reject
  <2>2. QED
    BY <1>2, <1>3, <2>1
<1>7. QED
  BY <1>5, <1>6

LEMMA CallBrings ==
  ASSUME CacheInv, NEW c \in Callers, Cache!Call(c)
  PROVE  /\ UNCHANGED <<clock, upstream>> /\ callers[c].phase = "new"
         /\ \A d \in Callers : d # c => callers'[d] = callers[d]
         /\ \A g \in DOMAIN fetches' :
              \/ g \in DOMAIN fetches /\ fetches'[g] = fetches[g]
              \/ fetches'[g].calls = 0
<1>1. PICK S : fetches \in Seq(S)
  BY DEF CacheInv
<1>2. fetches' = fetches \/ fetches' = Append(fetches, Cache!NewFetch)
  BY DEF Cache!Call
<1>3. Cache!NewFetch.calls = 0
  BY DEF Cache!NewFetch
<1> DEFINE new == Cache!NewFetch
<1> HIDE DEF new
<1>4. ASSUME NEW g \in DOMAIN fetches'
      PROVE  fetches'[g] = Cache!NewFetch \/ (g \in DOMAIN fetches /\ fetches'[g] = fetches[g])
  BY <1>1, <1>2
<1>5. QED
  BY <1>3, <1>4 DEF Cache!Call, CacheInv

-----------------------------------------------------------------------------
(***************************************************************************)
(* The public view of the pool.                                            *)
(***************************************************************************)
CONSTANTS BPS, MAX_DEPOSITS, MAX_APR, MAX_WRITES

VARIABLES account, shown

View == INSTANCE PoolView

ViewAssumption == CacheAssumption /\ View!PoolViewAssumption

\* A version of the account, and what was known when a later one came.
NewerThan(version, moment) ==
  version < Len(account) => account[version + 1].at >= moment

\* What is read was the account at some moment after the read began.
ReadVersion(read) ==
  read.calls > 0 => /\ read.value[1].amount \in 1..Len(account)
                    /\ NewerThan(read.value[1].amount, read.started)

\* What is shown was the account less than CACHE before it was asked for.
ShownInv(view) ==
  /\ view.version \in 1..Len(account)
  /\ view.state = View!BuildPoolState(account[view.version].pool)
  /\ view.caller \in Callers /\ callers[view.caller].phase # "new"
  /\ view.version < Len(account) =>
       account[view.version + 1].at > callers[view.caller].at - CACHE

ViewInv ==
  /\ CacheInv
  /\ \E S : account \in Seq(S)
  /\ \A i \in 1..Len(account) : account[i].pool \in View!Accounts /\ account[i].at \in Nat
  /\ upstream.amount = Len(account) /\ Len(account) > 0
  /\ \A f \in DOMAIN fetches : ReadVersion(fetches[f])
  /\ \A view \in shown : ShownInv(view)

\* A step that leaves the account, and what is shown.
LEMMA ViewKeeps ==
  ASSUME ViewAssumption, ViewInv, CacheInv', UNCHANGED <<account, upstream, shown>>,
         \A f \in DOMAIN fetches' : ReadVersion(fetches'[f]),
         \A c \in Callers : \/ callers'[c] = callers[c]
                            \/ callers[c].phase = "new"
                            \/ callers'[c].phase # "new" /\ callers'[c].at = callers[c].at
  PROVE  ViewInv'
<1>1. \A f \in DOMAIN fetches' : ReadVersion(fetches[f])'
  BY DEF ReadVersion, NewerThan
<1>2. ASSUME NEW view \in shown PROVE ShownInv(view)'
  <2>1. ShownInv(view)
    BY DEF ViewInv
  <2>2. callers'[view.caller].phase # "new" /\ callers'[view.caller].at = callers[view.caller].at
    BY <2>1 DEF ShownInv
  <2>3. QED
    BY <2>1, <2>2 DEF ShownInv, View!BuildPoolState
<1>3. QED
  BY <1>1, <1>2 DEF ViewInv, View!Accounts

\* The program writes the account: it is the newest version from now on.
LEMMA ViewWritten ==
  ASSUME ViewAssumption, ViewInv, NEW a \in View!Accounts, View!Write(a)
  PROVE  ViewInv'
<1> DEFINE new == [pool |-> a, at |-> clock]
<1>1. /\ account' = Append(account, new)
      /\ upstream' = [amount |-> Len(account'), of |-> clock]
      /\ UNCHANGED <<clock, fetches, entry, callers, shown>>
  BY DEF View!Write, View!Change
<1>2. CacheInv'
  BY <1>1, CacheLeft DEF ViewInv
<1>3. PICK S : account \in Seq(S)
  BY DEF ViewInv
<1>4. PICK n \in Nat : n = Len(account) /\ n > 0
  BY <1>3 DEF ViewInv
<1>5. new.pool = a /\ new.at = clock /\ clock \in Nat
  BY DEF ViewInv, CacheInv
<1> HIDE DEF new
<1>6. /\ account' \in Seq(S \union {new}) /\ Len(account') = n + 1
      /\ account'[n + 1] = new /\ \A i \in 1..n : account'[i] = account[i]
  <2>1. account \in Seq(S \union {new})
    BY <1>3
  <2>2. QED
    BY <1>1, <1>4, <2>1
<1>7. \A i \in 1..(n + 1) : account'[i].pool \in View!Accounts /\ account'[i].at \in Nat
  BY <1>4, <1>5, <1>6 DEF ViewInv
<1>8. ASSUME NEW f \in DOMAIN fetches PROVE ReadVersion(fetches[f])'
  <2>1. ReadVersion(fetches[f]) /\ fetches[f].started <= clock /\ fetches[f].started \in Nat
    BY DEF ViewInv, CacheInv, ReadInv
  <2>2. QED
    BY <1>1, <1>4, <1>5, <1>6, <2>1 DEF ReadVersion, NewerThan
<1>9. ASSUME NEW view \in shown PROVE ShownInv(view)'
  <2>1. ShownInv(view)
    BY DEF ViewInv
  <2>2. PICK v, at : v = view.version /\ at = callers[view.caller].at
    OBVIOUS
  <2>3. v \in 1..n /\ account'[v] = account[v]
    BY <1>4, <1>6, <2>1, <2>2 DEF ShownInv
  <2>4. at \in Nat /\ at <= clock
    <3>1. CallerInv(callers[view.caller]) /\ callers[view.caller].phase # "new"
      BY <2>1 DEF ShownInv, ViewInv, CacheInv
    <3>2. QED
      BY <2>2, <3>1 DEF CallerInv
  <2>5. CACHE \in Nat \ {0}
    BY DEF ViewAssumption, CacheAssumption, Cache!CachedReadAssumption
  <2>6. account'[v + 1].at > at - CACHE
    <3>1. CASE v = n
      BY <1>5, <1>6, <2>4, <2>5, <3>1
    <3>2. CASE v < n
      <4>1. account'[v + 1] = account[v + 1]
        BY <1>6, <2>3, <3>2
      <4>2. QED
        BY <1>4, <2>1, <2>2, <3>2, <4>1 DEF ShownInv
    <3>3. QED
      BY <1>4, <2>3, <3>1, <3>2
  <2>7. v \in 1..(n + 1)
    BY <2>3
  <2>8. view.state = View!BuildPoolState(account'[v].pool)
    BY <2>1, <2>2, <2>3 DEF ShownInv
  <2>9. view.caller \in Callers /\ callers[view.caller].phase # "new"
    BY <2>1 DEF ShownInv
  <2>10. QED
    BY <1>1, <1>6, <2>2, <2>6, <2>7, <2>8, <2>9 DEF ShownInv, View!BuildPoolState
<1>10. upstream'.amount = n + 1
  BY <1>1, <1>6
<1>11. QED
  BY <1>1, <1>2, <1>4, <1>6, <1>7, <1>8, <1>9, <1>10 DEF ViewInv, View!Accounts

\* A read moves on, ends or fails.
LEMMA ViewReads ==
  ASSUME ViewAssumption, ViewInv, NEW f \in DOMAIN fetches, NEW found \in BOOLEAN,
         View!Respond(f, found) \/ View!Reject(f, "unavailable"), UNCHANGED <<account, shown>>
  PROVE  ViewInv'
<1>1. CacheAssumption /\ CacheInv
  BY DEF ViewAssumption, ViewInv
<1>2. Cache!Respond(f, found) \/ Cache!Reject(f, "unavailable")
  BY DEF View!Respond, Cache!Respond, View!Running, Cache!Running,
         View!Reject, Cache!Reject, View!EntryAfter, Cache!EntryAfter
<1>3. CacheInv'
  BY <1>1, <1>2, CacheResponds, CacheRejects
<1>4. /\ UNCHANGED <<clock, upstream, callers>>
      /\ \A g \in DOMAIN fetches' :
           /\ g \in DOMAIN fetches /\ fetches'[g].started = fetches[g].started
           /\ \/ fetches'[g].value = <<upstream>>
              \/ /\ fetches'[g].value = fetches[g].value
                 /\ fetches'[g].calls = fetches[g].calls \/ fetches[g].calls > 0
  BY <1>1, <1>2, ReadBrings
<1>5. ASSUME NEW g \in DOMAIN fetches' PROVE ReadVersion(fetches'[g])
  <2>1. PICK n \in Nat : n = Len(account) /\ n > 0 /\ upstream.amount = n
    BY DEF ViewInv
  <2>2. ReadVersion(fetches[g]) /\ fetches'[g].started = fetches[g].started
    BY <1>4 DEF ViewInv
  <2>3. CASE fetches'[g].value = <<upstream>>
    <3>1. fetches'[g].value[1].amount = n
      BY <2>1, <2>3
    <3>2. QED
      BY <2>1, <3>1 DEF ReadVersion, NewerThan
  <2>4. CASE fetches'[g].value = fetches[g].value /\ fetches[g].calls > 0
    BY <2>2, <2>4 DEF ReadVersion, NewerThan
  <2>5. CASE fetches'[g].calls = fetches[g].calls /\ fetches'[g].value = fetches[g].value
    BY <2>2, <2>5 DEF ReadVersion, NewerThan
  <2>6. QED
    BY <1>4, <2>3, <2>4, <2>5
<1>6. QED
  BY <1>3, <1>4, <1>5, ViewKeeps

LEMMA ViewCalled ==
  ASSUME ViewAssumption, ViewInv, NEW c \in Callers, View!Call(c), UNCHANGED <<account, shown>>
  PROVE  ViewInv'
<1>1. Cache!Call(c) /\ CacheInv
  BY DEF View!Call, Cache!Call, View!Hit, Cache!Hit, View!NewFetch, Cache!NewFetch, ViewInv
<1>2. CacheInv'
  BY <1>1, CacheCalled DEF ViewAssumption
<1>3. /\ UNCHANGED upstream /\ callers[c].phase = "new"
      /\ \A d \in Callers : d # c => callers'[d] = callers[d]
      /\ \A g \in DOMAIN fetches' :
           \/ g \in DOMAIN fetches /\ fetches'[g] = fetches[g]
           \/ fetches'[g].calls = 0
  BY <1>1, CallBrings
<1>4. \A g \in DOMAIN fetches' : ReadVersion(fetches'[g])
  BY <1>3 DEF ViewInv, ReadVersion
<1>5. QED
  BY <1>2, <1>3, <1>4, ViewKeeps

LEMMA ViewTicks ==
  ASSUME ViewAssumption, ViewInv, View!Tick, UNCHANGED <<account, shown>>
  PROVE  ViewInv'
<1>1. Cache!Tick
  BY DEF View!Tick, Cache!Tick, View!TimeIsUp, Cache!TimeIsUp, View!Running, Cache!Running
<1>2. CacheInv'
  BY <1>1, CacheTicks DEF ViewAssumption, ViewInv
<1>3. UNCHANGED <<fetches, upstream, callers>>
  BY DEF View!Tick
<1>4. \A g \in DOMAIN fetches' : ReadVersion(fetches'[g])
  BY <1>3 DEF ViewInv
<1>5. QED
  BY <1>2, <1>3, <1>4, ViewKeeps

\* The route answers, with what the read of its caller brought if it resolved.
LEMMA ViewAnswered ==
  ASSUME ViewAssumption, ViewInv, NEW c \in Callers, View!Answer(c)
  PROVE  ViewInv'
<1> DEFINE read == fetches[callers[c].fetch]
<1>1. PICK answer : /\ callers' = [callers EXCEPT ![c].phase = answer]
                    /\ answer \in {"shown", "unavailable", "internal"}
  BY DEF View!Answer, View!Leave
<1>2. /\ UNCHANGED <<clock, upstream, fetches, entry, account>>
      /\ callers[c].phase = "waiting"
  BY DEF View!Answer, View!Leave, View!Settled
<1>3. CacheInv'
  <2>1. callers[c].phase # "new"
    BY <1>2
  <2>2. QED
    BY <1>1, <1>2, <2>1, CacheLeft DEF ViewInv
<1>4. CallerInv(callers[c])
  BY DEF ViewInv, CacheInv
<1>5. \A d \in Callers : \/ callers'[d] = callers[d]
                         \/ callers'[d].phase # "new" /\ callers'[d].at = callers[d].at
  BY <1>1, <1>4 DEF ViewInv, CacheInv, CallerInv
<1>6. callers'[c].phase # "new" /\ callers'[c].at = callers[c].at
  BY <1>1, <1>4 DEF ViewInv, CacheInv, CallerInv
<1>7. CASE shown' = shown
  <2>1. \A f \in DOMAIN fetches' : ReadVersion(fetches'[f])
    BY <1>2 DEF ViewInv
  <2>2. QED
    BY <1>2, <1>3, <1>5, <1>7, <2>1, ViewKeeps
<1>8. CASE shown' # shown
  <2> DEFINE version == read.value[1].amount
             new == [state |-> View!BuildPoolState(account[version].pool),
                     version |-> version, caller |-> c]
  <2>1. read.state = "resolved" /\ shown' = shown \union {new}
    BY <1>8 DEF View!Answer, View!ValueOf
  <2>2. read.calls > 0 /\ ReadVersion(read) /\ read.started > callers[c].at - CACHE
        /\ read.started \in Nat
    <3>1. CALLS \in Nat \ {0}
      BY DEF ViewAssumption, CacheAssumption, Cache!CachedReadAssumption
    <3>2. callers[c].fetch \in DOMAIN fetches /\ read.started > callers[c].at - CACHE
      BY <1>2, <1>4 DEF CallerInv
    <3>3. ReadInv(read) /\ ReadVersion(read)
      BY <3>2 DEF ViewInv, CacheInv
    <3>4. QED
      BY <2>1, <3>1, <3>2, <3>3 DEF ReadInv
  <2>3. version \in 1..Len(account) /\ NewerThan(version, read.started)
    BY <2>2 DEF ReadVersion
  <2>4. ASSUME version < Len(account)
        PROVE  account[version + 1].at > callers[c].at - CACHE
    <3>1. PICK v, begun, at, written, n : /\ v = version /\ begun = read.started
                                       /\ at = callers[c].at /\ written = account[v + 1].at
                                       /\ n = Len(account)
      OBVIOUS
    <3>2. written >= begun
      BY <2>3, <2>4, <3>1 DEF NewerThan
    <3>3. at \in Nat /\ begun \in Nat /\ begun > at - CACHE /\ CACHE \in Nat
      <4>1. clock \in Nat
        BY DEF ViewInv, CacheInv
      <4>2. QED
        BY <1>2, <1>4, <2>2, <3>1, <4>1
        DEF CallerInv, ViewAssumption, CacheAssumption, Cache!CachedReadAssumption
    <3>4. written \in Nat
      <4>1. n \in Nat /\ v \in 1..n /\ v < n
        <5>1. Len(account) \in Nat
          BY DEF ViewInv
        <5>2. QED
          BY <2>3, <2>4, <3>1, <5>1
      <4>2. v + 1 \in 1..n
        BY <4>1
      <4>3. QED
        BY <3>1, <4>2 DEF ViewInv
    <3>5. written > at - CACHE
      BY <3>2, <3>3, <3>4
    <3>6. QED
      BY <3>1, <3>5
  <2>5. PICK view, v : view = new /\ v = version
    OBVIOUS
  <2>6. /\ view.version = v /\ view.caller = c
        /\ view.state = View!BuildPoolState(account[v].pool)
    BY <2>5
  <2>7. v \in 1..Len(account) /\ (v < Len(account) => account[v + 1].at > callers[c].at - CACHE)
    BY <2>3, <2>4, <2>5
  <2> HIDE DEF version, new, read
  <2>8. ShownInv(view)'
    BY <1>2, <1>6, <2>6, <2>7 DEF ShownInv, View!BuildPoolState
  <2>9. ASSUME NEW earlier \in shown PROVE ShownInv(earlier)'
    <3>1. ShownInv(earlier) /\ earlier.caller \in Callers
      BY DEF ViewInv, ShownInv
    <3>2. callers'[earlier.caller].phase # "new"
          /\ callers'[earlier.caller].at = callers[earlier.caller].at
      BY <1>5, <3>1 DEF ShownInv
    <3>3. QED
      BY <1>2, <3>1, <3>2 DEF ShownInv, View!BuildPoolState
  <2>10. ASSUME NEW any \in shown' PROVE ShownInv(any)'
    BY <2>1, <2>5, <2>8, <2>9
  <2>11. QED
    BY <1>2, <1>3, <2>10 DEF ViewInv, View!Accounts, ReadVersion, NewerThan
<1>9. QED
  BY <1>7, <1>8

LEMMA ViewStarts == ViewAssumption /\ View!Init => ViewInv
<1> SUFFICES ASSUME ViewAssumption, View!Init PROVE ViewInv
  OBVIOUS
<1> DEFINE none == [total_deposits |-> 0, total_borrowed |-> 0, accrual_rate |-> 0]
<1>1. /\ account = <<[pool |-> none, at |-> 0]>> /\ shown = {}
      /\ View!CacheInit([amount |-> 1, of |-> 0])
  BY DEF View!Init
<1>2. Cache!CacheInit([amount |-> 1, of |-> 0])
  BY <1>1 DEF View!CacheInit, Cache!CacheInit
<1>3. CacheInv
  BY <1>2, CacheStarts DEF ViewAssumption
<1>4. upstream.amount = 1 /\ DOMAIN fetches = {}
  <2>1. fetches = <<>> /\ DOMAIN <<>> = {}
    BY <1>1 DEF View!CacheInit
  <2>2. QED
    BY <1>1, <2>1 DEF View!CacheInit
<1>5. none \in View!Accounts
  <2>1. MAX_DEPOSITS \in Nat /\ MAX_APR \in Nat /\ MAX_DEPOSITS * MAX_APR \in Nat /\ 0 * MAX_APR = 0
    BY DEF ViewAssumption, View!PoolViewAssumption
  <2>2. QED
    BY <2>1 DEF View!Accounts
<1> HIDE DEF none
<1>6. /\ account \in Seq({[pool |-> none, at |-> 0]}) /\ Len(account) = 1
      /\ account[1].pool = none /\ account[1].at = 0
  BY <1>1
<1>7. \A i \in 1..Len(account) : account[i].pool \in View!Accounts /\ account[i].at \in Nat
  BY <1>5, <1>6
<1>8. /\ \A f \in DOMAIN fetches : ReadVersion(fetches[f])
      /\ \A view \in shown : ShownInv(view)
  BY <1>1, <1>4
<1>9. upstream.amount = Len(account) /\ Len(account) > 0 /\ \E S : account \in Seq(S)
  BY <1>4, <1>6
<1>10. QED
  BY <1>3, <1>7, <1>8, <1>9 DEF ViewInv

LEMMA ViewInductive == ViewAssumption /\ View!Spec => []ViewInv
<1> SUFFICES ASSUME ViewAssumption PROVE View!Spec => []ViewInv
  OBVIOUS
<1>1. View!Init => ViewInv
  BY ViewStarts
<1>2. ViewInv /\ [View!Next]_(View!vars) => ViewInv'
  <2> SUFFICES ASSUME ViewInv, [View!Next]_(View!vars) PROVE ViewInv'
    OBVIOUS
  <2>1. CASE View!Tick /\ UNCHANGED <<account, shown>>
    BY <2>1, ViewTicks
  <2>2. CASE \E a \in View!Accounts : View!Write(a)
    BY <2>2, ViewWritten
  <2>3. CASE \E c \in Callers : View!Answer(c)
    BY <2>3, ViewAnswered
  <2>4. CASE \E c \in Callers : View!Call(c) /\ UNCHANGED <<account, shown>>
    BY <2>4, ViewCalled
  <2>5. ASSUME NEW f \in DOMAIN fetches, NEW found \in BOOLEAN, UNCHANGED <<account, shown>>,
               View!Respond(f, found) \/ View!Reject(f, "unavailable")
        PROVE  ViewInv'
    BY <2>5, ViewReads
  <2>6. CASE UNCHANGED View!vars
    <3>1. UNCHANGED <<clock, upstream, fetches, entry, callers, account, shown>>
      BY <2>6 DEF View!vars, View!cacheVars
    <3>2. QED
      BY <3>1 DEF ViewInv, CacheInv, ReadInv, EntryInv, CallerInv, ReadVersion, NewerThan, ShownInv,
                  Cache!CallersShare, Cache!Running, View!Accounts, View!BuildPoolState
  <2>7. QED
    BY <2>1, <2>2, <2>3, <2>4, <2>5, <2>6 DEF View!Next
<1>3. QED
  BY <1>1, <1>2, PTL DEF View!Spec

\* jupiter.ts:45, pool.ts:60: of the reads of the pool account that are under way, no two
\* began less than CACHE apart, for any number of callers and any order of answers.
THEOREM ReadsAreShared == ViewAssumption /\ View!Spec => []View!CallersShare
<1>1. ViewInv => View!CallersShare
  BY DEF ViewInv, CacheInv, Cache!CallersShare, View!CallersShare, Cache!Running, View!Running
<1>2. QED
  BY <1>1, ViewInductive, PTL

\* pool.ts:60: however writes, reads and callers overlap, what a caller is shown was still
\* the pool less than CACHE before it asked.
THEOREM ViewsAreRecent == ViewAssumption /\ View!Spec => []View!ShownIsRecent
<1>1. ViewInv => View!ShownIsRecent
  BY DEF ViewInv, ShownInv, View!ShownIsRecent
<1>2. QED
  BY <1>1, ViewInductive, PTL

\* Rounding down.
LEMMA RoundedDown ==
  ASSUME NEW a \in Nat, NEW b \in Nat \ {0}
  PROVE  /\ a \div b \in Nat
         /\ (a \div b) * b <= a /\ a < (a \div b) * b + b
<1> DEFINE q == a \div b
           r == a % b
<1>1. q \in Nat /\ r \in 0..(b - 1) /\ a = q * b + r
  OBVIOUS
<1> HIDE DEF q, r
<1>2. q * b \in Nat
  BY <1>1
<1>3. q * b <= a /\ a < q * b + b
  BY <1>1, <1>2
<1>4. QED
  BY <1>1, <1>3 DEF q

\* A product is no greater than one of greater factors.
LEMMA ProductsGrow ==
  ASSUME NEW a \in Nat, NEW b \in Nat, NEW c \in Nat, a <= b
  PROVE  a * c \in Nat /\ b * c \in Nat /\ a * c <= b * c
<1>1. PICK d \in Nat : b = a + d
  <2>1. b - a \in Nat /\ b = a + (b - a)
    OBVIOUS
  <2>2. QED
    BY <2>1
<1>2. b * c = a * c + d * c
  BY <1>1
<1>3. a * c \in Nat /\ d * c \in Nat
  BY <1>1
<1>4. QED
  BY <1>2, <1>3

\* The shares of a pool, rounded down, add up.
LEMMA SharesAddUp ==
  ASSUME NEW deposits \in Nat \ {0}, NEW lent \in Nat, lent <= deposits, NEW earned \in Nat,
         NEW bps \in Nat \ {0}, NEW lender, NEW used,
         lender = earned \div deposits, used = (lent * bps) \div deposits
  PROVE  /\ lender \in Nat /\ used \in Nat
         /\ lender * deposits <= earned
         /\ used * deposits <= lent * bps
         /\ \A loan : lent # 0 /\ loan = earned \div lent =>
              loan \in Nat /\ lender <= loan /\ loan * used <= (lender + 1) * bps
<1>1. /\ lender \in Nat /\ lender * deposits \in Nat /\ lender * deposits <= earned
      /\ earned < lender * deposits + deposits
  BY RoundedDown
<1>2. lent * bps \in Nat
  OBVIOUS
<1>3. used \in Nat /\ used * deposits \in Nat /\ used * deposits <= lent * bps
  BY <1>2, RoundedDown
<1>4. ASSUME NEW loan, lent # 0, loan = earned \div lent
      PROVE  loan \in Nat /\ lender <= loan /\ loan * used <= (lender + 1) * bps
  <2>1. /\ loan \in Nat /\ loan * lent \in Nat /\ loan * lent <= earned
        /\ earned < loan * lent + lent
    BY <1>4, RoundedDown
  <2>2. lender <= loan
    <3>1. SUFFICES ASSUME loan + 1 <= lender PROVE FALSE
      BY <1>1, <2>1
    <3>2. (loan + 1) * lent <= lender * lent
      BY <1>1, <2>1, <3>1, ProductsGrow
    <3>3. lent * lender <= deposits * lender
      BY <1>1, ProductsGrow
    <3>4. (loan + 1) * lent = loan * lent + lent /\ lent * lender = lender * lent
          /\ deposits * lender = lender * deposits /\ lender * lent \in Nat
      BY <1>1, <2>1
    <3>5. QED
      BY <1>1, <2>1, <3>2, <3>3, <3>4
  <2>3. loan * used <= (lender + 1) * bps
    <3>1. SUFFICES ASSUME (lender + 1) * bps + 1 <= loan * used PROVE FALSE
      <4>1. (lender + 1) * bps \in Nat /\ loan * used \in Nat
        BY <1>1, <1>3, <2>1
      <4>2. QED
        BY <4>1
    <3> DEFINE cap == (lender + 1) * bps
               paid == loan * used
    <3>2. cap \in Nat /\ paid \in Nat
      BY <1>1, <1>3, <2>1
    <3>3. cap + 1 <= paid
      BY <3>1
    <3>4. paid * deposits <= (loan * lent) * bps
      <4>1. (used * deposits) * loan <= (lent * bps) * loan
        BY <1>2, <1>3, <2>1, ProductsGrow
      <4>2. (used * deposits) * loan = paid * deposits
        BY <1>3, <2>1
      <4>3. (lent * bps) * loan = (loan * lent) * bps
        BY <2>1
      <4>4. QED
        BY <4>1, <4>2, <4>3
    <3>5. (loan * lent) * bps <= earned * bps
      BY <2>1, ProductsGrow
    <3>6. earned * bps <= ((lender + 1) * deposits) * bps
      <4>1. (lender + 1) * deposits = lender * deposits + deposits
        BY <1>1
      <4>2. (lender + 1) * deposits \in Nat /\ earned <= (lender + 1) * deposits
        BY <1>1, <4>1
      <4>3. QED
        BY <4>2, ProductsGrow
    <3>7. ((lender + 1) * deposits) * bps = cap * deposits
      BY <1>1
    <3> HIDE DEF cap, paid
    <3>8. (cap + 1) * deposits <= paid * deposits
      BY <3>2, <3>3, ProductsGrow
    <3>9. (cap + 1) * deposits = cap * deposits + deposits /\ cap * deposits \in Nat
          /\ paid * deposits \in Nat /\ earned * bps \in Nat /\ (loan * lent) * bps \in Nat
      BY <2>1, <3>2
    <3>10. QED
      BY <3>4, <3>5, <3>6, <3>7, <3>8, <3>9
  <2>4. QED
    BY <2>1, <2>2, <2>3
<1>5. QED
  BY <1>1, <1>3, <1>4

\* pool.ts:20: for any balances and rates, a lender is never shown more than the pool earns,
\* nor more than the rate of the loans for the part that is lent, and the shares add up.
THEOREM NobodyIsShownMore == ViewAssumption /\ View!Spec => []View!NeverShownMore
<1>1. ASSUME ViewAssumption, ViewInv, NEW view \in shown
      PROVE  LET a == account[view.version].pool
                 s == view.state
             IN  /\ s.lenderAprBps * a.total_deposits <= a.accrual_rate
                 /\ s.loanAprBps # View!NONE => s.lenderAprBps <= s.loanAprBps
                 /\ s.loanAprBps * s.utilisationBps <= (s.lenderAprBps + 1) * BPS
                 /\ s.free * BPS <= (BPS - s.utilisationBps) * a.total_deposits
  <2> DEFINE a == account[view.version].pool
             s == view.state
  <2>1. a \in View!Accounts /\ s = View!BuildPoolState(a)
    BY <1>1 DEF ViewInv, ShownInv
  <2>2. PICK deposits, lent, earned :
          deposits = a.total_deposits /\ lent = a.total_borrowed /\ earned = a.accrual_rate
    OBVIOUS
  <2>3. deposits \in Nat /\ lent \in Nat /\ lent <= deposits /\ earned \in Nat /\ BPS \in Nat \ {0}
    <3>1. BPS \in Nat \ {0} /\ MAX_DEPOSITS \in Nat /\ MAX_APR \in Nat
          /\ MAX_DEPOSITS * MAX_APR \in Nat
      BY <1>1 DEF ViewAssumption, View!PoolViewAssumption
    <3>2. QED
      BY <2>1, <2>2, <3>1 DEF View!Accounts
  <2>4. PICK free, used, loan, lender :
          free = s.free /\ used = s.utilisationBps /\ loan = s.loanAprBps /\ lender = s.lenderAprBps
    OBVIOUS
  <2>5. /\ free = deposits - lent
        /\ used = IF deposits = 0 THEN 0 ELSE (lent * BPS) \div deposits
        /\ loan = IF lent = 0 THEN -1 ELSE earned \div lent
        /\ lender = IF deposits = 0 THEN 0 ELSE earned \div deposits
    BY <2>1, <2>2, <2>4 DEF View!BuildPoolState, View!NONE
  <2> HIDE DEF a, s
  <2>6. /\ lender * deposits <= earned
        /\ loan # -1 => lender <= loan
        /\ loan * used <= (lender + 1) * BPS
        /\ free * BPS <= (BPS - used) * deposits
    <3>1. CASE deposits = 0
      <4>1. lent = 0 /\ used = 0 /\ lender = 0 /\ loan = -1 /\ free = 0
        BY <2>3, <2>5, <3>1
      <4>2. QED
        BY <2>3, <3>1, <4>1
    <3>2. CASE deposits # 0
      <4>1. /\ lender \in Nat /\ used \in Nat
            /\ lender * deposits <= earned
            /\ used * deposits <= lent * BPS
            /\ lent # 0 => loan \in Nat /\ lender <= loan /\ loan * used <= (lender + 1) * BPS
        <5>1. deposits \in Nat \ {0}
          BY <2>3, <3>2
        <5>2. lender = earned \div deposits /\ used = (lent * BPS) \div deposits
              /\ (lent # 0 => loan = earned \div lent)
          BY <2>5, <3>2
        <5>3. QED
          BY <2>3, <5>1, <5>2, SharesAddUp
      <4>2. loan # -1 => lender <= loan
        BY <2>5, <4>1
      <4>3. loan * used <= (lender + 1) * BPS
        <5>1. CASE lent # 0
          BY <4>1, <5>1
        <5>2. CASE lent = 0
          <6>1. loan = -1 /\ (lender + 1) * BPS \in Nat
            BY <2>3, <2>5, <4>1, <5>2
          <6>2. QED
            BY <4>1, <6>1
        <5>3. QED
          BY <5>1, <5>2
      <4>4. free * BPS <= (BPS - used) * deposits
        <5>1. free * BPS = deposits * BPS - lent * BPS
          BY <2>3, <2>5
        <5>2. (BPS - used) * deposits = deposits * BPS - used * deposits
          BY <2>3, <4>1
        <5>3. deposits * BPS \in Nat /\ lent * BPS \in Nat /\ used * deposits \in Nat
          BY <2>3, <4>1
        <5>4. QED
          BY <4>1, <5>1, <5>2, <5>3
      <4>5. QED
        BY <4>1, <4>2, <4>3, <4>4
    <3>3. QED
      BY <3>1, <3>2
  <2>7. QED
    BY <2>2, <2>4, <2>6 DEF a, s, View!NONE
<1>2. ViewAssumption /\ ViewInv => View!NeverShownMore
  BY <1>1 DEF View!NeverShownMore
<1> SUFFICES ASSUME ViewAssumption PROVE View!Spec => []View!NeverShownMore
  OBVIOUS
<1>3. ViewInv => View!NeverShownMore
  BY <1>2
<1>4. QED
  BY <1>3, ViewInductive, PTL

-----------------------------------------------------------------------------
(***************************************************************************)
(* The rate of a reward token.                                             *)
(***************************************************************************)
CONSTANTS Digits, Fractions, SCALE, RADIX, MAX_PRICE_AGE, RATE_TTL, MAX_SKEW, MAX_QUOTES,
          MAX_REMAINING_VALIDITY, MAX_LIMIT_AGE, MAX_RATE_AGE

VARIABLES quoted, issued

Rates == INSTANCE RateIssuing

RatesAssumption == CacheAssumption /\ Rates!RateAssumption /\ Rates!PowersAssumption

\* What a read has brought was quoted by the market.
ReadQuote(read) == read.calls > 0 => read.value[1] \in quoted

\* What is signed is the rate of a quote that was fresh then.
IssuedInv(rate) ==
  /\ rate.at \in 0..clock
  /\ [amount |-> rate.price, of |-> rate.att.priced_at] \in quoted
  /\ rate.at - rate.att.priced_at <= MAX_PRICE_AGE
  /\ rate.att.signer = Rates!ATTESTOR /\ rate.att.reward_mint = Rates!MINT
  /\ rate.att.stable_per_trillion_reward = Rates!StablePerTrillionReward(rate.price)
  /\ rate.att.expires_at = rate.at + RATE_TTL

RatesInv ==
  /\ CacheInv
  /\ upstream \in quoted
  /\ quoted \subseteq [amount : Rates!Prices, of : Nat]
  /\ \A f \in DOMAIN fetches : ReadQuote(fetches[f])
  /\ \A rate \in issued : IssuedInv(rate)

\* A step that signs nothing.
LEMMA RatesKeep ==
  ASSUME RatesInv, CacheInv', UNCHANGED issued, clock' = clock \/ clock' = clock + 1,
         upstream' \in quoted', quoted \subseteq quoted',
         quoted' \subseteq [amount : Rates!Prices, of : Nat],
         \A f \in DOMAIN fetches' : ReadQuote(fetches'[f])
  PROVE  RatesInv'
<1>1. \A f \in DOMAIN fetches' : ReadQuote(fetches[f])'
  <2>1. SUFFICES ASSUME NEW f \in DOMAIN fetches', ReadQuote(fetches'[f])
                 PROVE  ReadQuote(fetches[f])'
    OBVIOUS
  <2>2. QED
    BY <2>1 DEF ReadQuote
<1>2. ASSUME NEW rate \in issued PROVE IssuedInv(rate)'
  <2>1. IssuedInv(rate) /\ clock \in Nat
    BY DEF RatesInv, CacheInv
  <2>2. rate.at \in 0..clock'
    BY <2>1 DEF IssuedInv
  <2>3. QED
    BY <2>1, <2>2 DEF IssuedInv, Rates!StablePerTrillionReward, Rates!ATTESTOR, Rates!MINT
<1>3. QED
  BY <1>1, <1>2 DEF RatesInv, Rates!Prices

LEMMA RatesQuoted ==
  ASSUME RatesAssumption, RatesInv, NEW price \in Rates!Prices, NEW of \in Nat,
         Rates!Quote(price, of)
  PROVE  RatesInv'
<1>1. /\ UNCHANGED <<clock, fetches, entry, callers, issued>>
      /\ upstream' = [amount |-> price, of |-> of]
      /\ quoted' = quoted \union {upstream'}
  BY DEF Rates!Quote, Rates!Change
<1>2. CacheInv'
  BY <1>1, CacheLeft DEF RatesInv
<1>3. upstream' \in [amount : Rates!Prices, of : Nat]
  BY <1>1
<1>4. ASSUME NEW f \in DOMAIN fetches' PROVE ReadQuote(fetches'[f])
  BY <1>1 DEF RatesInv, ReadQuote
<1>5. upstream' \in quoted' /\ quoted \subseteq quoted'
      /\ quoted' \subseteq [amount : Rates!Prices, of : Nat]
  BY <1>1, <1>3 DEF RatesInv
<1>6. clock' = clock /\ UNCHANGED issued
  BY <1>1
<1>7. QED
  BY <1>2, <1>4, <1>5, <1>6, RatesKeep

LEMMA RatesRead ==
  ASSUME RatesAssumption, RatesInv, NEW f \in DOMAIN fetches, NEW found \in BOOLEAN,
         NEW reason \in {"unavailable", "misconfigured"},
         Rates!Respond(f, found) \/ Rates!Reject(f, reason), UNCHANGED <<quoted, issued>>
  PROVE  RatesInv'
<1>1. CacheAssumption /\ CacheInv
  BY DEF RatesAssumption, RatesInv
<1>2. Cache!Respond(f, found) \/ Cache!Reject(f, reason)
  BY DEF Rates!Respond, Cache!Respond, Rates!Running, Cache!Running,
         Rates!Reject, Cache!Reject, Rates!EntryAfter, Cache!EntryAfter
<1>3. CacheInv'
  BY <1>1, <1>2, CacheResponds, CacheRejects
<1>4. /\ UNCHANGED <<clock, upstream, callers>>
      /\ \A g \in DOMAIN fetches' :
           /\ g \in DOMAIN fetches /\ fetches'[g].started = fetches[g].started
           /\ \/ fetches'[g].value = <<upstream>>
              \/ /\ fetches'[g].value = fetches[g].value
                 /\ fetches'[g].calls = fetches[g].calls \/ fetches[g].calls > 0
  BY <1>1, <1>2, ReadBrings
<1>5. ASSUME NEW g \in DOMAIN fetches' PROVE ReadQuote(fetches'[g])
  <2>1. ReadQuote(fetches[g])
    BY <1>4 DEF RatesInv
  <2>2. CASE fetches'[g].value = <<upstream>>
    <3>1. fetches'[g].value[1] = upstream
      BY <2>2
    <3>2. QED
      BY <3>1 DEF RatesInv, ReadQuote
  <2>3. CASE fetches'[g].value = fetches[g].value
             /\ (fetches'[g].calls = fetches[g].calls \/ fetches[g].calls > 0)
    BY <2>1, <2>3 DEF ReadQuote
  <2>4. QED
    BY <1>4, <2>2, <2>3
<1>6. /\ UNCHANGED issued /\ clock' = clock /\ upstream' \in quoted' /\ quoted \subseteq quoted'
      /\ quoted' \subseteq [amount : Rates!Prices, of : Nat]
  BY <1>4 DEF RatesInv
<1>7. QED
  BY <1>3, <1>5, <1>6, RatesKeep

LEMMA RatesCalled ==
  ASSUME RatesAssumption, RatesInv, NEW c \in Callers, Rates!Call(c), UNCHANGED <<quoted, issued>>
  PROVE  RatesInv'
<1>1. Cache!Call(c) /\ CacheInv
  BY DEF Rates!Call, Cache!Call, Rates!Hit, Cache!Hit, Rates!NewFetch, Cache!NewFetch, RatesInv
<1>2. CacheInv'
  BY <1>1, CacheCalled DEF RatesAssumption
<1>3. /\ UNCHANGED <<clock, upstream>>
      /\ \A g \in DOMAIN fetches' :
           \/ g \in DOMAIN fetches /\ fetches'[g] = fetches[g]
           \/ fetches'[g].calls = 0
  BY <1>1, CallBrings
<1>4. \A g \in DOMAIN fetches' : ReadQuote(fetches'[g])
  BY <1>3 DEF RatesInv, ReadQuote
<1>5. /\ UNCHANGED issued /\ clock' = clock /\ upstream' \in quoted' /\ quoted \subseteq quoted'
      /\ quoted' \subseteq [amount : Rates!Prices, of : Nat]
  BY <1>3 DEF RatesInv
<1>6. QED
  BY <1>2, <1>4, <1>5, RatesKeep

LEMMA RatesTick ==
  ASSUME RatesAssumption, RatesInv, Rates!Tick, UNCHANGED <<quoted, issued>>
  PROVE  RatesInv'
<1>1. Cache!Tick
  BY DEF Rates!Tick, Cache!Tick, Rates!TimeIsUp, Cache!TimeIsUp, Rates!Running, Cache!Running
<1>2. CacheInv'
  BY <1>1, CacheTicks DEF RatesAssumption, RatesInv
<1>3. UNCHANGED <<fetches, upstream, callers>> /\ clock' = clock + 1
  BY DEF Rates!Tick
<1>4. \A f \in DOMAIN fetches' : ReadQuote(fetches'[f])
  BY <1>3 DEF RatesInv
<1>5. /\ UNCHANGED issued /\ upstream' \in quoted' /\ quoted \subseteq quoted'
      /\ quoted' \subseteq [amount : Rates!Prices, of : Nat]
  BY <1>3 DEF RatesInv
<1>6. QED
  BY <1>2, <1>3, <1>4, <1>5, RatesKeep

\* The route answers, and signs the price its caller's read brought if it is fresh.
LEMMA RatesAnswered ==
  ASSUME RatesAssumption, RatesInv, NEW c \in Callers, Rates!Answer(c)
  PROVE  RatesInv'
<1> DEFINE read == fetches[callers[c].fetch]
           signs == read.state = "resolved" /\ Rates!FreshEnough(Rates!ValueOf(read))
<1>1. PICK answer : callers' = [callers EXCEPT ![c].phase = answer]
  BY DEF Rates!Answer, Rates!Leave
<1>2. /\ UNCHANGED <<clock, upstream, fetches, entry, quoted>>
      /\ callers[c].phase = "waiting"
  BY DEF Rates!Answer, Rates!Leave, Rates!Settled
<1>3. CacheInv'
  <2>1. callers[c].phase # "new"
    BY <1>2
  <2>2. QED
    BY <1>1, <1>2, <2>1, CacheLeft DEF RatesInv
<1>4. CASE ~signs
  <2>1. UNCHANGED issued
    BY <1>4 DEF Rates!Answer
  <2>2. /\ clock' = clock /\ upstream' \in quoted' /\ quoted \subseteq quoted'
        /\ quoted' \subseteq [amount : Rates!Prices, of : Nat]
        /\ \A f \in DOMAIN fetches' : ReadQuote(fetches'[f])
    BY <1>2 DEF RatesInv, ReadQuote
  <2>3. QED
    BY <1>3, <2>1, <2>2, RatesKeep
<1>5. CASE signs
  <2>1. PICK value : value = read.value[1]
    OBVIOUS
  <2>2. PICK rate : rate = [att |-> Rates!SignRateAttestation(value), at |-> clock,
                            price |-> value.amount]
    OBVIOUS
  <2>3. issued' = issued \union {rate} /\ read.state = "resolved" /\ Rates!FreshEnough(value)
    BY <1>5, <2>1, <2>2 DEF Rates!Answer, Rates!ValueOf
  <2>4. value \in quoted
    <3>1. CALLS \in Nat \ {0}
      BY DEF RatesAssumption, CacheAssumption, Cache!CachedReadAssumption
    <3>2. callers[c].fetch \in DOMAIN fetches
      BY <1>2 DEF RatesInv, CacheInv, CallerInv
    <3>3. ReadInv(read) /\ ReadQuote(read)
      BY <3>2 DEF RatesInv, CacheInv
    <3>4. read.calls > 0
      BY <2>3, <3>1, <3>3 DEF ReadInv
    <3>5. QED
      BY <2>1, <3>3, <3>4 DEF ReadQuote
  <2>5. value = [amount |-> value.amount, of |-> value.of]
    BY <2>4 DEF RatesInv
  <2>6. /\ rate.at = clock /\ rate.price = value.amount /\ rate.att.priced_at = value.of
        /\ rate.att.signer = Rates!ATTESTOR /\ rate.att.reward_mint = Rates!MINT
        /\ rate.att.stable_per_trillion_reward = Rates!StablePerTrillionReward(rate.price)
        /\ rate.att.expires_at = clock + RATE_TTL
    BY <2>2 DEF Rates!SignRateAttestation
  <2>7. clock \in Nat /\ clock - value.of <= MAX_PRICE_AGE
    BY <2>3 DEF RatesInv, CacheInv, Rates!FreshEnough
  <2>8. IssuedInv(rate)
    BY <2>4, <2>5, <2>6, <2>7 DEF IssuedInv
  <2>9. ASSUME NEW any \in issued' PROVE IssuedInv(any)
    BY <2>3, <2>8 DEF RatesInv
  <2>10. \A any \in issued' : IssuedInv(any)'
    <3>1. SUFFICES ASSUME NEW any \in issued' PROVE IssuedInv(any)'
      OBVIOUS
    <3>2. IssuedInv(any)
      BY <2>9
    <3>3. QED
      BY <1>2, <3>2 DEF IssuedInv, Rates!StablePerTrillionReward, Rates!ATTESTOR, Rates!MINT
  <2>11. QED
    BY <1>2, <1>3, <2>10 DEF RatesInv, ReadQuote, Rates!Prices
<1>6. QED
  BY <1>4, <1>5

LEMMA RatesInductive == RatesAssumption /\ Rates!Spec => []RatesInv
<1> SUFFICES ASSUME RatesAssumption PROVE Rates!Spec => []RatesInv
  OBVIOUS
<1>1. Rates!Init => RatesInv
  <2> SUFFICES ASSUME Rates!Init PROVE RatesInv
    OBVIOUS
  <2>1. PICK price \in Rates!Prices : Rates!CacheInit([amount |-> price, of |-> 0])
    BY DEF Rates!Init
  <2>2. Cache!CacheInit([amount |-> price, of |-> 0])
    BY <2>1 DEF Rates!CacheInit, Cache!CacheInit
  <2>3. CacheInv
    BY <2>2, CacheStarts DEF RatesAssumption
  <2>4. upstream = [amount |-> price, of |-> 0] /\ quoted = {upstream} /\ issued = {}
    BY <2>1 DEF Rates!Init, Rates!CacheInit
  <2>5. DOMAIN fetches = {}
    <3>1. fetches = <<>> /\ DOMAIN <<>> = {}
      BY <2>1 DEF Rates!CacheInit
    <3>2. QED
      BY <3>1
  <2>6. QED
    BY <2>3, <2>4, <2>5 DEF RatesInv
<1>2. RatesInv /\ [Rates!Next]_(Rates!vars) => RatesInv'
  <2> SUFFICES ASSUME RatesInv, [Rates!Next]_(Rates!vars) PROVE RatesInv'
    OBVIOUS
  <2>1. CASE Rates!Tick /\ UNCHANGED <<quoted, issued>>
    BY <2>1, RatesTick
  <2>2. ASSUME NEW price \in Rates!Prices, NEW of \in 0..MAX_CLOCK, Rates!Quote(price, of)
        PROVE  RatesInv'
    <3>1. of \in Nat
      OBVIOUS
    <3>2. QED
      BY <2>2, <3>1, RatesQuoted
  <2>3. CASE \E c \in Callers : Rates!Answer(c)
    BY <2>3, RatesAnswered
  <2>4. CASE \E c \in Callers : Rates!Call(c) /\ UNCHANGED <<quoted, issued>>
    BY <2>4, RatesCalled
  <2>5. ASSUME NEW f \in DOMAIN fetches, NEW found \in BOOLEAN,
               NEW reason \in {"unavailable", "misconfigured"}, UNCHANGED <<quoted, issued>>,
               Rates!Respond(f, found) \/ Rates!Reject(f, reason)
        PROVE  RatesInv'
    BY <2>5, RatesRead
  <2>6. CASE UNCHANGED Rates!vars
    <3>1. UNCHANGED <<clock, upstream, fetches, entry, callers, quoted, issued>>
      BY <2>6 DEF Rates!vars, Rates!cacheVars
    <3>2. QED
      BY <3>1 DEF RatesInv, CacheInv, ReadInv, EntryInv, CallerInv, ReadQuote, IssuedInv,
                  Cache!CallersShare, Cache!Running, Rates!Prices,
                  Rates!StablePerTrillionReward, Rates!ATTESTOR, Rates!MINT
  <2>7. ASSUME NEW f \in DOMAIN fetches, Rates!TimeOut(f)
        PROVE  Rates!Reject(f, "unavailable")
    BY <2>7 DEF Rates!TimeOut
  <2>8. QED
    BY <2>1, <2>2, <2>3, <2>4, <2>5, <2>6, <2>7 DEF Rates!Next
<1>3. QED
  BY <1>1, <1>2, PTL DEF Rates!Spec

\* A rate in whole units is the price rounded up by less than a unit.
LEMMA RateRoundsUp ==
  ASSUME RatesAssumption, NEW price \in Rates!Prices, NEW rate,
         rate = Rates!StablePerTrillionReward(price)
  PROVE  LET unit == RADIX^(price.fraction)
             full == price.digits * RADIX^SCALE
         IN  rate \in Nat /\ rate > 0 /\ rate * unit \in full..(full + unit - 1)
<1>1. PICK digits, fraction : digits = price.digits /\ fraction = price.fraction
  OBVIOUS
<1>2. digits \in Nat \ {0} /\ fraction \in Fractions /\ fraction \in Nat /\ SCALE \in Nat
  BY <1>1 DEF Rates!Prices, RatesAssumption, Rates!RateAssumption
<1>3. PICK unit, scale : unit = RADIX^fraction /\ scale = RADIX^SCALE
  OBVIOUS
<1>4. unit \in Nat \ {0} /\ scale \in Nat \ {0}
  BY <1>2, <1>3 DEF RatesAssumption, Rates!PowersAssumption
<1>5. CASE fraction <= SCALE
  <2>1. PICK power : power = RADIX^(SCALE - fraction)
    OBVIOUS
  <2>2. power \in Nat \ {0} /\ scale = power * unit
    BY <1>2, <1>3, <1>5, <2>1 DEF RatesAssumption, Rates!PowersAssumption
  <2>3. rate = digits * power
    BY <1>1, <1>2, <1>5, <2>1 DEF Rates!StablePerTrillionReward
  <2>4. rate \in Nat /\ rate > 0
    BY <1>2, <2>2, <2>3
  <2>5. rate * unit = digits * scale
    BY <1>2, <1>4, <2>2, <2>3
  <2>6. digits * scale \in Nat
    BY <1>2, <1>4
  <2>7. rate * unit \in (digits * scale)..(digits * scale + unit - 1)
    BY <1>4, <2>5, <2>6
  <2>8. QED
    BY <1>1, <1>3, <2>4, <2>7
<1>6. CASE fraction > SCALE
  <2>1. PICK over : over = fraction - SCALE
    OBVIOUS
  <2>2. over \in Nat /\ -(SCALE - fraction) = over /\ SCALE <= fraction /\ ~(SCALE - fraction >= 0)
    BY <1>2, <1>6, <2>1
  <2>3. PICK power : power = RADIX^over
    OBVIOUS
  <2>4. power \in Nat \ {0} /\ unit = power * scale
    BY <1>2, <1>3, <2>1, <2>2, <2>3 DEF RatesAssumption, Rates!PowersAssumption
  <2>5. rate = (digits + power - 1) \div power
    BY <1>1, <2>2, <2>3 DEF Rates!StablePerTrillionReward
  <2>6. /\ rate \in Nat /\ rate * power <= digits + power - 1
        /\ digits + power - 1 < rate * power + power
    <3>1. digits + power - 1 \in Nat
      BY <1>2, <2>4
    <3>2. QED
      BY <2>4, <2>5, <3>1, RoundedDown
  <2>7. rate * power \in Nat
    BY <2>4, <2>6
  <2>8. rate > 0
    <3>1. SUFFICES ASSUME rate = 0 PROVE FALSE
      BY <2>6
    <3>2. rate * power = 0
      BY <2>4, <3>1
    <3>3. QED
      BY <1>2, <2>4, <2>6, <3>2
  <2>9. digits * scale <= (rate * power) * scale
    BY <1>2, <1>4, <2>4, <2>6, <2>7, ProductsGrow
  <2>10. (rate * power) * scale <= (digits + power - 1) * scale
    <3>1. digits + power - 1 \in Nat
      BY <1>2, <2>4
    <3>2. QED
      BY <1>4, <2>6, <2>7, <3>1, ProductsGrow
  <2>11. (rate * power) * scale = rate * unit
    BY <1>4, <2>4, <2>6
  <2>12. (digits + power - 1) * scale = digits * scale + unit - scale
    BY <1>2, <1>4, <2>4
  <2>13. digits * scale \in Nat /\ rate * unit \in Nat
    BY <1>2, <1>4, <2>6
  <2>14. rate * unit \in (digits * scale)..(digits * scale + unit - 1)
    BY <1>4, <2>9, <2>10, <2>11, <2>12, <2>13
  <2>15. QED
    BY <1>1, <1>3, <2>6, <2>8, <2>14
<1>7. QED
  BY <1>2, <1>5, <1>6

\* jupiter.ts:45: of the reads of a price that are under way, no two began less than CACHE
\* apart, for any number of callers, and whichever of them fail or time out.
THEOREM PriceReadsAreShared == RatesAssumption /\ Rates!Spec => []Rates!CallersShare
<1> SUFFICES ASSUME RatesAssumption PROVE Rates!Spec => []Rates!CallersShare
  OBVIOUS
<1>1. RatesInv => Rates!CallersShare
  BY DEF RatesInv, CacheInv, Cache!CallersShare, Rates!CallersShare, Cache!Running, Rates!Running
<1>2. QED
  BY <1>1, RatesInductive, PTL

\* FR-015b, rate.ts:14: however the market moves and reads and callers overlap, every signed
\* rate is a price the market had, fresh when it was signed, rounded up by less than a unit.
THEOREM SignedRatesAreMarketPrices == RatesAssumption /\ Rates!Spec => []Rates!RatesAreMarketPrices
<1> SUFFICES ASSUME RatesAssumption PROVE Rates!Spec => []Rates!RatesAreMarketPrices
  OBVIOUS
<1>1. RatesInv => Rates!RatesAreMarketPrices
  <2> SUFFICES ASSUME RatesInv, NEW rate \in issued
               PROVE  LET att   == rate.att
                          price == rate.price
                          unit  == RADIX^(price.fraction)
                          full  == price.digits * RADIX^SCALE
                      IN  /\ [amount |-> price, of |-> att.priced_at] \in quoted
                          /\ rate.at - att.priced_at <= MAX_PRICE_AGE
                          /\ att.stable_per_trillion_reward * unit \in full..(full + unit - 1)
    BY DEF Rates!RatesAreMarketPrices
  <2>1. IssuedInv(rate)
    BY DEF RatesInv
  <2>2. rate.price \in Rates!Prices
    BY <2>1 DEF IssuedInv, RatesInv
  <2>3. PICK price, amount : price = rate.price /\ amount = rate.att.stable_per_trillion_reward
    OBVIOUS
  <2>4. amount * RADIX^(price.fraction) \in
          (price.digits * RADIX^SCALE)..(price.digits * RADIX^SCALE + RADIX^(price.fraction) - 1)
    BY <2>1, <2>2, <2>3, RateRoundsUp DEF IssuedInv
  <2>5. QED
    BY <2>1, <2>3, <2>4 DEF IssuedInv
<1>2. QED
  BY <1>1, RatesInductive, PTL

\* verify_attestation.rs: for any ages, validities and skew in the assumed order, a signed
\* rate satisfies the program from its signature until it expires.
THEOREM SignedRatesAreAccepted == RatesAssumption /\ Rates!Spec => []Rates!RatesAreAccepted
<1> SUFFICES ASSUME RatesAssumption PROVE Rates!Spec => []Rates!RatesAreAccepted
  OBVIOUS
<1>1. RatesInv => Rates!RatesAreAccepted
  <2> SUFFICES ASSUME RatesInv, NEW rate \in issued,
                      NEW now \in (rate.at - MAX_SKEW)..(rate.att.expires_at - 1)
               PROVE  Rates!RateVerified(rate.att, Rates!ATTESTOR, Rates!MINT, now)
    BY DEF Rates!RatesAreAccepted
  <2>1. IssuedInv(rate) /\ clock \in Nat
    BY DEF RatesInv, CacheInv
  <2>2. [amount |-> rate.price, of |-> rate.att.priced_at] \in [amount : Rates!Prices, of : Nat]
    BY <2>1 DEF IssuedInv, RatesInv
  <2>3. PICK price, of, at, amount, expires :
          /\ price = rate.price /\ of = rate.att.priced_at /\ at = rate.at
          /\ amount = rate.att.stable_per_trillion_reward /\ expires = rate.att.expires_at
    OBVIOUS
  <2>4. price \in Rates!Prices /\ of \in Nat /\ at \in Nat
    BY <2>1, <2>2, <2>3 DEF IssuedInv
  <2>5. amount > 0
    BY <2>1, <2>3, <2>4, RateRoundsUp DEF IssuedInv
  <2>6. /\ MAX_PRICE_AGE \in Nat /\ RATE_TTL \in Nat /\ MAX_SKEW \in Nat
        /\ MAX_RATE_AGE \in Nat /\ MAX_REMAINING_VALIDITY \in Nat
        /\ MAX_PRICE_AGE + RATE_TTL <= MAX_RATE_AGE
        /\ RATE_TTL + MAX_SKEW <= MAX_REMAINING_VALIDITY
    BY DEF RatesAssumption, Rates!RateAssumption
  <2>7. expires = at + RATE_TTL /\ at - of <= MAX_PRICE_AGE
    BY <2>1, <2>3 DEF IssuedInv
  <2>8. now \in Int /\ now >= at - MAX_SKEW /\ now <= expires - 1
    BY <2>3, <2>4, <2>6, <2>7
  <2>9. now < expires /\ expires - now <= MAX_REMAINING_VALIDITY /\ now - of <= MAX_RATE_AGE
    BY <2>4, <2>6, <2>7, <2>8
  <2>10. QED
    BY <2>1, <2>3, <2>5, <2>9 DEF Rates!RateVerified, IssuedInv
<1>2. QED
  BY <1>1, RatesInductive, PTL

-----------------------------------------------------------------------------
(***************************************************************************)
(* The watch over silent sources.                                          *)
(***************************************************************************)
CONSTANTS Sources, SILENCE, CADENCE, LAG, MAX_DAY, MAX_MOVES

VARIABLES day, paying, moved, payouts, declared, cursor, rows, passed, seeded

Sourcing == INSTANCE PayoutSources

\* The days and the places, and that neither the network nor the indexer is overdue.
DaysInv ==
  /\ day \in Nat /\ passed \in 0..day /\ seeded \in 0..day
  /\ moved = [day |-> moved.day, times |-> moved.times]
  /\ moved.day \in 0..day /\ moved.times \in Nat
  /\ \E S : payouts \in Seq(S)
  /\ \A i \in 1..Len(payouts) : payouts[i].day \in 0..day
  /\ cursor \in 0..Len(payouts)
  /\ rows \subseteq 1..cursor
  /\ day - Sourcing!LastPaid <= CADENCE
  /\ day - passed <= LAG

\* What the network paid by when, and what of it was recorded: all that was passed under the
\* row as it is now, and of another source nothing since the change.
SourceInv ==
  /\ \A i \in 1..Len(payouts) : payouts[i].day > moved.day => payouts[i].source = paying
  /\ \A i \in 1..cursor : payouts[i].day > seeded /\ payouts[i].source \in declared => i \in rows
  /\ moved.times = 0 => /\ declared = {paying} /\ rows = 1..cursor
                        /\ \A i \in 1..Len(payouts) : payouts[i].source = paying
  /\ moved.times = 1 /\ declared # {paying} => \A i \in rows : payouts[i].source # paying
  /\ \E s : declared = {s}

\* The last pass went over a payout that was then recent.
PassInv == (IF cursor = 0 THEN 0 ELSE payouts[cursor].day) >= passed - CADENCE

SourcingInv == DaysInv /\ SourceInv /\ PassInv

-----------------------------------------------------------------------------
LEMMA MaxIsLast ==
  ASSUME NEW n \in Nat, NEW S \in SUBSET (0..n), S # {}
  PROVE  Sourcing!Max(S) \in S /\ \A x \in S : x <= Sourcing!Max(S)
<1> DEFINE R == OpToRel(<, Nat)
           T == {n - x : x \in S}
<1>1. IsWellFoundedOn(R, Nat)
  BY NatLessThanWellFounded
<1>2. T \subseteq Nat /\ T # {}
  <2>1. ASSUME NEW x \in S PROVE n - x \in Nat
    <3>1. x \in 0..n
      OBVIOUS
    <3>2. QED
      BY <3>1
  <2>2. PICK x : x \in S
    OBVIOUS
  <2>3. n - x \in T
    BY <2>2
  <2>4. QED
    BY <2>1, <2>3
<1> HIDE DEF R, T
<1>3. PICK m \in T : \A e \in T : ~(<<e, m>> \in R)
  BY <1>1, <1>2, WFMin
<1>4. \A e \in T : ~(e < m)
  BY <1>2, <1>3 DEF R, OpToRel
<1>5. PICK x \in S : m = n - x
  BY <1>3 DEF T
<1>6. ASSUME NEW y \in S PROVE x >= y
  <2>1. n - y \in T
    BY DEF T
  <2>2. ~(n - y < n - x)
    BY <1>4, <1>5, <2>1
  <2>3. QED
    BY <2>2
<1>7. \E z \in S : \A y \in S : z >= y
  BY <1>6
<1>8. Sourcing!Max(S) \in S /\ \A y \in S : Sourcing!Max(S) >= y
  BY <1>7 DEF Sourcing!Max
<1>9. QED
  BY <1>8

LEMMA SourcingStarts == Sourcing!PayoutSourcesAssumption /\ Sourcing!Init => SourcingInv
<1> SUFFICES ASSUME Sourcing!PayoutSourcesAssumption, Sourcing!Init PROVE SourcingInv
  OBVIOUS
<1>1. CADENCE \in Nat /\ LAG \in Nat
  BY DEF Sourcing!PayoutSourcesAssumption
<1>2. /\ day = 0 /\ passed = 0 /\ seeded = 0 /\ moved = [day |-> 0, times |-> 0]
      /\ payouts = <<>> /\ cursor = 0 /\ rows = {} /\ declared = {paying}
  BY DEF Sourcing!Init
<1>3. payouts \in Seq({}) /\ Len(payouts) = 0 /\ Sourcing!LastPaid = 0
  BY <1>2 DEF Sourcing!LastPaid
<1>4. DaysInv
  BY <1>1, <1>2, <1>3 DEF DaysInv
<1>5. SourceInv /\ PassInv
  BY <1>1, <1>2, <1>3 DEF SourceInv, PassInv
<1>6. QED
  BY <1>4, <1>5 DEF SourcingInv

LEMMA LastPaidIsADay ==
  ASSUME DaysInv PROVE Sourcing!LastPaid \in Nat
<1>1. CASE payouts = <<>>
  BY <1>1 DEF Sourcing!LastPaid
<1>2. CASE payouts # <<>>
  <2>1. PICK S : payouts \in Seq(S)
    BY DEF DaysInv
  <2>2. Len(payouts) \in 1..Len(payouts)
    BY <1>2, <2>1, EmptySeq
  <2>3. payouts[Len(payouts)].day \in Nat
    BY <2>2 DEF DaysInv
  <2>4. QED
    BY <1>2, <2>3 DEF Sourcing!LastPaid
<1>3. QED
  BY <1>1, <1>2

\* A day passes, unless a payout or a pass is overdue.
LEMMA DayInv ==
  ASSUME Sourcing!PayoutSourcesAssumption, SourcingInv, Sourcing!Day
  PROVE  SourcingInv'
<1>1. /\ day' = day + 1 /\ day + 1 - Sourcing!LastPaid <= CADENCE /\ day + 1 - passed <= LAG
      /\ UNCHANGED <<paying, moved, payouts, declared, cursor, rows, passed, seeded>>
  BY DEF Sourcing!Day
<1>2. DaysInv /\ SourceInv /\ PassInv
  BY DEF SourcingInv
<1>3. Sourcing!LastPaid' = Sourcing!LastPaid
  BY <1>1 DEF Sourcing!LastPaid
<1>4. DaysInv'
  <2>1. \A i \in 1..Len(payouts) : payouts[i].day \in 0..(day + 1)
    BY <1>2 DEF DaysInv
  <2>2. /\ day + 1 \in Nat /\ passed \in 0..(day + 1) /\ seeded \in 0..(day + 1)
        /\ moved.day \in 0..(day + 1)
    BY <1>2 DEF DaysInv
  <2>3. /\ day' = day + 1 /\ moved' = moved /\ payouts' = payouts /\ cursor' = cursor
        /\ rows' = rows /\ passed' = passed /\ seeded' = seeded
    BY <1>1
  <2>4. day' - Sourcing!LastPaid' <= CADENCE /\ day' - passed' <= LAG
    <3>1. Sourcing!LastPaid \in Nat
      BY <1>2, LastPaidIsADay
    <3>2. day \in Nat /\ passed \in Nat /\ CADENCE \in Nat /\ LAG \in Nat
      BY <1>2 DEF DaysInv, Sourcing!PayoutSourcesAssumption
    <3>3. day' - Sourcing!LastPaid' <= CADENCE
      BY <1>1, <1>3, <2>3, <3>1, <3>2
    <3>4. day' - passed' <= LAG
      BY <1>1, <2>3, <3>2
    <3>5. QED
      BY <3>3, <3>4
  <2>5. /\ moved = [day |-> moved.day, times |-> moved.times] /\ moved.times \in Nat
        /\ \E S : payouts \in Seq(S)
        /\ cursor \in 0..Len(payouts)
        /\ rows \subseteq 1..cursor
    BY <1>2 DEF DaysInv
  <2>6. QED
    BY <2>1, <2>2, <2>3, <2>4, <2>5 DEF DaysInv
<1>5. SourceInv' /\ PassInv'
  BY <1>1, <1>2 DEF SourceInv, PassInv
<1>6. QED
  BY <1>4, <1>5 DEF SourcingInv

LEMMA PayInv ==
  ASSUME Sourcing!PayoutSourcesAssumption, SourcingInv, Sourcing!Pay
  PROVE  SourcingInv'
<1> DEFINE new == [day |-> day, source |-> paying]
<1>1. /\ payouts' = Append(payouts, new)
      /\ UNCHANGED <<day, paying, moved, declared, cursor, rows, passed, seeded>>
  BY DEF Sourcing!Pay
<1>2. DaysInv /\ SourceInv /\ PassInv /\ CADENCE \in Nat
  BY DEF SourcingInv, Sourcing!PayoutSourcesAssumption
<1>3. new.day = day /\ new.source = paying
  OBVIOUS
<1> HIDE DEF new
<1>4. PICK S : payouts \in Seq(S)
  BY <1>2 DEF DaysInv
<1>5. PICK n \in Nat : n = Len(payouts)
  BY <1>4
<1>6. /\ payouts' \in Seq(S \union {new}) /\ Len(payouts') = n + 1
      /\ payouts'[n + 1] = new /\ \A i \in 1..n : payouts'[i] = payouts[i]
  <2>1. payouts \in Seq(S \union {new})
    BY <1>4
  <2>2. QED
    BY <1>1, <1>5, <2>1
<1>7. Sourcing!LastPaid' = day
  <2>1. payouts' # <<>>
    BY <1>5, <1>6
  <2>2. QED
    BY <1>1, <1>3, <1>6, <2>1 DEF Sourcing!LastPaid
<1>8. day \in Nat /\ cursor \in 0..n /\ rows \subseteq 1..cursor
  BY <1>2, <1>5 DEF DaysInv
<1>9. DaysInv'
  <2>1. \A i \in 1..(n + 1) : payouts'[i].day \in 0..day
    BY SMTT(40), <1>2, <1>3, <1>5, <1>6, <1>8 DEF DaysInv
  <2>2. day - day <= CADENCE /\ cursor \in 0..(n + 1)
    BY <1>2, <1>8
  <2>3. QED
    BY <1>1, <1>2, <1>6, <1>7, <2>1, <2>2 DEF DaysInv
<1>10. \A i \in 1..cursor : payouts'[i] = payouts[i]
  BY <1>6, <1>8
<1>11. SourceInv'
  <2>1. ASSUME NEW i \in 1..(n + 1)
        PROVE  /\ payouts'[i].day > moved.day => payouts'[i].source = paying
               /\ moved.times = 0 => payouts'[i].source = paying
    <3>1. CASE i = n + 1
      BY <1>3, <1>6, <3>1
    <3>2. CASE i # n + 1
      BY <1>2, <1>5, <1>6, <3>2 DEF SourceInv
    <3>3. QED
      BY <3>1, <3>2
  <2>2. QED
    BY <1>1, <1>2, <1>6, <1>8, <1>10, <2>1 DEF SourceInv
<1>12. PassInv'
  <2>1. cursor # 0 => cursor \in 1..cursor
    BY <1>8
  <2>2. QED
    BY <1>1, <1>2, <1>10, <2>1 DEF PassInv
<1>13. QED
  BY <1>9, <1>11, <1>12 DEF SourcingInv

LEMMA ChangeInv ==
  ASSUME Sourcing!PayoutSourcesAssumption, SourcingInv, NEW s, Sourcing!Change(s)
  PROVE  SourcingInv'
<1>1. /\ s # paying /\ paying' = s /\ moved' = [day |-> day, times |-> moved.times + 1]
      /\ UNCHANGED <<day, payouts, declared, cursor, rows, passed, seeded>>
  BY DEF Sourcing!Change
<1>2. DaysInv /\ SourceInv /\ PassInv
  BY DEF SourcingInv
<1>3. moved'.day = day /\ moved'.times = moved.times + 1 /\ moved.times \in Nat /\ day \in Nat
      /\ moved' = [day |-> moved'.day, times |-> moved'.times]
  BY <1>1, <1>2 DEF DaysInv
<1>4. DaysInv'
  BY <1>1, <1>2, <1>3 DEF DaysInv, Sourcing!LastPaid
<1>5. \A i \in 1..Len(payouts) : ~(payouts[i].day > day)
  BY <1>2 DEF DaysInv
<1>6. rows \subseteq 1..Len(payouts)
  BY <1>2 DEF DaysInv
<1>7. moved.times + 1 = 1 => moved.times = 0
  BY <1>3
<1>8. moved.times + 1 # 0
  BY <1>3
<1>9. SourceInv'
  BY <1>1, <1>2, <1>3, <1>5, <1>6, <1>7, <1>8 DEF SourceInv
<1>10. PassInv'
  BY <1>1, <1>2 DEF PassInv
<1>11. QED
  BY <1>4, <1>9, <1>10 DEF SourcingInv

LEMMA PassesInv ==
  ASSUME Sourcing!PayoutSourcesAssumption, SourcingInv, Sourcing!Pass
  PROVE  SourcingInv'
<1>1. /\ rows' = rows \cup {i \in (cursor + 1)..Len(payouts) : payouts[i].source \in declared}
      /\ cursor' = Len(payouts) /\ passed' = day
      /\ UNCHANGED <<day, paying, moved, payouts, declared, seeded>>
  BY DEF Sourcing!Pass, Sourcing!Recognised
<1>2. DaysInv /\ SourceInv /\ PassInv /\ CADENCE \in Nat /\ LAG \in Nat
  BY DEF SourcingInv, Sourcing!PayoutSourcesAssumption
<1>3. PICK n \in Nat : n = Len(payouts)
  BY <1>2 DEF DaysInv
<1>4. cursor \in 0..n /\ rows \subseteq 1..cursor /\ day \in Nat
  BY <1>2, <1>3 DEF DaysInv
<1>5. rows' \subseteq 1..n
  <2>1. ASSUME NEW i \in rows' PROVE i \in 1..n
    <3>1. CASE i \in rows
      <4>1. i \in 1..cursor
        BY <1>4, <3>1
      <4>2. QED
        BY <1>4, <4>1
    <3>2. CASE i \notin rows
      <4>1. i \in (cursor + 1)..n
        BY <1>1, <1>3, <3>2
      <4>2. QED
        BY <1>4, <4>1
    <3>3. QED
      BY <3>1, <3>2
  <2>2. QED
    BY <2>1
<1>6. DaysInv'
  <2>1. day - day <= LAG /\ day \in 0..day /\ n \in 0..n
    BY <1>2, <1>3, <1>4
  <2>2. QED
    BY <1>1, <1>2, <1>3, <1>5, <2>1 DEF DaysInv, Sourcing!LastPaid
<1>7. SourceInv'
  <2>1. ASSUME NEW i \in 1..n, payouts[i].day > seeded, payouts[i].source \in declared
        PROVE  i \in rows'
    <3>1. CASE i <= cursor
      <4>1. i \in 1..cursor
        BY <1>4, <3>1
      <4>2. QED
        BY <1>1, <1>2, <2>1, <4>1 DEF SourceInv
    <3>2. CASE ~(i <= cursor)
      <4>1. i \in (cursor + 1)..Len(payouts)
        BY <1>3, <1>4, <3>2
      <4>2. QED
        BY <1>1, <2>1, <4>1
    <3>3. QED
      BY <3>1, <3>2
  <2>2. ASSUME moved.times = 0 PROVE rows' = 1..n
    <3>1. rows = 1..cursor /\ declared = {paying} /\ \A i \in 1..n : payouts[i].source = paying
      BY <1>2, <1>3, <2>2 DEF SourceInv
    <3>2. ASSUME NEW i \in 1..n PROVE i \in rows'
      BY <1>1, <1>3, <1>4, <3>1
    <3>3. QED
      BY <1>5, <3>2
  <2>3. ASSUME moved.times = 1, declared # {paying}, NEW i \in rows' PROVE payouts[i].source # paying
    <3>1. CASE i \in rows
      BY <1>2, <2>3, <3>1 DEF SourceInv
    <3>2. CASE i \notin rows
      <4>1. payouts[i].source \in declared
        BY <1>1, <2>3, <3>2
      <4>2. paying \notin declared
        BY <1>2, <2>3 DEF SourceInv
      <4>3. QED
        BY <4>1, <4>2
    <3>3. QED
      BY <3>1, <3>2
  <2>4. QED
    BY <1>1, <1>2, <1>3, <2>1, <2>2, <2>3 DEF SourceInv
<1>8. PassInv'
  <2>1. day - Sourcing!LastPaid <= CADENCE
    BY <1>2 DEF DaysInv
  <2>2. CASE n = 0
    <3>1. payouts = <<>>
      <4>1. PICK S : payouts \in Seq(S)
        BY <1>2 DEF DaysInv
      <4>2. QED
        BY <1>3, <2>2, <4>1, EmptySeq
    <3>2. Sourcing!LastPaid = 0
      BY <3>1 DEF Sourcing!LastPaid
    <3>3. 0 >= day - CADENCE
      BY <1>2, <1>4, <2>1, <3>2
    <3>4. QED
      BY <1>1, <1>3, <2>2, <3>3 DEF PassInv
  <2>3. CASE n # 0
    <3>1. payouts # <<>> /\ payouts[n].day \in Nat
      <4>1. n \in 1..n
        BY <2>3
      <4>2. QED
        BY <1>2, <1>3, <2>3, <4>1 DEF DaysInv
    <3>2. Sourcing!LastPaid = payouts[n].day
      BY <1>3, <3>1 DEF Sourcing!LastPaid
    <3>3. payouts[n].day >= day - CADENCE
      BY <1>2, <1>4, <2>1, <3>1, <3>2
    <3>4. QED
      BY <1>1, <1>3, <2>3, <3>3 DEF PassInv
  <2>4. QED
    BY <2>2, <2>3
<1>9. QED
  BY <1>6, <1>7, <1>8 DEF SourcingInv

LEMMA SeedInv ==
  ASSUME Sourcing!PayoutSourcesAssumption, SourcingInv, Sourcing!SeedNetworks
  PROVE  SourcingInv'
<1>1. /\ declared # {paying} /\ declared' = {paying} /\ seeded' = day
      /\ UNCHANGED <<day, paying, moved, payouts, cursor, rows, passed>>
  BY DEF Sourcing!SeedNetworks
<1>2. DaysInv /\ SourceInv /\ PassInv
  BY DEF SourcingInv
<1>3. DaysInv'
  <2>1. day \in 0..day
    BY <1>2 DEF DaysInv
  <2>2. QED
    BY <1>1, <1>2, <2>1 DEF DaysInv, Sourcing!LastPaid
<1>4. SourceInv'
  <2>1. \A i \in 1..cursor : ~(payouts[i].day > day)
    <3>1. \A i \in 1..cursor : i \in 1..Len(payouts)
      BY <1>2 DEF DaysInv
    <3>2. \A i \in 1..Len(payouts) : ~(payouts[i].day > day)
      BY <1>2 DEF DaysInv
    <3>3. QED
      BY <3>1, <3>2
  <2>2. moved.times # 0
    BY <1>1, <1>2 DEF SourceInv
  <2>3. QED
    BY <1>1, <1>2, <2>1, <2>2 DEF SourceInv
<1>5. PassInv'
  BY <1>1, <1>2 DEF PassInv
<1>6. QED
  BY <1>3, <1>4, <1>5 DEF SourcingInv

LEMMA SourcingInductive ==
  Sourcing!PayoutSourcesAssumption /\ Sourcing!Spec => []SourcingInv
<1> SUFFICES ASSUME Sourcing!PayoutSourcesAssumption PROVE Sourcing!Spec => []SourcingInv
  OBVIOUS
<1>1. Sourcing!Init => SourcingInv
  BY SourcingStarts
<1>2. SourcingInv /\ [Sourcing!Next]_(Sourcing!vars) => SourcingInv'
  <2> SUFFICES ASSUME SourcingInv, [Sourcing!Next]_(Sourcing!vars) PROVE SourcingInv'
    OBVIOUS
  <2>1. CASE UNCHANGED Sourcing!vars
    BY <2>1 DEF Sourcing!vars, SourcingInv, DaysInv, SourceInv, PassInv, Sourcing!LastPaid
  <2>2. CASE Sourcing!Next
    BY <2>2, DayInv, PayInv, ChangeInv, PassesInv, SeedInv DEF Sourcing!Next
  <2>3. QED
    BY <2>1, <2>2
<1>3. QED
  BY <1>1, <1>2, PTL DEF Sourcing!Spec

\* The payouts of a source that were recorded came on days so far.
LEMMA PaidDays ==
  ASSUME SourcingInv, NEW s
  PROVE  Sourcing!PaidAt(s) \subseteq 0..day
<1>1. \A i \in rows : i \in 1..Len(payouts)
  BY DEF SourcingInv, DaysInv
<1>2. \A i \in 1..Len(payouts) : payouts[i].day \in 0..day
  BY DEF SourcingInv, DaysInv
<1>3. QED
  BY <1>1, <1>2 DEF Sourcing!PaidAt

\* health.ts: for any cadence of the network and lag of the indexer that the silence allows
\* for, the alarm is raised only over a source the network has left, or has come back to so
\* lately that neither was due yet.
THEOREM AlarmsAreTrue ==
  Sourcing!PayoutSourcesAssumption /\ Sourcing!Spec => []Sourcing!AlarmIsTrue
<1> SUFFICES ASSUME Sourcing!PayoutSourcesAssumption
             PROVE  Sourcing!Spec => []Sourcing!AlarmIsTrue
  OBVIOUS
<1>1. SourcingInv => Sourcing!AlarmIsTrue
  <2> DEFINE later == Sourcing!Max({moved.day, seeded})
  <2> SUFFICES ASSUME SourcingInv, Sourcing!Status = "alarm", declared = {paying},
                      ~(moved.times > 0 /\ day <= later + CADENCE + LAG)
               PROVE  FALSE
    BY DEF Sourcing!AlarmIsTrue
  <2>1. /\ SILENCE \in Nat /\ CADENCE \in Nat /\ LAG \in Nat /\ CADENCE + LAG <= SILENCE
    BY DEF Sourcing!PayoutSourcesAssumption
  <2>2. DaysInv /\ SourceInv /\ PassInv
    BY DEF SourcingInv
  <2>3. /\ day \in Nat /\ passed \in Nat /\ moved.day \in Nat /\ seeded \in Nat
        /\ moved.day <= day /\ seeded <= day /\ moved.times \in Nat
        /\ cursor \in Nat /\ rows \subseteq 1..cursor /\ day - passed <= LAG
    BY <2>2 DEF DaysInv
  <2>4. /\ later \in Nat /\ moved.day <= later /\ seeded <= later
    <3>1. {moved.day, seeded} \in SUBSET (0..day) /\ {moved.day, seeded} # {}
      BY <2>3
    <3>2. later \in {moved.day, seeded} /\ \A x \in {moved.day, seeded} : x <= later
      BY <2>3, <3>1, MaxIsLast
    <3>3. QED
      BY <2>3, <3>2
  <2> HIDE DEF later
  <2>5. Sourcing!StateOf(paying) = "silent"
    BY DEF Sourcing!Status
  <2>6. /\ Sourcing!PaidAt(paying) # {}
        /\ Sourcing!Max(Sourcing!PaidAt(paying)) < day - SILENCE
    BY <2>5 DEF Sourcing!StateOf
  <2>7. \A d \in Sourcing!PaidAt(paying) : d \in Nat /\ d < day - SILENCE
    <3>1. Sourcing!PaidAt(paying) \in SUBSET (0..day)
      BY PaidDays
    <3>2. /\ Sourcing!Max(Sourcing!PaidAt(paying)) \in 0..day
          /\ \A d \in Sourcing!PaidAt(paying) : d <= Sourcing!Max(Sourcing!PaidAt(paying))
      BY <2>3, <2>6, <3>1, MaxIsLast
    <3>3. QED
      BY <2>1, <2>3, <2>6, <3>1, <3>2
  <2>8. cursor # 0 /\ cursor \in 1..cursor
    <3>1. rows # {}
      BY <2>6 DEF Sourcing!PaidAt
    <3>2. PICK i : i \in rows
      BY <3>1
    <3>3. i \in 1..cursor
      BY <2>3, <3>2
    <3>4. QED
      BY <2>3, <3>3
  <2>9. cursor \in 1..Len(payouts) /\ payouts[cursor].day \in Nat
    <3>1. cursor \in 1..Len(payouts)
      BY <2>2, <2>8 DEF DaysInv
    <3>2. QED
      BY <2>2, <3>1 DEF DaysInv
  <2>10. payouts[cursor].day >= passed - CADENCE
    BY <2>2, <2>8 DEF PassInv
  <2>11. cursor \in rows /\ payouts[cursor].source = paying
    <3>1. CASE moved.times = 0
      BY <2>2, <2>8, <2>9, <3>1 DEF SourceInv
    <3>2. CASE moved.times # 0
      <4>1. payouts[cursor].day > moved.day /\ payouts[cursor].day > seeded
        BY SMTT(40), <2>1, <2>3, <2>4, <2>9, <2>10, <3>2
      <4>2. payouts[cursor].source = paying
        BY <2>2, <2>9, <4>1 DEF SourceInv
      <4>3. QED
        BY <2>2, <2>8, <4>1, <4>2 DEF SourceInv
    <3>3. QED
      BY <3>1, <3>2
  <2>12. payouts[cursor].day \in Sourcing!PaidAt(paying)
    BY <2>11 DEF Sourcing!PaidAt
  <2>13. payouts[cursor].day < day - SILENCE
    BY <2>7, <2>12
  <2>14. QED
    BY <2>1, <2>3, <2>9, <2>10, <2>13
<1>2. QED
  BY <1>1, SourcingInductive, PTL

\* health.ts: however long the network, the indexer and the operators of the service take,
\* a change of the source that was seen is told once the silence has lasted, until the row
\* is corrected.
THEOREM ChangesAreTold ==
  Sourcing!PayoutSourcesAssumption /\ Sourcing!Spec => []Sourcing!ChangeIsTold
<1> SUFFICES ASSUME Sourcing!PayoutSourcesAssumption
             PROVE  Sourcing!Spec => []Sourcing!ChangeIsTold
  OBVIOUS
<1>1. SourcingInv => Sourcing!ChangeIsTold
  <2> SUFFICES ASSUME SourcingInv, declared # {paying}, moved.times = 1,
                      day - moved.day > SILENCE, NEW s \in declared, Sourcing!PaidAt(s) # {}
               PROVE  Sourcing!StateOf(s) = "silent"
    BY DEF Sourcing!ChangeIsTold, Sourcing!Status
  <2>1. DaysInv /\ SourceInv /\ SILENCE \in Nat /\ day \in Nat
    BY DEF SourcingInv, DaysInv, Sourcing!PayoutSourcesAssumption
  <2>2. ASSUME NEW i \in rows PROVE payouts[i].day \in Nat /\ payouts[i].day < day - SILENCE
    <3>1. i \in 1..Len(payouts)
      BY <2>1 DEF DaysInv
    <3>2. payouts[i].source # paying
      BY <2>1 DEF SourceInv
    <3>3. ~(payouts[i].day > moved.day)
      BY <2>1, <3>1, <3>2 DEF SourceInv
    <3>4. payouts[i].day \in Nat /\ moved.day \in Nat
      BY <2>1, <3>1 DEF DaysInv
    <3>5. QED
      BY <2>1, <3>3, <3>4
  <2>3. \A d \in Sourcing!PaidAt(s) : d < day - SILENCE
    BY <2>2 DEF Sourcing!PaidAt
  <2>4. Sourcing!Max(Sourcing!PaidAt(s)) \in Sourcing!PaidAt(s)
    <3>1. Sourcing!PaidAt(s) \in SUBSET (0..day)
      BY PaidDays
    <3>2. QED
      BY <2>1, <3>1, MaxIsLast
  <2>5. Sourcing!Max(Sourcing!PaidAt(s)) < day - SILENCE
    BY <2>3, <2>4
  <2>6. QED
    BY <2>5 DEF Sourcing!StateOf
<1>2. QED
  BY <1>1, SourcingInductive, PTL
=============================================================================
