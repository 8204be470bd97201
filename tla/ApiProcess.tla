----------------------------- MODULE ApiProcess -----------------------------
(***************************************************************************)
(* The process of apps/api: what its environment makes it run (config.ts,  *)
(* index.ts), and how it ends on a signal (shutdown.ts) while requests are *)
(* answered and the keeper and the sweep journal are in the middle of a    *)
(* tick.                                                                   *)
(*                                                                         *)
(* Time counts from the first signal.  The platform that sent it kills the *)
(* process after KILLED_AFTER.                                             *)
(***************************************************************************)
EXTENDS Integers, FiniteSets

CONSTANTS
  Requests,        \* what clients may ask for, each once
  GRACE,           \* SHUTDOWN_GRACE_MS
  KILLED_AFTER,    \* the patience of the platform
  DATABASE_ENDS,   \* how long the database takes to close at most
  MAX_SIGNALS      \* bounds the signals

ApiProcessAssumption ==
  /\ {GRACE, KILLED_AFTER, DATABASE_ENDS, MAX_SIGNALS} \subseteq Nat
  /\ GRACE + DATABASE_ENDS < KILLED_AFTER

VARIABLES
  env,          \* the optional variables that are set
  stage,
  asked,        \* the requests made
  running,      \* those being answered
  workers,      \* the loops of the keeper and of the sweep journal
  database,     \* "open", "ending", "ended" or "refused to end"
  closes,       \* calls of closeDatabase
  drained,      \* the server has closed in time
  code,         \* of the exit
  signals,
  clock,
  endingSince   \* when closeDatabase was called

vars == <<env, stage, asked, running, workers, database, closes, drained, code,
          signals, clock, endingSince>>

RATE_VARIABLES == {"JUPITER_API_KEY", "MAINNET_RPC_URL", "REWARD_MINTS"}
Optional == RATE_VARIABLES \cup {"KEEPER_SECRET_KEY", "DEVNET_RPC_URL", "STABLE_MINT"}

Workers == {"keeper", "journal"}

Stages == {"starting", "refused", "serving", "draining", "closing", "exited"}

TypeOK ==
  /\ env \subseteq Optional
  /\ stage \in Stages
  /\ running \subseteq asked /\ asked \subseteq Requests
  /\ workers \in [Workers -> {"off", "waiting", "ticking", "stopped", "stopped in a tick"}]
  /\ database \in {"open", "ending", "ended", "refused to end"}
  /\ closes \in 0..1
  /\ drained \in BOOLEAN
  /\ code \in {0, 1}
  /\ signals \in 0..MAX_SIGNALS
  /\ {clock, endingSince} \subseteq 0..KILLED_AFTER
  /\ database # "open" <=> closes = 1

Init ==
  /\ env \in SUBSET Optional
  /\ stage = "starting"
  /\ asked = {}
  /\ running = {}
  /\ workers = [w \in Workers |-> "off"]
  /\ database = "open"
  /\ closes = 0
  /\ drained = FALSE
  /\ code = 0
  /\ signals = 0
  /\ clock = 0
  /\ endingSince = 0

-----------------------------------------------------------------------------
(* The configuration. *)

\* The rates are set as a whole or not at all; the keeper needs all the rest.
Accepts(set) ==
  /\ RATE_VARIABLES \subseteq set \/ RATE_VARIABLES \cap set = {}
  /\ "KEEPER_SECRET_KEY" \in set => set = Optional

Config ==
  [rates   |-> RATE_VARIABLES \subseteq env,
   keeper  |-> {"KEEPER_SECRET_KEY", "DEVNET_RPC_URL", "STABLE_MINT"} \subseteq env,
   journal |-> "DEVNET_RPC_URL" \in env,
   pool    |-> {"DEVNET_RPC_URL", "STABLE_MINT"} \subseteq env]

\* A configuration or an attestor's pair that does not fit ends the process
\* before it listens.
Start(pairFits) ==
  /\ stage = "starting"
  /\ IF Accepts(env) /\ pairFits
       THEN /\ stage' = "serving"
            /\ workers' = [w \in Workers |-> IF Config[w] THEN "waiting" ELSE "off"]
       ELSE stage' = "refused" /\ UNCHANGED workers
  /\ UNCHANGED <<env, asked, running, database, closes, drained, code, signals, clock, endingSince>>

-----------------------------------------------------------------------------
(* The work. *)

Alive == stage \in {"serving", "draining", "closing"}

\* The server takes requests until it is told to close.
Ask(r) ==
  /\ stage = "serving"
  /\ r \notin asked
  /\ asked' = asked \cup {r}
  /\ running' = running \cup {r}
  /\ UNCHANGED <<env, stage, workers, database, closes, drained, code, signals, clock, endingSince>>

\* A request is answered, from the database or with 503 once it has ended.
AnswerRequest(r) ==
  /\ Alive
  /\ r \in running
  /\ running' = running \ {r}
  /\ UNCHANGED <<env, stage, asked, workers, database, closes, drained, code, signals, clock, endingSince>>

Work == <<env, stage, asked, running, database, closes, drained, code, signals, clock, endingSince>>

BeginTick(w) ==
  /\ Alive
  /\ workers[w] = "waiting"
  /\ workers' = [workers EXCEPT ![w] = "ticking"]
  /\ UNCHANGED Work

AfterTick(state) == IF state = "ticking" THEN "waiting" ELSE "stopped"

\* A tick ends, well or not.
EndTick(w) ==
  /\ Alive
  /\ workers[w] \in {"ticking", "stopped in a tick"}
  /\ workers' = [workers EXCEPT ![w] = AfterTick(@)]
  /\ UNCHANGED Work

\* stop(): the timer is cleared, a tick under way is not waited for.
Stopped(state) ==
  CASE state = "waiting" -> "stopped"
    [] state = "ticking" -> "stopped in a tick"
    [] OTHER -> state

-----------------------------------------------------------------------------
(* The end. *)

\* A signal stops the workers; a repeated one joins the shutdown in flight.
Signal ==
  /\ Alive
  /\ signals < MAX_SIGNALS
  /\ signals' = signals + 1
  /\ workers' = [w \in Workers |-> Stopped(workers[w])]
  /\ stage' = IF stage = "serving" THEN "draining" ELSE stage
  /\ UNCHANGED <<env, asked, running, database, closes, drained, code, clock, endingSince>>

CloseDatabase ==
  /\ stage' = "closing"
  /\ database' = "ending"
  /\ closes' = closes + 1
  /\ endingSince' = clock
  /\ UNCHANGED <<env, asked, running, workers, signals, clock>>

\* server.close() ends with its last request, or with an error when it never
\* came to listen.
Drain ==
  /\ stage = "draining"
  /\ running = {}
  /\ drained' = TRUE
  /\ CloseDatabase
  /\ UNCHANGED code

DrainFails ==
  /\ stage = "draining"
  /\ running = {}
  /\ code' = 1
  /\ CloseDatabase
  /\ UNCHANGED drained

\* Slip: the server is waited for as long as it takes.
GraceIsOverNever == FALSE

GraceIsOver == stage = "draining" /\ clock >= GRACE

ShutdownTimedOut ==
  /\ GraceIsOver
  /\ code' = 1
  /\ CloseDatabase
  /\ UNCHANGED drained

ExitCode(ended) == IF ended THEN code ELSE 1

\* client.end() waits for the queries under way; it may fail.
DatabaseEnds(ended) ==
  /\ stage = "closing"
  /\ database' = IF ended THEN "ended" ELSE "refused to end"
  /\ code' = ExitCode(ended)
  /\ stage' = "exited"
  /\ UNCHANGED <<env, asked, running, workers, closes, drained, signals, clock, endingSince>>

\* Neither the timer of the deadline nor the database is late.
Tick ==
  /\ stage \in {"draining", "closing"}
  /\ ~GraceIsOver
  /\ stage = "closing" => clock < endingSince + DATABASE_ENDS
  /\ clock < KILLED_AFTER
  /\ clock' = clock + 1
  /\ UNCHANGED <<env, stage, asked, running, workers, database, closes, drained, code, signals, endingSince>>

Next ==
  \/ \E pairFits \in BOOLEAN : Start(pairFits)
  \/ \E r \in Requests : Ask(r) \/ AnswerRequest(r)
  \/ \E w \in Workers : BeginTick(w) \/ EndTick(w)
  \/ Signal
  \/ Drain \/ DrainFails \/ ShutdownTimedOut
  \/ \E ended \in BOOLEAN : DatabaseEnds(ended)
  \/ Tick

Spec == Init /\ [][Next]_vars

-----------------------------------------------------------------------------
(* Properties *)

\* FR-015: whatever of the environment is set, a keeper that runs has rates to
\* sign, a journal to record what it withholds and a pool to show it.
KeeperHasAllItNeeds ==
  workers["keeper"] # "off" => Config.rates /\ Config.pool /\ workers["journal"] # "off"

\* The database is let go of only when no request is left or its time is over.
DatabaseOutlivesRequests == database # "open" /\ clock < GRACE => running = {}

\* An exit that claims success has answered every request and let go of the
\* database, however many signals came.
SuccessIsTrue ==
  stage = "exited" /\ code = 0 => running = {} /\ database = "ended" /\ drained

\* index.ts:17: the grace leaves the database its time, so that the platform
\* never has to kill the process.
NeverKilled == Alive => clock < KILLED_AFTER

\* After a signal neither the keeper nor the journal begins another tick.
NoTickAfterSignal ==
  signals > 0 => \A w \in Workers : workers'[w] = "ticking" => workers[w] = "ticking"
=============================================================================
