------------------------------ MODULE Seeding ------------------------------
(***************************************************************************)
(* The scripts that fill the pool and the conversion vaults of devnet      *)
(* (anchor-client/scripts/seed-pool.ts and seed-conversion-vaults.ts).     *)
(*                                                                         *)
(* A run reads the chain, plans all its transactions and sends them one    *)
(* after another; it ends at the first that fails, and is started again    *)
(* by hand, one run at a time.  A transaction whose result is lost may     *)
(* have landed, or land when the next run has already read the chain.      *)
(*                                                                         *)
(* The wallet is the authority of the pool and of the stablecoin, and      *)
(* whoever runs the scripts sets STABLE_MINT to what was printed.          *)
(***************************************************************************)
EXTENDS Integers, Sequences, SequencesExt

CONSTANTS
  NETWORKS,       \* of VITE_REWARD_MINTS, in its order
  Terms,          \* spreads and tolerances the variables may name
  AMOUNT,         \* SEED_AMOUNT
  MAX_FAILURES,   \* bounds the transactions that fail though they could land
  MAX_SOLD,       \* bounds what sweeps take from the vaults
  MAX_AGAIN       \* bounds the runs of each script after one succeeded

SeedingAssumption ==
  /\ AMOUNT \in Nat \ {0}
  /\ {MAX_FAILURES, MAX_SOLD, MAX_AGAIN} \subseteq Nat
  /\ NETWORKS \in Seq(ToSet(NETWORKS)) /\ IsInjective(NETWORKS)
  /\ "unopened" \notin Terms

Networks == ToSet(NETWORKS)

VARIABLES
  coin,        \* STABLE_MINT names a stablecoin
  pool,        \* it has a pool
  wallet,      \* of the stablecoin
  deposited,
  vaults,      \* [terms, balance]; of no terms until it is opened
  run,         \* [script, terms, todo, status]
  flight,      \* transactions that may still land
  failures,
  late,        \* what was minted after the run that asked for it had ended
  sold,        \* what sweeps took from each vault since the last start
  successes    \* runs of each script that ended well

chain == <<coin, pool, wallet, deposited, vaults>>
vars == <<chain, run, flight, failures, late, sold, successes>>

Unopened == "unopened"
Scripts == {"pool", "vaults"}

Simple(kind) == [kind |-> kind]
Send(kind, amount) == [kind |-> kind, amount |-> amount]
Open(n, terms) == [kind |-> "create", network |-> n, terms |-> terms]
TopUp(n, amount) == [kind |-> "top-up", network |-> n, amount |-> amount]

TypeOK ==
  /\ {coin, pool} \subseteq BOOLEAN
  /\ {wallet, deposited, late} \subseteq Nat
  /\ \A n \in Networks : vaults[n].terms \in Terms \cup {Unopened} /\ vaults[n].balance \in Nat
  /\ run.script \in Scripts
  /\ run.status \in {"running", "done", "failed"}
  /\ run.status # "running" => run.todo = <<>>
  /\ \A i \in DOMAIN run.todo :
       run.todo[i].kind \in {"mint-to", "deposit", "top-up"} => run.todo[i].amount \in 1..AMOUNT
  /\ failures \in 0..MAX_FAILURES
  /\ Len(flight) <= failures
  /\ pool => coin
  /\ \A n \in Networks : vaults[n].terms = Unopened => vaults[n].balance = 0
  /\ sold \in [Networks -> 0..MAX_SOLD]

\* STABLE_MINT may name a stablecoin of which the wallet holds some already.
Init ==
  /\ coin \in BOOLEAN
  /\ pool = FALSE
  /\ wallet \in IF coin THEN 0..AMOUNT ELSE {0}
  /\ deposited = 0
  /\ vaults = [n \in Networks |-> [terms |-> Unopened, balance |-> 0]]
  /\ run \in [script : {"pool"}, terms : Terms, todo : {<<>>}, status : {"failed"}]
  /\ flight = <<>>
  /\ failures = 0
  /\ late = 0
  /\ sold = [n \in Networks |-> 0]
  /\ successes = [s \in Scripts |-> 0]

-----------------------------------------------------------------------------
(* Plans. *)

When(condition, step) == IF condition THEN <<step>> ELSE <<>>

\* seedPlan
PoolPlan ==
  When(~coin, Simple("create-mint")) \o When(~pool, Simple("initialize-pool"))
    \o When(wallet < AMOUNT, Send("mint-to", AMOUNT - wallet))
    \o <<Send("deposit", AMOUNT)>>

\* The plan of no vault is made if one was opened on other terms.
Refuses(terms) ==
  ~pool \/ \E n \in Networks : vaults[n].terms \notin {Unopened, terms}

VaultSteps(n, terms) ==
  When(vaults[n].terms = Unopened, Open(n, terms))
    \o When(vaults[n].balance < AMOUNT, TopUp(n, AMOUNT - vaults[n].balance))

\* conversionVaultPlan
VaultsPlan(terms) == FlattenSeq([i \in DOMAIN NETWORKS |-> VaultSteps(NETWORKS[i], terms)])

-----------------------------------------------------------------------------
(* Transactions. *)

Accepted(step) ==
  CASE step.kind = "create-mint" -> TRUE
    [] step.kind = "initialize-pool" -> coin /\ ~pool
    [] step.kind = "mint-to" -> coin
    [] step.kind = "deposit" -> pool /\ wallet >= step.amount
    [] step.kind = "create" -> pool /\ vaults[step.network].terms = Unopened
    [] step.kind = "top-up" -> vaults[step.network].terms # Unopened

\* A stablecoin whose creation was not confirmed is printed by nobody.
Lands(step, confirmed) ==
  /\ Accepted(step)
  /\ coin' = (coin \/ (step.kind = "create-mint" /\ confirmed))
  /\ pool' = (pool \/ step.kind = "initialize-pool")
  /\ wallet' = CASE step.kind = "mint-to" -> wallet + step.amount
                 [] step.kind = "deposit" -> wallet - step.amount
                 [] OTHER -> wallet
  /\ deposited' = IF step.kind = "deposit" THEN deposited + step.amount ELSE deposited
  /\ vaults' = CASE step.kind = "create" -> [vaults EXCEPT ![step.network].terms = step.terms]
                 [] step.kind = "top-up" ->
                      [vaults EXCEPT ![step.network].balance = @ + step.amount]
                 [] OTHER -> vaults

-----------------------------------------------------------------------------
(* Runs. *)

MayStart(script) ==
  /\ run.status # "running"
  /\ successes[script] <= MAX_AGAIN

StartPool ==
  /\ MayStart("pool")
  /\ run' = [run EXCEPT !.script = "pool", !.todo = PoolPlan, !.status = "running"]
  /\ sold' = [n \in Networks |-> 0]
  /\ UNCHANGED <<chain, flight, failures, late, successes>>

\* A run for the vaults does not begin without STABLE_MINT.
StartVaults ==
  /\ MayStart("vaults")
  /\ coin
  /\ \E terms \in Terms :
       run' = [script |-> "vaults", terms |-> terms,
               todo |-> IF Refuses(terms) THEN <<>> ELSE VaultsPlan(terms),
               status |-> IF Refuses(terms) THEN "failed" ELSE "running"]
  /\ sold' = [n \in Networks |-> 0]
  /\ UNCHANGED <<chain, flight, failures, late, successes>>

Under == run.status = "running" /\ run.todo # <<>>

Confirmed ==
  /\ Under
  /\ Lands(Head(run.todo), TRUE)
  /\ run' = [run EXCEPT !.todo = Tail(@)]
  /\ UNCHANGED <<flight, failures, late, sold, successes>>

Ended == [run EXCEPT !.todo = <<>>, !.status = "failed"]

\* The program refuses it.
Refused ==
  /\ Under
  /\ ~Accepted(Head(run.todo))
  /\ run' = Ended
  /\ UNCHANGED <<chain, flight, failures, late, sold, successes>>

\* It never gets there, it landed and that is not heard of, or it will land.
Lost ==
  /\ Under
  /\ failures < MAX_FAILURES
  /\ failures' = failures + 1
  /\ run' = Ended
  /\ \/ UNCHANGED <<chain, flight>>
     \/ (Lands(Head(run.todo), FALSE) /\ UNCHANGED flight)
     \/ (flight' = Append(flight, Head(run.todo)) /\ UNCHANGED chain)
  /\ UNCHANGED <<late, sold, successes>>

Succeed ==
  /\ run.status = "running" /\ run.todo = <<>>
  /\ run' = [run EXCEPT !.status = "done"]
  /\ successes' = [successes EXCEPT ![run.script] = @ + 1]
  /\ UNCHANGED <<chain, flight, failures, late, sold>>

Land(i) ==
  /\ Lands(flight[i], FALSE)
  /\ late' = late + (IF flight[i].kind \in {"mint-to", "top-up"} THEN flight[i].amount ELSE 0)
  /\ flight' = RemoveAt(flight, i)
  /\ UNCHANGED <<run, failures, sold, successes>>

Expire(i) ==
  /\ flight' = RemoveAt(flight, i)
  /\ UNCHANGED <<chain, run, failures, late, sold, successes>>

\* A sweep sells reward tokens to a vault.
Sell(n) ==
  /\ sold[n] < MAX_SOLD
  /\ vaults[n].balance > 0
  /\ vaults' = [vaults EXCEPT ![n].balance = @ - 1]
  /\ sold' = [sold EXCEPT ![n] = @ + 1]
  /\ UNCHANGED <<coin, pool, wallet, deposited, run, flight, failures, late, successes>>

Next ==
  \/ StartPool \/ StartVaults \/ Confirmed \/ Refused \/ Lost \/ Succeed
  \/ \E i \in DOMAIN flight : Land(i) \/ Expire(i)
  \/ \E n \in Networks : Sell(n)

Spec == Init /\ [][Next]_vars

-----------------------------------------------------------------------------
(* Properties *)

\* seed-pool.test.ts:120 and seed-conversion-vaults.test.ts:112: what a failed run
\* left behind is used by the next one, and only what is missing is minted.  More
\* than was asked for comes only of what landed when nobody waited for it.
OnlyTheShortfall ==
  /\ wallet <= AMOUNT + late
  /\ \A n \in Networks : vaults[n].balance <= AMOUNT + late

\* A run that ends well did all it was asked for: each one put its own amount into
\* the pool, and the vaults are open on the terms it named and were filled.
SuccessIsTrue ==
  /\ deposited >= AMOUNT * successes["pool"]
  /\ run.status = "done" /\ run.script = "vaults" =>
       \A n \in Networks :
         /\ vaults[n].terms = run.terms
         /\ vaults[n].balance + sold[n] >= AMOUNT
=============================================================================
