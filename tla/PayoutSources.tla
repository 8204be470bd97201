--------------------------- MODULE PayoutSources ---------------------------
(***************************************************************************)
(* The sources a network pays its rewards by, what the seed declares of    *)
(* them (packages/db/src/seed.ts), and the watch over their silence        *)
(* (apps/api/src/routes/health.ts).                                        *)
(*                                                                         *)
(* One network, and one operator standing for all.  The network may begin  *)
(* to pay by another source; until the declared ones are corrected its     *)
(* payouts are not recognised, and the indexer moves past them (Indexer).  *)
(* A seeded source that no payout named yet is unseen.  Time is in days.   *)
(***************************************************************************)
EXTENDS Integers, Sequences, FiniteSets, FiniteSetsExt

CONSTANTS
  Sources,    \* [kind, address]
  SILENCE,    \* PAYOUT_SILENCE_DAYS
  CADENCE,    \* the network pays at least once in so many days
  LAG,        \* a pass of the indexer comes at least once in so many days
  MAX_DAY,    \* bounds the days
  MAX_MOVES   \* bounds the changes of the source

PayoutSourcesAssumption ==
  /\ {SILENCE, CADENCE, LAG} \subseteq Nat \ {0}
  /\ CADENCE + LAG <= SILENCE
  /\ {MAX_DAY, MAX_MOVES} \subseteq Nat

VARIABLES
  day,
  paying,      \* the source the network pays by
  moved,       \* the day it began to, and how many changes there were
  payouts,     \* of the operator, oldest first: [day, source]
  declared,    \* the sources of the seeded row
  cursor,      \* payouts the indexer has moved past
  rows,        \* the payouts it recorded, by their place
  passed,      \* the day of its last pass
  seeded       \* the day the row was corrected last

vars == <<day, paying, moved, payouts, declared, cursor, rows, passed, seeded>>

TypeOK ==
  /\ day \in 0..MAX_DAY
  /\ paying \in Sources
  /\ declared \subseteq Sources /\ Cardinality(declared) = 1
  /\ moved.day \in 0..day /\ moved.times \in 0..MAX_MOVES
  /\ \A i \in DOMAIN payouts : payouts[i].day <= day /\ payouts[i].source \in Sources
  /\ cursor \in 0..Len(payouts)
  /\ rows \subseteq 1..cursor
  /\ passed \in 0..day /\ seeded \in 0..day

\* toNetworkRow: the row of a network lists the sources the program supports.
Init ==
  /\ day = 0
  /\ paying \in Sources
  /\ moved = [day |-> 0, times |-> 0]
  /\ payouts = <<>>
  /\ declared = {paying}
  /\ cursor = 0
  /\ rows = {}
  /\ passed = 0
  /\ seeded = 0

LastPaid == IF payouts = <<>> THEN 0 ELSE payouts[Len(payouts)].day

Day ==
  /\ day < MAX_DAY
  /\ day + 1 - LastPaid <= CADENCE
  /\ day + 1 - passed <= LAG
  /\ day' = day + 1
  /\ UNCHANGED <<paying, moved, payouts, declared, cursor, rows, passed, seeded>>

Pay ==
  /\ payouts # <<>> => LastPaid < day
  /\ payouts' = Append(payouts, [day |-> day, source |-> paying])
  /\ UNCHANGED <<day, paying, moved, declared, cursor, rows, passed, seeded>>

Change(s) ==
  /\ moved.times < MAX_MOVES
  /\ s # paying
  /\ paying' = s
  /\ moved' = [day |-> day, times |-> moved.times + 1]
  /\ UNCHANGED <<day, payouts, declared, cursor, rows, passed, seeded>>

Recognised(payout) == payout.source \in declared

\* A pass of the indexer reads all that is new with the sources of the row.
Pass ==
  /\ cursor < Len(payouts) \/ passed < day
  /\ rows' = rows \cup {i \in (cursor + 1)..Len(payouts) : Recognised(payouts[i])}
  /\ cursor' = Len(payouts)
  /\ passed' = day
  /\ UNCHANGED <<day, paying, moved, payouts, declared, seeded>>

\* seedNetworks, once the supported networks were corrected: the row is written
\* over, and nothing else is.
SeedNetworks ==
  /\ declared # {paying}
  /\ declared' = {paying}
  /\ seeded' = day
  /\ UNCHANGED <<day, paying, moved, payouts, cursor, rows, passed>>

Next == Day \/ Pay \/ (\E s \in Sources : Change(s)) \/ Pass \/ SeedNetworks

Spec == Init /\ [][Next]_vars

-----------------------------------------------------------------------------
(* assessPayoutSources *)

\* A payout is stored with the address of its source and not the kind.
PaidAt(s) == {payouts[i].day : i \in {j \in rows : payouts[j].source.address = s.address}}

\* The far edge of the window still counts as paying.
StateOf(s) ==
  CASE PaidAt(s) = {} -> "unseen"
    [] PaidAt(s) # {} /\ Max(PaidAt(s)) < day - SILENCE -> "silent"
    [] OTHER -> "paying"

Status == IF \E s \in declared : StateOf(s) = "silent" THEN "alarm" ELSE "ok"

-----------------------------------------------------------------------------
(* Properties *)

\* The alarm is raised only over a source the network has left, or has come back
\* to so lately that neither it nor the indexer was due yet: a weekly payout, a
\* late pass, the first passes and a corrected row raise none.
AlarmIsTrue ==
  Status = "alarm" =>
    declared # {paying} \/ (moved.times > 0 /\ day <= Max({moved.day, seeded}) + CADENCE + LAG)

\* A change of the source, of its kind alone too, is told once the silence has
\* lasted, if the source was ever seen and the row was not corrected since.
ChangeIsTold ==
  /\ declared # {paying}
  /\ moved.times = 1
  /\ day - moved.day > SILENCE
  /\ \E s \in declared : PaidAt(s) # {}
  => Status = "alarm"
=============================================================================
