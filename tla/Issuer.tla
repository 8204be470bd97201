------------------------------- MODULE Issuer -------------------------------
(***************************************************************************)
(* Showing and attesting the credit limit of one wallet                    *)
(* (apps/api/src/routes/limit.ts and attestations.ts).  A limit is stored  *)
(* per network for 24 hours.  A request serves what is stored while all of *)
(* it is fresh, or reads the payout history, computes and stores anew; an  *)
(* attestation of the sum is numbered, signed and journalled under a lock  *)
(* of the wallet.  Requests are served together, by one process or more.   *)
(*                                                                         *)
(* Moments are counted in ticks, SECOND of them to a second of the chain.  *)
(* What the history says of a network is an outcome: a limit, a reason for *)
(* having none, or "absent" without payouts in the period.                 *)
(***************************************************************************)
EXTENDS Attestation, Sequences, FiniteSets, FiniteSetsExt, Functions

CONSTANTS
  Requests,             \* every request that will be made
  Kinds,                \* what they may be: "show", "refresh", "attest"
  Networks,
  Limits,               \* the amounts a limit may be
  Refusals,             \* the reasons to have none, of REFUSAL_KINDS
  SECOND,
  MONTH,                \* ticks in a calendar month
  TTL,                  \* LIMIT_TTL_HOURS
  ATTESTATION_TTL,
  DEVNET,               \* whether the server has a source of manual repayments
  MAX_SKEW,             \* seconds the clock of the chain may trail the server's
  MAX_CLOCK,            \* bounds the clock
  MAX_CHANGES,          \* bounds the changes of the history and of the flag
  MAX_FAILURES          \* bounds the requests that fail

IssuerAssumption ==
  /\ Kinds \subseteq {"show", "refresh", "attest"}
  /\ Refusals \subseteq {"short-history", "withdrawal-history", "no-recent-price"}
  /\ {SECOND, MONTH, TTL, ATTESTATION_TTL} \subseteq Nat \ {0}
  /\ Limits \subseteq Nat
  /\ DEVNET \in BOOLEAN
  /\ {MAX_SKEW, MAX_CLOCK, MAX_CHANGES, MAX_FAILURES} \subseteq Nat
  /\ {MAX_REMAINING_VALIDITY, MAX_LIMIT_AGE} \subseteq Nat
  /\ (ATTESTATION_TTL \div SECOND) + 1 + MAX_SKEW <= MAX_REMAINING_VALIDITY
  /\ TTL = MAX_LIMIT_AGE * SECOND

VARIABLES
  clock,
  history,      \* what the payouts and prices indexed so far say of each network
  held,         \* the last moment at which the history said so
  flagged,      \* some open loan of the wallet waits for a manual repayment
  profiles,     \* credit_profiles: the rows of this wallet by network
  rows,         \* attestations: the rows of this wallet by nonce
  lock,         \* the requests that hold pg_advisory_xact_lock
  requests,
  changes,
  failures

vars == <<clock, history, held, flagged, profiles, rows, lock, requests, changes, failures>>

NO_LIMIT == -1

Outcome(limit, reason) == [limit |-> limit, reason |-> reason]

Absent == Outcome(NO_LIMIT, "absent")

Outcomes ==
  {Outcome(limit, "none") : limit \in Limits}
    \union {Outcome(NO_LIMIT, reason) : reason \in Refusals} \union {Absent}

ATTESTOR == "attestor"

WALLET == "wallet"

NO_MONTH == -1

Unsigned == [nonce |-> 0]

NewRequest ==
  [kind |-> "show", phase |-> "new", at |-> 0, flag |-> "unread", found |-> <<>>,
   signed |-> Unsigned, answer |-> "none", wasClear |-> FALSE]

Init ==
  /\ clock = 0
  /\ history = [n \in Networks |-> Absent]
  /\ held = [n \in Networks |-> [o \in Outcomes |-> IF o = Absent THEN 0 ELSE -1]]
  /\ flagged = FALSE
  /\ profiles = <<>>
  /\ rows = <<>>
  /\ lock = {}
  /\ requests = [r \in Requests |-> NewRequest]
  /\ changes = 0
  /\ failures = 0

Active(r) == requests[r].phase \notin {"new", "done"}

-----------------------------------------------------------------------------
(* The surroundings. *)

Holding(h, at) == [n \in Networks |-> [held[n] EXCEPT ![h[n]] = at]]

Tick ==
  /\ clock < MAX_CLOCK
  /\ clock' = clock + 1
  /\ held' = Holding(history, clock + 1)
  /\ UNCHANGED <<history, flagged, profiles, rows, lock, requests, changes, failures>>

\* The worker indexes payouts or prices, or the period moves past old ones.
Index(n, outcome) ==
  /\ changes < MAX_CHANGES
  /\ outcome # history[n]
  /\ changes' = changes + 1
  /\ history' = [history EXCEPT ![n] = outcome]
  /\ held' = Holding(history', clock)
  /\ UNCHANGED <<clock, flagged, profiles, rows, lock, requests, failures>>

\* A sweep flags a loan of the wallet, or the flagged loans are repaid.
Flag ==
  /\ DEVNET
  /\ changes < MAX_CHANGES
  /\ changes' = changes + 1
  /\ flagged' = ~flagged
  /\ requests' = [r \in Requests |->
       IF Active(r) /\ flagged THEN [requests[r] EXCEPT !.wasClear = TRUE] ELSE requests[r]]
  /\ UNCHANGED <<clock, history, held, profiles, rows, lock, failures>>

-----------------------------------------------------------------------------
(* Profiles. *)

MonthOf(at) == at \div MONTH

\* refuse and the limit of computeProfiles.  The month of a short history is the one
\* it will be long enough in, that of a missing price the one its window ends in.
ProfileOf(outcome, at) ==
  [limit      |-> outcome.limit,
   reason     |-> outcome.reason,
   month      |-> CASE outcome.reason = "short-history"   -> MonthOf(at) + 1
                    [] outcome.reason = "no-recent-price" -> MonthOf(at)
                    [] OTHER                              -> NO_MONTH,
   computedAt |-> at,
   expiresAt  |-> at + TTL]

\* computeProfiles: one for each network with payouts in the period.
ComputeProfiles(h, at) ==
  [n \in {m \in Networks : h[m] # Absent} |-> ProfileOf(h[n], at)]

StatusOf(p) ==
  IF p.limit # NO_LIMIT THEN "available"
  ELSE IF p.reason = "no-recent-price" THEN "no_recent_price" ELSE "ineligible"

\* The columns of a row: of what a refusal says only the month of the threshold is kept.
RowOf(p) ==
  [status     |-> StatusOf(p),
   limit      |-> p.limit,
   reason     |-> p.reason,
   eligibleAt |-> IF p.reason = "short-history" THEN p.month ELSE NO_MONTH,
   computedAt |-> p.computedAt,
   expiresAt  |-> p.expiresAt]

\* readRefusal
ReadRefusal(row) ==
  IF row.reason = "short-history" THEN row.eligibleAt
  ELSE IF row.reason = "no-recent-price" THEN MonthOf(row.computedAt) ELSE NO_MONTH

ProfileFrom(row) ==
  [limit |-> row.limit, reason |-> row.reason, month |-> ReadRefusal(row),
   computedAt |-> row.computedAt, expiresAt |-> row.expiresAt]

\* An empty set is not a fresh cache.
AreFresh(stored, at) ==
  DOMAIN stored # {} /\ \A n \in DOMAIN stored : stored[n].expiresAt > at

-----------------------------------------------------------------------------
(* Serving a request. *)

Step(r, from, to) == requests[r].phase = from /\ requests' = [requests EXCEPT ![r] = to]

Reached(r, phase) == [requests[r] EXCEPT !.phase = phase]

Answered(req, answer) == [req EXCEPT !.phase = "done", !.answer = answer]

\* What follows the profiles: a reply, or a number.
AfterProfiles(kind) == IF kind = "attest" THEN "attest" ELSE "reply"

\* walletParam has passed; an attestation asks for the flag first.
Arrive(r, kind) ==
  /\ Step(r, "new",
       [NewRequest EXCEPT !.kind = kind, !.at = clock, !.wasClear = ~flagged,
          !.phase = CASE kind = "show"    -> "read"
                      [] kind = "refresh" -> "history"
                      [] kind = "attest"  -> "flag"])
  /\ UNCHANGED <<clock, history, held, flagged, profiles, rows, lock, changes, failures>>

\* readManualRepayment: devnet answers, or the state is unknown; without a source it is
\* always unknown.
Flagged(known) == IF ~known THEN "unknown" ELSE IF flagged THEN "pending" ELSE "clear"

\* The flag of a shown limit is read next to the profiles, in either order.
ReadFlag(r, known) ==
  /\ requests[r].kind # "attest"
  /\ Active(r)
  /\ requests[r].flag = "unread"
  /\ requests' = [requests EXCEPT ![r].flag = Flagged(known)]
  /\ UNCHANGED <<clock, history, held, flagged, profiles, rows, lock, changes, failures>>

\* MANUAL_REPAYMENT_PENDING; unknown is not a refusal.
AskFlag(r, known) ==
  LET req == [requests[r] EXCEPT !.flag = Flagged(known), !.wasClear = @ \/ ~known]
  IN  /\ Step(r, "flag", IF req.flag = "pending"
                           THEN Answered(req, "pending")
                           ELSE [req EXCEPT !.phase = "read"])
      /\ UNCHANGED <<clock, history, held, flagged, profiles, rows, lock, changes, failures>>

\* profiles.read
ReadProfiles(r) ==
  LET req    == requests[r]
      stored == [n \in DOMAIN profiles |-> ProfileFrom(profiles[n])]
  IN  /\ Step(r, "read", IF AreFresh(stored, req.at)
                           THEN [req EXCEPT !.found = stored, !.phase = AfterProfiles(req.kind)]
                           ELSE [req EXCEPT !.phase = "history"])
      /\ UNCHANGED <<clock, history, held, flagged, profiles, rows, lock, changes, failures>>

\* payouts.read and computeProfiles.
ReadHistory(r) ==
  /\ Step(r, "history", [requests[r] EXCEPT !.phase = "write",
                           !.found = ComputeProfiles(history, requests[r].at)])
  /\ UNCHANGED <<clock, history, held, flagged, profiles, rows, lock, changes, failures>>

\* onConflictDoUpdate: the rows of other networks stay.
Upserted(found) ==
  [n \in DOMAIN found \union DOMAIN profiles |->
     IF n \in DOMAIN found THEN RowOf(found[n]) ELSE profiles[n]]

\* profiles.write, in one transaction.
WriteProfiles(r) ==
  LET req == requests[r]
  IN  /\ Step(r, "write", Reached(r, AfterProfiles(req.kind)))
      /\ profiles' = Upserted(req.found)
      /\ UNCHANGED <<clock, history, held, flagged, rows, lock, changes, failures>>

\* buildCreditLimit
Reply(r) ==
  /\ requests[r].flag # "unread"
  /\ Step(r, "reply", Answered(requests[r], "limit"))
  /\ UNCHANGED <<clock, history, held, flagged, profiles, rows, lock, changes, failures>>

-----------------------------------------------------------------------------
(* Attestations. *)

Counted(found) == {n \in DOMAIN found : found[n].limit # NO_LIMIT}

\* attestedLimit, of at least one network with a limit.
AttestedLimit(found, at) ==
  LET counted == Counted(found)
  IN  [limit      |-> MapThenSumSet(LAMBDA n : found[n].limit, counted),
       computedAt |-> Min({found[n].computedAt : n \in counted}),
       expiresAt  |-> Min({at + ATTESTATION_TTL} \union {found[n].expiresAt : n \in counted})]

\* toUnixSeconds: cut, not rounded.
ToUnixSeconds(at) == at \div SECOND

\* signLimitAttestation and serializeLimitAttestation.
SignLimitAttestation(attested, nonce) ==
  [signer |-> ATTESTOR, operator |-> WALLET, limit |-> attested.limit, nonce |-> nonce,
   computed_at |-> ToUnixSeconds(attested.computedAt),
   expires_at  |-> ToUnixSeconds(attested.expiresAt)]

\* NOT_FOUND without a limit.
NothingToAttest(r) ==
  /\ Counted(requests[r].found) = {}
  /\ Step(r, "attest", Answered(requests[r], "nothing"))
  /\ UNCHANGED <<clock, history, held, flagged, profiles, rows, lock, changes, failures>>

\* Slip: nobody waits for the lock.
TakeLockAnyway(r) ==
  /\ Counted(requests[r].found) # {}
  /\ lock' = lock \union {r}
  /\ Step(r, "attest", Reached(r, "number"))
  /\ UNCHANGED <<clock, history, held, flagged, profiles, rows, changes, failures>>

\* pg_advisory_xact_lock of the wallet, until the transaction ends.
TakeLock(r) ==
  /\ Counted(requests[r].found) # {}
  /\ lock = {}
  /\ lock' = lock \union {r}
  /\ Step(r, "attest", Reached(r, "number"))
  /\ UNCHANGED <<clock, history, held, flagged, profiles, rows, changes, failures>>

LastNonce == Len(rows)

\* The schema refuses what would never be valid on chain.
Signable(attestation) == attestation.expires_at > attestation.computed_at

\* The number after the last committed one is signed, or the transaction ends.
SignNumber(r) ==
  LET req    == requests[r]
      signed == SignLimitAttestation(AttestedLimit(req.found, req.at), LastNonce + 1)
  IN  /\ Step(r, "number", IF Signable(signed)
                             THEN [req EXCEPT !.signed = signed, !.phase = "insert"]
                             ELSE Answered(req, "failed"))
      /\ lock' = IF Signable(signed) THEN lock ELSE lock \ {r}
      /\ UNCHANGED <<clock, history, held, flagged, profiles, rows, changes, failures>>

\* The row is inserted and the transaction commits; the primary key refuses a number
\* that is taken.  The attestation leaves only after the commit.
Commit(r) ==
  LET req   == requests[r]
      taken == req.signed.nonce <= Len(rows)
  IN  /\ Step(r, "insert", Answered(req, IF taken THEN "failed" ELSE "attestation"))
      /\ rows' = IF taken THEN rows ELSE Append(rows, req.signed)
      /\ lock' = lock \ {r}
      /\ UNCHANGED <<clock, history, held, flagged, profiles, changes, failures>>

\* Slip: a transaction that fails keeps its lock.
FailHolding(r, committed) ==
  /\ Active(r)
  /\ failures < MAX_FAILURES
  /\ failures' = failures + 1
  /\ committed => requests[r].phase = "insert" /\ requests[r].signed.nonce > Len(rows)
  /\ rows' = IF committed THEN Append(rows, requests[r].signed) ELSE rows
  /\ requests' = [requests EXCEPT ![r] = Answered(@, "failed")]
  /\ UNCHANGED <<clock, history, held, flagged, profiles, lock, changes>>

\* A read or a write fails, the process ends, or the answer to a commit is lost.
Fail(r, committed) ==
  /\ Active(r)
  /\ failures < MAX_FAILURES
  /\ failures' = failures + 1
  /\ committed => requests[r].phase = "insert" /\ requests[r].signed.nonce > Len(rows)
  /\ rows' = IF committed THEN Append(rows, requests[r].signed) ELSE rows
  /\ requests' = [requests EXCEPT ![r] = Answered(@, "failed")]
  /\ lock' = lock \ {r}
  /\ UNCHANGED <<clock, history, held, flagged, profiles, changes>>

-----------------------------------------------------------------------------
Serve(r) ==
  \/ \E known \in {FALSE, DEVNET} : ReadFlag(r, known) \/ AskFlag(r, known)
  \/ ReadProfiles(r) \/ ReadHistory(r) \/ WriteProfiles(r) \/ Reply(r)
  \/ NothingToAttest(r) \/ TakeLock(r) \/ SignNumber(r) \/ Commit(r)

Next ==
  \/ Tick
  \/ Flag
  \/ \E n \in Networks, outcome \in Outcomes : Index(n, outcome)
  \/ \E r \in Requests :
       \/ \E kind \in Kinds : Arrive(r, kind)
       \/ Serve(r)
       \/ \E committed \in BOOLEAN : Fail(r, committed)

Spec == Init /\ [][Next]_vars

-----------------------------------------------------------------------------
TypeOK ==
  /\ clock \in 0..MAX_CLOCK
  /\ DOMAIN profiles \subseteq Networks
  /\ lock \subseteq Requests
  /\ \A r \in Requests :
       /\ requests[r].phase # "new" => requests[r].kind \in Kinds
       /\ requests[r].at \in 0..clock
       /\ DOMAIN requests[r].found \subseteq Networks
  \* credit_profiles_limit_only_when_available
  /\ \A n \in DOMAIN profiles :
       (profiles[n].status = "available") <=> (profiles[n].limit # NO_LIMIT)

Attested(r) == requests[r].answer = "attestation"

\* attestations.ts:114: of two requests for a wallet that are under way or answered no
\* two have signed the same number, every number handed out is in the journal, as it
\* was signed, and the journal has no gaps, which the window of the program relies on.
NumbersDiffer ==
  /\ \A i \in DOMAIN rows : rows[i].nonce = i
  /\ \A r, s \in Requests :
       r # s /\ {requests[r].phase, requests[s].phase} \subseteq {"insert", "done"}
             /\ {requests[r].answer, requests[s].answer} \subseteq {"none", "attestation"}
             /\ requests[r].signed # Unsigned
         => requests[r].signed.nonce # requests[s].signed.nonce
  /\ \A r \in Requests : Attested(r) => rows[requests[r].signed.nonce] = requests[r].signed

\* The profile of n says what the history said after it was computed, under the
\* reason and the month that go with it, wherever it was read from.
Genuine(n, p) ==
  \E o \in Outcomes \ {Absent} :
    /\ p = ProfileOf(o, p.computedAt)
    /\ held[n][o] >= p.computedAt

\* FR-007: what is shown or attested was computed less than 24 hours before the
\* request, and on demand not before it; a stored profile comes back as it was computed.
AnswersAreFresh ==
  \A r \in Requests : requests[r].answer \in {"limit", "attestation"} =>
    \A n \in DOMAIN requests[r].found :
      LET p == requests[r].found[n]
      IN  /\ Genuine(n, p)
          /\ requests[r].at < p.computedAt + TTL
          /\ requests[r].kind = "refresh" => p.computedAt = requests[r].at

\* verify_attestation.rs: from the arrival of its request until it expires, an attestation
\* that was handed out satisfies the program, whose clock counts whole seconds and may trail.
AttestationsAreAccepted ==
  \A r \in Requests : Attested(r) =>
    \A now \in (ToUnixSeconds(requests[r].at) - MAX_SKEW)..(requests[r].signed.expires_at - 1) :
      LimitVerified(requests[r].signed, ATTESTOR, WALLET, now)

\* An attestation is worth the limits of its networks and is not valid beyond the
\* moment any of them expires.
AttestationsAreBacked ==
  \A r \in Requests : Attested(r) =>
    LET req     == requests[r]
        counted == {n \in DOMAIN req.found : req.found[n].reason = "none"}
    IN  /\ req.signed.limit = MapThenSumSet(LAMBDA n : req.found[n].limit, counted)
        /\ \A n \in counted : req.signed.expires_at * SECOND <= req.found[n].expiresAt

\* FR-017: no attestation is handed out to a wallet that was flagged all the time from the
\* arrival of the request, unless devnet did not answer.
NotSignedWhileFlagged == \A r \in Requests : Attested(r) => requests[r].wasClear
=============================================================================
