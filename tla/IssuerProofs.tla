---------------------------- MODULE IssuerProofs ----------------------------
(***************************************************************************)
(* However many requests for one wallet overlap, and whichever of them     *)
(* fail at whatever point, no number is signed twice and none is skipped   *)
(* in the journal; and what is shown or attested is fresh, adds up, was    *)
(* not signed while the wallet was flagged, and is taken by the program.   *)
(* The limits themselves are backed by the history they are computed from, *)
(* explained to the last unit, and never taken back for a payout.          *)
(***************************************************************************)
EXTENDS Issuer, ProgramLemmas, SequenceTheorems

\* The history that a limit is computed from.
CONSTANTS DAYS, PERIOD, REQUIRED_PAID_MONTHS, RECENT_PRICE_DAYS, MONTHS_OF_FLOW,
          VOLATILITY_CAP_BP, BASIS_POINTS, UNIT, Amounts, Prices, MAX_MONTH, MAX_EVENTS
VARIABLES month, payouts, prices, events

Scores == INSTANCE Scoring

Fields ==
  {"kind", "phase", "at", "flag", "found", "signed", "answer", "wasClear"}

\* What the proof asks of types: requests are records, the journal is a sequence.
Shape ==
  /\ DOMAIN requests = Requests
  /\ \A r \in Requests : DOMAIN requests[r] = Fields
  /\ \E S : rows \in Seq(S)
  /\ lock \subseteq Requests

\* The lock is held by one request, from its number to the end of its transaction.
LockInv ==
  /\ \A r, s \in lock : r = s
  /\ \A r \in Requests : r \in lock <=> requests[r].phase \in {"number", "insert"}

\* What a request has signed while it is under way: the number after the last one, which
\* nobody else can take while it holds the lock.
SignedInv ==
  \A r \in Requests :
    /\ requests[r].phase = "insert" => requests[r].signed.nonce = Len(rows) + 1
    /\ requests[r].phase \notin {"insert", "done"} => requests[r].signed = Unsigned
    /\ requests[r].phase # "done" => requests[r].answer = "none"
    /\ requests[r].phase = "done" => requests[r].answer # "none"

RowsInv == \A i \in 1..Len(rows) : rows[i].nonce = i

\* What was handed out is in the journal, each under a number of its own.
AnswerInv ==
  /\ \A r \in Requests : Attested(r) =>
       /\ requests[r].signed.nonce \in 1..Len(rows)
       /\ rows[requests[r].signed.nonce] = requests[r].signed
  /\ \A r, s \in Requests :
       r # s /\ Attested(r) /\ Attested(s) => requests[r].signed.nonce # requests[s].signed.nonce

IssuerInv == Shape /\ LockInv /\ SignedInv /\ RowsInv /\ AnswerInv

-----------------------------------------------------------------------------
\* A number is not Unsigned.
LEMMA NumberIsSigned ==
  ASSUME NEW s, s.nonce # 0
  PROVE  s # Unsigned
BY DEF Unsigned

\* The invariant says what is to be shown.
LEMMA InvNumbersDiffer == IssuerInv => NumbersDiffer
<1> SUFFICES ASSUME IssuerInv PROVE NumbersDiffer
  OBVIOUS
<1> USE DEF IssuerInv
<1>1. PICK S : rows \in Seq(S)
  BY DEF Shape
<1>2. DOMAIN rows = 1..Len(rows) /\ Len(rows) \in Nat
  BY <1>1
<1>3. \A i \in DOMAIN rows : rows[i].nonce = i
  BY <1>2 DEF RowsInv
<1>4. ASSUME NEW r \in Requests, NEW s \in Requests, r # s,
             {requests[r].phase, requests[s].phase} \subseteq {"insert", "done"},
             {requests[r].answer, requests[s].answer} \subseteq {"none", "attestation"}
      PROVE  requests[r].signed.nonce # requests[s].signed.nonce
  <2>1. ASSUME NEW t \in {r, s}
        PROVE  \/ requests[t].phase = "insert" /\ requests[t].signed.nonce = Len(rows) + 1
                                               /\ t \in lock
               \/ Attested(t) /\ requests[t].signed.nonce \in 1..Len(rows)
    BY <1>4, <2>1 DEF SignedInv, AnswerInv, LockInv, Attested
  <2>2. CASE requests[r].phase = "insert" /\ requests[s].phase = "insert"
    BY <1>4, <2>2 DEF LockInv
  <2>3. CASE Attested(r) /\ Attested(s)
    BY <1>4, <2>3 DEF AnswerInv
  <2> QED
    BY <2>1, <2>2, <2>3, <1>2
<1>5. \A r \in Requests : Attested(r) => rows[requests[r].signed.nonce] = requests[r].signed
  BY DEF AnswerInv
<1> QED
  BY <1>3, <1>4, <1>5 DEF NumbersDiffer

LEMMA InitInv == Init => IssuerInv
<1> SUFFICES ASSUME Init PROVE IssuerInv
  OBVIOUS
<1>1. rows \in Seq({}) /\ Len(rows) = 0
  BY DEF Init
<1>2. \A r \in Requests : requests[r] = NewRequest
  BY DEF Init
<1>3. Shape
  BY <1>1, <1>2 DEF Init, Shape, Fields, NewRequest
<1> QED
  BY <1>1, <1>2, <1>3
     DEF Init, IssuerInv, LockInv, SignedInv, RowsInv, AnswerInv, NewRequest, Attested

-----------------------------------------------------------------------------
(* A step that changes neither the journal nor the lock, and of a request  *)
(* neither what it signed nor whether it holds the lock, keeps everything. *)
Quiet(r) ==
  /\ requests'[r].signed = requests[r].signed
  /\ \/ requests'[r].phase = requests[r].phase /\ requests'[r].answer = requests[r].answer
     \/ /\ requests[r].phase \notin {"number", "insert", "done"}
        /\ \/ requests'[r].phase \notin {"number", "insert", "done"}
              /\ requests'[r].answer = requests[r].answer
           \/ requests'[r].phase = "done" /\ requests'[r].answer \notin {"none", "attestation"}

LEMMA QuietSteps ==
  ASSUME IssuerInv, UNCHANGED <<rows, lock>>,
         DOMAIN requests' = Requests,
         \A r \in Requests : DOMAIN requests'[r] = Fields /\ Quiet(r)
  PROVE  IssuerInv'
<1> USE DEF IssuerInv
<1>1. Shape'
  BY DEF Shape
<1>2. LockInv'
  BY DEF LockInv, Quiet
<1>3. SignedInv'
  BY DEF SignedInv, Quiet
<1>4. RowsInv'
  BY DEF RowsInv
<1>5. AnswerInv'
  BY DEF AnswerInv, Quiet, Attested, SignedInv
<1> QED
  BY <1>1, <1>2, <1>3, <1>4, <1>5

\* One request takes the step, and the others stay as they are.
LEMMA QuietStep ==
  ASSUME IssuerInv, UNCHANGED <<rows, lock>>, NEW r \in Requests, NEW req,
         requests' = [requests EXCEPT ![r] = req],
         DOMAIN req = Fields, req.signed = requests[r].signed,
         requests[r].phase \notin {"number", "insert", "done"},
         \/ req.phase \notin {"number", "insert", "done"} /\ req.answer = requests[r].answer
         \/ req.phase = "done" /\ req.answer \notin {"none", "attestation"}
  PROVE  IssuerInv'
<1>1. DOMAIN requests' = Requests
  BY DEF IssuerInv, Shape
<1>2. requests'[r] = req /\ \A s \in Requests \ {r} : requests'[s] = requests[s]
  BY DEF IssuerInv, Shape
<1>3. \A s \in Requests : DOMAIN requests'[s] = Fields /\ Quiet(s)
  BY <1>2 DEF IssuerInv, Shape, Quiet
<1> QED
  BY <1>1, <1>3, QuietSteps

LEMMA SurroundingsStep ==
  ASSUME IssuerInv, Tick \/ Flag \/ (\E n \in Networks, outcome \in Outcomes : Index(n, outcome))
  PROVE  IssuerInv'
<1>1. CASE Flag
  <2>1. DOMAIN requests' = Requests
    BY <1>1 DEF Flag
  <2>2. \A r \in Requests : \/ requests'[r] = requests[r]
                            \/ requests'[r] = [requests[r] EXCEPT !.wasClear = TRUE]
    BY <1>1 DEF Flag
  <2>3. \A r \in Requests : DOMAIN requests'[r] = Fields /\ Quiet(r)
    BY <2>2 DEF IssuerInv, Shape, Quiet, Fields
  <2> QED
    BY <1>1, <2>1, <2>3, QuietSteps DEF Flag
<1>2. CASE Tick \/ \E n \in Networks, outcome \in Outcomes : Index(n, outcome)
  <2>1. UNCHANGED <<rows, lock, requests>>
    BY <1>2 DEF Tick, Index
  <2>2. \A r \in Requests : DOMAIN requests'[r] = Fields /\ Quiet(r)
    BY <2>1 DEF IssuerInv, Shape, Quiet
  <2> QED
    BY <2>1, <2>2, QuietSteps DEF IssuerInv, Shape
<1> QED
  BY <1>1, <1>2

LEMMA ArriveStep ==
  ASSUME IssuerAssumption, IssuerInv, NEW r \in Requests, NEW kind \in Kinds, Arrive(r, kind)
  PROVE  IssuerInv'
<1> DEFINE req == [NewRequest EXCEPT !.kind = kind, !.at = clock, !.wasClear = ~flagged,
                     !.phase = CASE kind = "show"    -> "read"
                                 [] kind = "refresh" -> "history"
                                 [] kind = "attest"  -> "flag"]
<1>1. /\ UNCHANGED <<rows, lock>> /\ requests[r].phase = "new"
      /\ requests' = [requests EXCEPT ![r] = req]
  BY DEF Arrive, Step
<1>2. kind \in {"show", "refresh", "attest"}
  BY DEF IssuerAssumption
<1>3. req.phase \in {"read", "history", "flag"}
  BY <1>2 DEF NewRequest
<1>4. DOMAIN req = Fields /\ req.signed = Unsigned /\ req.answer = "none"
  BY DEF NewRequest, Fields
<1>5. requests[r].signed = Unsigned /\ requests[r].answer = "none"
  BY <1>1 DEF IssuerInv, SignedInv
<1> HIDE DEF req
<1> QED
  BY <1>1, <1>3, <1>4, <1>5, QuietStep

LEMMA ReadStep ==
  ASSUME IssuerInv, NEW r \in Requests,
         \/ ReadProfiles(r) \/ ReadHistory(r) \/ WriteProfiles(r) \/ Reply(r)
         \/ NothingToAttest(r)
         \/ \E known \in {FALSE, DEVNET} : AskFlag(r, known)
  PROVE  IssuerInv'
<1>1. DOMAIN requests[r] = Fields
  BY DEF IssuerInv, Shape
<1>2. ASSUME NEW req, DOMAIN req = Fields, req.signed = requests[r].signed,
             requests' = [requests EXCEPT ![r] = req], UNCHANGED <<rows, lock>>,
             requests[r].phase \in {"flag", "read", "history", "write", "reply", "attest"},
             \/ /\ req.phase \in {"flag", "read", "history", "write", "reply", "attest"}
                /\ req.answer = requests[r].answer
             \/ req.phase = "done" /\ req.answer \in {"pending", "limit", "nothing"}
      PROVE  IssuerInv'
  BY <1>2, QuietStep
<1> USE DEF Fields
<1>3. CASE ReadProfiles(r)
  BY <1>1, <1>2, <1>3 DEF ReadProfiles, Step, AfterProfiles
<1>4. CASE ReadHistory(r)
  BY <1>1, <1>2, <1>4 DEF ReadHistory, Step
<1>5. CASE WriteProfiles(r)
  BY <1>1, <1>2, <1>5 DEF WriteProfiles, Step, Reached, AfterProfiles
<1>6. CASE Reply(r)
  BY <1>1, <1>2, <1>6 DEF Reply, Step, Answered
<1>7. CASE NothingToAttest(r)
  BY <1>1, <1>2, <1>7 DEF NothingToAttest, Step, Answered
<1>8. ASSUME NEW known \in {FALSE, DEVNET}, AskFlag(r, known) PROVE IssuerInv'
  BY <1>1, <1>2, <1>8 DEF AskFlag, Step, Answered
<1> QED
  BY <1>3, <1>4, <1>5, <1>6, <1>7, <1>8

LEMMA ReadFlagStep ==
  ASSUME IssuerInv, NEW r \in Requests, NEW known, ReadFlag(r, known)
  PROVE  IssuerInv'
<1>1. UNCHANGED <<rows, lock>> /\ DOMAIN requests' = Requests
  BY DEF ReadFlag, IssuerInv, Shape
<1>2. \A s \in Requests : DOMAIN requests'[s] = Fields /\ Quiet(s)
  BY DEF ReadFlag, IssuerInv, Shape, Quiet, Fields
<1> QED
  BY <1>1, <1>2, QuietSteps

-----------------------------------------------------------------------------
LEMMA TakeLockStep ==
  ASSUME IssuerInv, NEW r \in Requests, TakeLock(r)
  PROVE  IssuerInv'
<1> USE DEF IssuerInv
<1>1. /\ lock = {} /\ lock' = {r} /\ rows' = rows
      /\ requests[r].phase = "attest"
      /\ requests' = [requests EXCEPT ![r] = Reached(r, "number")]
  BY DEF TakeLock, Step
<1>2. /\ DOMAIN requests' = Requests
      /\ DOMAIN requests'[r] = Fields /\ requests'[r].phase = "number"
      /\ requests'[r].signed = requests[r].signed /\ requests'[r].answer = requests[r].answer
      /\ \A s \in Requests \ {r} : requests'[s] = requests[s]
  BY <1>1 DEF Shape, Reached, Fields
<1>3. Shape'
  BY <1>1, <1>2 DEF Shape
<1>4. LockInv'
  BY <1>1, <1>2 DEF LockInv
<1>5. SignedInv' /\ RowsInv' /\ AnswerInv'
  BY <1>1, <1>2 DEF SignedInv, RowsInv, AnswerInv, Attested
<1> QED
  BY <1>3, <1>4, <1>5

LEMMA SignNumberStep ==
  ASSUME IssuerInv, NEW r \in Requests, SignNumber(r)
  PROVE  IssuerInv'
<1> USE DEF IssuerInv
<1> DEFINE signed == SignLimitAttestation(AttestedLimit(requests[r].found, requests[r].at),
                                          LastNonce + 1)
<1>1. signed.nonce = Len(rows) + 1
  BY DEF SignLimitAttestation, LastNonce
<1>2. requests[r].phase = "number" /\ rows' = rows /\ DOMAIN requests[r] = Fields
  BY DEF SignNumber, Step, Shape
<1>3. CASE Signable(signed)
  <2>1. /\ lock' = lock
        /\ requests' = [requests EXCEPT ![r] =
             [requests[r] EXCEPT !.signed = signed, !.phase = "insert"]]
    BY <1>3 DEF SignNumber, Step
  <2> HIDE DEF signed
  <2>2. /\ DOMAIN requests' = Requests
        /\ DOMAIN requests'[r] = Fields /\ requests'[r].phase = "insert"
        /\ requests'[r].signed = signed /\ requests'[r].answer = requests[r].answer
        /\ \A s \in Requests \ {r} : requests'[s] = requests[s]
    BY <1>2, <2>1 DEF Shape, Fields
  <2>3. Shape'
    BY <1>2, <2>1, <2>2 DEF Shape
  <2>4. LockInv'
    BY <1>2, <2>1, <2>2 DEF LockInv
  <2>5. SignedInv' /\ RowsInv' /\ AnswerInv'
    BY <1>1, <1>2, <2>2 DEF SignedInv, RowsInv, AnswerInv, Attested
  <2> QED
    BY <2>3, <2>4, <2>5
<1>4. CASE ~Signable(signed)
  <2>1. /\ lock' = lock \ {r}
        /\ requests' = [requests EXCEPT ![r] = Answered(requests[r], "failed")]
    BY <1>4 DEF SignNumber, Step
  <2>2. /\ DOMAIN requests' = Requests
        /\ DOMAIN requests'[r] = Fields /\ requests'[r].phase = "done"
        /\ requests'[r].signed = requests[r].signed /\ requests'[r].answer = "failed"
        /\ \A s \in Requests \ {r} : requests'[s] = requests[s]
    BY <1>2, <2>1 DEF Shape, Fields, Answered
  <2>3. Shape'
    BY <1>2, <2>1, <2>2 DEF Shape
  <2>4. LockInv'
    BY <1>2, <2>1, <2>2 DEF LockInv
  <2>5. SignedInv' /\ RowsInv' /\ AnswerInv'
    BY <1>2, <2>2 DEF SignedInv, RowsInv, AnswerInv, Attested
  <2> QED
    BY <2>3, <2>4, <2>5
<1> QED
  BY <1>3, <1>4

\* The journal grows by what a request signed: by the number after its last one.
LEMMA GrownJournal ==
  ASSUME IssuerInv, NEW r \in Requests, requests[r].phase = "insert",
         rows' = Append(rows, requests[r].signed)
  PROVE  /\ \E S : rows' \in Seq(S)
         /\ Len(rows) \in Nat /\ Len(rows') = Len(rows) + 1
         /\ \A i \in 1..Len(rows) : rows'[i] = rows[i]
         /\ rows'[Len(rows) + 1] = requests[r].signed
         /\ RowsInv'
<1> DEFINE att == requests[r].signed
<1>1. PICK S : rows \in Seq(S)
  BY DEF IssuerInv, Shape
<1>2. att.nonce = Len(rows) + 1
  BY DEF IssuerInv, SignedInv
<1> HIDE DEF att
<1>3. rows \in Seq(S \union {att}) /\ Len(rows) \in Nat
  BY <1>1
<1>4. rows' = Append(rows, att)
  BY DEF att
<1>5. /\ rows' \in Seq(S \union {att})
      /\ Len(rows') = Len(rows) + 1
      /\ \A i \in 1..Len(rows) : rows'[i] = rows[i]
      /\ rows'[Len(rows) + 1] = att
  BY <1>3, <1>4
<1>6. \A i \in 1..Len(rows') : i \in 1..Len(rows) \/ i = Len(rows) + 1
  BY <1>3, <1>5
<1>7. RowsInv'
  BY <1>2, <1>5, <1>6 DEF IssuerInv, RowsInv
<1> QED
  BY <1>3, <1>5, <1>7 DEF att

\* What ends a transaction that held the lock, and what fails, with the number in the
\* journal or without it.
LEMMA EndStep ==
  ASSUME IssuerInv, NEW r \in Requests, NEW answer, answer # "none",
         requests[r].phase # "done",
         requests' = [requests EXCEPT ![r] = Answered(requests[r], answer)],
         lock' = lock \ {r},
         \/ rows' = rows /\ answer # "attestation"
         \/ rows' = Append(rows, requests[r].signed) /\ requests[r].phase = "insert"
  PROVE  IssuerInv'
<1> USE DEF IssuerInv
<1>1. /\ DOMAIN requests' = Requests
      /\ DOMAIN requests'[r] = Fields /\ requests'[r].phase = "done"
      /\ requests'[r].signed = requests[r].signed /\ requests'[r].answer = answer
      /\ \A s \in Requests \ {r} : requests'[s] = requests[s]
  BY DEF Shape, Fields, Answered
<1>2. LockInv'
  BY <1>1 DEF LockInv
<1>3. CASE rows' = rows /\ answer # "attestation"
  <2>1. Shape'
    BY <1>1, <1>3 DEF Shape
  <2>2. SignedInv' /\ RowsInv' /\ AnswerInv'
    BY <1>1, <1>3 DEF SignedInv, RowsInv, AnswerInv, Attested
  <2> QED
    BY <1>2, <2>1, <2>2
<1>4. CASE rows' = Append(rows, requests[r].signed) /\ requests[r].phase = "insert"
  <2>1. /\ \E S : rows' \in Seq(S)
        /\ Len(rows) \in Nat /\ Len(rows') = Len(rows) + 1
        /\ \A i \in 1..Len(rows) : rows'[i] = rows[i]
        /\ rows'[Len(rows) + 1] = requests[r].signed
        /\ RowsInv'
    BY <1>4, GrownJournal
  <2>2. Shape'
    BY <1>1, <2>1 DEF Shape
  <2>3. \A s \in Requests \ {r} : requests[s].phase # "insert"
    BY <1>4 DEF LockInv
  <2>4. SignedInv'
    BY <1>1, <2>3 DEF SignedInv
  <2>5. requests[r].signed.nonce = Len(rows) + 1
    BY <1>4 DEF SignedInv
  <2>6. \A s \in Requests \ {r} : Attested(s)' =>
          /\ requests'[s].signed.nonce \in 1..Len(rows)
          /\ rows'[requests'[s].signed.nonce] = requests'[s].signed
    BY <1>1, <2>1 DEF AnswerInv, Attested
  <2>7. AnswerInv'
    BY <1>1, <2>1, <2>5, <2>6 DEF AnswerInv, Attested
  <2> QED
    BY <1>2, <2>1, <2>2, <2>4, <2>7
<1> QED
  BY <1>3, <1>4

LEMMA CommitStep ==
  ASSUME IssuerInv, NEW r \in Requests, Commit(r)
  PROVE  IssuerInv'
<1>1. requests[r].phase = "insert" /\ requests[r].signed.nonce = Len(rows) + 1
  BY DEF Commit, Step, IssuerInv, SignedInv
<1>2. PICK S : rows \in Seq(S)
  BY DEF IssuerInv, Shape
<1>3. ~(requests[r].signed.nonce <= Len(rows))
  BY <1>1, <1>2
<1>4. /\ requests' = [requests EXCEPT ![r] = Answered(requests[r], "attestation")]
      /\ rows' = Append(rows, requests[r].signed) /\ lock' = lock \ {r}
  BY <1>3 DEF Commit, Step
<1> QED
  BY <1>1, <1>4, EndStep

LEMMA FailStep ==
  ASSUME IssuerInv, NEW r \in Requests, NEW committed \in BOOLEAN, Fail(r, committed)
  PROVE  IssuerInv'
<1>1. /\ requests' = [requests EXCEPT ![r] = Answered(requests[r], "failed")]
      /\ lock' = lock \ {r} /\ requests[r].phase # "done"
  BY DEF Fail, Active, IssuerInv, Shape
<1>2. \/ rows' = rows
      \/ rows' = Append(rows, requests[r].signed) /\ requests[r].phase = "insert"
  BY DEF Fail
<1> QED
  BY <1>1, <1>2, EndStep

-----------------------------------------------------------------------------
LEMMA NextInv ==
  ASSUME IssuerAssumption, IssuerInv, [Next]_vars
  PROVE  IssuerInv'
<1>1. CASE UNCHANGED vars
  BY <1>1 DEF vars, IssuerInv, Shape, LockInv, SignedInv, RowsInv, AnswerInv, Attested
<1>2. CASE Tick \/ Flag \/ \E n \in Networks, outcome \in Outcomes : Index(n, outcome)
  BY <1>2, SurroundingsStep
<1>3. ASSUME NEW r \in Requests, NEW kind \in Kinds, Arrive(r, kind) PROVE IssuerInv'
  BY <1>3, ArriveStep
<1>4. ASSUME NEW r \in Requests, Serve(r) PROVE IssuerInv'
  BY <1>4, ReadFlagStep, ReadStep, TakeLockStep, SignNumberStep, CommitStep DEF Serve
<1>5. ASSUME NEW r \in Requests, NEW committed \in BOOLEAN, Fail(r, committed) PROVE IssuerInv'
  BY <1>5, FailStep
<1> QED
  BY <1>1, <1>2, <1>3, <1>4, <1>5 DEF Next

\* attestations.ts:114, 150: for any number of requests, networks and failures, two
\* requests never hand out one number, what is handed out is in the journal as it was
\* signed, and the journal has no gaps.
THEOREM NumbersNeverRepeat == IssuerAssumption /\ Spec => []NumbersDiffer
<1> SUFFICES ASSUME IssuerAssumption PROVE Spec => []NumbersDiffer
  OBVIOUS
<1>1. IssuerInv /\ [Next]_vars => IssuerInv'
  BY NextInv
<1> QED
  BY InitInv, InvNumbersDiffer, <1>1, PTL DEF Spec

-----------------------------------------------------------------------------
(***************************************************************************)
(* What is shown and attested.                                             *)
(***************************************************************************)

\* The profile of n says what the history said of it, after the moment it is of.
Computed(n, p) ==
  \E o \in Outcomes \ {Absent}, at \in Nat : p = ProfileOf(o, at) /\ held[n][o] >= at

\* The clock, and when the history said what.
HistoryInv ==
  /\ clock \in 0..MAX_CLOCK
  /\ history \in [Networks -> Outcomes]
  /\ held \in [Networks -> [Outcomes -> Int]]
  /\ \A n \in Networks : held[n][history[n]] = clock /\ \A o \in Outcomes : held[n][o] <= clock

\* A row is a profile that was computed, less what its columns do not keep.
StoredInv ==
  /\ DOMAIN profiles \subseteq Networks
  /\ profiles = [n \in DOMAIN profiles |-> profiles[n]]
  /\ \A n \in DOMAIN profiles : \E p : Computed(n, p) /\ profiles[n] = RowOf(p)

\* The profiles of a request were computed, and are none older than it asks for.
FoundInv(req) ==
  /\ req.at \in Nat /\ req.at <= clock
  /\ DOMAIN req.found \subseteq Networks
  /\ \A n \in DOMAIN req.found :
       /\ Computed(n, req.found[n])
       /\ req.at < req.found[n].computedAt + TTL
       /\ req.kind = "refresh" => req.found[n].computedAt = req.at

\* Which kinds of request come where.
KindInv(req) ==
  /\ req.phase # "new" => req.kind \in Kinds
  /\ req.phase = "read" => req.kind # "refresh"
  /\ req.phase \in {"flag", "attest", "number", "insert"} \/ req.answer = "attestation"
       => req.kind = "attest"

\* A request saw its wallet without a flag, at some moment, before it goes on to attest.
ClearInv(req) ==
  /\ req.phase \notin {"new", "done"} /\ ~flagged => req.wasClear
  /\ req.kind = "attest" /\ req.phase \in {"read", "history", "write", "attest", "number", "insert"}
       => req.wasClear
  /\ req.answer = "attestation" => req.wasClear

\* What is signed is the sum of the limits the request has found.
SealInv(req) ==
  /\ req.phase \in {"number", "insert"} \/ req.answer = "attestation" => Counted(req.found) # {}
  /\ req.phase = "insert" \/ req.answer = "attestation"
       => req.signed = SignLimitAttestation(AttestedLimit(req.found, req.at), req.signed.nonce)

ServedInv ==
  /\ HistoryInv /\ StoredInv
  /\ \A r \in Requests :
       FoundInv(requests[r]) /\ KindInv(requests[r]) /\ ClearInv(requests[r]) /\ SealInv(requests[r])

-----------------------------------------------------------------------------
LEMMA OutcomeIs ==
  ASSUME IssuerAssumption, NEW o \in Outcomes
  PROVE  /\ DOMAIN o = {"limit", "reason"}
         /\ o.reason \in {"none", "absent", "short-history", "withdrawal-history", "no-recent-price"}
         /\ o.reason = "none" => o.limit \in Nat
         /\ o.reason # "none" => o.limit = NO_LIMIT
BY DEF IssuerAssumption, Outcomes, Outcome, Absent

\* A profile is what it was when it comes back from its row.
LEMMA RowsComeBack ==
  ASSUME IssuerAssumption, NEW n, NEW p, Computed(n, p)
  PROVE  ProfileFrom(RowOf(p)) = p
<1>1. PICK o \in Outcomes \ {Absent}, at \in Nat : p = ProfileOf(o, at)
  BY DEF Computed
<1>2. o.reason \in {"none", "absent", "short-history", "withdrawal-history", "no-recent-price"}
  BY OutcomeIs
<1>3. RowOf(p).reason = p.reason /\ RowOf(p).limit = p.limit
      /\ RowOf(p).computedAt = p.computedAt /\ RowOf(p).expiresAt = p.expiresAt
  BY DEF RowOf
<1>4. ReadRefusal(RowOf(p)) = p.month
  BY <1>1, <1>2 DEF RowOf, ReadRefusal, ProfileOf
<1>5. QED
  BY <1>1, <1>3, <1>4 DEF ProfileFrom, ProfileOf

\* What the history says of a network now is a profile of it.
LEMMA HistoryIsComputed ==
  ASSUME IssuerAssumption, HistoryInv, NEW at \in Nat, at <= clock,
         NEW n \in DOMAIN ComputeProfiles(history, at)
  PROVE  /\ n \in Networks
         /\ Computed(n, ComputeProfiles(history, at)[n])
         /\ ComputeProfiles(history, at)[n].computedAt = at
<1>1. n \in Networks /\ history[n] # Absent
      /\ ComputeProfiles(history, at)[n] = ProfileOf(history[n], at)
  BY DEF ComputeProfiles
<1>2. history[n] \in Outcomes \ {Absent} /\ held[n][history[n]] >= at
  BY <1>1 DEF HistoryInv
<1>3. QED
  BY <1>1, <1>2 DEF Computed, ProfileOf

LEMMA ComputedIs ==
  ASSUME IssuerAssumption, NEW n, NEW p, Computed(n, p)
  PROVE  /\ p.computedAt \in Nat
         /\ p.expiresAt = p.computedAt + TTL
         /\ p.limit # NO_LIMIT <=> p.reason = "none"
         /\ p.limit = NO_LIMIT \/ p.limit \in Nat
<1>1. PICK o \in Outcomes \ {Absent}, at \in Nat : p = ProfileOf(o, at)
  BY DEF Computed
<1>2. /\ o.reason = "none" => o.limit \in Nat
      /\ o.reason # "none" => o.limit = NO_LIMIT
  BY OutcomeIs
<1>3. QED
  BY <1>1, <1>2 DEF ProfileOf, NO_LIMIT

-----------------------------------------------------------------------------
\* A request takes a step while the surroundings and the rows stay.
LEMMA ServedStep ==
  ASSUME ServedInv, UNCHANGED <<clock, history, held, flagged, profiles>>,
         DOMAIN requests = Requests, NEW r \in Requests, NEW req,
         requests' = [requests EXCEPT ![r] = req],
         FoundInv(req), KindInv(req), ClearInv(req), SealInv(req)
  PROVE  ServedInv'
<1>1. \A s \in Requests : requests'[s] = requests[s] \/ requests'[s] = req
  OBVIOUS
<1>2. \A s \in Requests : FoundInv(requests'[s]) /\ KindInv(requests'[s])
                          /\ ClearInv(requests'[s]) /\ SealInv(requests'[s])
  BY <1>1 DEF ServedInv
<1>3. \A n, p : Computed(n, p)' <=> Computed(n, p)
  BY DEF Computed
<1>4. \A s \in Requests : FoundInv(requests[s])'
  BY <1>2, <1>3 DEF FoundInv
<1>5. \A s \in Requests : KindInv(requests[s])' /\ ClearInv(requests[s])' /\ SealInv(requests[s])'
  BY <1>2 DEF KindInv, ClearInv, SealInv
<1>6. HistoryInv' /\ StoredInv'
  BY <1>3 DEF ServedInv, HistoryInv, StoredInv
<1>7. QED
  BY <1>4, <1>5, <1>6 DEF ServedInv

\* Time passes, or the history changes.
LEMMA SurroundingsServed ==
  ASSUME ServedInv, NEW h, NEW at, h \in [Networks -> Outcomes], at \in clock..MAX_CLOCK,
         clock' = at, history' = h, held' = Holding(h, at),
         UNCHANGED <<flagged, profiles, requests>>
  PROVE  ServedInv'
<1>1. HistoryInv
  BY DEF ServedInv
<1>2. HistoryInv'
  BY <1>1 DEF HistoryInv, Holding
<1>3. ASSUME NEW n \in Networks, NEW p, Computed(n, p) PROVE Computed(n, p)'
  <2>1. PICK o \in Outcomes \ {Absent}, m \in Nat : p = ProfileOf(o, m) /\ held[n][o] >= m
    BY <1>3 DEF Computed
  <2>2. held'[n][o] >= held[n][o] /\ held'[n][o] \in Int /\ held[n][o] \in Int
    BY <1>1 DEF HistoryInv, Holding
  <2>3. p = ProfileOf(o, m) /\ held'[n][o] >= m
    BY <2>1, <2>2
  <2>4. QED
    BY <2>3 DEF Computed
<1>4. StoredInv'
  BY <1>3 DEF ServedInv, StoredInv
<1>5. QED
  BY <1>1, <1>2, <1>3, <1>4 DEF ServedInv, HistoryInv, FoundInv, KindInv, ClearInv, SealInv

LEMMA ArriveServed ==
  ASSUME IssuerAssumption, IssuerInv, ServedInv, NEW r \in Requests, NEW kind \in Kinds,
         Arrive(r, kind)
  PROVE  ServedInv'
<1> DEFINE req == [NewRequest EXCEPT !.kind = kind, !.at = clock, !.wasClear = ~flagged,
                     !.phase = CASE kind = "show"    -> "read"
                                 [] kind = "refresh" -> "history"
                                 [] kind = "attest"  -> "flag"]
<1>1. /\ requests' = [requests EXCEPT ![r] = req]
      /\ UNCHANGED <<clock, history, held, flagged, profiles>>
      /\ DOMAIN requests = Requests
  BY DEF Arrive, Step, IssuerInv, Shape
<1>2. kind \in {"show", "refresh", "attest"} /\ clock \in Nat
  BY DEF IssuerAssumption, ServedInv, HistoryInv
<1>3. /\ req.kind = kind /\ req.at = clock /\ req.wasClear = ~flagged
      /\ req.phase = CASE kind = "show"    -> "read"
                       [] kind = "refresh" -> "history"
                       [] kind = "attest"  -> "flag"
      /\ req.found = <<>> /\ req.answer = "none"
  BY DEF NewRequest
<1> HIDE DEF req
<1>4. FoundInv(req)
  <2>1. \A n : n \notin DOMAIN <<>>
    OBVIOUS
  <2>2. DOMAIN req.found = {}
    BY <1>3, <2>1
  <2>3. QED
    BY <1>2, <1>3, <2>2 DEF FoundInv
<1>5. req.phase \in {"read", "history", "flag"}
      /\ (kind = "attest" => req.phase = "flag") /\ (req.phase = "read" => kind = "show")
      /\ (req.phase = "flag" => kind = "attest")
  BY <1>2, <1>3
<1>6. ~flagged => req.wasClear
  BY <1>3
<1>7. KindInv(req) /\ SealInv(req)
  BY <1>2, <1>3, <1>5 DEF KindInv, SealInv
<1>8. ClearInv(req)
  BY <1>3, <1>5, <1>6 DEF ClearInv
<1>9. QED
  BY <1>1, <1>4, <1>7, <1>8, ServedStep

\* The flag changes, and whoever is served while it is down has seen it so.
LEMMA FlagServed ==
  ASSUME IssuerInv, ServedInv, Flag
  PROVE  ServedInv'
<1>1. /\ flagged' = ~flagged
      /\ UNCHANGED <<clock, history, held, profiles>>
      /\ \A r \in Requests :
           IF Active(r) /\ flagged THEN requests'[r] = [requests[r] EXCEPT !.wasClear = TRUE]
                                   ELSE requests'[r] = requests[r]
  BY DEF Flag
<1>2. ASSUME NEW r \in Requests
      PROVE  /\ requests'[r].kind = requests[r].kind
             /\ requests'[r].phase = requests[r].phase
             /\ requests'[r].at = requests[r].at
             /\ requests'[r].found = requests[r].found
             /\ requests'[r].signed = requests[r].signed
             /\ requests'[r].answer = requests[r].answer
             /\ requests[r].wasClear => requests'[r].wasClear
             /\ flagged /\ requests[r].phase \notin {"new", "done"} => requests'[r].wasClear
  <2>1. CASE Active(r) /\ flagged
    <3>1. requests'[r] = [requests[r] EXCEPT !.wasClear = TRUE] /\ DOMAIN requests[r] = Fields
      BY <1>1, <2>1 DEF IssuerInv, Shape
    <3>2. requests'[r].wasClear = TRUE
      BY <3>1 DEF Fields
    <3>3. /\ requests'[r].kind = requests[r].kind
          /\ requests'[r].phase = requests[r].phase
          /\ requests'[r].at = requests[r].at
          /\ requests'[r].found = requests[r].found
          /\ requests'[r].signed = requests[r].signed
          /\ requests'[r].answer = requests[r].answer
      BY <3>1
    <3>4. QED
      BY <3>2, <3>3
  <2>2. CASE ~(Active(r) /\ flagged)
    BY <1>1, <2>2 DEF Active
  <2>3. QED
    BY <2>1, <2>2
<1>3. \A n, p : Computed(n, p)' <=> Computed(n, p)
  BY <1>1 DEF Computed
<1>4. HistoryInv' /\ StoredInv'
  BY <1>1, <1>3 DEF ServedInv, HistoryInv, StoredInv
<1>5. ASSUME NEW r \in Requests
      PROVE  FoundInv(requests[r])' /\ KindInv(requests[r])' /\ SealInv(requests[r])'
  BY <1>1, <1>2, <1>3 DEF ServedInv, FoundInv, KindInv, SealInv
<1>6. ASSUME NEW r \in Requests PROVE ClearInv(requests[r])'
  BY <1>1, <1>2 DEF ServedInv, ClearInv
<1>7. QED
  BY <1>4, <1>5, <1>6 DEF ServedInv

\* The wallet's flag is asked for, and a request goes on without it, or without an answer.
LEMMA AskFlagServed ==
  ASSUME IssuerInv, ServedInv, NEW r \in Requests, NEW known \in BOOLEAN, AskFlag(r, known)
  PROVE  ServedInv'
<1> DEFINE req == [requests[r] EXCEPT !.flag = Flagged(known), !.wasClear = @ \/ ~known]
           to == IF req.flag = "pending" THEN Answered(req, "pending") ELSE [req EXCEPT !.phase = "read"]
<1>1. /\ requests[r].phase = "flag" /\ requests' = [requests EXCEPT ![r] = to]
      /\ UNCHANGED <<clock, history, held, flagged, profiles>>
      /\ DOMAIN requests = Requests /\ DOMAIN requests[r] = Fields
  BY DEF AskFlag, Step, IssuerInv, Shape
<1>2. FoundInv(requests[r]) /\ KindInv(requests[r]) /\ ClearInv(requests[r])
  BY DEF ServedInv
<1>3. requests[r].kind = "attest" /\ requests[r].kind \in Kinds /\ requests[r].answer = "none"
  BY <1>1, <1>2 DEF KindInv, IssuerInv, SignedInv
<1>4. /\ req.kind = "attest" /\ req.at = requests[r].at /\ req.found = requests[r].found
      /\ req.flag = Flagged(known) /\ req.wasClear = (requests[r].wasClear \/ ~known)
      /\ req.answer = "none" /\ DOMAIN req = Fields
  BY <1>1, <1>3 DEF Fields
<1>5. ~flagged => requests[r].wasClear
  BY <1>1, <1>2 DEF ClearInv
<1>6. req.flag # "pending" => req.wasClear
  BY <1>4, <1>5 DEF Flagged
<1>7. ~flagged => req.wasClear
  BY <1>4, <1>5
<1> HIDE DEF req
<1>8. /\ to.kind = "attest" /\ to.at = requests[r].at /\ to.found = requests[r].found
      /\ to.wasClear = req.wasClear
      /\ \/ to.phase = "read" /\ req.wasClear /\ to.answer = "none"
         \/ to.phase = "done" /\ to.answer = "pending"
  BY <1>4, <1>6 DEF Fields, Answered
<1> HIDE DEF to
<1>9. FoundInv(to)
  BY <1>2, <1>3, <1>8 DEF FoundInv
<1>10. KindInv(to) /\ ClearInv(to) /\ SealInv(to)
  BY <1>3, <1>7, <1>8 DEF KindInv, ClearInv, SealInv
<1>11. QED
  BY <1>1, <1>9, <1>10, ServedStep

\* Steps that only move a request on, or read its flag: of what it is, nothing else changes.
LEMMA MovesOn ==
  ASSUME ServedInv, UNCHANGED <<clock, history, held, flagged, profiles>>,
         DOMAIN requests = Requests, NEW r \in Requests, NEW req,
         requests' = [requests EXCEPT ![r] = req],
         req.kind = requests[r].kind, req.at = requests[r].at,
         req.found = requests[r].found, req.wasClear = requests[r].wasClear,
         req.signed = requests[r].signed,
         requests[r].phase # "new",
         \/ req.phase = requests[r].phase /\ req.answer = requests[r].answer
         \/ req.phase = "done" /\ req.answer # "attestation"
         \/ requests[r].phase = "insert" /\ req.phase = "done"
         \/ /\ req.phase \in {"reply", "attest"} /\ req.answer # "attestation"
            /\ requests[r].phase \in {"read", "history", "write"}
            /\ req.phase = "attest" => requests[r].kind = "attest"
  PROVE  ServedInv'
<1> DEFINE old == requests[r]
<1>1. FoundInv(old) /\ KindInv(old) /\ ClearInv(old) /\ SealInv(old)
  BY DEF ServedInv
<1>2. FoundInv(req)
  BY <1>1 DEF FoundInv
<1>3. KindInv(req)
  BY <1>1 DEF KindInv
<1>4. ClearInv(req)
  BY <1>1 DEF ClearInv, KindInv
<1>5. SealInv(req)
  BY <1>1 DEF SealInv
<1> HIDE DEF old
<1>6. QED
  BY <1>2, <1>3, <1>4, <1>5, ServedStep

LEMMA ReadFlagServed ==
  ASSUME IssuerInv, ServedInv, NEW r \in Requests, NEW known, ReadFlag(r, known)
  PROVE  ServedInv'
<1> DEFINE req == [requests[r] EXCEPT !.flag = Flagged(known)]
<1>1. /\ requests' = [requests EXCEPT ![r] = req]
      /\ UNCHANGED <<clock, history, held, flagged, profiles>>
      /\ requests[r].phase \notin {"new", "done"}
      /\ DOMAIN requests = Requests
  BY DEF ReadFlag, Active, IssuerInv, Shape
<1>2. /\ req.kind = requests[r].kind /\ req.at = requests[r].at
      /\ req.found = requests[r].found /\ req.wasClear = requests[r].wasClear
      /\ req.signed = requests[r].signed
      /\ req.phase = requests[r].phase /\ req.answer = requests[r].answer
  OBVIOUS
<1> HIDE DEF req
<1>3. QED
  BY <1>1, <1>2, MovesOn

\* What is stored and fresh is taken over, and otherwise computed anew.
LEMMA ReadProfilesServed ==
  ASSUME IssuerAssumption, IssuerInv, ServedInv, NEW r \in Requests, ReadProfiles(r)
  PROVE  ServedInv'
<1> DEFINE old == requests[r]
           stored == [n \in DOMAIN profiles |-> ProfileFrom(profiles[n])]
           taken == [old EXCEPT !.found = stored, !.phase = AfterProfiles(old.kind)]
           anew == [old EXCEPT !.phase = "history"]
           req == IF AreFresh(stored, old.at) THEN taken ELSE anew
<1>1. /\ requests' = [requests EXCEPT ![r] = req] /\ old.phase = "read"
      /\ UNCHANGED <<clock, history, held, flagged, profiles>>
      /\ DOMAIN requests = Requests /\ DOMAIN old = Fields
  BY DEF ReadProfiles, Step, IssuerInv, Shape
<1>2. FoundInv(old) /\ KindInv(old) /\ ClearInv(old) /\ StoredInv /\ old.answer = "none"
  BY <1>1 DEF ServedInv, IssuerInv, SignedInv
<1>3. old.kind \in Kinds /\ old.kind # "refresh"
  BY <1>1, <1>2 DEF KindInv
<1>4. \A n \in DOMAIN profiles : Computed(n, stored[n])
  <2>1. ASSUME NEW n \in DOMAIN profiles PROVE Computed(n, stored[n])
    <3>1. PICK p : Computed(n, p) /\ profiles[n] = RowOf(p)
      BY <1>2 DEF StoredInv
    <3>2. stored[n] = p
      BY <3>1, RowsComeBack
    <3>3. QED
      BY <3>1, <3>2
  <2>2. QED
    BY <2>1
<1>5. DOMAIN stored = DOMAIN profiles /\ DOMAIN profiles \subseteq Networks
  BY <1>2 DEF StoredInv
<1> HIDE DEF stored
<1>6. CASE AreFresh(stored, old.at)
  <2>1. /\ taken.kind = old.kind /\ taken.at = old.at /\ taken.wasClear = old.wasClear
        /\ taken.found = stored /\ taken.answer = "none" /\ taken.signed = old.signed
        /\ taken.phase = AfterProfiles(old.kind)
    BY <1>1, <1>2 DEF Fields
  <2>2. taken.phase \in {"attest", "reply"} /\ (taken.phase = "attest" => old.kind = "attest")
    BY <2>1 DEF AfterProfiles
  <2>3. req = taken
    BY <1>6
  <2> HIDE DEF taken, old, req
  <2>4. \A n \in DOMAIN stored : old.at < stored[n].computedAt + TTL
    BY <1>4, <1>5, <1>6, ComputedIs DEF AreFresh
  <2>5. FoundInv(taken)
    BY <1>2, <1>3, <1>4, <1>5, <2>1, <2>4 DEF FoundInv
  <2>6. KindInv(taken) /\ SealInv(taken)
    BY <1>3, <2>1, <2>2 DEF KindInv, SealInv
  <2>7. ClearInv(taken)
    BY <1>1, <1>2, <2>1, <2>2 DEF ClearInv
  <2>8. requests' = [requests EXCEPT ![r] = taken]
    BY <1>1, <2>3
  <2>9. QED
    BY <1>1, <2>5, <2>6, <2>7, <2>8, ServedStep
<1>7. CASE ~AreFresh(stored, old.at)
  <2>1. /\ anew.kind = old.kind /\ anew.at = old.at /\ anew.wasClear = old.wasClear
        /\ anew.found = old.found /\ anew.answer = "none" /\ anew.signed = old.signed
        /\ anew.phase = "history"
    BY <1>1, <1>2 DEF Fields
  <2>2. req = anew
    BY <1>7
  <2> HIDE DEF anew, old, req
  <2>3. FoundInv(anew) /\ KindInv(anew) /\ SealInv(anew)
    BY <1>2, <1>3, <2>1 DEF FoundInv, KindInv, SealInv
  <2>4. ClearInv(anew)
    BY <1>1, <1>2, <2>1 DEF ClearInv
  <2>5. requests' = [requests EXCEPT ![r] = anew]
    BY <1>1, <2>2
  <2>6. QED
    BY <1>1, <2>3, <2>4, <2>5, ServedStep
<1>8. QED
  BY <1>6, <1>7

\* The history is read and the profiles computed as of the request's arrival.
LEMMA ReadHistoryServed ==
  ASSUME IssuerAssumption, IssuerInv, ServedInv, NEW r \in Requests, ReadHistory(r)
  PROVE  ServedInv'
<1> DEFINE old == requests[r]
           computed == ComputeProfiles(history, old.at)
           req == [old EXCEPT !.phase = "write", !.found = computed]
<1>1. /\ requests' = [requests EXCEPT ![r] = req] /\ old.phase = "history"
      /\ UNCHANGED <<clock, history, held, flagged, profiles>>
      /\ DOMAIN requests = Requests /\ DOMAIN old = Fields
  BY DEF ReadHistory, Step, IssuerInv, Shape
<1>2. FoundInv(old) /\ KindInv(old) /\ ClearInv(old) /\ HistoryInv /\ old.answer = "none"
  BY <1>1 DEF ServedInv, IssuerInv, SignedInv
<1>3. /\ req.kind = old.kind /\ req.at = old.at /\ req.wasClear = old.wasClear
      /\ req.found = computed /\ req.answer = "none" /\ req.signed = old.signed
      /\ req.phase = "write"
  BY <1>1, <1>2 DEF Fields
<1>4. \A n \in DOMAIN computed : /\ n \in Networks /\ Computed(n, computed[n])
                                 /\ computed[n].computedAt = old.at
  BY <1>2, HistoryIsComputed DEF FoundInv
<1>5. TTL \in Nat \ {0} /\ old.at \in Nat
  BY <1>2 DEF IssuerAssumption, FoundInv
<1> HIDE DEF req, old, computed
<1>6. \A n \in DOMAIN computed : old.at < computed[n].computedAt + TTL
  BY <1>4, <1>5
<1>7. FoundInv(req)
  BY <1>2, <1>3, <1>4, <1>6 DEF FoundInv
<1>8. KindInv(req) /\ SealInv(req)
  BY <1>1, <1>2, <1>3 DEF KindInv, SealInv
<1>9. ClearInv(req)
  BY <1>1, <1>2, <1>3 DEF ClearInv
<1>10. QED
  BY <1>1, <1>7, <1>8, <1>9, ServedStep

\* What was computed becomes the rows of its networks; the other rows stay.
LEMMA WriteProfilesServed ==
  ASSUME IssuerAssumption, IssuerInv, ServedInv, NEW r \in Requests, WriteProfiles(r)
  PROVE  ServedInv'
<1> DEFINE old == requests[r]
           req == Reached(r, AfterProfiles(old.kind))
<1>1. /\ requests' = [requests EXCEPT ![r] = req] /\ old.phase = "write"
      /\ UNCHANGED <<clock, history, held, flagged>>
      /\ profiles' = Upserted(old.found)
      /\ DOMAIN requests = Requests /\ DOMAIN old = Fields
  BY DEF WriteProfiles, Step, IssuerInv, Shape
<1>2. /\ FoundInv(old) /\ KindInv(old) /\ ClearInv(old) /\ StoredInv /\ HistoryInv
      /\ old.answer = "none"
  BY <1>1 DEF ServedInv, IssuerInv, SignedInv
<1>3. /\ req.kind = old.kind /\ req.at = old.at /\ req.wasClear = old.wasClear
      /\ req.found = old.found /\ req.answer = "none" /\ req.signed = old.signed
      /\ req.phase = AfterProfiles(old.kind)
  BY <1>1, <1>2 DEF Fields, Reached
<1>4. req.phase \in {"attest", "reply"} /\ (req.phase = "attest" => old.kind = "attest")
  BY <1>3 DEF AfterProfiles
<1>5. profiles' = [n \in (DOMAIN old.found) \cup DOMAIN profiles |->
                     IF n \in DOMAIN old.found THEN RowOf(old.found[n]) ELSE profiles[n]]
  BY <1>1 DEF Upserted
<1> HIDE DEF req, old
<1>6. \A n, p : Computed(n, p)' <=> Computed(n, p)
  BY <1>1 DEF Computed
<1>7. StoredInv'
  <2>1. DOMAIN profiles' = (DOMAIN old.found) \cup DOMAIN profiles
    BY <1>5
  <2>2. ASSUME NEW n \in DOMAIN profiles' PROVE \E p : Computed(n, p) /\ profiles'[n] = RowOf(p)
    BY <1>2, <1>5, <2>1 DEF StoredInv, FoundInv
  <2>3. DOMAIN profiles' \subseteq Networks
    BY <1>2, <2>1 DEF StoredInv, FoundInv
  <2>4. profiles' = [n \in DOMAIN profiles' |-> profiles'[n]]
    BY <1>5
  <2>5. QED
    BY <1>6, <2>2, <2>3, <2>4 DEF StoredInv
<1>8. FoundInv(req) /\ KindInv(req) /\ SealInv(req)
  BY <1>1, <1>2, <1>3, <1>4 DEF FoundInv, KindInv, SealInv
<1>9. ClearInv(req)
  BY <1>1, <1>2, <1>3, <1>4 DEF ClearInv
<1>10. \A s \in Requests : requests'[s] = requests[s] \/ requests'[s] = req
  BY <1>1
<1>11. \A s \in Requests : FoundInv(requests'[s]) /\ KindInv(requests'[s])
                           /\ ClearInv(requests'[s]) /\ SealInv(requests'[s])
  BY <1>8, <1>9, <1>10 DEF ServedInv
<1>12. \A s \in Requests : FoundInv(requests[s])' /\ KindInv(requests[s])'
                           /\ ClearInv(requests[s])' /\ SealInv(requests[s])'
  BY <1>1, <1>6, <1>11 DEF FoundInv, KindInv, ClearInv, SealInv
<1>13. HistoryInv'
  BY <1>1, <1>2 DEF HistoryInv
<1>14. QED
  BY <1>7, <1>12, <1>13 DEF ServedInv

\* Steps that end a request without an attestation, or hand it out.
LEMMA EndServed ==
  ASSUME IssuerInv, ServedInv, UNCHANGED <<clock, history, held, flagged, profiles>>,
         NEW r \in Requests, NEW answer, requests[r].phase # "new",
         requests' = [requests EXCEPT ![r] = Answered(requests[r], answer)],
         answer = "attestation" => requests[r].phase = "insert"
  PROVE  ServedInv'
<1> DEFINE req == Answered(requests[r], answer)
<1>1. DOMAIN requests = Requests /\ DOMAIN requests[r] = Fields
  BY DEF IssuerInv, Shape
<1>2. /\ req.kind = requests[r].kind /\ req.at = requests[r].at
      /\ req.found = requests[r].found /\ req.wasClear = requests[r].wasClear
      /\ req.signed = requests[r].signed
      /\ req.phase = "done" /\ req.answer = answer
  BY <1>1 DEF Answered, Fields
<1>3. requests' = [requests EXCEPT ![r] = req]
  OBVIOUS
<1> HIDE DEF req
<1>4. QED
  BY <1>1, <1>2, <1>3, MovesOn

LEMMA ReplyServed ==
  ASSUME IssuerInv, ServedInv, NEW r \in Requests,
         Reply(r) \/ NothingToAttest(r)
  PROVE  ServedInv'
<1>1. CASE Reply(r)
  BY <1>1, EndServed DEF Reply, Step
<1>2. CASE NothingToAttest(r)
  BY <1>2, EndServed DEF NothingToAttest, Step
<1>3. QED
  BY <1>1, <1>2

LEMMA CommitServed ==
  ASSUME IssuerInv, ServedInv, NEW r \in Requests, Commit(r)
  PROVE  ServedInv'
<1> DEFINE answer == IF requests[r].signed.nonce <= Len(rows) THEN "failed" ELSE "attestation"
<1>1. /\ requests[r].phase = "insert"
      /\ requests' = [requests EXCEPT ![r] = Answered(requests[r], answer)]
      /\ UNCHANGED <<clock, history, held, flagged, profiles>>
  BY DEF Commit, Step
<1> HIDE DEF answer
<1>2. QED
  BY <1>1, EndServed

LEMMA FailServed ==
  ASSUME IssuerInv, ServedInv, NEW r \in Requests, NEW committed, Fail(r, committed)
  PROVE  ServedInv'
<1>1. /\ requests[r].phase # "new"
      /\ requests' = [requests EXCEPT ![r] = Answered(requests[r], "failed")]
      /\ UNCHANGED <<clock, history, held, flagged, profiles>>
  BY DEF Fail, Active, IssuerInv, Shape
<1>2. QED
  BY <1>1, EndServed

\* The lock is taken with something to attest.
LEMMA TakeLockServed ==
  ASSUME IssuerInv, ServedInv, NEW r \in Requests, TakeLock(r)
  PROVE  ServedInv'
<1> DEFINE old == requests[r]
           req == Reached(r, "number")
<1>1. /\ requests' = [requests EXCEPT ![r] = req] /\ old.phase = "attest"
      /\ UNCHANGED <<clock, history, held, flagged, profiles>>
      /\ DOMAIN requests = Requests /\ DOMAIN old = Fields
      /\ Counted(old.found) # {}
  BY DEF TakeLock, Step, IssuerInv, Shape
<1>2. FoundInv(old) /\ KindInv(old) /\ ClearInv(old) /\ old.answer = "none"
  BY <1>1 DEF ServedInv, IssuerInv, SignedInv
<1>3. /\ req.kind = old.kind /\ req.at = old.at /\ req.wasClear = old.wasClear
      /\ req.found = old.found /\ req.answer = "none" /\ req.phase = "number"
  BY <1>1, <1>2 DEF Fields, Reached
<1> HIDE DEF req, old
<1>4. FoundInv(req) /\ KindInv(req) /\ SealInv(req)
  BY <1>1, <1>2, <1>3 DEF FoundInv, KindInv, SealInv
<1>5. ClearInv(req)
  BY <1>1, <1>2, <1>3 DEF ClearInv, KindInv
<1>6. QED
  BY <1>1, <1>4, <1>5, ServedStep

\* The sum is signed under the next number, or the request ends.
LEMMA SignNumberServed ==
  ASSUME IssuerInv, ServedInv, NEW r \in Requests, SignNumber(r)
  PROVE  ServedInv'
<1> DEFINE old == requests[r]
           signed == SignLimitAttestation(AttestedLimit(old.found, old.at), LastNonce + 1)
           req == [old EXCEPT !.signed = signed, !.phase = "insert"]
<1>1. /\ requests' = [requests EXCEPT ![r] = IF Signable(signed) THEN req
                                                                ELSE Answered(old, "failed")]
      /\ old.phase = "number"
      /\ UNCHANGED <<clock, history, held, flagged, profiles>>
      /\ DOMAIN requests = Requests /\ DOMAIN old = Fields
  BY DEF SignNumber, Step, IssuerInv, Shape
<1>2. FoundInv(old) /\ KindInv(old) /\ ClearInv(old) /\ SealInv(old) /\ old.answer = "none"
  BY <1>1 DEF ServedInv, IssuerInv, SignedInv
<1>3. /\ signed.nonce = LastNonce + 1
      /\ signed = SignLimitAttestation(AttestedLimit(old.found, old.at), signed.nonce)
  BY DEF SignLimitAttestation
<1>4. CASE Signable(signed)
  <2>1. requests' = [requests EXCEPT ![r] = req]
    BY <1>1, <1>4
  <2> HIDE DEF signed
  <2>2. /\ req.kind = old.kind /\ req.at = old.at /\ req.wasClear = old.wasClear
        /\ req.found = old.found /\ req.answer = "none" /\ req.phase = "insert"
        /\ req.signed = signed
    BY <1>1, <1>2 DEF Fields
  <2> HIDE DEF req, old
  <2>3. FoundInv(req) /\ KindInv(req)
    BY <1>1, <1>2, <2>2 DEF FoundInv, KindInv
  <2>4. SealInv(req)
    BY <1>1, <1>2, <1>3, <2>2 DEF SealInv
  <2>5. ClearInv(req)
    BY <1>1, <1>2, <2>2 DEF ClearInv, KindInv
  <2>6. QED
    BY <1>1, <2>1, <2>3, <2>4, <2>5, ServedStep
<1>5. CASE ~Signable(signed)
  <2>1. requests' = [requests EXCEPT ![r] = Answered(old, "failed")]
    BY <1>1, <1>5
  <2>2. QED
    BY <1>1, <2>1, EndServed
<1>6. QED
  BY <1>4, <1>5

\* At the start nothing has happened to the wallet.
LEMMA InitServed ==
  ASSUME IssuerAssumption, Init
  PROVE  ServedInv
<1>1. Absent \in Outcomes
  BY DEF Outcomes
<1>2. HistoryInv
  BY <1>1 DEF Init, HistoryInv, IssuerAssumption
<1>3. DOMAIN profiles = {} /\ profiles = <<>>
  <2>1. \A n : n \notin DOMAIN <<>>
    OBVIOUS
  <2>2. QED
    BY <2>1 DEF Init
<1>4. profiles = [n \in DOMAIN profiles |-> profiles[n]]
  BY <1>3
<1>5. StoredInv
  BY <1>3, <1>4 DEF StoredInv
<1>6. ASSUME NEW r \in Requests
      PROVE  /\ requests[r].at = 0 /\ DOMAIN requests[r].found = {}
             /\ requests[r].phase = "new" /\ requests[r].answer = "none"
  <2>1. requests[r].found = <<>> /\ requests[r].at = 0
        /\ requests[r].phase = "new" /\ requests[r].answer = "none"
    BY DEF Init, NewRequest
  <2>2. QED
    BY <1>3, <2>1 DEF Init
<1>7. \A r \in Requests : FoundInv(requests[r]) /\ KindInv(requests[r])
                          /\ ClearInv(requests[r]) /\ SealInv(requests[r])
  BY <1>6 DEF Init, FoundInv, KindInv, ClearInv, SealInv
<1>8. QED
  BY <1>2, <1>5, <1>7 DEF ServedInv

\* Time passes, or the worker indexes something.
LEMMA IndexServed ==
  ASSUME IssuerAssumption, ServedInv, Tick \/ \E n \in Networks, outcome \in Outcomes : Index(n, outcome)
  PROVE  ServedInv'
<1>1. clock \in 0..MAX_CLOCK /\ history \in [Networks -> Outcomes]
  BY DEF ServedInv, HistoryInv
<1>2. CASE Tick
  <2>1. /\ clock' = clock + 1 /\ history' = history /\ held' = Holding(history, clock + 1)
        /\ UNCHANGED <<flagged, profiles, requests>>
    BY <1>2 DEF Tick
  <2>2. PICK h, at : h = history /\ at = clock + 1
    OBVIOUS
  <2>3. h \in [Networks -> Outcomes] /\ at \in clock..MAX_CLOCK
    BY <1>1, <1>2, <2>2 DEF IssuerAssumption, Tick
  <2>4. clock' = at /\ history' = h /\ held' = Holding(h, at)
    BY <2>1, <2>2
  <2>5. QED
    BY <2>1, <2>3, <2>4, SurroundingsServed
<1>3. CASE \E n \in Networks, outcome \in Outcomes : Index(n, outcome)
  <2>1. PICK n \in Networks, outcome \in Outcomes : Index(n, outcome)
    BY <1>3
  <2>2. PICK h, at : h = [history EXCEPT ![n] = outcome] /\ at = clock
    OBVIOUS
  <2>3. h \in [Networks -> Outcomes] /\ at \in clock..MAX_CLOCK
    BY <1>1, <2>2
  <2>4. clock' = at /\ history' = h /\ held' = Holding(h, at)
        /\ UNCHANGED <<flagged, profiles, requests>>
    <3>1. history' = [history EXCEPT ![n] = outcome] /\ clock' = clock
          /\ UNCHANGED <<flagged, profiles, requests>>
      BY <2>1 DEF Index
    <3>2. history' = h
      BY <2>2, <3>1
    <3>3. held' = Holding(h, at)
      BY <2>1, <2>2 DEF Index, Holding
    <3>4. QED
      BY <2>2, <3>1, <3>2, <3>3
  <2>5. QED
    BY <2>3, <2>4, SurroundingsServed
<1>4. QED
  BY <1>2, <1>3

LEMMA NextServed ==
  ASSUME IssuerAssumption, IssuerInv, ServedInv, [Next]_vars
  PROVE  ServedInv'
<1>1. CASE UNCHANGED vars
  BY <1>1 DEF vars, ServedInv, HistoryInv, StoredInv, Computed, FoundInv, KindInv, ClearInv, SealInv
<1>2. CASE Tick \/ \E n \in Networks, outcome \in Outcomes : Index(n, outcome)
  BY <1>2, IndexServed
<1>3. CASE Flag
  BY <1>3, FlagServed
<1>4. ASSUME NEW r \in Requests, NEW kind \in Kinds, Arrive(r, kind) PROVE ServedInv'
  BY <1>4, ArriveServed
<1>5. ASSUME NEW r \in Requests, Serve(r) PROVE ServedInv'
  <2>1. {FALSE, DEVNET} \subseteq BOOLEAN
    BY DEF IssuerAssumption
  <2>2. QED
    BY <1>5, <2>1, ReadFlagServed, AskFlagServed, ReadProfilesServed, ReadHistoryServed,
       WriteProfilesServed, ReplyServed, TakeLockServed, SignNumberServed, CommitServed DEF Serve
<1>6. ASSUME NEW r \in Requests, NEW committed \in BOOLEAN, Fail(r, committed) PROVE ServedInv'
  BY <1>6, FailServed
<1>7. QED
  BY <1>1, <1>2, <1>3, <1>4, <1>5, <1>6 DEF Next

\* What both halves of the proof need holds in every state.
LEMMA ServedInductive ==
  ASSUME IssuerAssumption
  PROVE  Spec => [](IssuerInv /\ ServedInv)
<1>1. Init => IssuerInv /\ ServedInv
  BY InitInv, InitServed
<1>2. IssuerInv /\ ServedInv /\ [Next]_vars => (IssuerInv /\ ServedInv)'
  BY NextInv, NextServed
<1>3. QED
  BY <1>1, <1>2, PTL DEF Spec

-----------------------------------------------------------------------------
\* Comparing multiples of a second.
LEMMA FewerSeconds ==
  ASSUME IssuerAssumption, NEW x \in Nat, NEW y \in Nat, x * SECOND < y * SECOND + SECOND
  PROVE  x <= y
<1>1. SECOND \in Nat \ {0}
  BY DEF IssuerAssumption
<1>2. SUFFICES ASSUME x > y PROVE FALSE
  OBVIOUS
<1>3. PICK d \in Nat : x = y + 1 + d
  <2>1. x - y - 1 \in Nat /\ x = y + 1 + (x - y - 1)
    BY <1>2
  <2>2. QED
    BY <2>1
<1>4. x * SECOND = y * SECOND + SECOND + d * SECOND
  BY <1>1, <1>3
<1>5. d * SECOND \in Nat /\ y * SECOND \in Nat
  BY <1>1
<1>6. QED
  BY <1>1, <1>4, <1>5

\* Seconds of the chain are whole: a moment is in the one that began last.
LEMMA SecondOf ==
  ASSUME IssuerAssumption, NEW a \in Nat
  PROVE  /\ ToUnixSeconds(a) \in Nat
         /\ ToUnixSeconds(a) * SECOND \in Nat
         /\ ToUnixSeconds(a) * SECOND <= a
         /\ a < ToUnixSeconds(a) * SECOND + SECOND
<1>1. SECOND \in Nat \ {0}
  BY DEF IssuerAssumption
<1> DEFINE q == a \div SECOND
           rest == a % SECOND
<1>2. q \in Nat /\ rest \in 0..(SECOND - 1) /\ a = q * SECOND + rest
  BY <1>1
<1>3. ToUnixSeconds(a) = q
  BY DEF ToUnixSeconds
<1> HIDE DEF q, rest
<1>4. q * SECOND \in Nat
  BY <1>1, <1>2
<1>5. QED
  BY <1>1, <1>2, <1>3, <1>4

\* Later moments are not in earlier seconds.
LEMMA SecondsInOrder ==
  ASSUME IssuerAssumption, NEW a \in Nat, NEW b \in Nat, a <= b
  PROVE  ToUnixSeconds(a) <= ToUnixSeconds(b)
<1>1. PICK x, y : x = ToUnixSeconds(a) /\ y = ToUnixSeconds(b)
  OBVIOUS
<1>2. /\ x \in Nat /\ x * SECOND \in Nat /\ x * SECOND <= a
      /\ y \in Nat /\ y * SECOND \in Nat /\ b < y * SECOND + SECOND
  BY <1>1, SecondOf
<1>3. x * SECOND < y * SECOND + SECOND
  BY <1>2 DEF IssuerAssumption
<1>4. QED
  BY <1>1, <1>2, <1>3, FewerSeconds

\* A while has at most one second more than it has whole ones.
LEMMA SecondsLater ==
  ASSUME IssuerAssumption, NEW a \in Nat, NEW b \in Nat
  PROVE  ToUnixSeconds(a + b) <= ToUnixSeconds(a) + ToUnixSeconds(b) + 1
<1>1. PICK x, y, z : x = ToUnixSeconds(a) /\ y = ToUnixSeconds(b) /\ z = ToUnixSeconds(a + b)
  OBVIOUS
<1>2. /\ x \in Nat /\ x * SECOND \in Nat /\ a < x * SECOND + SECOND
      /\ y \in Nat /\ y * SECOND \in Nat /\ b < y * SECOND + SECOND
      /\ z \in Nat /\ z * SECOND \in Nat /\ z * SECOND <= a + b
  BY <1>1, SecondOf
<1>3. SECOND \in Nat \ {0}
  BY DEF IssuerAssumption
<1>4. (x + y + 1) * SECOND = x * SECOND + y * SECOND + SECOND
  BY <1>2, <1>3
<1>5. z * SECOND < (x + y + 1) * SECOND + SECOND
  BY <1>2, <1>3, <1>4
<1>6. z <= x + y + 1
  BY <1>2, <1>5, FewerSeconds
<1>7. QED
  BY <1>1, <1>6

\* Whole seconds are added as they are.
LEMMA WholeSecondsLater ==
  ASSUME IssuerAssumption, NEW a \in Nat, NEW k \in Nat
  PROVE  ToUnixSeconds(a + k * SECOND) <= ToUnixSeconds(a) + k
<1>1. SECOND \in Nat \ {0}
  BY DEF IssuerAssumption
<1>2. PICK b : b = k * SECOND /\ b \in Nat
  BY <1>1
<1>3. PICK x, z : x = ToUnixSeconds(a) /\ z = ToUnixSeconds(a + b)
  OBVIOUS
<1>4. /\ x \in Nat /\ x * SECOND \in Nat /\ a < x * SECOND + SECOND
      /\ z \in Nat /\ z * SECOND \in Nat /\ z * SECOND <= a + b
  BY <1>2, <1>3, SecondOf
<1>5. (x + k) * SECOND = x * SECOND + b
  BY <1>1, <1>2, <1>4
<1>6. z * SECOND < (x + k) * SECOND + SECOND
  BY <1>1, <1>2, <1>4, <1>5
<1>7. z <= x + k
  BY <1>4, <1>6, FewerSeconds
<1>8. QED
  BY <1>2, <1>3, <1>7

\* Moments have a first one.
LEMMA FirstMoment ==
  ASSUME NEW S \in SUBSET Nat, S # {}
  PROVE  Min(S) \in S /\ \A x \in S : Min(S) <= x
<1> DEFINE R == OpToRel(<, Nat)
<1>1. IsWellFoundedOn(R, Nat)
  BY NatLessThanWellFounded
<1> HIDE DEF R
<1>2. PICK m \in S : \A e \in S : ~(<<e, m>> \in R)
  BY <1>1, WFMin
<1>3. \A e \in S : ~(e < m)
  BY <1>2 DEF R, OpToRel
<1>4. \E y \in S : \A x \in S : y =< x
  BY <1>3
<1>5. Min(S) \in S /\ \A x \in S : Min(S) =< x
  BY <1>4 DEF Min
<1>6. QED
  BY <1>5

\* What an attestation that was handed out says of the profiles it sums.
LEMMA SealedIs ==
  ASSUME IssuerAssumption, IssuerInv, ServedInv, NEW r \in Requests, Attested(r)
  PROVE  /\ requests[r].at \in Nat
         /\ Counted(requests[r].found) = {n \in DOMAIN requests[r].found :
                                            requests[r].found[n].reason = "none"}
         /\ requests[r].signed = SignLimitAttestation(
              AttestedLimit(requests[r].found, requests[r].at), requests[r].signed.nonce)
         /\ \E oldest, first \in Nat :
              /\ requests[r].signed.computed_at = ToUnixSeconds(oldest)
              /\ requests[r].signed.expires_at = ToUnixSeconds(first)
              /\ first <= oldest + TTL
              /\ first <= requests[r].at + ATTESTATION_TTL
              /\ \A n \in Counted(requests[r].found) : first <= requests[r].found[n].expiresAt
<1> DEFINE req == requests[r]
           counted == Counted(req.found)
           C == {req.found[n].computedAt : n \in counted}
           E == {req.at + ATTESTATION_TTL} \union {req.found[n].expiresAt : n \in counted}
<1>1. FoundInv(req) /\ SealInv(req) /\ req.answer = "attestation"
  BY DEF ServedInv, Attested
<1>2. req.at \in Nat /\ counted # {}
      /\ req.signed = SignLimitAttestation(AttestedLimit(req.found, req.at), req.signed.nonce)
  BY <1>1 DEF FoundInv, SealInv
<1>3. \A n \in DOMAIN req.found :
        /\ req.found[n].computedAt \in Nat
        /\ req.found[n].expiresAt = req.found[n].computedAt + TTL
        /\ req.found[n].limit # NO_LIMIT <=> req.found[n].reason = "none"
  BY <1>1, ComputedIs DEF FoundInv
<1>4. counted = {n \in DOMAIN req.found : req.found[n].reason = "none"}
  BY <1>3 DEF Counted
<1>5. TTL \in Nat /\ ATTESTATION_TTL \in Nat
  BY DEF IssuerAssumption
<1>6. counted \subseteq DOMAIN req.found
  BY DEF Counted
<1>7. /\ req.signed.computed_at = ToUnixSeconds(Min(C))
      /\ req.signed.expires_at = ToUnixSeconds(Min(E))
  <2>1. PICK a, k : a = AttestedLimit(req.found, req.at) /\ k = req.signed.nonce
    OBVIOUS
  <2>2. a.computedAt = Min(C) /\ a.expiresAt = Min(E)
    BY <2>1 DEF AttestedLimit
  <2>3. /\ req.signed.computed_at = ToUnixSeconds(a.computedAt)
        /\ req.signed.expires_at = ToUnixSeconds(a.expiresAt)
    BY <1>2, <2>1 DEF SignLimitAttestation
  <2>4. QED
    BY <2>2, <2>3
<1> HIDE DEF req, counted
<1>8. Min(C) \in C /\ Min(E) \in E /\ \A x \in E : Min(E) <= x
      /\ Min(C) \in Nat /\ Min(E) \in Nat
  <2>1. C \in SUBSET Nat /\ C # {}
    BY <1>2, <1>3, <1>6
  <2>2. E \in SUBSET Nat /\ E # {}
    BY <1>2, <1>3, <1>5, <1>6
  <2> HIDE DEF C, E
  <2>3. QED
    BY <2>1, <2>2, FirstMoment
<1>9. PICK n \in counted : Min(C) = req.found[n].computedAt
  BY <1>8
<1>10. req.found[n].expiresAt = Min(C) + TTL
  BY <1>3, <1>6, <1>9
<1>11. /\ Min(E) <= Min(C) + TTL
       /\ Min(E) <= req.at + ATTESTATION_TTL
       /\ \A m \in counted : Min(E) <= req.found[m].expiresAt
  BY <1>8, <1>10
<1>12. \E oldest, first \in Nat :
         /\ req.signed.computed_at = ToUnixSeconds(oldest)
         /\ req.signed.expires_at = ToUnixSeconds(first)
         /\ first <= oldest + TTL
         /\ first <= req.at + ATTESTATION_TTL
         /\ \A m \in counted : first <= req.found[m].expiresAt
  BY <1>7, <1>8, <1>11
<1>13. QED
  BY <1>2, <1>4, <1>12 DEF req, counted

-----------------------------------------------------------------------------
LEMMA ServedTypes ==
  ASSUME IssuerAssumption, IssuerInv, ServedInv
  PROVE  TypeOK
<1>1. clock \in 0..MAX_CLOCK /\ DOMAIN profiles \subseteq Networks /\ lock \subseteq Requests
  BY DEF ServedInv, HistoryInv, StoredInv, IssuerInv, Shape
<1>2. ASSUME NEW r \in Requests
      PROVE  /\ requests[r].phase # "new" => requests[r].kind \in Kinds
             /\ requests[r].at \in 0..clock
             /\ DOMAIN requests[r].found \subseteq Networks
  BY <1>1 DEF ServedInv, FoundInv, KindInv
<1>3. ASSUME NEW n \in DOMAIN profiles
      PROVE  (profiles[n].status = "available") <=> (profiles[n].limit # NO_LIMIT)
  BY DEF ServedInv, StoredInv, RowOf, StatusOf
<1>4. QED
  BY <1>1, <1>2, <1>3 DEF TypeOK

LEMMA ServedFresh ==
  ASSUME ServedInv
  PROVE  AnswersAreFresh
<1>1. ASSUME NEW n, NEW p, Computed(n, p) PROVE Genuine(n, p)
  <2>1. PICK o \in Outcomes \ {Absent}, at \in Nat : p = ProfileOf(o, at) /\ held[n][o] >= at
    BY <1>1 DEF Computed
  <2>2. p.computedAt = at
    BY <2>1 DEF ProfileOf
  <2>3. QED
    BY <2>1, <2>2 DEF Genuine
<1>2. QED
  BY <1>1 DEF ServedInv, FoundInv, AnswersAreFresh

LEMMA ServedBacked ==
  ASSUME IssuerAssumption, IssuerInv, ServedInv
  PROVE  AttestationsAreBacked
<1>1. ASSUME NEW r \in Requests, Attested(r),
             NEW n \in Counted(requests[r].found)
      PROVE  requests[r].signed.expires_at * SECOND <= requests[r].found[n].expiresAt
  <2>1. PICK first \in Nat : /\ requests[r].signed.expires_at = ToUnixSeconds(first)
                             /\ first <= requests[r].found[n].expiresAt
    BY <1>1, SealedIs
  <2>2. PICK z : z = ToUnixSeconds(first) * SECOND
    OBVIOUS
  <2>3. z \in Nat /\ z <= first
    BY <2>2, SecondOf
  <2>4. requests[r].found[n].expiresAt \in Nat
    <3>1. n \in DOMAIN requests[r].found /\ FoundInv(requests[r])
      BY DEF Counted, ServedInv
    <3>2. QED
      BY <3>1, ComputedIs DEF FoundInv, IssuerAssumption
  <2>5. QED
    BY <2>1, <2>2, <2>3, <2>4
<1>2. ASSUME NEW r \in Requests, Attested(r)
      PROVE  requests[r].signed.limit =
               MapThenSumSet(LAMBDA n : requests[r].found[n].limit, Counted(requests[r].found))
  <2>1. requests[r].signed = SignLimitAttestation(
              AttestedLimit(requests[r].found, requests[r].at), requests[r].signed.nonce)
    BY <1>2, SealedIs
  <2>2. PICK att, k : att = AttestedLimit(requests[r].found, requests[r].at)
                      /\ k = requests[r].signed.nonce
    OBVIOUS
  <2>3. requests[r].signed.limit = att.limit
    BY <2>1, <2>2 DEF SignLimitAttestation
  <2>4. att.limit =
          MapThenSumSet(LAMBDA n : requests[r].found[n].limit, Counted(requests[r].found))
    BY <2>2 DEF AttestedLimit
  <2>5. QED
    BY <2>3, <2>4
<1>3. \A r \in Requests : Attested(r) =>
        Counted(requests[r].found) = {n \in DOMAIN requests[r].found :
                                        requests[r].found[n].reason = "none"}
  BY SealedIs
<1>4. QED
  BY <1>1, <1>2, <1>3 DEF AttestationsAreBacked

LEMMA ServedAccepted ==
  ASSUME IssuerAssumption, IssuerInv, ServedInv
  PROVE  AttestationsAreAccepted
<1>1. ASSUME NEW r \in Requests, Attested(r),
             NEW now \in (ToUnixSeconds(requests[r].at) - MAX_SKEW)
                           ..(requests[r].signed.expires_at - 1)
      PROVE  LimitVerified(requests[r].signed, ATTESTOR, WALLET, now)
  <2>1. PICK oldest \in Nat, first \in Nat :
          /\ requests[r].signed.computed_at = ToUnixSeconds(oldest)
          /\ requests[r].signed.expires_at = ToUnixSeconds(first)
          /\ first <= oldest + TTL
          /\ first <= requests[r].at + ATTESTATION_TTL
    BY <1>1, SealedIs
  <2>2. PICK a : a = requests[r].at /\ a \in Nat
    BY <1>1, SealedIs
  <2>3. PICK s, c, e, d : /\ s = ToUnixSeconds(a) /\ c = ToUnixSeconds(oldest)
                          /\ e = ToUnixSeconds(first) /\ d = ToUnixSeconds(ATTESTATION_TTL)
    OBVIOUS
  <2>4. /\ {ATTESTATION_TTL, MAX_LIMIT_AGE, MAX_SKEW, MAX_REMAINING_VALIDITY, TTL} \subseteq Nat
        /\ d + 1 + MAX_SKEW <= MAX_REMAINING_VALIDITY
        /\ TTL = MAX_LIMIT_AGE * SECOND
    BY <2>3 DEF IssuerAssumption, ToUnixSeconds
  <2>5. s \in Nat /\ c \in Nat /\ e \in Nat /\ d \in Nat
    BY <2>2, <2>3, <2>4, SecondOf
  <2>6. e <= s + d + 1
    <3>1. e <= ToUnixSeconds(a + ATTESTATION_TTL)
      BY <2>1, <2>2, <2>3, <2>4, SecondsInOrder
    <3>2. ToUnixSeconds(a + ATTESTATION_TTL) <= s + d + 1
      BY <2>2, <2>3, <2>4, SecondsLater
    <3>3. ToUnixSeconds(a + ATTESTATION_TTL) \in Nat
      BY <2>2, <2>4, SecondOf
    <3>4. QED
      BY <2>5, <3>1, <3>2, <3>3
  <2>7. e <= c + MAX_LIMIT_AGE
    <3>1. PICK t : t = oldest + TTL /\ t \in Nat
      BY <2>4
    <3>2. e <= ToUnixSeconds(t)
      BY <2>1, <2>3, <3>1, SecondsInOrder
    <3>3. ToUnixSeconds(oldest + MAX_LIMIT_AGE * SECOND) <= c + MAX_LIMIT_AGE
      BY <2>3, <2>4, WholeSecondsLater
    <3>4. ToUnixSeconds(t) <= c + MAX_LIMIT_AGE /\ ToUnixSeconds(t) \in Nat
      BY <2>4, <3>1, <3>3, SecondOf
    <3>5. QED
      BY <2>4, <2>5, <3>2, <3>4
  <2>8. now \in (s - MAX_SKEW)..(e - 1)
    BY <2>1, <2>2, <2>3
  <2>9. requests[r].signed.signer = ATTESTOR /\ requests[r].signed.operator = WALLET
    <3>1. PICK att, k : /\ att = AttestedLimit(requests[r].found, requests[r].at)
                        /\ k = requests[r].signed.nonce
      OBVIOUS
    <3>2. requests[r].signed = SignLimitAttestation(att, k)
      BY <1>1, <3>1, SealedIs
    <3>3. QED
      BY <3>2 DEF SignLimitAttestation
  <2>10. requests[r].signed.computed_at = c /\ requests[r].signed.expires_at = e
    BY <2>1, <2>3
  <2>11. /\ now < e /\ e - now <= MAX_REMAINING_VALIDITY
         /\ now - c <= MAX_LIMIT_AGE
    BY <2>4, <2>5, <2>6, <2>7, <2>8
  <2>12. QED
    BY <2>9, <2>10, <2>11 DEF LimitVerified
<1>2. QED
  BY <1>1 DEF AttestationsAreAccepted

LEMMA ServedClear ==
  ASSUME ServedInv
  PROVE  NotSignedWhileFlagged
BY DEF ServedInv, ClearInv, Attested, NotSignedWhileFlagged

\* A request's kind, arrival and networks are what their names say, the lock is held by
\* requests, and a row has a limit exactly if it says so, as the schema demands.
THEOREM IssuerTypeCorrect == IssuerAssumption /\ Spec => []TypeOK
<1> SUFFICES ASSUME IssuerAssumption PROVE Spec => []TypeOK
  OBVIOUS
<1>1. IssuerInv /\ ServedInv => TypeOK
  BY ServedTypes
<1> QED
  BY <1>1, ServedInductive, PTL

\* limit.ts: for any number of requests, networks, recomputations and writes that overlap,
\* what is shown or attested is a profile as it was computed, of less than 24 hours before
\* the request, and of the request itself when that asked for it anew.
THEOREM AnswersStayFresh == IssuerAssumption /\ Spec => []AnswersAreFresh
<1> SUFFICES ASSUME IssuerAssumption PROVE Spec => []AnswersAreFresh
  OBVIOUS
<1>1. ServedInv => AnswersAreFresh
  BY ServedFresh
<1> QED
  BY <1>1, ServedInductive, PTL

\* attestations.ts: what is signed is the sum of the limits of the networks that have one,
\* and is not valid beyond the moment any of them expires, whatever a second is.
THEOREM AttestationsStayBacked == IssuerAssumption /\ Spec => []AttestationsAreBacked
<1> SUFFICES ASSUME IssuerAssumption PROVE Spec => []AttestationsAreBacked
  OBVIOUS
<1>1. IssuerInv /\ ServedInv => AttestationsAreBacked
  BY ServedBacked
<1> QED
  BY <1>1, ServedInductive, PTL

\* verify_attestation.rs: the program, whose clock counts whole seconds and trails the
\* server's by as much as its limits leave room for, takes what was handed out from the
\* moment it was asked for until it expires.
THEOREM AttestationsStayAccepted == IssuerAssumption /\ Spec => []AttestationsAreAccepted
<1> SUFFICES ASSUME IssuerAssumption PROVE Spec => []AttestationsAreAccepted
  OBVIOUS
<1>1. IssuerInv /\ ServedInv => AttestationsAreAccepted
  BY ServedAccepted
<1> QED
  BY <1>1, ServedInductive, PTL

\* FR-017: a wallet whose loans waited for a manual repayment during all of a request is
\* given no attestation by it, unless devnet did not answer.
THEOREM NeverSignedWhileFlagged == IssuerAssumption /\ Spec => []NotSignedWhileFlagged
<1> SUFFICES ASSUME IssuerAssumption PROVE Spec => []NotSignedWhileFlagged
  OBVIOUS
<1>1. ServedInv => NotSignedWhileFlagged
  BY ServedClear
<1> QED
  BY <1>1, ServedInductive, PTL

-----------------------------------------------------------------------------
(* The limits that are handed out: Scoring, whatever its constants. *)

\* Scoring counts and adds as is done above.
LEMMA ScoresAlike ==
  /\ \A S : Scores!Cardinality(S) = Cardinality(S)
  /\ \A S, f : Scores!SumFunctionOnSet(f, S) = SumFunctionOnSet(f, S)
  /\ \A S : Scores!Min(S) = Min(S)
<1>1. \A S : Scores!Cardinality(S) = Cardinality(S)
  BY DEF Scores!Cardinality, Cardinality
<1>2. \A S, f : Scores!SumFunctionOnSet(f, S) = SumFunctionOnSet(f, S)
  BY DEF Scores!SumFunctionOnSet, Scores!FoldFunctionOnSet, Scores!MapThenFoldSet,
         SumFunctionOnSet, FoldFunctionOnSet, MapThenFoldSet
<1>3. \A S : Scores!Min(S) = Min(S)
  BY DEF Scores!Min, Min
<1>4. QED
  BY <1>1, <1>2, <1>3

\* The least and the greatest of some numbers.
LEMMA LeastIsThere ==
  ASSUME NEW V \in SUBSET Nat, V # {}
  PROVE  \E v \in V : \A w \in V : v <= w
<1> DEFINE R == OpToRel(<, Nat)
<1>1. IsWellFoundedOn(R, Nat)
  BY NatLessThanWellFounded
<1> HIDE DEF R
<1>2. PICK v \in V : \A w \in V : ~(<<w, v>> \in R)
  BY <1>1, WFMin
<1>3. \A w \in V : ~(w < v)
  BY <1>2 DEF R, OpToRel
<1>4. QED
  BY <1>3

LEMMA GreatestIsThere ==
  ASSUME NEW S, IsFiniteSet(S), S # {}, NEW f, \A i \in S : f[i] \in Nat
  PROVE  \E i \in S : \A j \in S : f[j] <= f[i]
<1> DEFINE Good == {T \in SUBSET S : T = {} \/ \E i \in T : \A j \in T : f[j] <= f[i]}
<1>1. {} \in Good
  OBVIOUS
<1>2. ASSUME NEW T \in SUBSET S, NEW x \in T, T \ {x} \in Good PROVE T \in Good
  <2>1. CASE T \ {x} = {}
    <3>1. \A j \in T : f[j] <= f[x]
      BY <2>1
    <3>2. QED
      BY <3>1
  <2>2. CASE T \ {x} # {}
    <3>1. PICK i \in T \ {x} : \A j \in T \ {x} : f[j] <= f[i]
      BY <1>2, <2>2
    <3>2. f[i] \in Nat /\ f[x] \in Nat
      BY <3>1
    <3>3. CASE f[x] <= f[i]
      <4>1. \A j \in T : f[j] <= f[i]
        BY <3>1, <3>3
      <4>2. QED
        BY <3>1, <4>1
    <3>4. CASE f[i] < f[x]
      <4>1. \A j \in T : f[j] <= f[x]
        BY <3>1, <3>2, <3>4
      <4>2. QED
        BY <4>1
    <3>5. QED
      BY <3>2, <3>3, <3>4
  <2>3. QED
    BY <2>1, <2>2
<1>3. S \in Good
  <2> HIDE DEF Good
  <2>1. QED
    BY <1>1, <1>2, ElementInduction
<1>4. QED
  BY <1>3

\* The k-th smallest of some numbers is one of them, fewer than k are below it and no fewer than k
\* are up to it.
LEMMA KthIsThere ==
  ASSUME NEW S, IsFiniteSet(S), NEW f, \A i \in S : f[i] \in Nat,
         NEW k \in 1..Cardinality(S)
  PROVE  /\ \E i \in S : f[i] = Scores!Kth(f, S, k)
         /\ Scores!Kth(f, S, k) \in Nat
         /\ Cardinality({i \in S : f[i] < Scores!Kth(f, S, k)}) < k
         /\ Cardinality({i \in S : f[i] <= Scores!Kth(f, S, k)}) >= k
<1> DEFINE v == Scores!Kth(f, S, k)
           Below(w) == {i \in S : f[i] < w}
           UpTo(w)  == {i \in S : f[i] <= w}
           V == {w \in {f[i] : i \in S} : Cardinality(UpTo(w)) >= k}
<1>1. /\ Cardinality(S) \in Nat
      /\ \A T \in SUBSET S : IsFiniteSet(T) /\ Cardinality(T) \in Nat
  <2>1. \A T \in SUBSET S : IsFiniteSet(T)
    BY FS_Subset
  <2>2. QED
    BY <2>1, FS_CardinalityType
<1>2. \A w : UpTo(w) \in SUBSET S /\ Below(w) \in SUBSET S
  OBVIOUS
<1>3. V # {}
  <2>1. S # {}
    <3>1. ASSUME S = {} PROVE FALSE
      BY <3>1, FS_EmptySet
    <3>2. QED
      BY <3>1
  <2>2. PICK i \in S : \A j \in S : f[j] <= f[i]
    BY <2>1, GreatestIsThere
  <2>3. UpTo(f[i]) = S
    BY <2>2
  <2>4. f[i] \in V
    BY <1>1, <2>3
  <2>5. QED
    BY <2>4
<1>4. V \in SUBSET Nat
  OBVIOUS
<1> HIDE DEF V
<1>5. PICK p \in V : \A w \in V : p <= w
  BY <1>3, <1>4, LeastIsThere
<1>6. /\ p \in {f[i] : i \in S} /\ p \in Nat
      /\ Cardinality(UpTo(p)) >= k
  BY <1>4, <1>5 DEF V
<1>7. Cardinality(Below(p)) < k
  <2>1. CASE Below(p) = {}
    <3>1. Cardinality(Below(p)) = 0
      BY <2>1, FS_EmptySet
    <3>2. QED
      BY <1>1, <3>1
  <2>2. CASE Below(p) # {}
    <3> DEFINE T == Below(p)
    <3>1. IsFiniteSet(T) /\ T # {} /\ \A i \in T : f[i] \in Nat
      BY <1>1, <2>2
    <3> HIDE DEF T
    <3>2. PICK i \in T : \A j \in T : f[j] <= f[i]
      BY <3>1, GreatestIsThere
    <3>3. i \in S /\ f[i] < p /\ f[i] \in Nat
      BY <3>2 DEF T
    <3>4. UpTo(f[i]) = Below(p)
      <4>1. ASSUME NEW j \in S PROVE f[j] <= f[i] <=> f[j] < p
        <5>1. f[j] < p => f[j] <= f[i]
          BY <3>2 DEF T
        <5>2. f[j] <= f[i] => f[j] < p
          BY <1>6, <3>3
        <5>3. QED
          BY <5>1, <5>2
      <4>2. QED
        BY <4>1
    <3>5. f[i] \notin V
      BY <1>5, <1>6, <3>3
    <3>6. ~(Cardinality(UpTo(f[i])) >= k)
      BY <3>3, <3>5 DEF V
    <3>7. Cardinality(Below(p)) \in Nat
      BY <1>1, <1>2
    <3> HIDE DEF Below, UpTo
    <3>8. QED
      BY <1>1, <3>4, <3>6, <3>7
  <2>3. QED
    BY <2>1, <2>2
<1>8. \E w \in {f[i] : i \in S} :
        /\ Cardinality({i \in S : f[i] < w}) < k
        /\ Cardinality({i \in S : f[i] <= w}) >= k
  BY <1>6, <1>7
<1>9. /\ v \in {f[i] : i \in S}
      /\ Cardinality({i \in S : f[i] < v}) < k
      /\ Cardinality({i \in S : f[i] <= v}) >= k
  <2> DEFINE A(w) == /\ Scores!Cardinality({i \in S : f[i] < w}) < k
                     /\ Scores!Cardinality({i \in S : f[i] <= w}) >= k
             W == {f[i] : i \in S}
  <2>1. v = CHOOSE w \in W : A(w)
    BY DEF Scores!Kth
  <2>2. \E w \in W : A(w)
    BY <1>8, ScoresAlike
  <2>3. v \in W /\ A(v)
    <3> HIDE DEF A, W
    <3>1. QED
      BY <2>1, <2>2
  <2>4. QED
    BY <2>3, ScoresAlike
<1>10. QED
  BY <1>9

\* Of larger numbers a later one is no smaller.
LEMMA KthGrows ==
  ASSUME NEW S, IsFiniteSet(S), NEW f, NEW g,
         \A i \in S : f[i] \in Nat /\ g[i] \in Nat /\ f[i] <= g[i],
         NEW k \in 1..Cardinality(S), NEW l \in 1..Cardinality(S), k <= l
  PROVE  Scores!Kth(f, S, k) <= Scores!Kth(g, S, l)
<1> DEFINE x == Scores!Kth(f, S, k)
           y == Scores!Kth(g, S, l)
           Low  == {i \in S : f[i] < x}
           High == {i \in S : g[i] <= y}
<1>1. x \in Nat /\ Cardinality(Low) < k
  <2>1. \A i \in S : f[i] \in Nat
    OBVIOUS
  <2>2. QED
    BY <2>1, KthIsThere
<1>2. y \in Nat /\ Cardinality(High) >= l
  <2>1. \A i \in S : g[i] \in Nat
    OBVIOUS
  <2>2. QED
    BY <2>1, KthIsThere
<1> HIDE DEF x, y
<1>3. ASSUME y < x PROVE FALSE
  <2>1. High \subseteq Low
    BY <1>1, <1>2, <1>3
  <2>2. IsFiniteSet(Low)
    BY FS_Subset
  <2> HIDE DEF High, Low
  <2>3. Cardinality(High) <= Cardinality(Low) /\ IsFiniteSet(High)
    BY <2>1, <2>2, FS_Subset
  <2>4. Cardinality(High) \in Nat /\ Cardinality(Low) \in Nat
    BY <2>2, <2>3, FS_CardinalityType
  <2>5. k \in Nat /\ l \in Nat
    BY FS_CardinalityType
  <2>6. QED
    BY <1>1, <1>2, <2>3, <2>4, <2>5
<1>4. QED
  BY <1>1, <1>2, <1>3 DEF x, y

-----------------------------------------------------------------------------
(* The history and what is computed from it. *)

ScoringInv ==
  /\ month \in PERIOD..MAX_MONTH
  /\ payouts \in [Scores!AllDays -> Nat]
  /\ prices \in [Scores!AllDays -> Nat]

\* What is assumed of the constants, one by one.
LEMMA ScoringNumbers ==
  ASSUME Scores!ScoringAssumption
  PROVE  /\ DAYS \in Nat \ {0} /\ PERIOD \in Nat \ {0} /\ REQUIRED_PAID_MONTHS \in Nat \ {0}
         /\ RECENT_PRICE_DAYS \in Nat \ {0} /\ MONTHS_OF_FLOW \in Nat \ {0}
         /\ BASIS_POINTS \in Nat \ {0} /\ UNIT \in Nat \ {0} /\ MAX_MONTH \in Nat
         /\ REQUIRED_PAID_MONTHS <= PERIOD /\ PERIOD <= MAX_MONTH
         /\ VOLATILITY_CAP_BP \in 0..BASIS_POINTS
         /\ Amounts \subseteq Nat \ {0} /\ Prices \subseteq Nat \ {0}
BY DEF Scores!ScoringAssumption

\* The days of a month are days.
LEMMA DaysOfMonths ==
  ASSUME Scores!ScoringAssumption, NEW m \in 1..MAX_MONTH
  PROVE  Scores!DaysOf(m) \subseteq Scores!AllDays /\ Scores!AllDays \subseteq Nat \ {0}
<1> DEFINE low == (m - 1) * DAYS
           high == m * DAYS
           last == MAX_MONTH * DAYS
<1>1. DAYS \in Nat \ {0} /\ MAX_MONTH \in Nat /\ m \in Nat /\ m - 1 \in Nat /\ m <= MAX_MONTH
  BY ScoringNumbers
<1>2. low \in Nat /\ high \in Nat /\ last \in Nat /\ high <= last
  BY <1>1, Multiply
<1>3. Scores!DaysOf(m) = low + 1..high /\ Scores!AllDays = 1..last
  BY DEF Scores!DaysOf, Scores!AllDays
<1> HIDE DEF low, high, last
<1>4. QED
  BY <1>2, <1>3

\* There are finitely many days.
LEMMA DaysAreFew ==
  ASSUME Scores!ScoringAssumption
  PROVE  /\ IsFiniteSet(Scores!AllDays)
         /\ \A T \in SUBSET Scores!AllDays : IsFiniteSet(T) /\ Cardinality(T) \in Nat
<1>1. MAX_MONTH * DAYS \in Nat
  BY ScoringNumbers, Multiply
<1>2. IsFiniteSet(Scores!AllDays)
  BY <1>1, FS_Interval DEF Scores!AllDays
<1>3. \A T \in SUBSET Scores!AllDays : IsFiniteSet(T)
  BY <1>2, FS_Subset
<1>4. QED
  BY <1>2, <1>3, FS_CardinalityType

\* The months of the history.
LEMMA MonthsOfHistory ==
  ASSUME Scores!ScoringAssumption, ScoringInv
  PROVE  /\ Scores!Months \subseteq 1..MAX_MONTH
         /\ IsFiniteSet(Scores!Months) /\ Cardinality(Scores!Months) = PERIOD
         /\ Scores!PeriodDays \subseteq Scores!AllDays
         /\ Scores!PaidMonths \subseteq Scores!Months
         /\ \A T \in SUBSET Scores!Months : IsFiniteSet(T) /\ Cardinality(T) \in 0..PERIOD
<1>1. /\ PERIOD \in Nat \ {0} /\ MAX_MONTH \in Nat
      /\ month \in Nat /\ PERIOD <= month /\ month <= MAX_MONTH
  BY ScoringNumbers DEF ScoringInv
<1>2. Scores!Months = month - PERIOD + 1..month
  BY DEF Scores!Months
<1>3. Scores!Months \subseteq 1..MAX_MONTH
  BY <1>1, <1>2
<1>4. IsFiniteSet(Scores!Months) /\ Cardinality(Scores!Months) = PERIOD
  <2> DEFINE a == month - PERIOD + 1
  <2>1. a \in Int /\ month \in Int /\ a <= month /\ month - a + 1 = PERIOD
    BY <1>1
  <2> HIDE DEF a
  <2>2. IsFiniteSet(a..month) /\ Cardinality(a..month) = month - a + 1
    BY <2>1, FS_Interval
  <2>3. QED
    BY <1>2, <2>1, <2>2 DEF a
<1>5. Scores!PeriodDays \subseteq Scores!AllDays
  BY <1>3, DaysOfMonths DEF Scores!PeriodDays
<1>6. \A T \in SUBSET Scores!Months :
        /\ IsFiniteSet(T) /\ Cardinality(T) \in Nat
        /\ Cardinality(T) <= Cardinality(Scores!Months)
  BY <1>4, FS_Subset, FS_CardinalityType
<1>7. \A T \in SUBSET Scores!Months : IsFiniteSet(T) /\ Cardinality(T) \in 0..PERIOD
  BY <1>1, <1>4, <1>6
<1>8. QED
  BY <1>3, <1>4, <1>5, <1>7 DEF Scores!PaidMonths

\* What a month holds.
LEMMA MonthHolds ==
  ASSUME Scores!ScoringAssumption, ScoringInv, NEW m \in 1..MAX_MONTH
  PROVE  /\ Scores!PaidDays(m) \subseteq Scores!AllDays
         /\ IsFiniteSet(Scores!PaidDays(m))
         /\ \A d \in Scores!PaidDays(m) : payouts[d] \in Nat \ {0}
         /\ Scores!AmountOf(m) = SumFunctionOnSet(payouts, Scores!PaidDays(m))
         /\ Scores!AmountOf(m) \in Nat
<1>1. Scores!PaidDays(m) \subseteq Scores!AllDays
  BY DaysOfMonths DEF Scores!PaidDays
<1>2. IsFiniteSet(Scores!PaidDays(m))
  BY <1>1, DaysAreFew
<1>3. \A d \in Scores!PaidDays(m) : payouts[d] \in Nat \ {0}
  BY <1>1 DEF Scores!PaidDays, ScoringInv
<1>4. Scores!AmountOf(m) = SumFunctionOnSet(payouts, Scores!PaidDays(m))
  BY ScoresAlike DEF Scores!AmountOf
<1>5. Scores!AmountOf(m) \in Nat
  BY <1>2, <1>3, <1>4, SumOfNaturals
<1>6. QED
  BY <1>1, <1>2, <1>3, <1>4, <1>5

\* The history stays one.
LEMMA ScoringInductive == Scores!ScoringAssumption /\ Scores!Spec => []ScoringInv
<1> SUFFICES ASSUME Scores!ScoringAssumption PROVE Scores!Spec => []ScoringInv
  OBVIOUS
<1>1. Scores!Init => ScoringInv
  BY ScoringNumbers DEF Scores!Init, ScoringInv
<1>2. ScoringInv /\ [Scores!Next]_(Scores!vars) => ScoringInv'
  <2>1. ASSUME ScoringInv, NEW d \in Scores!AllDays, NEW amount \in Amounts,
               Scores!Pay(d, amount)
        PROVE  ScoringInv'
    BY <2>1, ScoringNumbers DEF Scores!Pay, ScoringInv, Scores!AllDays
  <2>2. ASSUME ScoringInv, NEW d \in Scores!AllDays, NEW price \in Prices,
               Scores!Quote(d, price)
        PROVE  ScoringInv'
    BY <2>2, ScoringNumbers DEF Scores!Quote, ScoringInv, Scores!AllDays
  <2>3. ASSUME ScoringInv, Scores!MonthPasses PROVE ScoringInv'
    BY <2>3, ScoringNumbers DEF Scores!MonthPasses, ScoringInv, Scores!AllDays
  <2>4. ASSUME ScoringInv, UNCHANGED Scores!vars PROVE ScoringInv'
    BY <2>4 DEF Scores!vars, ScoringInv, Scores!AllDays
  <2>5. QED
    BY <2>1, <2>2, <2>3, <2>4 DEF Scores!Next
<1>3. QED
  BY <1>1, <1>2, PTL DEF Scores!Spec

-----------------------------------------------------------------------------
(* The factors of a limit. *)

\* What comes out of a history.
LEMMA OutcomesAre ==
  /\ Scores!Outcome = "limit" <=> Scores!Eligible /\ Scores!RecentQuotes # {}
  /\ Scores!Outcome = "short-history" <=> ~Scores!Eligible
BY DEF Scores!Outcome

\* The mean change of the price is a number, and what counts of it is at most all.
LEMMA VolatilityIsShare ==
  ASSUME Scores!ScoringAssumption, ScoringInv
  PROVE  Scores!VolatilityBp \in 0..BASIS_POINTS
<1> DEFINE pairs == {d \in Scores!Quotes(Scores!PeriodDays) :
                       d - 1 \in Scores!Quotes(Scores!PeriodDays)}
           f == [d \in pairs |-> Scores!Change(d)]
<1>1. \A d \in pairs : /\ d \in Scores!AllDays /\ d - 1 \in Scores!AllDays
                       /\ prices[d] \in Nat \ {0} /\ prices[d - 1] \in Nat \ {0}
  BY MonthsOfHistory DEF Scores!Quotes, ScoringInv
<1>2. \A d \in pairs : f[d] \in Nat
  <2>1. ASSUME NEW d \in pairs PROVE Scores!Change(d) \in Nat
    <3> DEFINE n == Scores!Distance(prices[d], prices[d - 1])
               p == prices[d - 1]
    <3>1. p \in Nat \ {0} /\ n \in Nat
      BY <1>1 DEF Scores!Distance
    <3>2. Scores!Change(d) = (n * BASIS_POINTS) \div p
      BY DEF Scores!Change
    <3> HIDE DEF n, p
    <3>3. n * BASIS_POINTS \in Nat
      BY <3>1, ScoringNumbers, Multiply
    <3>4. QED
      BY <3>1, <3>2, <3>3, DivMod
  <2>2. QED
    BY <2>1
<1>3. IsFiniteSet(pairs) /\ Cardinality(pairs) \in Nat
  <2>1. pairs \in SUBSET Scores!AllDays
    BY <1>1
  <2> HIDE DEF pairs
  <2>2. QED
    BY <2>1, DaysAreFew
<1>4. Scores!Volatility = IF pairs = {} THEN 0
                          ELSE SumFunctionOnSet(f, pairs) \div Cardinality(pairs)
  BY ScoresAlike DEF Scores!Volatility
<1> HIDE DEF pairs, f
<1>5. Scores!Volatility \in Nat
  <2>1. CASE pairs = {}
    BY <1>4, <2>1
  <2>2. CASE pairs # {}
    <3>1. Cardinality(pairs) \in Nat \ {0}
      <4>1. Cardinality(pairs) # 0
        BY <1>3, <2>2, FS_EmptySet
      <4>2. QED
        BY <1>3, <4>1
    <3>2. SumFunctionOnSet(f, pairs) \in Nat
      BY <1>2, <1>3, SumOfNaturals
    <3>3. QED
      BY <1>4, <2>2, <3>1, <3>2, DivMod
  <2>3. QED
    BY <2>1, <2>2
<1>6. \E x \in {Scores!Volatility, VOLATILITY_CAP_BP} :
        \A y \in {Scores!Volatility, VOLATILITY_CAP_BP} : x <= y
  BY <1>5, ScoringNumbers
<1> DEFINE S == {Scores!Volatility, VOLATILITY_CAP_BP}
<1>7. Min(S) \in S /\ \A y \in S : Min(S) <= y
  <2>1. \E x \in S : \A y \in S : x <= y
    BY <1>6
  <2> HIDE DEF S
  <2>2. QED
    BY <2>1 DEF Min
<1>8. Min(S) \in Nat /\ Min(S) <= VOLATILITY_CAP_BP
  <2>1. \A x \in S : x \in Nat
    BY <1>5, ScoringNumbers
  <2>2. VOLATILITY_CAP_BP \in S
    OBVIOUS
  <2> HIDE DEF S
  <2>3. QED
    BY <1>7, <2>1, <2>2
<1>9. Scores!VolatilityBp = Min(S)
  BY ScoresAlike DEF Scores!VolatilityBp
<1> HIDE DEF S
<1>10. QED
  BY <1>8, <1>9, ScoringNumbers

\* The share of months that are paid.
LEMMA StabilityIsShare ==
  ASSUME Scores!ScoringAssumption, ScoringInv
  PROVE  Scores!StabilityBp \in 0..BASIS_POINTS
<1> DEFINE n == Cardinality(Scores!PaidMonths)
<1>1. PERIOD \in Nat \ {0} /\ BASIS_POINTS \in Nat
  BY ScoringNumbers
<1>2. n \in Nat /\ n <= PERIOD
  <2>1. n \in 0..PERIOD
    BY MonthsOfHistory
  <2>2. QED
    BY <1>1, <2>1
<1>3. Scores!StabilityBp = (n * BASIS_POINTS) \div PERIOD
  BY ScoresAlike DEF Scores!StabilityBp
<1> HIDE DEF n
<1> DEFINE q == (n * BASIS_POINTS) \div PERIOD
<1>4. n * BASIS_POINTS <= PERIOD * BASIS_POINTS /\ n * BASIS_POINTS \in Nat
  BY <1>1, <1>2, Multiply
<1>5. q \in Nat /\ q * PERIOD <= n * BASIS_POINTS /\ q * PERIOD \in Nat
  BY <1>1, <1>4, DivMod, Division
<1> HIDE DEF q
<1>6. ASSUME BASIS_POINTS + 1 <= q PROVE FALSE
  <2>1. (BASIS_POINTS + 1) * PERIOD <= q * PERIOD
    BY <1>1, <1>5, <1>6, Multiply
  <2>2. (BASIS_POINTS + 1) * PERIOD = BASIS_POINTS * PERIOD + 1 * PERIOD
        /\ BASIS_POINTS * PERIOD = PERIOD * BASIS_POINTS /\ BASIS_POINTS * PERIOD \in Nat
    BY <1>1, Multiply
  <2>3. QED
    BY <1>1, <1>4, <1>5, <2>1, <2>2
<1>7. QED
  BY <1>1, <1>3, <1>5, <1>6 DEF q

\* The recent price is one that was quoted in the recent days of the history.
LEMMA RecentPriceIsQuoted ==
  ASSUME Scores!ScoringAssumption, ScoringInv, Scores!RecentQuotes # {}
  PROVE  /\ \E d \in Scores!RecentQuotes : prices[d] = Scores!RecentPrice
         /\ Scores!RecentPrice \in Nat \ {0}
         /\ \A d \in Scores!RecentQuotes : d \in Scores!RecentDays /\ prices[d] \in Nat \ {0}
<1> DEFINE Q == Scores!RecentQuotes
           n == Cardinality(Q)
           k == n \div 2 + 1
<1>1. /\ Q \in SUBSET Scores!AllDays
      /\ \A d \in Q : d \in Scores!RecentDays /\ prices[d] \in Nat \ {0}
  BY MonthsOfHistory DEF Scores!RecentQuotes, Scores!Quotes, ScoringInv
<1>2. Scores!RecentPrice = Scores!Kth(prices, Q, k)
  BY ScoresAlike DEF Scores!RecentPrice
<1> HIDE DEF Q
<1>3. IsFiniteSet(Q) /\ n \in Nat /\ n # 0
  <2>1. IsFiniteSet(Q) /\ n \in Nat
    BY <1>1, DaysAreFew
  <2>2. n # 0
    BY <2>1, FS_EmptySet DEF Q
  <2>3. QED
    BY <2>1, <2>2
<1>4. k \in 1..n
  <2> HIDE DEF n
  <2>1. QED
    BY <1>3
<1> HIDE DEF k, n
<1>5. \A d \in Q : prices[d] \in Nat
  BY <1>1
<1>6. \E d \in Q : prices[d] = Scores!Kth(prices, Q, k)
  BY <1>3, <1>4, <1>5, KthIsThere DEF n
<1>7. QED
  BY <1>1, <1>2, <1>6 DEF Q

\* The places of the middle.
LEMMA MiddleIsThere ==
  ASSUME NEW n \in Nat \ {0}
  PROVE  /\ n \div 2 + 1 \in 1..n /\ n \div 2 + 1 \in Nat
         /\ 2 * (n - (n \div 2)) >= n
         /\ n % 2 # 1 => n \div 2 \in 1..n /\ n \div 2 <= n \div 2 + 1
OBVIOUS

\* The amounts of the months, and the two in their middle.
Amount == [m \in Scores!Months |-> Scores!AmountOf(m)]
Upper == Scores!Kth(Amount, Scores!Months, PERIOD \div 2 + 1)
Lower == IF PERIOD % 2 = 1 THEN Upper ELSE Scores!Kth(Amount, Scores!Months, PERIOD \div 2)

\* The median is between them.
LEMMA MedianIsBetween ==
  ASSUME Scores!ScoringAssumption, ScoringInv
  PROVE  /\ \A m \in Scores!Months : Amount[m] = Scores!AmountOf(m) /\ Amount[m] \in Nat
         /\ Upper \in Nat /\ Lower \in Nat /\ Lower <= Upper
         /\ \E m \in Scores!Months : Amount[m] = Upper
         /\ Cardinality({m \in Scores!Months : Amount[m] < Upper}) < PERIOD \div 2 + 1
         /\ Scores!MedianAmount = (Lower + Upper) \div 2
         /\ Scores!MedianAmount \in Nat /\ Scores!MedianAmount <= Upper
<1>1. \A m \in Scores!Months : Amount[m] = Scores!AmountOf(m) /\ Amount[m] \in Nat
  BY MonthsOfHistory, MonthHolds DEF Amount
<1>2. IsFiniteSet(Scores!Months) /\ Cardinality(Scores!Months) = PERIOD /\ PERIOD \in Nat \ {0}
  BY MonthsOfHistory, ScoringNumbers
<1> DEFINE k == PERIOD \div 2 + 1
           j == PERIOD \div 2
<1>3. k \in 1..PERIOD /\ (PERIOD % 2 # 1 => j \in 1..PERIOD /\ j <= k)
  BY <1>2, MiddleIsThere
<1>4. Scores!MedianAmount = (Lower + Upper) \div 2
  BY DEF Scores!MedianAmount, Lower, Upper, Amount
<1>5. Upper = Scores!Kth(Amount, Scores!Months, k)
  BY DEF Upper
<1>6. PERIOD % 2 # 1 => Lower = Scores!Kth(Amount, Scores!Months, j)
  BY DEF Lower
<1> HIDE DEF k, j
<1>7. /\ Upper \in Nat
      /\ \E m \in Scores!Months : Amount[m] = Upper
      /\ Cardinality({m \in Scores!Months : Amount[m] < Upper}) < k
  BY <1>1, <1>2, <1>3, <1>5, KthIsThere
<1>8. Lower \in Nat /\ Lower <= Upper
  <2>1. CASE PERIOD % 2 = 1
    BY <1>7, <2>1 DEF Lower
  <2>2. CASE PERIOD % 2 # 1
    <3>1. j \in 1..Cardinality(Scores!Months) /\ k \in 1..Cardinality(Scores!Months) /\ j <= k
      BY <1>2, <1>3, <2>2
    <3>2. Scores!Kth(Amount, Scores!Months, j) \in Nat
      BY <1>1, <1>2, <3>1, KthIsThere
    <3>3. \A m \in Scores!Months :
            Amount[m] \in Nat /\ Amount[m] \in Nat /\ Amount[m] <= Amount[m]
      BY <1>1
    <3>4. Scores!Kth(Amount, Scores!Months, j) <= Scores!Kth(Amount, Scores!Months, k)
      BY <1>2, <3>1, <3>3, KthGrows
    <3>5. QED
      BY <1>5, <1>6, <2>2, <3>2, <3>4
  <2>3. QED
    BY <2>1, <2>2
<1>9. Scores!MedianAmount \in Nat /\ Scores!MedianAmount <= Upper
  BY <1>4, <1>7, <1>8
<1>10. QED
  BY <1>1, <1>4, <1>7, <1>8, <1>9 DEF k

\* Half of the months brought in the upper of the two or more.
LEMMA BetterHalf ==
  ASSUME Scores!ScoringAssumption, ScoringInv
  PROVE  \E m \in Scores!Months :
           /\ Scores!AmountOf(m) = Upper
           /\ 2 * Scores!Cardinality({n \in Scores!Months :
                                        Scores!AmountOf(n) >= Scores!AmountOf(m)}) >= PERIOD
<1> DEFINE Low  == {m \in Scores!Months : Amount[m] < Upper}
           High == {n \in Scores!Months : Scores!AmountOf(n) >= Upper}
<1>1. PICK m \in Scores!Months : Scores!AmountOf(m) = Upper
  BY MedianIsBetween
<1>2. High = Scores!Months \ Low
  BY MedianIsBetween
<1>3. /\ IsFiniteSet(Scores!Months) /\ Cardinality(Scores!Months) = PERIOD
      /\ PERIOD \in Nat \ {0} /\ PERIOD \div 2 \in Nat
  BY MonthsOfHistory, ScoringNumbers
<1>4. Cardinality(Low) < PERIOD \div 2 + 1 /\ Low \subseteq Scores!Months
  BY MedianIsBetween
<1> HIDE DEF Low, High
<1>5. IsFiniteSet(Low) /\ Cardinality(Low) \in Nat
  BY <1>3, <1>4, FS_Subset, FS_CardinalityType
<1>6. Cardinality(High) = PERIOD - Cardinality(Low)
  <2>1. Scores!Months \intersect Low = Low
    BY <1>4
  <2>2. Cardinality(Scores!Months \ Low)
          = Cardinality(Scores!Months) - Cardinality(Scores!Months \intersect Low)
    BY <1>3, FS_Difference
  <2>3. QED
    BY <1>2, <1>3, <2>1, <2>2
<1>7. 2 * Cardinality(High) >= PERIOD
  <2>1. 2 * (PERIOD - (PERIOD \div 2)) >= PERIOD
    BY <1>3, MiddleIsThere
  <2> DEFINE h == PERIOD \div 2
  <2>2. 2 * (PERIOD - h) >= PERIOD /\ h \in Nat /\ Cardinality(Low) < h + 1
    BY <1>3, <1>4, <2>1
  <2> HIDE DEF h
  <2>3. QED
    BY <1>3, <1>5, <1>6, <2>2
<1>8. Scores!Cardinality(High) = Cardinality(High)
  BY ScoresAlike
<1>9. QED
  BY <1>1, <1>7, <1>8 DEF High

-----------------------------------------------------------------------------
(* The limit. *)

\* Quotients by one number are ordered as what is divided.
LEMMA QuotientGrows ==
  ASSUME NEW a \in Nat, NEW c \in Nat, NEW b \in Nat \ {0}, a <= c
  PROVE  a \div b \in Nat /\ c \div b \in Nat /\ a \div b <= c \div b
<1> DEFINE p == a \div b
           q == c \div b
<1>1. p \in Nat /\ q \in Nat /\ p * b <= a /\ c < q * b + b /\ p * b \in Nat /\ q * b \in Nat
  BY DivMod, Division
<1> HIDE DEF p, q
<1>2. ASSUME q + 1 <= p PROVE FALSE
  <2>1. (q + 1) * b <= p * b /\ (q + 1) * b = q * b + 1 * b
    BY <1>1, <1>2, Multiply
  <2>2. QED
    BY <1>1, <2>1
<1>3. QED
  BY <1>1, <1>2 DEF p, q

\* What is multiplied by a share and divided again gets no larger.
LEMMA ShareOf ==
  ASSUME NEW a \in Nat, NEW b \in Nat \ {0}, NEW s \in Nat, s <= b
  PROVE  a * s \in Nat /\ (a * s) \div b \in Nat /\ (a * s) \div b <= a
<1>1. a * s \in Nat /\ a * b \in Nat /\ a * s <= a * b
  BY Multiply
<1> DEFINE q == (a * s) \div b
<1>2. q \in Nat /\ q * b <= a * s /\ q * b \in Nat
  BY <1>1, DivMod, Division
<1> HIDE DEF q
<1>3. ASSUME a + 1 <= q PROVE FALSE
  <2>1. (a + 1) * b <= q * b /\ (a + 1) * b = a * b + 1 * b
    BY <1>2, <1>3, Multiply
  <2>2. QED
    BY <1>1, <1>2, <2>1
<1>4. QED
  BY <1>1, <1>2, <1>3 DEF q

\* The shares of a limit, multiplied.
LEMMA SharesOfLimit ==
  ASSUME Scores!ScoringAssumption, ScoringInv
  PROVE  LET b == BASIS_POINTS
             s == Scores!StabilityBp
             t == BASIS_POINTS - Scores!VolatilityBp
         IN  /\ b * b \in Nat \ {0} /\ b \in Nat /\ s \in Nat /\ t \in Nat /\ s <= b /\ t <= b
             /\ s * t \in Nat /\ s * b \in Nat /\ s * t <= s * b /\ s * b <= b * b
<1> DEFINE b == BASIS_POINTS
           s == Scores!StabilityBp
           t == BASIS_POINTS - Scores!VolatilityBp
<1>1. b \in Nat \ {0} /\ s \in Nat /\ t \in Nat /\ s <= b /\ t <= b
  BY ScoringNumbers, VolatilityIsShare, StabilityIsShare
<1> HIDE DEF b, s, t
<1>2. s * t \in Nat /\ s * b \in Nat /\ b * b \in Nat /\ s * b <= b * b
  BY <1>1, Multiply
<1>3. t * s <= b * s /\ t * s = s * t /\ b * s = s * b
  BY <1>1, Multiply
<1>4. b * b # 0
  <2>1. 1 * b <= b * b
    BY <1>1, Multiply
  <2>2. QED
    BY <1>1, <1>2, <2>1
<1>5. QED
  BY <1>1, <1>2, <1>3, <1>4 DEF b, s, t

\* The median of the months, its value and what it is worth over the months of flow.
LEMMA MedianIsWorth ==
  ASSUME Scores!ScoringAssumption, ScoringInv, Scores!RecentQuotes # {}
  PROVE  /\ Scores!MedianMonthlyUsd
              = (Scores!MedianAmount * Scores!RecentPrice) \div UNIT
         /\ Scores!MedianAmount \in Nat /\ Scores!RecentPrice \in Nat
         /\ Scores!MedianMonthlyUsd \in Nat
         /\ Scores!MedianMonthlyUsd * UNIT <= Scores!MedianAmount * Scores!RecentPrice
         /\ Scores!MedianMonthlyUsd * MONTHS_OF_FLOW \in Nat
<1> DEFINE a == Scores!MedianAmount
           p == Scores!RecentPrice
           q == (a * p) \div UNIT
<1>1. a \in Nat /\ p \in Nat /\ UNIT \in Nat \ {0} /\ MONTHS_OF_FLOW \in Nat
  BY MedianIsBetween, RecentPriceIsQuoted, ScoringNumbers
<1>2. Scores!MedianMonthlyUsd = q
  BY DEF Scores!MedianMonthlyUsd, Scores!ValueUsd
<1> HIDE DEF a, p
<1>3. a * p \in Nat
  BY <1>1, Multiply
<1>4. q \in Nat /\ q * UNIT <= a * p
  BY <1>1, <1>3, DivMod, Division
<1> HIDE DEF q
<1>5. q * MONTHS_OF_FLOW \in Nat
  BY <1>1, <1>4, Multiply
<1>6. QED
  BY <1>1, <1>2, <1>4, <1>5 DEF a, p, q

\* The limit, factor by factor.
LEMMA LimitByFactors ==
  ASSUME Scores!ScoringAssumption, ScoringInv, Scores!RecentQuotes # {}
  PROVE  LET b == BASIS_POINTS
             s == Scores!StabilityBp
             t == BASIS_POINTS - Scores!VolatilityBp
             base == Scores!MedianMonthlyUsd * MONTHS_OF_FLOW
         IN  /\ base \in Nat
             /\ Scores!LimitUsd = (base * (s * t)) \div (b * b)
             /\ (base * s * b) \div (b * b) = (base * (s * b)) \div (b * b)
             /\ Scores!LimitUsd \in Nat
             /\ (base * (s * b)) \div (b * b) \in Nat
             /\ Scores!LimitUsd <= (base * (s * b)) \div (b * b)
             /\ (base * (s * b)) \div (b * b) <= base
<1> DEFINE b == BASIS_POINTS
           s == Scores!StabilityBp
           t == BASIS_POINTS - Scores!VolatilityBp
           base == Scores!MedianMonthlyUsd * MONTHS_OF_FLOW
           square == b * b
           less == s * t
           more == s * b
<1>1. square \in Nat \ {0} /\ b \in Nat /\ s \in Nat /\ t \in Nat
  BY SharesOfLimit
<1>2. less \in Nat /\ more \in Nat /\ less <= more /\ more <= square
  BY SharesOfLimit
<1>3. base \in Nat
  BY MedianIsWorth
<1>4. Scores!LimitUsd = (base * s * t) \div square
  BY DEF Scores!LimitUsd
<1> HIDE DEF b, s, t, base
<1>5. base * s * t = base * less /\ base * s * b = base * more
  BY <1>1, <1>3, Multiply
<1> HIDE DEF less, more, square
<1>6. base * less \in Nat /\ base * more \in Nat /\ base * less <= base * more
  <2>1. less * base <= more * base
    BY <1>2, <1>3, Multiply
  <2>2. QED
    BY <1>2, <1>3, <2>1, Multiply
<1>7. /\ (base * less) \div square \in Nat /\ (base * more) \div square \in Nat
      /\ (base * less) \div square <= (base * more) \div square
  BY <1>1, <1>6, QuotientGrows
<1>8. (base * more) \div square <= base
  BY <1>1, <1>2, <1>3, ShareOf
<1>9. QED
  BY <1>3, <1>4, <1>5, <1>7, <1>8 DEF b, s, t, base, square, less, more

\* What a history shows of its limit and of the factors of it.
LEMMA LimitFromInv ==
  ASSUME Scores!ScoringAssumption, ScoringInv
  PROVE  Scores!LimitIsBacked /\ Scores!FactorsAddUp
<1>1. CASE Scores!Outcome # "limit"
  BY <1>1 DEF Scores!LimitIsBacked, Scores!FactorsAddUp
<1>2. CASE Scores!Outcome = "limit"
  <2>1. Scores!RecentQuotes # {}
    BY <1>2, OutcomesAre
  <2> DEFINE base  == Scores!MedianMonthlyUsd * MONTHS_OF_FLOW
             after == (base * Scores!StabilityBp * BASIS_POINTS)
                        \div (BASIS_POINTS * BASIS_POINTS)
             L == Scores!LimitUsd
  <2>2. base \in Nat /\ after \in Nat /\ L \in Nat /\ L <= after /\ after <= base
    BY <2>1, LimitByFactors
  <2>3. Scores!FactorsAddUp
    <3>1. Scores!ExplainLimit = [flow |-> base, stability |-> after - base,
                                 volatility |-> L - after]
      BY DEF Scores!ExplainLimit, Scores!LimitUsd
    <3>2. /\ Scores!ExplainLimit.flow = base
          /\ Scores!ExplainLimit.stability = after - base
          /\ Scores!ExplainLimit.volatility = L - after
      BY <3>1
    <3> HIDE DEF base, after
    <3>3. /\ base + (after - base) + (L - after) = L
          /\ base >= 0 /\ after - base <= 0 /\ L - after <= 0
      BY <2>2
    <3>4. QED
      BY <3>2, <3>3 DEF Scores!FactorsAddUp
  <2>4. Scores!LimitIsBacked
    <3>1. PICK d \in Scores!RecentQuotes : prices[d] = Scores!RecentPrice
      BY <2>1, RecentPriceIsQuoted
    <3>2. d \in Scores!RecentDays /\ prices[d] \in Nat \ {0}
      BY <2>1, RecentPriceIsQuoted
    <3>3. PICK m \in Scores!Months :
            /\ Scores!AmountOf(m) = Upper
            /\ 2 * Scores!Cardinality({n \in Scores!Months :
                                         Scores!AmountOf(n) >= Scores!AmountOf(m)}) >= PERIOD
      BY BetterHalf
    <3> DEFINE M == Scores!MedianMonthlyUsd
               a == Scores!MedianAmount
               p == prices[d]
               F == MONTHS_OF_FLOW
    <3>4. /\ M \in Nat /\ a \in Nat /\ p \in Nat /\ M * UNIT <= a * p
          /\ Upper \in Nat /\ a <= Upper /\ F \in Nat /\ UNIT \in Nat
      BY <2>1, <3>1, <3>2, MedianIsWorth, MedianIsBetween, ScoringNumbers
    <3>5. L \in Nat /\ L <= M * F
      BY <2>2
    <3> HIDE DEF M, a, p, F, L, base, after
    <3>6. L * UNIT <= F * Upper * p
      <4>1. M * UNIT \in Nat /\ a * p \in Nat /\ Upper * p \in Nat /\ a * p <= Upper * p
        BY <3>4, Multiply
      <4>2. M * UNIT <= Upper * p
        BY <3>4, <4>1
      <4>3. (M * UNIT) * F <= (Upper * p) * F
        BY <3>4, <4>1, <4>2, Multiply
      <4>4. (Upper * p) * F = F * (Upper * p) /\ F * (Upper * p) = F * Upper * p
        BY <3>4, <4>1, Multiply
      <4>5. M * F \in Nat /\ L * UNIT <= (M * F) * UNIT
        BY <3>4, <3>5, Multiply
      <4>6. (M * F) * UNIT = M * (F * UNIT) /\ F * UNIT = UNIT * F
            /\ M * (UNIT * F) = (M * UNIT) * F
        BY <3>4, Multiply
      <4>7. L * UNIT \in Nat /\ (M * F) * UNIT \in Nat /\ (M * UNIT) * F \in Nat
            /\ (Upper * p) * F \in Nat
        BY <3>4, <3>5, <4>1, <4>5, Multiply
      <4>8. QED
        BY <4>3, <4>4, <4>5, <4>6, <4>7
    <3>7. d \in month * DAYS - RECENT_PRICE_DAYS + 1..month * DAYS
      BY <3>2 DEF Scores!RecentDays
    <3>8. QED
      BY <3>2, <3>3, <3>6, <3>7 DEF Scores!LimitIsBacked, p, F, L
  <2>5. QED
    BY <2>3, <2>4
<1>3. QED
  BY <1>1, <1>2

\* SC-002: no limit exceeds MONTHS_OF_FLOW times the better half of the months, at a price that
\* was quoted in the recent days, whatever the history, the prices and the constants.
THEOREM LimitBacked == Scores!ScoringAssumption /\ Scores!Spec => []Scores!LimitIsBacked
<1> SUFFICES ASSUME Scores!ScoringAssumption PROVE Scores!Spec => []Scores!LimitIsBacked
  OBVIOUS
<1>1. ScoringInv => Scores!LimitIsBacked
  BY LimitFromInv
<1>2. Scores!Spec => []ScoringInv
  BY ScoringInductive
<1>3. QED
  BY <1>1, <1>2, PTL

\* The factors shown with a limit add up to it to the last unit, and only the median flow adds.
THEOREM FactorsAdd == Scores!ScoringAssumption /\ Scores!Spec => []Scores!FactorsAddUp
<1> SUFFICES ASSUME Scores!ScoringAssumption PROVE Scores!Spec => []Scores!FactorsAddUp
  OBVIOUS
<1>1. ScoringInv => Scores!FactorsAddUp
  BY LimitFromInv
<1>2. Scores!Spec => []ScoringInv
  BY ScoringInductive
<1>3. QED
  BY <1>1, <1>2, PTL

-----------------------------------------------------------------------------
(* The month that a short history is told. *)

\* Paid months that drop out of the period are made up for by the months that pass.
LEMMA KeptGrows ==
  ASSUME Scores!ScoringAssumption, ScoringInv, NEW a \in Nat, NEW c \in Nat, a <= c
  PROVE  /\ IsFiniteSet(Scores!Kept(a)) /\ Cardinality(Scores!Kept(a)) \in Nat
         /\ IsFiniteSet(Scores!Kept(c)) /\ Cardinality(Scores!Kept(c)) \in Nat
         /\ Cardinality(Scores!Kept(a)) + a <= Cardinality(Scores!Kept(c)) + c
<1> DEFINE A == Scores!Kept(a)
           C == Scores!Kept(c)
           low  == month - PERIOD + a + 1
           high == month - PERIOD + c
           Gone == low..high
<1>1. month \in Nat /\ PERIOD \in Nat
  BY ScoringNumbers DEF ScoringInv
<1>2. A \in SUBSET Scores!Months /\ C \in SUBSET Scores!Months
  BY MonthsOfHistory DEF Scores!Kept
<1>3. A \subseteq C \union Gone
  BY <1>1, <1>2 DEF Scores!Kept, Scores!Months
<1> HIDE DEF A, C
<1>4. /\ IsFiniteSet(A) /\ Cardinality(A) \in Nat
      /\ IsFiniteSet(C) /\ Cardinality(C) \in Nat
  BY <1>2, MonthsOfHistory, FS_CardinalityType
<1>5. low \in Int /\ high \in Int /\ high - low + 1 = c - a
  BY <1>1
<1> HIDE DEF low, high
<1>6. IsFiniteSet(Gone) /\ Cardinality(Gone) \in Nat /\ Cardinality(Gone) <= c - a
  <2>1. IsFiniteSet(Gone)
        /\ Cardinality(Gone) = (IF low > high THEN 0 ELSE high - low + 1)
    BY <1>5, FS_Interval
  <2> HIDE DEF Gone
  <2>2. QED
    BY <1>5, <2>1
<1> HIDE DEF Gone
<1>7. /\ IsFiniteSet(C \union Gone)
      /\ Cardinality(C \union Gone)
           = Cardinality(C) + Cardinality(Gone) - Cardinality(C \intersect Gone)
  BY <1>4, <1>6, FS_Union
<1>8. Cardinality(C \intersect Gone) \in Nat
  <2>1. IsFiniteSet(C \intersect Gone)
    BY <1>4, FS_Subset
  <2>2. QED
    BY <2>1, FS_CardinalityType
<1>9. Cardinality(A) <= Cardinality(C \union Gone)
  BY <1>3, <1>7, FS_Subset
<1>10. Cardinality(A) + a <= Cardinality(C) + c
  BY <1>4, <1>6, <1>7, <1>8, <1>9
<1>11. QED
  BY <1>4, <1>10 DEF A, C

\* Paid months so many months later, if each of those is paid.
LEMMA PaidByThen ==
  ASSUME Scores!ScoringAssumption, ScoringInv, NEW ahead \in 1..PERIOD
  PROVE  Scores!Cardinality({m \in Scores!PaidMonths \union (month + 1..month + ahead) :
                               m > month + ahead - PERIOD})
           = Cardinality(Scores!Kept(ahead)) + ahead
<1> DEFINE K == Scores!Kept(ahead)
           low  == month + 1
           high == month + ahead
           New  == low..high
           All  == {m \in Scores!PaidMonths \union (month + 1..month + ahead) :
                      m > month + ahead - PERIOD}
<1>1. month \in Nat /\ PERIOD \in Nat /\ ahead \in Nat /\ ahead <= PERIOD /\ ahead >= 1
  BY ScoringNumbers DEF ScoringInv
<1>2. \A m \in Scores!PaidMonths : m \in Int /\ m <= month
  BY <1>1, MonthsOfHistory DEF Scores!Months
<1>3. All = K \union New /\ K \intersect New = {}
  BY <1>1, <1>2 DEF Scores!Kept
<1>4. IsFiniteSet(K) /\ Cardinality(K) \in Nat
  BY <1>1, KeptGrows
<1> HIDE DEF K, All
<1>5. low \in Int /\ high \in Int /\ high - low + 1 = ahead /\ low <= high
  BY <1>1
<1> HIDE DEF low, high
<1>6. IsFiniteSet(New) /\ Cardinality(New) = ahead
  <2>1. IsFiniteSet(New)
        /\ Cardinality(New) = (IF low > high THEN 0 ELSE high - low + 1)
    BY <1>5, FS_Interval
  <2> HIDE DEF New
  <2>2. QED
    BY <1>5, <2>1
<1> HIDE DEF New
<1>7. Cardinality(K \union New)
        = Cardinality(K) + Cardinality(New) - Cardinality(K \intersect New)
  BY <1>4, <1>6, FS_Union
<1>8. Cardinality(All) = Cardinality(K) + ahead
  BY <1>1, <1>3, <1>4, <1>6, <1>7, FS_EmptySet
<1>9. Scores!Cardinality(All) = Cardinality(All)
  BY ScoresAlike
<1>10. QED
  BY <1>8, <1>9 DEF K, All

\* In that month enough months are paid, and in no earlier one.
LEMMA ThresholdFromInv ==
  ASSUME Scores!ScoringAssumption, ScoringInv
  PROVE  Scores!ThresholdIsExact
<1> DEFINE R == REQUIRED_PAID_MONTHS
           G(a) == Cardinality(Scores!Kept(a)) + a
           reached == {a \in 1..R - 1 : G(a) >= R}
           T == IF reached = {} THEN R ELSE Min(reached)
<1>1. R \in Nat \ {0} /\ month \in Nat /\ PERIOD \in Nat
  BY ScoringNumbers DEF ScoringInv
<1>2. /\ \A a \in Nat : G(a) \in Nat /\ G(a) >= a
      /\ \A a, c \in Nat : a <= c => G(a) <= G(c)
  <2>1. ASSUME NEW a \in Nat, NEW c \in Nat, a <= c
        PROVE  G(a) <= G(c)
    BY <2>1, KeptGrows
  <2>2. ASSUME NEW a \in Nat PROVE G(a) \in Nat /\ G(a) >= a
    <3>1. Cardinality(Scores!Kept(a)) \in Nat
      BY KeptGrows
    <3>2. QED
      BY <3>1
  <2> HIDE DEF G
  <2>3. QED
    BY <2>1, <2>2
<1>3. Scores!ThresholdReachedIn = month + T
  BY ScoresAlike DEF Scores!ThresholdReachedIn
<1> HIDE DEF G
<1>4. \A a \in Nat \ {0} : G(a) >= R <=> a >= T
  <2>1. CASE reached = {}
    <3>1. ASSUME NEW a \in Nat \ {0} PROVE G(a) >= R <=> a >= R
      <4>1. CASE a >= R
        BY <1>1, <1>2, <4>1
      <4>2. CASE ~(a >= R)
        BY <1>1, <1>2, <2>1, <4>2
      <4>3. QED
        BY <4>1, <4>2
    <3>2. QED
      BY <2>1, <3>1
  <2>2. CASE reached # {}
    <3>1. PICK t \in reached : \A w \in reached : t <= w
      <4>1. reached \in SUBSET Nat
        BY <1>1
      <4> HIDE DEF reached
      <4>2. QED
        BY <2>2, <4>1, LeastIsThere
    <3>2. T \in reached /\ \A w \in reached : T <= w
      <4>1. T = Min(reached)
        BY <2>2
      <4> HIDE DEF T, reached
      <4>2. QED
        BY <3>1, <4>1 DEF Min
    <3> HIDE DEF T
    <3>3. T \in Nat \ {0} /\ T <= R - 1 /\ G(T) >= R
      BY <1>1, <3>2
    <3>4. ASSUME NEW a \in Nat \ {0} PROVE G(a) >= R <=> a >= T
      <4>1. CASE a >= T
        BY <1>1, <1>2, <3>3, <4>1
      <4>2. CASE ~(a >= T)
        <5>1. a \in 1..R - 1 /\ a \notin reached
          BY <1>1, <3>2, <3>3, <4>2
        <5>2. QED
          BY <1>1, <1>2, <4>2, <5>1
      <4>3. QED
        BY <4>1, <4>2
    <3>5. QED
      BY <3>4
  <2>3. QED
    BY <2>1, <2>2
<1>5. T \in Nat
  <2>1. CASE reached = {}
    BY <1>1, <2>1
  <2>2. CASE reached # {}
    <3>1. PICK t \in reached : \A w \in reached : t <= w
      <4>1. reached \in SUBSET Nat
        BY <1>1
      <4> HIDE DEF reached
      <4>2. QED
        BY <2>2, <4>1, LeastIsThere
    <3>2. Min(reached) \in reached
      <4> HIDE DEF reached
      <4>1. QED
        BY <3>1 DEF Min
    <3>3. QED
      BY <1>1, <2>2, <3>2
  <2>3. QED
    BY <2>1, <2>2
<1> HIDE DEF T
<1>6. ASSUME NEW ahead \in 1..PERIOD
      PROVE  (Scores!Cardinality({m \in Scores!PaidMonths \union (month + 1..month + ahead) :
                                    m > month + ahead - PERIOD}) >= R)
               <=> month + ahead >= Scores!ThresholdReachedIn
  <2>1. G(ahead) >= R <=> ahead >= T
    BY <1>1, <1>4
  <2>2. month + ahead >= month + T <=> ahead >= T
    BY <1>1, <1>5
  <2>3. Scores!Cardinality({m \in Scores!PaidMonths \union (month + 1..month + ahead) :
                              m > month + ahead - PERIOD}) = G(ahead)
    BY PaidByThen DEF G
  <2>4. QED
    BY <1>3, <2>1, <2>2, <2>3
<1>7. QED
  BY <1>6 DEF Scores!ThresholdIsExact

\* The month that a short history is told is the first in which the operator has a limit if
\* every month from the next on is paid: neither a month sooner nor later.
THEOREM ThresholdExact == Scores!ScoringAssumption /\ Scores!Spec => []Scores!ThresholdIsExact
<1> SUFFICES ASSUME Scores!ScoringAssumption PROVE Scores!Spec => []Scores!ThresholdIsExact
  OBVIOUS
<1>1. ScoringInv => Scores!ThresholdIsExact
  BY ThresholdFromInv
<1>2. Scores!Spec => []ScoringInv
  BY ScoringInductive
<1>3. QED
  BY <1>1, <1>2, PTL

-----------------------------------------------------------------------------
(* What one more payout does. *)

\* What the lemmas above say of a history.
HistoryFacts ==
  /\ \A m \in Scores!Months : Amount[m] = Scores!AmountOf(m) /\ Amount[m] \in Nat
  /\ Upper \in Nat /\ Lower \in Nat
  /\ Scores!MedianAmount = (Lower + Upper) \div 2 /\ Scores!MedianAmount \in Nat
  /\ Scores!StabilityBp \in Nat
  /\ Scores!PaidMonths \subseteq Scores!Months
  /\ \A T \in SUBSET Scores!Months : IsFiniteSet(T) /\ Cardinality(T) \in Nat
  /\ \A m \in Scores!Months : /\ IsFiniteSet(Scores!PaidDays(m))
                              /\ \A d \in Scores!PaidDays(m) : payouts[d] \in Nat
                              /\ Scores!AmountOf(m)
                                   = SumFunctionOnSet(payouts, Scores!PaidDays(m))
  /\ Scores!RecentQuotes # {} => Scores!MedianMonthlyUsd \in Nat /\ Scores!RecentPrice \in Nat

LEMMA HistoryHolds == ASSUME Scores!ScoringAssumption PROVE ScoringInv => HistoryFacts
<1> SUFFICES ASSUME ScoringInv PROVE HistoryFacts
  OBVIOUS
<1>1. /\ \A m \in Scores!Months : Amount[m] = Scores!AmountOf(m) /\ Amount[m] \in Nat
      /\ Upper \in Nat /\ Lower \in Nat
      /\ Scores!MedianAmount = (Lower + Upper) \div 2 /\ Scores!MedianAmount \in Nat
  BY MedianIsBetween
<1>2. Scores!StabilityBp \in Nat
  BY StabilityIsShare, ScoringNumbers
<1>3. /\ Scores!PaidMonths \subseteq Scores!Months /\ Scores!Months \subseteq 1..MAX_MONTH
      /\ \A T \in SUBSET Scores!Months : IsFiniteSet(T) /\ Cardinality(T) \in Nat
  BY MonthsOfHistory, FS_CardinalityType
<1>4. Scores!RecentQuotes # {} => Scores!MedianMonthlyUsd \in Nat /\ Scores!RecentPrice \in Nat
  BY MedianIsWorth
<1>5. \A m \in Scores!Months : /\ IsFiniteSet(Scores!PaidDays(m))
                               /\ \A d \in Scores!PaidDays(m) : payouts[d] \in Nat
                               /\ Scores!AmountOf(m)
                                    = SumFunctionOnSet(payouts, Scores!PaidDays(m))
  BY <1>3, MonthHolds
<1>6. QED
  BY <1>1, <1>2, <1>3, <1>4, <1>5 DEF HistoryFacts

\* They hold of the history after a step as well.
LEMMA HistoryHoldsThen == ASSUME Scores!ScoringAssumption PROVE ScoringInv' => HistoryFacts'
<1>1. ScoringInv => HistoryFacts
  BY HistoryHolds
<1>2. QED
  BY <1>1, PTL

\* What a month brought is in no way less after one more payout, and the rest is as it was.
LEMMA PayoutAdds ==
  ASSUME Scores!ScoringAssumption, ScoringInv, ScoringInv',
         NEW d \in Scores!AllDays, NEW amount \in Amounts, Scores!Pay(d, amount)
  PROVE  /\ Scores!Months' = Scores!Months
         /\ Scores!RecentQuotes' = Scores!RecentQuotes
         /\ Scores!RecentPrice' = Scores!RecentPrice
         /\ Scores!VolatilityBp' = Scores!VolatilityBp
         /\ Scores!PaidMonths \subseteq Scores!PaidMonths'
         /\ \A m \in Scores!Months : Scores!AmountOf(m) <= Scores!AmountOf(m)'
<1>1. /\ month' = month /\ prices' = prices
      /\ \A e \in Scores!AllDays : payouts[e] # 0 => payouts'[e] = payouts[e]
  BY DEF Scores!Pay, ScoringInv
<1>2. Scores!Months' = Scores!Months
  BY <1>1 DEF Scores!Months
<1>3. Scores!PeriodDays' = Scores!PeriodDays
  BY <1>2 DEF Scores!PeriodDays
<1>4. \A S : Scores!Quotes(S)' = Scores!Quotes(S)
  BY <1>1 DEF Scores!Quotes
<1>5. Scores!RecentQuotes' = Scores!RecentQuotes
  <2>1. Scores!RecentDays' = Scores!RecentDays
    BY <1>1 DEF Scores!RecentDays
  <2>2. QED
    BY <1>1, <1>3, <2>1 DEF Scores!RecentQuotes, Scores!Quotes
<1>6. Scores!RecentPrice' = Scores!RecentPrice
  BY <1>1, <1>5 DEF Scores!RecentPrice
<1>7. Scores!VolatilityBp' = Scores!VolatilityBp
  <2>1. Scores!Quotes(Scores!PeriodDays)' = Scores!Quotes(Scores!PeriodDays)
    BY <1>1, <1>3 DEF Scores!Quotes
  <2>2. \A e : Scores!Change(e)' = Scores!Change(e)
    BY <1>1 DEF Scores!Change
  <2> DEFINE P == {e \in Scores!Quotes(Scores!PeriodDays) :
                     e - 1 \in Scores!Quotes(Scores!PeriodDays)}
  <2>3. P' = P
    BY <2>1
  <2>4. [e \in P' |-> Scores!Change(e)'] = [e \in P |-> Scores!Change(e)]
    BY <2>2, <2>3
  <2>5. Scores!Volatility' = Scores!Volatility
    <3>1. /\ Scores!Volatility = IF P = {} THEN 0
               ELSE Scores!SumFunctionOnSet([e \in P |-> Scores!Change(e)], P)
                      \div Scores!Cardinality(P)
          /\ Scores!Volatility' = IF P' = {} THEN 0
               ELSE Scores!SumFunctionOnSet([e \in P' |-> Scores!Change(e)'], P')
                      \div Scores!Cardinality(P')
      BY DEF Scores!Volatility
    <3> HIDE DEF P
    <3>2. QED
      BY <2>3, <2>4, <3>1
  <2>6. QED
    BY <2>5 DEF Scores!VolatilityBp
<1>8. HistoryFacts /\ HistoryFacts'
  BY HistoryHolds, HistoryHoldsThen
<1>9. Scores!Months \subseteq 1..MAX_MONTH
  BY MonthsOfHistory
<1>10. \A m \in Scores!Months :
         /\ Scores!PaidDays(m) \subseteq Scores!PaidDays(m)'
         /\ \A e \in Scores!PaidDays(m) : payouts'[e] = payouts[e]
  <2>1. \A m \in Scores!Months : Scores!DaysOf(m) \subseteq Scores!AllDays
    BY <1>9, DaysOfMonths
  <2>2. \A m : Scores!DaysOf(m)' = Scores!DaysOf(m)
    BY DEF Scores!DaysOf
  <2>3. QED
    BY <1>1, <2>1, <2>2 DEF Scores!PaidDays
<1>11. \A m \in Scores!Months : Scores!AmountOf(m) <= Scores!AmountOf(m)'
  <2>1. ASSUME NEW m \in Scores!Months PROVE Scores!AmountOf(m) <= Scores!AmountOf(m)'
    <3> DEFINE P == Scores!PaidDays(m)
               Q == Scores!PaidDays(m)'
               f == payouts
               g == payouts'
    <3>1. /\ IsFiniteSet(P) /\ \A e \in P : f[e] \in Nat
          /\ Scores!AmountOf(m) = SumFunctionOnSet(f, P)
      BY <1>8 DEF HistoryFacts
    <3>2. /\ IsFiniteSet(Q) /\ \A e \in Q : g[e] \in Nat
          /\ Scores!AmountOf(m)' = SumFunctionOnSet(g, Q)
      BY <1>2, <1>8 DEF HistoryFacts
    <3>3. P \in SUBSET Q /\ \A e \in P : g[e] = f[e]
      BY <1>10
    <3> HIDE DEF P, Q, f, g
    <3>4. SumFunctionOnSet(f, P) = SumFunctionOnSet(g, P)
      <4>1. \A e \in P : f[e] \in Int /\ f[e] = g[e]
        BY <3>1, <3>3
      <4>2. QED
        BY <3>1, <4>1, SumSame
    <3>5. SumFunctionOnSet(g, P) <= SumFunctionOnSet(g, Q)
      BY <3>2, <3>3, SumOfNaturals
    <3>6. QED
      BY <3>1, <3>2, <3>4, <3>5
  <2>2. QED
    BY <2>1
<1>12. Scores!PaidMonths \subseteq Scores!PaidMonths'
  BY <1>2, <1>10 DEF Scores!PaidMonths
<1>13. QED
  BY <1>2, <1>5, <1>6, <1>7, <1>11, <1>12

\* Larger shares of a larger amount.
LEMMA SharesGrow ==
  ASSUME NEW a \in Nat, NEW c \in Nat, a <= c, NEW s \in Nat, NEW r \in Nat, s <= r,
         NEW f \in Nat, NEW t \in Nat, NEW b \in Nat \ {0}
  PROVE  (a * f * s * t) \div b <= (c * f * r * t) \div b
<1>1. a * f <= c * f /\ a * f \in Nat /\ c * f \in Nat
  BY Multiply
<1> DEFINE x == a * f
           y == c * f
<1> HIDE DEF x, y
<1>2. x * s <= y * s /\ x * s \in Nat /\ y * s \in Nat /\ y * r \in Nat
  BY <1>1, Multiply DEF x, y
<1>3. y * s <= y * r
  <2>1. s * y <= r * y /\ s * y = y * s /\ r * y = y * r
    BY <1>1, Multiply DEF x, y
  <2>2. QED
    BY <2>1
<1>4. x * s <= y * r
  BY <1>2, <1>3
<1> DEFINE u == x * s
           v == y * r
<1>5. u \in Nat /\ v \in Nat /\ u <= v
  BY <1>2, <1>4
<1> HIDE DEF u, v
<1>6. u * t <= v * t /\ u * t \in Nat /\ v * t \in Nat
  BY <1>5, Multiply
<1>7. (u * t) \div b <= (v * t) \div b
  BY <1>6, QuotientGrows
<1>8. QED
  BY <1>7 DEF u, v, x, y

\* One more payout leaves a limit there, and makes it no smaller.
LEMMA PayoutRaises ==
  ASSUME Scores!ScoringAssumption, ScoringInv, ScoringInv', Scores!Outcome = "limit",
         NEW d \in Scores!AllDays, NEW amount \in Amounts, Scores!Pay(d, amount)
  PROVE  Scores!Outcome' = "limit" /\ Scores!LimitUsd' >= Scores!LimitUsd
<1>1. /\ Scores!Months' = Scores!Months
      /\ Scores!RecentQuotes' = Scores!RecentQuotes
      /\ Scores!RecentPrice' = Scores!RecentPrice
      /\ Scores!VolatilityBp' = Scores!VolatilityBp
      /\ Scores!PaidMonths \subseteq Scores!PaidMonths'
      /\ \A m \in Scores!Months : Scores!AmountOf(m) <= Scores!AmountOf(m)'
  BY PayoutAdds
<1>2. HistoryFacts /\ HistoryFacts'
  BY HistoryHolds, HistoryHoldsThen
<1>3. Scores!Eligible /\ Scores!RecentQuotes # {}
  BY OutcomesAre
<1> DEFINE n == Cardinality(Scores!PaidMonths)
           k == Cardinality(Scores!PaidMonths')
<1>4. n \in Nat /\ k \in Nat /\ n <= k
  <2>1. /\ IsFiniteSet(Scores!PaidMonths') /\ n \in Nat /\ k \in Nat
    BY <1>2 DEF HistoryFacts
  <2>2. QED
    BY <1>1, <2>1, FS_Subset
<1>5. /\ Scores!Eligible <=> n >= REQUIRED_PAID_MONTHS
      /\ Scores!Eligible' <=> k >= REQUIRED_PAID_MONTHS
      /\ Scores!StabilityBp = (n * BASIS_POINTS) \div PERIOD
      /\ Scores!StabilityBp' = (k * BASIS_POINTS) \div PERIOD
  BY ScoresAlike DEF Scores!Eligible, Scores!StabilityBp
<1> HIDE DEF n, k
<1>6. Scores!Outcome' = "limit"
  <2>1. Scores!Eligible'
    BY <1>3, <1>4, <1>5, ScoringNumbers
  <2>2. QED
    BY <1>1, <1>3, <2>1 DEF Scores!Outcome
<1>7. Scores!StabilityBp <= Scores!StabilityBp'
  <2>1. n * BASIS_POINTS \in Nat /\ k * BASIS_POINTS \in Nat
        /\ n * BASIS_POINTS <= k * BASIS_POINTS
    BY <1>4, ScoringNumbers, Multiply
  <2>2. QED
    BY <1>5, <2>1, ScoringNumbers, QuotientGrows
<1>8. Upper <= Upper' /\ Lower <= Lower'
  <2>1. /\ IsFiniteSet(Scores!Months) /\ Cardinality(Scores!Months) = PERIOD
        /\ PERIOD \in Nat \ {0}
    BY MonthsOfHistory, ScoringNumbers
  <2> DEFINE S == Scores!Months
             f == Amount
             g == Amount'
             i == PERIOD \div 2 + 1
             j == PERIOD \div 2
  <2>2. \A m \in S : f[m] \in Nat /\ g[m] \in Nat /\ f[m] <= g[m]
    BY <1>1, <1>2 DEF HistoryFacts
  <2>3. i \in 1..Cardinality(S) /\ (PERIOD % 2 # 1 => j \in 1..Cardinality(S))
    BY <2>1, MiddleIsThere
  <2>4. /\ Upper = Scores!Kth(f, S, i) /\ Upper' = Scores!Kth(g, S, i)
        /\ PERIOD % 2 = 1 => Lower = Upper /\ Lower' = Upper'
        /\ PERIOD % 2 # 1 => Lower = Scores!Kth(f, S, j) /\ Lower' = Scores!Kth(g, S, j)
    BY <1>1 DEF Upper, Lower
  <2> HIDE DEF S, f, g, i, j
  <2>5. Scores!Kth(f, S, i) <= Scores!Kth(g, S, i)
    <3>1. IsFiniteSet(S) /\ i <= i
      BY <2>1, <2>3 DEF S
    <3>2. QED
      BY <2>2, <2>3, <3>1, KthGrows
  <2>6. PERIOD % 2 # 1 => Scores!Kth(f, S, j) <= Scores!Kth(g, S, j)
    <3>1. SUFFICES ASSUME PERIOD % 2 # 1
                   PROVE  Scores!Kth(f, S, j) <= Scores!Kth(g, S, j)
      OBVIOUS
    <3>2. IsFiniteSet(S) /\ j \in 1..Cardinality(S) /\ j <= j
      BY <2>1, <2>3, <3>1 DEF S
    <3>3. QED
      BY <2>2, <3>2, KthGrows
  <2>7. QED
    BY <2>4, <2>5, <2>6
<1>9. Scores!MedianAmount <= Scores!MedianAmount'
  <2>1. /\ Upper \in Nat /\ Lower \in Nat /\ Upper' \in Nat /\ Lower' \in Nat
        /\ Scores!MedianAmount = (Lower + Upper) \div 2
        /\ Scores!MedianAmount' = (Lower' + Upper') \div 2
    BY <1>2 DEF HistoryFacts
  <2>2. QED
    BY <1>8, <2>1
<1> DEFINE a == Scores!MedianMonthlyUsd
           c == Scores!MedianMonthlyUsd'
<1>10. a \in Nat /\ c \in Nat /\ a <= c
  <2> DEFINE v == Scores!MedianAmount
             w == Scores!MedianAmount'
             p == Scores!RecentPrice
  <2>1. /\ v \in Nat /\ w \in Nat /\ p \in Nat /\ v <= w
        /\ a \in Nat /\ c \in Nat
    BY <1>1, <1>2, <1>3, <1>9 DEF HistoryFacts
  <2>2. a = (v * p) \div UNIT /\ c = (w * p) \div UNIT
    BY <1>1 DEF Scores!MedianMonthlyUsd, Scores!ValueUsd
  <2> HIDE DEF a, c, v, w, p
  <2>3. v * p <= w * p /\ v * p \in Nat /\ w * p \in Nat
    BY <2>1, Multiply
  <2>4. QED
    BY <2>1, <2>2, <2>3, ScoringNumbers, QuotientGrows
<1> DEFINE s == Scores!StabilityBp
           r == Scores!StabilityBp'
           t == BASIS_POINTS - Scores!VolatilityBp
           b == BASIS_POINTS * BASIS_POINTS
<1>11. s \in Nat /\ r \in Nat /\ s <= r
  BY <1>2, <1>7 DEF HistoryFacts
<1>12. t \in Nat /\ b \in Nat \ {0} /\ MONTHS_OF_FLOW \in Nat
  BY SharesOfLimit, ScoringNumbers
<1>13. /\ Scores!LimitUsd = (a * MONTHS_OF_FLOW * s * t) \div b
       /\ Scores!LimitUsd' = (c * MONTHS_OF_FLOW * r * t) \div b
  BY <1>1 DEF Scores!LimitUsd
<1>14. Scores!LimitUsd \in Nat /\ Scores!LimitUsd' \in Int
  <2>1. Scores!LimitUsd \in Nat
    BY <1>3, LimitByFactors
  <2> HIDE DEF a, c, s, r, t, b
  <2>2. c * MONTHS_OF_FLOW * r * t \in Nat
    BY <1>10, <1>11, <1>12, Multiply
  <2> DEFINE x == c * MONTHS_OF_FLOW * r * t
  <2>3. x \in Nat
    BY <2>2
  <2>4. Scores!LimitUsd' = x \div b
    BY <1>13
  <2> HIDE DEF x
  <2>5. QED
    BY <1>12, <2>1, <2>3, <2>4, DivMod
<1> HIDE DEF a, c, s, r, t, b
<1>15. (a * MONTHS_OF_FLOW * s * t) \div b <= (c * MONTHS_OF_FLOW * r * t) \div b
  BY <1>10, <1>11, <1>12, SharesGrow
<1>16. QED
  BY <1>6, <1>13, <1>14, <1>15

\* One more payout never makes the limit smaller or takes it away.
THEOREM PayoutKeepsLimit ==
  Scores!ScoringAssumption /\ Scores!Spec => [][Scores!PayoutNeverLowersLimit]_(Scores!vars)
<1> SUFFICES ASSUME Scores!ScoringAssumption
             PROVE  Scores!Spec => [][Scores!PayoutNeverLowersLimit]_(Scores!vars)
  OBVIOUS
<1>1. ScoringInv /\ ScoringInv' /\ [Scores!Next]_(Scores!vars)
        => [Scores!PayoutNeverLowersLimit]_(Scores!vars)
  <2> SUFFICES ASSUME ScoringInv, ScoringInv', Scores!Next
               PROVE  Scores!PayoutNeverLowersLimit
    OBVIOUS
  <2>1. ASSUME NEW d \in Scores!AllDays, NEW amount \in Amounts, Scores!Pay(d, amount)
        PROVE  Scores!PayoutNeverLowersLimit
    BY <2>1, PayoutRaises DEF Scores!PayoutNeverLowersLimit
  <2>2. ASSUME payouts' = payouts PROVE Scores!PayoutNeverLowersLimit
    BY <2>2 DEF Scores!PayoutNeverLowersLimit
  <2>3. QED
    BY <2>1, <2>2 DEF Scores!Next, Scores!Quote, Scores!MonthPasses
<1>2. Scores!Spec => []ScoringInv
  BY ScoringInductive
<1>3. QED
  BY <1>1, <1>2, PTL DEF Scores!Spec

-----------------------------------------------------------------------------
(* What a month was worth. *)

\* The value of a payout is a number.
LEMMA ValuesAre ==
  ASSUME Scores!ScoringAssumption, ScoringInv
  PROVE  \A d \in Scores!AllDays : Scores!Values[d] \in Int
<1>1. ASSUME NEW d \in Scores!AllDays PROVE Scores!Values[d] \in Int
  <2> DEFINE a == payouts[d]
             p == prices[d]
  <2>1. a \in Nat /\ p \in Nat /\ UNIT \in Nat \ {0}
    BY ScoringNumbers DEF ScoringInv
  <2>2. Scores!Values[d] = (a * p) \div UNIT
    BY DEF Scores!Values, Scores!ValueUsd
  <2> HIDE DEF a, p
  <2>3. a * p \in Nat
    BY <2>1, Multiply
  <2>4. QED
    BY <2>1, <2>2, <2>3, DivMod
<1>2. QED
  BY <1>1

\* A step that leaves the payouts and the quotes of the days that were paid leaves the value.
LEMMA ValueStays ==
  ASSUME Scores!ScoringAssumption, ScoringInv, NEW m \in Scores!Months,
         payouts' = payouts, Scores!ValueOf(m) > 0,
         \A d \in Scores!AllDays : prices[d] # 0 => prices'[d] = prices[d]
  PROVE  Scores!ValueOf(m)' = Scores!ValueOf(m)
<1>1. m \in 1..MAX_MONTH
  BY MonthsOfHistory
<1> DEFINE P == Scores!PaidDays(m)
           f == Scores!Values
           g == Scores!Values'
<1>2. P \in SUBSET Scores!AllDays /\ IsFiniteSet(P)
  BY <1>1, MonthHolds
<1>3. Scores!PaidDays(m)' = P
  BY DEF Scores!PaidDays, Scores!DaysOf
<1>4. Scores!DaysWithoutPrice(m) = {}
  BY DEF Scores!ValueOf
<1>5. \A d \in P : prices[d] # 0 /\ prices'[d] = prices[d]
  BY <1>2, <1>4 DEF Scores!DaysWithoutPrice, Scores!Quotes
<1>6. Scores!DaysWithoutPrice(m)' = {}
  BY <1>2, <1>3, <1>5 DEF Scores!DaysWithoutPrice, Scores!Quotes, Scores!AllDays
<1>7. /\ Scores!ValueOf(m) = SumFunctionOnSet(f, P)
      /\ Scores!ValueOf(m)' = SumFunctionOnSet(g, P)
  BY <1>3, <1>4, <1>6, ScoresAlike DEF Scores!ValueOf
<1>8. \A d \in P : f[d] \in Int /\ f[d] = g[d]
  <2>1. \A d \in P : f[d] \in Int
    BY <1>2, ValuesAre
  <2>2. \A d \in P : f[d] = g[d]
    BY <1>2, <1>5 DEF Scores!Values, Scores!ValueUsd, Scores!AllDays
  <2>3. QED
    BY <2>1, <2>2
<1> HIDE DEF P, f, g
<1>9. SumFunctionOnSet(f, P) = SumFunctionOnSet(g, P)
  BY <1>2, <1>8, SumSame
<1>10. QED
  BY <1>7, <1>9

\* FR-004a: a month with a payout that has no quote has no value, not a smaller one: a later
\* quote never changes a value that was shown.
THEOREM ValuesAreFinal ==
  Scores!ScoringAssumption /\ Scores!Spec => [][Scores!ValueIsFinal]_(Scores!vars)
<1> SUFFICES ASSUME Scores!ScoringAssumption
             PROVE  Scores!Spec => [][Scores!ValueIsFinal]_(Scores!vars)
  OBVIOUS
<1>1. ScoringInv /\ [Scores!Next]_(Scores!vars) => [Scores!ValueIsFinal]_(Scores!vars)
  <2> SUFFICES ASSUME ScoringInv, Scores!Next PROVE Scores!ValueIsFinal
    OBVIOUS
  <2>1. payouts' = payouts
          => \A d \in Scores!AllDays : prices[d] # 0 => prices'[d] = prices[d]
    BY DEF Scores!Next, Scores!Pay, Scores!Quote, Scores!MonthPasses, ScoringInv
  <2>2. QED
    BY <2>1, ValueStays DEF Scores!ValueIsFinal
<1>2. Scores!Spec => []ScoringInv
  BY ScoringInductive
<1>3. QED
  BY <1>1, <1>2, PTL DEF Scores!Spec
=============================================================================
