------------------------------ MODULE Payouts ------------------------------
(***************************************************************************)
(* Which payouts a transaction holds: readIncomingTransfers                *)
(* (apps/worker/src/indexer/payouts.ts) and classifyTransfer               *)
(* (packages/shared/src/scoring/classify.ts).                              *)
(*                                                                         *)
(* A transaction is [moves, issues, failed, time]: the token balances it   *)
(* changed, each with the account, its owner, the mint and the change; the *)
(* mint instructions in it, each with the authority the node names; and    *)
(* its block time.                                                         *)
(***************************************************************************)
EXTENDS Integers, FiniteSets, FiniteSetsExt

CONSTANTS
  Wallet,           \* the operator
  Networks,         \* [id, mint, sources], a source is [kind, address]
  Nobody,           \* an owner or an authority that the node does not name
  NoTime            \* a block whose time the node does not know

\* parseRewardNetworks refuses a list where a source belongs to two networks.
ValidNetworks(networks) ==
  /\ networks # {}
  /\ \A n \in networks : n.sources # {}
  /\ \A n, o \in networks : n # o => n.id # o.id /\ n.sources \intersect o.sources = {}

NetworksAssumption == ValidNetworks(Networks)

\* What the schemas accept of a transaction; anything else fails the pass.
IsTransaction(tx) ==
  /\ DOMAIN tx = {"moves", "issues", "failed", "time"}
  /\ IsFiniteSet(tx.moves) /\ IsFiniteSet(tx.issues)
  /\ \A move \in tx.moves : move.change \in Int
  /\ \A issue \in tx.issues : {"mint", "authority"} \subseteq DOMAIN issue
  /\ tx.failed \in BOOLEAN
  /\ tx.time \in Nat \union {NoTime}

\* balanceDeltas: by mint and owner, over all the accounts of the owner.
Delta(tx, mint, owner) ==
  MapThenSumSet(LAMBDA move : move.change,
                {move \in tx.moves : move.mint = mint /\ move.owner = owner})

OwnersOf(tx, mint) == {move.owner : move \in {v \in tx.moves : v.mint = mint}} \ {Nobody}

\* mintsOf
AuthoritiesOf(tx, mint) == {issue.authority : issue \in {i \in tx.issues : i.mint = mint}}

\* Who the tokens of a mint came from.
CandidatesOf(tx, mint) ==
  {[via |-> "transfer", source |-> o] :
     o \in {p \in OwnersOf(tx, mint) \ {Wallet} : Delta(tx, mint, p) < 0}}
  \union {[via |-> "mint", source |-> a] : a \in AuthoritiesOf(tx, mint)}

\* Two sources, or one the node does not name, make a receipt ambiguous.
SourceIsClear(tx, mint) ==
  Nobody \notin AuthoritiesOf(tx, mint) /\ Cardinality(CandidatesOf(tx, mint)) = 1

\* The mints of which the operator gained some, from a clear source.
Received(tx) ==
  {m \in {move.mint : move \in tx.moves} : Delta(tx, m, Wallet) > 0 /\ SourceIsClear(tx, m)}

IncomingTransfers(tx) ==
  IF tx.failed \/ tx.time = NoTime
    THEN {}
    ELSE UNION {{[via |-> c.via, source |-> c.source, mint |-> m, amount |-> Delta(tx, m, Wallet)] :
                   c \in CandidatesOf(tx, m)} : m \in Received(tx)}

\* findNetworkBySource and classifyTransfer: the pair counts, not the address.
NetworkOf(transfer) ==
  {n \in Networks : /\ [kind |-> transfer.via, address |-> transfer.source] \in n.sources
                    /\ n.mint = transfer.mint}

\* The payouts in a transaction.
PayoutsOf(tx) ==
  UNION {{[network |-> n.id, amount |-> t.amount] : n \in NetworkOf(t)} :
           t \in IncomingTransfers(tx)}
=============================================================================
