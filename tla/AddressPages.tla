---------------------------- MODULE AddressPages ----------------------------
(***************************************************************************)
(* The pages of apps/web whose address is in their path: the payout        *)
(* history and the credit limit of any operator, the paths without an      *)
(* address that lead to one's own, and the lookup page.  One browser tab   *)
(* walks through them, back and forward included.                          *)
(*                                                                         *)
(* React renders a new path first and runs the effect of useResource       *)
(* after it: between the two, `due` holds.  A page whose path changes only *)
(* in its address stays mounted and keeps its state.                       *)
(***************************************************************************)
EXTENDS Integers, Sequences

CONSTANTS
  Operators,       \* the addresses that are Solana addresses
  Unreadable,      \* an address that is none
  Nobody,          \* no address
  MAX_ENTRIES,     \* bounds the entries of the browser's history
  MAX_MOVES,       \* bounds the moves between pages
  MAX_RECOMPUTED   \* bounds the presses of recalculate

AddressPagesAssumption ==
  /\ Unreadable \notin Operators /\ Nobody \notin Operators \cup {Unreadable}
  /\ {MAX_ENTRIES, MAX_MOVES, MAX_RECOMPUTED} \subseteq Nat

-----------------------------------------------------------------------------
(***************************************************************************)
(* Who the operator is (lib/wallet.tsx, pages/Lookup.tsx): the wallet of   *)
(* the browser, remembered by name between page loads, connected by the    *)
(* provider once it registers or once the operator picks it, and what the  *)
(* operator is told when it does not connect.  The provider of             *)
(* @solana/wallet-adapter-react is outside of the repository: it connects  *)
(* a selected wallet and forgets the selection when that fails.            *)
(***************************************************************************)

VARIABLES
  registered,   \* the wallet of the browser has announced itself
  remembered,   \* its name is kept as the selected one
  connecting,
  account,      \* the address the wallet reported
  asked,        \* the ref of OperatorIdentityProvider
  told,         \* the failure the operator is shown
  began,        \* who began the running attempt to connect: history
  refused       \* who began the attempt the wallet refused last: history

identityVars == <<registered, remembered, connecting, account, asked, told, began, refused>>

Someone == {"nobody", "page", "operator"}

IdentityTypeOK ==
  /\ {registered, remembered, connecting, asked, told} \subseteq BOOLEAN
  /\ account \in Operators \cup {Unreadable, Nobody}
  /\ {began, refused} \subseteq Someone
  /\ connecting <=> began # "nobody"

IdentityInit ==
  /\ registered = FALSE
  /\ remembered \in BOOLEAN
  /\ connecting = FALSE
  /\ account = Nobody
  /\ asked = FALSE
  /\ told = FALSE
  /\ began = "nobody"
  /\ refused = "nobody"

\* A page load forgets all but the name of the wallet.
Forget ==
  /\ registered' = FALSE
  /\ connecting' = FALSE
  /\ account' = Nobody
  /\ asked' = FALSE
  /\ told' = FALSE
  /\ began' = "nobody"
  /\ refused' = "nobody"
  /\ UNCHANGED remembered

DeriveIdentity ==
  CASE account \in Operators -> "connected"
    [] account = Unreadable -> "unusable-address"
    [] connecting -> "connecting"
    [] ~registered -> "no-wallet"
    [] OTHER -> "disconnected"

\* A wallet announces itself; the provider reconnects the remembered one.
Register ==
  /\ ~registered
  /\ registered' = TRUE
  /\ connecting' = remembered
  /\ began' = IF remembered THEN "page" ELSE "nobody"
  /\ UNCHANGED <<remembered, account, asked, told, refused>>

\* The operator picks the wallet on the lookup page: ask, then select.
Select ==
  /\ DeriveIdentity = "disconnected"
  /\ asked' = TRUE
  /\ told' = FALSE
  /\ refused' = "nobody"
  /\ remembered' = TRUE
  /\ connecting' = TRUE
  /\ began' = "operator"
  /\ UNCHANGED <<registered, account>>

Connected(a) ==
  /\ connecting
  /\ account' = a
  /\ connecting' = FALSE
  /\ began' = "nobody"
  /\ UNCHANGED <<registered, remembered, asked, told, refused>>

\* Whether the error is the wallet's own answer to the attempt to connect.
ConnectFailureText(kind) ==
  kind \in {"connection", "account", "public-key", "window-closed"}

OnError(kind) ==
  IF asked /\ ConnectFailureText(kind)
    THEN asked' = FALSE /\ told' = TRUE
    ELSE UNCHANGED <<asked, told>>

Refuse(kind) ==
  /\ connecting
  /\ OnError(kind)
  /\ connecting' = FALSE
  /\ remembered' = FALSE
  /\ began' = "nobody"
  /\ refused' = IF ConnectFailureText(kind) THEN began ELSE refused
  /\ UNCHANGED <<registered, account>>

Disconnect ==
  /\ account # Nobody
  /\ account' = Nobody
  /\ remembered' = FALSE
  /\ UNCHANGED <<registered, connecting, asked, told, began, refused>>

\* One error of the wallet's own kind stands for the four.
IdentityNext ==
  \/ Register
  \/ \E a \in Operators \cup {Unreadable} : Connected(a)
  \/ \E kind \in {"connection", "other"} : Refuse(kind)
  \/ Disconnect

-----------------------------------------------------------------------------
(* The pages. *)

VARIABLES
  entries, at,     \* the browser's history and the entry shown
  recomputed,      \* the state of Limit
  due,             \* rendered, and its effect not run yet
  requests,        \* those not answered; a live one may still set the resource
  shown,           \* the resource
  moves            \* moves made so far

pageVars == <<entries, at, recomputed, due, requests, shown, moves>>
vars == <<identityVars, pageVars>>

Lookup == [page |-> "lookup", address |-> Nobody]
Own(section) == [page |-> "own", section |-> section, address |-> Nobody]
Page(section, a) == [page |-> section, address |-> a]

Sections == {"history", "limit"}
Addressed == {Page(section, a) : section \in Sections, a \in Operators \cup {Unreadable}}
Routes == {Lookup} \cup {Own(section) : section \in Sections} \cup Addressed

Route == entries[at]

Loading == [status |-> "loading"]
Failures == {"invalid-address", "not-found", "data-unavailable", "unreachable", "broken"}
Endpoints == {"payouts", "limit", "refresh", "none"}

\* What the effect asks for.
Load ==
  [address |-> Route.address,
   endpoint |-> CASE Route.address \notin Operators -> "none"
                  [] Route.page = "history" -> "payouts"
                  [] recomputed = 0 -> "limit"
                  [] OTHER -> "refresh"]

Asked(load, live) == [address |-> load.address, endpoint |-> load.endpoint, live |-> live]

TypeOK ==
  /\ IdentityTypeOK
  /\ entries \in Seq(Routes)
  /\ at \in DOMAIN entries
  /\ recomputed \in 0..MAX_RECOMPUTED
  /\ due \in BOOLEAN
  /\ due => Route \in Addressed
  /\ \A r \in requests : r.endpoint \in Endpoints /\ r.live \in BOOLEAN
  /\ shown.status \in {"loading", "done"}
  /\ shown.status = "done" => shown.result \in Failures \cup {"ok"}

Init ==
  /\ IdentityInit
  /\ entries \in {<<r>> : r \in Routes}
  /\ at = 1
  /\ recomputed = 0
  /\ due = (Route \in Addressed)
  /\ requests = {}
  /\ shown = Loading
  /\ moves = 0

\* The cleanup of an effect: its request may set nothing any more.
Cleaned(rs) == {[r EXCEPT !.live = FALSE] : r \in rs}

Remount(r) ==
  /\ recomputed' = 0
  /\ shown' = Loading
  /\ requests' = Cleaned(requests)
  /\ due' = (r \in Addressed)

\* The tab shows the route r: the same page with another address stays
\* mounted, and its old effect is cleaned up only before the next one.
Render(r) ==
  /\ IF Route \in Addressed /\ r.page = Route.page
       THEN /\ due' = (due \/ r # Route)
            /\ UNCHANGED <<recomputed, shown, requests>>
       ELSE Remount(r)

Move == moves < MAX_MOVES /\ moves' = moves + 1

\* A link or navigate(): the entries ahead are gone.
Navigate(r) ==
  /\ Move
  /\ at < MAX_ENTRIES
  /\ r # Route
  /\ entries' = Append(SubSeq(entries, 1, at), r)
  /\ at' = at + 1
  /\ Render(r)
  /\ UNCHANGED identityVars

\* Back, forward.
Go(n) ==
  /\ Move
  /\ at + n \in DOMAIN entries
  /\ at' = at + n
  /\ Render(entries[at + n])
  /\ UNCHANGED <<identityVars, entries>>

\* The links of the header.
Nav == Navigate(Lookup) \/ \E section \in Sections : Navigate(Own(section))

\* The form and the own address of the lookup page.
Submit == Route = Lookup /\ \E a \in Operators : Navigate(Page("history", a))

PickWallet == Route = Lookup /\ Select /\ UNCHANGED pageVars

\* The link under a history that was read.
Continue ==
  /\ Route.page = "history"
  /\ shown.status = "done"
  /\ shown.result = "ok"
  /\ Navigate(Page("limit", Route.address))

\* A path without an address is replaced by the one with the operator's own,
\* or by the lookup page.
Mine ==
  /\ Route.page = "own"
  /\ DeriveIdentity # "connecting"
  /\ entries' = [entries EXCEPT ![at] =
       IF DeriveIdentity = "connected" THEN Page(Route.section, account) ELSE Lookup]
  /\ Render(entries'[at])
  /\ UNCHANGED <<identityVars, at, moves>>

\* Slip: what is being asked already is not asked again.
EffectOnce ==
  /\ due
  /\ due' = FALSE
  /\ shown' = Loading
  /\ requests' = IF Asked(Load, FALSE) \in Cleaned(requests)
                   THEN Cleaned(requests)
                   ELSE Cleaned(requests) \cup {Asked(Load, TRUE)}
  /\ UNCHANGED <<identityVars, entries, at, recomputed, moves>>

\* The effect of useResource: the request is the one of the last render.
Effect ==
  /\ due
  /\ due' = FALSE
  /\ shown' = Loading
  /\ requests' = Cleaned(requests) \cup {Asked(Load, TRUE)}
  /\ UNCHANGED <<identityVars, entries, at, recomputed, moves>>

\* What the api can answer: nothing, something else than JSON, a payload that
\* fits the contract or does not, an error with a code or without.
Responses ==
  {"nothing", "not json", "fits", "misfit",
   "INVALID_INPUT", "NOT_FOUND", "DATA_UNAVAILABLE", "INTERNAL", "no code"}

Call(response) ==
  CASE response = "nothing" -> "unreachable"
    [] response = "fits" -> "ok"
    [] response = "INVALID_INPUT" -> "invalid-address"
    [] response = "NOT_FOUND" -> "not-found"
    [] response = "DATA_UNAVAILABLE" -> "data-unavailable"
    [] OTHER -> "broken"

\* An address that is none is refused without asking.
Results(r) == IF r.endpoint = "none" THEN {"invalid-address"} ELSE {Call(response) : response \in Responses}

Answer(r) ==
  /\ requests' = requests \ {r}
  /\ IF r.live
       THEN \E result \in Results(r) :
              shown' = [status |-> "done", address |-> r.address, endpoint |-> r.endpoint, result |-> result]
       ELSE UNCHANGED shown
  /\ UNCHANGED <<identityVars, entries, at, recomputed, due, moves>>

\* "recalculate now" under an answer, "retry" under a failure.
Recalculate ==
  /\ Route.page = "limit"
  /\ shown.status = "done"
  /\ recomputed < MAX_RECOMPUTED
  /\ recomputed' = recomputed + 1
  /\ due' = TRUE
  /\ UNCHANGED <<identityVars, entries, at, requests, shown, moves>>

\* The page is loaded again where it is: the browser keeps its history and the
\* name of the wallet.
Reload ==
  /\ Move
  /\ Forget
  /\ recomputed' = 0
  /\ shown' = Loading
  /\ requests' = {}
  /\ due' = (Route \in Addressed)
  /\ UNCHANGED <<entries, at>>

Next ==
  \/ IdentityNext /\ UNCHANGED pageVars
  \/ Nav
  \/ Submit
  \/ PickWallet
  \/ Continue
  \/ Go(-1) \/ Go(1)
  \/ Mine
  \/ Effect
  \/ \E r \in requests : Answer(r)
  \/ Recalculate
  \/ Reload

Spec == Init /\ [][Next]_vars

AnswerLive == \E r \in requests : r.live /\ Answer(r)

-----------------------------------------------------------------------------
(* Safety *)

\* Outside of the moment between a render and its effect, the answer on the
\* page is the one to what the page asks now: never one for the address it
\* showed before, never the stored limit after a recalculation was asked for.
AnswersWhatIsAsked ==
  ~due /\ Route \in Addressed /\ shown.status = "done"
    => /\ shown.address = Load.address
       /\ shown.endpoint = Load.endpoint

\* A page that waits has an effect or a live request to wait for: a second
\* request, an unmounted page or a reload never leaves it loading for good.
LoadingIsAwaited ==
  Route \in Addressed /\ shown.status = "loading" => due \/ \E r \in requests : r.live /\ r.address = Route.address

\* The operator is told of a refusal exactly when the attempt was theirs: a
\* silent reconnect at page load shows nothing, a click is never swallowed.
ToldWhenAsked == told <=> refused = "operator"

=============================================================================
