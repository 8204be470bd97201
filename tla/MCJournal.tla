----------------------------- MODULE MCJournal -----------------------------
(***************************************************************************)
(* Two journals on one database, pages and batches shorter than the chain. *)
(***************************************************************************)
EXTENDS Journal

CONSTANTS j1, j2

\* One that leaves no event, because it failed, and one that leaves an event.
MCTransactions ==
  { [failed |-> TRUE, events |-> 1], [failed |-> FALSE, events |-> 1] }
=============================================================================
