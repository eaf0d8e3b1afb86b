-------------------------- MODULE ConsumableLedger --------------------------
(***************************************************************************)
(* The consumable stock ledger (services/consumable_ledger_service.py).    *)
(*                                                                         *)
(* A consumable row holds the three stock counters of ARCHITECTURE.md      *)
(* section 7 (own warehouse, in transit, factory) and two running totals.  *)
(* record_transaction takes the row FOR UPDATE, reads the counters into    *)
(* the session, computes new absolute values from what it read, inserts    *)
(* one ledger entry and commits.  The session's copy is `view`: a worker   *)
(* holds the row lock of a consumable exactly while the consumable is in   *)
(* the domain of its view, and a commit writes back the touched counters   *)
(* computed from that copy, so an update made between the read and the     *)
(* write would be lost.                                                    *)
(*                                                                         *)
(* This module has no behaviour of its own: ProductionFlow, Stocktake and  *)
(* ConsumablePurchases are the sessions that lock, read and post.          *)
(***************************************************************************)
EXTENDS Integers, FiniteSets, FiniteSetsExt, Totals

CONSTANTS
    Workers,      \* request-handling sessions
    Materials,    \* ids of consumables; rows are locked in id order
    Opening       \* own-warehouse stock of each consumable at the start

ASSUME LedgerAssumption ==
    /\ Materials \subseteq Nat
    /\ IsFiniteSet(Materials)
    /\ Opening \in [Materials -> Nat]

VARIABLES
    bal,          \* committed counters of every consumable row
    ledger,       \* committed ConsumableTransaction rows
    view          \* per session: the counters it read under row locks

ledgerVars == <<bal, ledger, view>>

Locations == {"own", "factory"}
Accounts == Locations \cup {"transit", "purchased", "used"}
TxTypes == {"purchase", "send_factory", "factory_receive", "consume",
            "loss", "stocktake", "manual"}

Balance == [Accounts -> Int]

OpeningBalance(m) == [a \in Accounts |-> IF a = "own" THEN Opening[m] ELSE 0]

(* The counters a transaction touches and by how much.                     *)
Delta(type, loc, qty) ==
    CASE type = "purchase"        -> [a \in {loc, "purchased"} |-> qty]
      [] type = "send_factory"    -> [own |-> -qty, transit |-> qty]
      [] type = "factory_receive" -> [transit |-> -qty, factory |-> qty]
      [] type = "consume"         -> [a \in {loc, "used"} |->
                                        IF a = "used" THEN qty ELSE -qty]
      [] type = "loss"            -> [a \in {loc} |-> -qty]
      [] OTHER                    -> [a \in {loc} |-> qty]

(* The counters a transaction may not drive below zero.  Consumption from  *)
(* the own warehouse may (history is filled in later), and so may the      *)
(* signed corrections.                                                     *)
Floored(type, loc) ==
    CASE type = "send_factory"    -> {"own"}
      [] type = "factory_receive" -> {"transit"}
      [] type = "consume"         -> {loc} \cap {"factory"}
      [] type = "loss"            -> {loc}
      [] OTHER                    -> {}

Affordable(old, type, loc, qty) == \A a \in Floored(type, loc) : old[a] >= qty

(* The row after the commit: touched counters are written as absolute      *)
(* values computed from the session's copy, the others are not written.    *)
Posted(cur, old, type, loc, qty) ==
    LET d == Delta(type, loc, qty) IN
    [a \in Accounts |-> IF a \in DOMAIN d THEN old[a] + d[a] ELSE cur[a]]

(* Row locks *)
Unlocked(m) == \A w \in Workers : m \notin DOMAIN view[w]

(* Mutant: the row is read without FOR UPDATE. *)
ReadRow(w, m) ==
    view' = [view EXCEPT ![w] =
        [n \in DOMAIN view[w] \cup {m} |-> IF n = m THEN bal[m] ELSE view[w][n]]]

LockRow(w, m) ==
    /\ Unlocked(m)
    /\ view' = [view EXCEPT ![w] =
          [n \in DOMAIN view[w] \cup {m} |-> IF n = m THEN bal[m] ELSE view[w][n]]]

NothingHeld == [m \in {} |-> OpeningBalance(m)]

(* COMMIT or ROLLBACK releases every lock of the session.                  *)
ReleaseRows(w) == view' = [view EXCEPT ![w] = NothingHeld]

LedgerInit ==
    /\ bal = [m \in Materials |-> OpeningBalance(m)]
    /\ ledger = {}
    /\ view = [w \in Workers |-> NothingHeld]

(* No session works from counters that somebody has changed since it read  *)
(* them: what FOR UPDATE with populate_existing is there for.              *)
NoStaleView ==
    \A w \in Workers : \A m \in DOMAIN view[w] : view[w][m] = bal[m]

(* What an entry adds to a counter, and what it takes from it.             *)
Posting(e, a) ==
    LET d == Delta(e.type, e.loc, e.qty) IN IF a \in DOMAIN d THEN d[a] ELSE 0

Added(e, a) == IF Posting(e, a) > 0 THEN Posting(e, a) ELSE 0
Taken(e, a) == IF Posting(e, a) < 0 THEN -Posting(e, a) ELSE 0

EntriesOf(m) == {e \in ledger : e.mat = m}
Credits(m, a) == Total([e \in EntriesOf(m) |-> Added(e, a)])
Debits(m, a) == Total([e \in EntriesOf(m) |-> Taken(e, a)])

(* Every change of a counter left an entry: the counters are the opening   *)
(* balance plus the entries of the ledger.                                 *)
Explained(m, a) == bal[m][a] = OpeningBalance(m)[a] + Credits(m, a) - Debits(m, a)

LedgerExplainsBalance == \A m \in Materials, a \in Accounts : Explained(m, a)

=============================================================================
