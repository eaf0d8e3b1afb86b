--------------------------- MODULE MCBankReceipts ---------------------------
(* Small instances of BankReceipts for TLC. *)
EXTENDS BankReceipts, TLC

CONSTANTS w1, w2, e1, e2, s1, s2

MCWorkers == {w1, w2}
WorkerSymmetry == Permutations(MCWorkers)

(* Two receipts that look alike but for their serial numbers, in two       *)
(* statements that overlap: a recent export, which numbers its lines, and  *)
(* a list that has the first serial number in place of the voucher.        *)
TwoEntries == {e1, e2}
DayOf == [e \in TwoEntries |-> "day"]
OneName == [e \in TwoEntries |-> "shop"]
Serials == e1 :> 101 @@ e2 :> 102
DayAmount == [day |-> 2]
Receipts == {"shop"}
Line(e, s, v) == [of |-> e, serial |-> s, voucher |-> v]
Recent == <<Line(e1, 101, 1), Line(e2, 102, 2)>>
Mixed == <<Line(e2, 102, 3), Line(e1, None, 101)>>
Statements == {Recent, Mixed}
TwoSettlements == {s1, s2}
Dues == s1 :> 4 @@ s2 :> 2

ASSUME StatementsTell == NumbersTell

=============================================================================
