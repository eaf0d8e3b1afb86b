--------------------------- MODULE MCInvoiceLinks ---------------------------
(* Small instances of InvoiceLinks for TLC. *)
EXTENDS InvoiceLinks, TLC

CONSTANTS w1, w2, i1, i2, r1, raw, ext, other

MCWorkers == {w1, w2}
WorkerSymmetry == Permutations(MCWorkers)

(* A purchase that is on record twice and a smaller one; an invoice of the *)
(* amount of the first, a red one over half of it, and an invoice of       *)
(* another seller over the other half.                                     *)
TwoInvoices == {i1, i2}
OneRed == {r1}
Amounts == i1 :> 2 @@ i2 :> 1 @@ r1 :> 1
NamesNone == r1 :> NoInvoice
ThreeRecords == {raw, ext, other}
TwoPurchases == raw :> "a" @@ ext :> "a" @@ other :> "b"
Limits == raw :> 2 @@ ext :> 2 @@ other :> 1
BestIsRaw == i1 :> raw @@ i2 :> NoTarget
TwoSellers == i1 :> "s" @@ i2 :> "t" @@ r1 :> "s"
Ask(i, t, a) == [of |-> i, to |-> t, amount |-> a]
SomeRequests == {Ask(i1, raw, Rest), Ask(i2, ext, Rest), Ask(i1, other, 1)}
Line(i, ref, said) == [of |-> i, ref |-> ref, said |-> said]
SomeLists ==
    {Line(i1, ext, "issued"), Line(i1, Ambiguous, "issued"), Line(i1, NoRef, "red"),
     Line(i2, NoRef, "issued")}
(* Confirmations, lists and pairings run while no other call does.         *)
LinksOverlap == {"confirm", "import", "pair"}

=============================================================================
