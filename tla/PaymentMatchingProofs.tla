----------------------- MODULE PaymentMatchingProofs -----------------------
(***************************************************************************)
(* PaymentMatching for every set of invoices, payments, months, requests   *)
(* and sessions, and every evidence and calendar, if no call is under way  *)
(* while the job runs: otherwise a call and the job draw on one open       *)
(* amount, and the job writes over what was linked by hand since it read.  *)
(* What it never does then either, bring back a rejected pair, is the last *)
(* theorem: it needs no such assumption.                                   *)
(*                                                                         *)
(* A session about to commit has found room for its link and holds the     *)
(* payment and the invoice, so no other one takes that room.  The draft of *)
(* the job fits like the links do, agrees with them on what was decided by *)
(* hand and spends at least as much of each payment.                       *)
(***************************************************************************)
EXTENDS PaymentMatching, SharedLemmas

(* Links of the right type; a row that was never written is no link.       *)
Sound(ls) ==
    /\ ls \in Tables
    /\ \A i \in Invoices, p \in Payments : ls[i][p].method = "none" => ls[i][p] = NoLink

Fit(ls) ==
    /\ \A i \in Invoices : PaidFor(ls, i, Payments) <= Amount[i]
    /\ \A p \in Payments : SpentOn(ls, p, Invoices) <= Amount[p]

HasPayment(w) == call[w].kind \in {"invoice", "commit"}
HasInvoice(w) == call[w].kind = "commit"

LocksApart ==
    \A v, w \in Workers : v # w =>
        /\ HasPayment(v) /\ HasPayment(w) => call[v].to # call[w].to
        /\ HasInvoice(v) /\ HasInvoice(w) => call[v].of # call[w].of

(* What a session about to commit found when it took its locks holds.      *)
RoomFor(c) ==
    /\ c.amount <= OpenOf(c.of, c.to)
    /\ c.amount <= UnspentOf(c.of, c.to)
    /\ links[c.of][c.to].amount = c.loaded.amount
    /\ links[c.of][c.to].method = "none" => c.loaded.method = "none"

Decided(i, p) == links[i][p].method \in {"manual", "rejected"}

GoodDraft(ls) ==
    /\ Sound(ls) /\ Fit(ls)
    /\ \A i \in Invoices, p \in Payments : Decided(i, p) => ls[i][p] = links[i][p]
    /\ \A p \in Payments : SpentOn(ls, p, Invoices) >= SpentOn(links, p, Invoices)

MatchingInv ==
    /\ JobAlone
    /\ call \in [Workers -> Calls] /\ job \in Jobs
    /\ Sound(links) /\ Fit(links)
    /\ LocksApart
    /\ \A w \in Workers : HasInvoice(w) => RoomFor(call[w])
    /\ ~Idle => /\ job.loaded = links /\ GoodDraft(job.draft)
                /\ \A w \in Workers : call[w] = NoCall

-----------------------------------------------------------------------------
(* Sums over links *)

LEMMA ShareNat ==
    ASSUME NEW link \in Rows
    PROVE  Share(link) \in Nat /\ Share(link) <= link.amount
  BY DEF Rows, Share

LEMMA PaidNat ==
    ASSUME NEW ls \in Tables, NEW i \in Invoices, NEW ps \in SUBSET Payments
    PROVE  PaidFor(ls, i, ps) \in Nat
<1>1. [p \in ps |-> Share(ls[i][p])] \in [ps -> Nat]
  BY ShareNat DEF Tables
<1>2. IsFiniteSet(ps)
  BY FS_Subset, PaymentAssumption
<1> QED
  BY <1>1, <1>2, TotalNat DEF PaidFor

LEMMA SpentNat ==
    ASSUME NEW ls \in Tables, NEW p \in Payments, NEW is \in SUBSET Invoices
    PROVE  SpentOn(ls, p, is) \in Nat
<1>1. [i \in is |-> Share(ls[i][p])] \in [is -> Nat]
  BY ShareNat DEF Tables
<1>2. IsFiniteSet(is)
  BY FS_Subset, PaymentAssumption
<1> QED
  BY <1>1, <1>2, TotalNat DEF SpentOn

(* An invoice without the link to p, a payment without the link to i.      *)
LEMMA WithoutOne ==
    ASSUME NEW ls \in Tables, NEW i \in Invoices, NEW p \in Payments
    PROVE  /\ PaidFor(ls, i, Payments) = PaidFor(ls, i, Payments \ {p}) + Share(ls[i][p])
           /\ SpentOn(ls, p, Invoices) = SpentOn(ls, p, Invoices \ {i}) + Share(ls[i][p])
<1> DEFINE f == [q \in Payments |-> Share(ls[i][q])]
<1> DEFINE g == [j \in Invoices |-> Share(ls[j][p])]
<1>1. f \in [Payments -> Nat] /\ g \in [Invoices -> Nat] /\ IsFiniteSet(Payments) /\ IsFiniteSet(Invoices)
  BY ShareNat, PaymentAssumption DEF Tables
<1>2. /\ [q \in Payments \ {p} |-> Share(ls[i][q])] = [q \in Payments \ {p} |-> f[q]]
      /\ [j \in Invoices \ {i} |-> Share(ls[j][p])] = [j \in Invoices \ {i} |-> g[j]]
      /\ f[p] = Share(ls[i][p]) /\ g[i] = Share(ls[i][p])
  OBVIOUS
<1> HIDE DEF f, g
<1>3. Total(f) = Total([q \in Payments \ {p} |-> f[q]]) + f[p]
  BY <1>1, TotalWithout
<1>4. Total(g) = Total([j \in Invoices \ {i} |-> g[j]]) + g[i]
  BY <1>1, TotalWithout
<1>5. Total(f) = PaidFor(ls, i, Payments) /\ Total(g) = SpentOn(ls, p, Invoices)
  BY DEF f, g, PaidFor, SpentOn
<1> QED
  BY <1>2, <1>3, <1>4, <1>5 DEF PaidFor, SpentOn

(* Where the links of an invoice or of a payment are the same, so are sums.*)
LEMMA SameSums ==
    ASSUME NEW ls, NEW ns
    PROVE  /\ \A i, ps : (\A p \in ps : ns[i][p] = ls[i][p]) => PaidFor(ns, i, ps) = PaidFor(ls, i, ps)
           /\ \A p, is : (\A i \in is : ns[i][p] = ls[i][p]) => SpentOn(ns, p, is) = SpentOn(ls, p, is)
<1>1. ASSUME NEW i, NEW ps, \A p \in ps : ns[i][p] = ls[i][p]
      PROVE  PaidFor(ns, i, ps) = PaidFor(ls, i, ps)
  <2>1. [p \in ps |-> Share(ns[i][p])] = [p \in ps |-> Share(ls[i][p])]
    BY <1>1
  <2> QED
    BY <2>1 DEF PaidFor
<1>2. ASSUME NEW p, NEW is, \A i \in is : ns[i][p] = ls[i][p]
      PROVE  SpentOn(ns, p, is) = SpentOn(ls, p, is)
  <2>1. [i \in is |-> Share(ns[i][p])] = [i \in is |-> Share(ls[i][p])]
    BY <1>2
  <2> QED
    BY <2>1 DEF SpentOn
<1> QED
  BY <1>1, <1>2

(* One link changes.                                                       *)
LEMMA OneLink ==
    ASSUME NEW ls \in Tables, NEW ns \in Tables, NEW i \in Invoices, NEW p \in Payments,
           \A j \in Invoices, q \in Payments : j # i \/ q # p => ns[j][q] = ls[j][q]
    PROVE  /\ PaidFor(ns, i, Payments) = PaidFor(ls, i, Payments) - Share(ls[i][p]) + Share(ns[i][p])
           /\ SpentOn(ns, p, Invoices) = SpentOn(ls, p, Invoices) - Share(ls[i][p]) + Share(ns[i][p])
           /\ \A j \in Invoices \ {i} : PaidFor(ns, j, Payments) = PaidFor(ls, j, Payments)
           /\ \A q \in Payments \ {p} : SpentOn(ns, q, Invoices) = SpentOn(ls, q, Invoices)
<1>1. /\ PaidFor(ns, i, Payments \ {p}) = PaidFor(ls, i, Payments \ {p})
      /\ SpentOn(ns, p, Invoices \ {i}) = SpentOn(ls, p, Invoices \ {i})
      /\ \A j \in Invoices \ {i} : PaidFor(ns, j, Payments) = PaidFor(ls, j, Payments)
      /\ \A q \in Payments \ {p} : SpentOn(ns, q, Invoices) = SpentOn(ls, q, Invoices)
  BY SameSums
<1>2. /\ Share(ls[i][p]) \in Nat /\ Share(ns[i][p]) \in Nat
      /\ PaidFor(ls, i, Payments \ {p}) \in Nat /\ SpentOn(ls, p, Invoices \ {i}) \in Nat
  BY ShareNat, PaidNat, SpentNat DEF Tables
<1> QED
  BY <1>1, <1>2, WithoutOne

-----------------------------------------------------------------------------
(* Calls *)

CommitCalls ==
    [kind : {"commit"}, of : Invoices, to : Payments, amount : Nat, loaded : Rows]

LEMMA CallShapes ==
    ASSUME NEW c \in Calls
    PROVE  /\ c.kind \in {"payment", "invoice"} =>
                 /\ c.of \in Invoices /\ c.to \in Payments
                 /\ c.amount \in (Nat \ {0}) \cup {Rest}
                 /\ c = [kind |-> c.kind, of |-> c.of, to |-> c.to, amount |-> c.amount]
           /\ c.kind = "commit" => c \in CommitCalls
           /\ c.kind = "none" => c = NoCall
           /\ c.kind \in {"none", "payment", "invoice", "commit"}
  BY DEF Calls, CommitCalls, NoCall

(* A step of one call that reads only.                                     *)
LEMMA CallStep ==
    ASSUME MatchingInv, NEW w \in Workers, NEW c \in Calls,
           call' = [call EXCEPT ![w] = c], UNCHANGED <<links, job>>,
           Idle \/ c = NoCall,
           c.kind \in {"invoice", "commit"} =>
              \A v \in Workers \ {w} : HasPayment(v) => call[v].to # c.to,
           c.kind = "commit" =>
              /\ \A v \in Workers \ {w} : HasInvoice(v) => call[v].of # c.of
              /\ RoomFor(c)
    PROVE  MatchingInv'
<1>1. call' \in [Workers -> Calls] /\ job' \in Jobs /\ Sound(links)' /\ Fit(links)'
  BY DEF MatchingInv, Sound, Fit, PaidFor, SpentOn
<1>2. /\ call'[w] = c
      /\ \A v \in Workers \ {w} : call'[v] = call[v]
  BY DEF MatchingInv
<1>3. LocksApart'
  BY <1>2 DEF MatchingInv, LocksApart, HasPayment, HasInvoice
<1>4. \A d : RoomFor(d) => RoomFor(d)'
  BY DEF RoomFor, OpenOf, UnspentOf, PaidFor, SpentOn
<1>5. \A v \in Workers : HasInvoice(v)' => RoomFor(call[v])'
  BY <1>2, <1>4 DEF MatchingInv, HasInvoice
<1>6. ~Idle' => /\ job'.loaded = links' /\ GoodDraft(job.draft)'
               /\ \A v \in Workers : call'[v] = NoCall
  <2>1. Idle' <=> Idle
    BY DEF Idle
  <2>2. GoodDraft(job.draft) => GoodDraft(job.draft)'
    BY DEF GoodDraft, Sound, Fit, PaidFor, SpentOn, Decided
  <2> QED
    BY <1>2, <2>1, <2>2 DEF MatchingInv
<1> QED
  BY <1>1, <1>3, <1>5, <1>6 DEF MatchingInv

LEMMA FinishStep ==
    ASSUME MatchingInv, NEW w \in Workers, Finish(w), UNCHANGED <<links, job>>
    PROVE  MatchingInv'
<1>1. NoCall \in Calls /\ NoCall.kind = "none"
  BY DEF Calls, NoCall
<1> QED
  BY <1>1, CallStep DEF Finish

LEMMA StartLinkStep ==
    ASSUME MatchingInv, NEW w \in Workers, NEW r \in Requests, StartLink(w, r)
    PROVE  MatchingInv'
<1> DEFINE c == [kind |-> "payment", of |-> r.of, to |-> r.to, amount |-> r.amount]
<1>1. r.of \in Invoices /\ r.to \in Payments /\ r.amount \in (Nat \ {0}) \cup {Rest}
  BY PaymentAssumption
<1>2. c \in Calls /\ c.kind = "payment"
  BY <1>1 DEF Calls
<1> HIDE DEF c
<1>3. Idle /\ call' = [call EXCEPT ![w] = c] /\ UNCHANGED <<links, job>>
  BY DEF StartLink, MatchingInv, c
<1> QED
  BY <1>2, <1>3, CallStep

(* A session that serves a call finds no job.                              *)
LEMMA ServesIdle ==
    ASSUME MatchingInv, NEW w \in Workers, call[w].kind # "none"
    PROVE  Idle /\ call[w] \in Calls
  BY DEF MatchingInv, NoCall

LEMMA LockPaymentStep ==
    ASSUME MatchingInv, NEW w \in Workers, LockPayment(w)
    PROVE  MatchingInv'
<1> DEFINE c == [call[w] EXCEPT !.kind = "invoice"]
<1>1. call[w].kind = "payment" /\ Idle /\ call[w] \in Calls
  BY ServesIdle DEF LockPayment, Serves
<1>2. /\ call[w].of \in Invoices /\ call[w].to \in Payments
      /\ call[w].amount \in (Nat \ {0}) \cup {Rest}
      /\ call[w] = [kind |-> "payment", of |-> call[w].of, to |-> call[w].to, amount |-> call[w].amount]
  BY <1>1, CallShapes
<1>3. c = [kind |-> "invoice", of |-> call[w].of, to |-> call[w].to, amount |-> call[w].amount]
  BY <1>2
<1>4. c \in Calls /\ c.kind = "invoice" /\ c.to = call[w].to
  BY <1>2, <1>3 DEF Calls
<1>5. call' = [call EXCEPT ![w] = c] /\ UNCHANGED <<links, job>>
  BY DEF LockPayment
<1>6. \A v \in Workers \ {w} : HasPayment(v) => call[v].to # c.to
  BY <1>4 DEF LockPayment, HoldsPayment, HasPayment
<1> HIDE DEF c
<1> QED
  BY <1>1, <1>4, <1>5, <1>6, CallStep

LEMMA LockInvoiceStep ==
    ASSUME MatchingInv, NEW w \in Workers, LockInvoice(w)
    PROVE  MatchingInv'
<1> DEFINE i == call[w].of
<1> DEFINE p == call[w].to
<1> DEFINE c == [kind |-> "commit", of |-> i, to |-> p, amount |-> AmountFor(w), loaded |-> links[i][p]]
<1>1. call[w].kind = "invoice" /\ Idle /\ call[w] \in Calls
  BY ServesIdle DEF LockInvoice, Serves
<1>2. i \in Invoices /\ p \in Payments /\ call[w].amount \in (Nat \ {0}) \cup {Rest}
  BY <1>1, CallShapes
<1>3. CASE ~Fits(w)
  BY <1>3, FinishStep DEF LockInvoice
<1>4. CASE Fits(w)
  <2>1. AmountFor(w) \in Nat /\ AmountFor(w) <= OpenOf(i, p) /\ AmountFor(w) <= UnspentOf(i, p)
    <3>1. links \in Tables /\ Amount[i] \in Nat /\ Amount[p] \in Nat
      BY <1>2, PaymentAssumption DEF MatchingInv, Sound
    <3>2. OpenOf(i, p) \in Int /\ UnspentOf(i, p) \in Int
      BY <1>2, <3>1, PaidNat, SpentNat DEF OpenOf, UnspentOf
    <3>3. AmountFor(w) \in Int
      <4>1. CASE call[w].amount = Rest
        BY <3>2, <4>1 DEF AmountFor, Smaller
      <4>2. CASE call[w].amount # Rest
        BY <1>2, <4>2 DEF AmountFor
      <4> QED
        BY <4>1, <4>2
    <3> QED
      BY <1>4, <3>2, <3>3 DEF Fits
  <2>2. links[i][p] \in Rows
    BY <1>2 DEF MatchingInv, Sound, Tables
  <2>3. c \in Calls
    BY <1>2, <2>1, <2>2 DEF Calls
  <2>4. call' = [call EXCEPT ![w] = c] /\ UNCHANGED <<links, job>>
    BY <1>4 DEF LockInvoice
  <2>5. RoomFor(c)
    BY <2>1 DEF RoomFor
  <2>6. \A v \in Workers \ {w} : HasInvoice(v) => call[v].of # c.of
    BY DEF LockInvoice, HoldsInvoice, HasInvoice
  <2>7. \A v \in Workers \ {w} : HasPayment(v) => call[v].to # c.to
    BY <1>1 DEF MatchingInv, LocksApart, HasPayment
  <2>8. c.kind = "commit"
    OBVIOUS
  <2> HIDE DEF c
  <2> QED
    BY <1>1, <2>3, <2>4, <2>5, <2>6, <2>7, <2>8, CallStep
<1> QED
  BY <1>3, <1>4

-----------------------------------------------------------------------------
(* Calls that write *)

(* The row a link leaves: over the amount that fitted, if it counts at all.*)
LEMMA WrittenRow ==
    ASSUME NEW row \in Rows, NEW loaded \in Rows, NEW a \in Nat,
           row.amount = loaded.amount, row.method = "none" => loaded.method = "none"
    PROVE  /\ Written(row, loaded, Link("manual", a)) \in Rows
           /\ Written(row, loaded, Link("manual", a)).method # "none"
           /\ Share(Written(row, loaded, Link("manual", a))) <= a
<1> DEFINE new == [method |-> "manual", confirmed |-> TRUE, amount |-> a]
<1> DEFINE r == Written(row, loaded, new)
<1>1. /\ row = [method |-> row.method, confirmed |-> row.confirmed, amount |-> row.amount]
      /\ row.method \in Methods /\ row.confirmed \in BOOLEAN /\ row.amount \in Nat
      /\ loaded.method \in Methods /\ loaded.confirmed \in BOOLEAN /\ loaded.amount \in Nat
  BY DEF Rows
<1>2. DOMAIN row = {"method", "confirmed", "amount"}
  BY <1>1
<1>3. r = [method |-> IF "manual" # loaded.method THEN "manual" ELSE row.method,
           confirmed |-> IF TRUE # loaded.confirmed THEN TRUE ELSE row.confirmed,
           amount |-> IF a # loaded.amount THEN a ELSE row.amount]
  <2>1. new = [method |-> "manual", confirmed |-> TRUE, amount |-> a]
    OBVIOUS
  <2>2. r = [c \in {"method", "confirmed", "amount"} |->
               IF new[c] # loaded[c] THEN new[c] ELSE row[c]]
    BY <1>2 DEF Written
  <2> HIDE DEF new, r
  <2>3. /\ r["method"] = IF new["method"] # loaded["method"] THEN new["method"] ELSE row["method"]
        /\ r["confirmed"] = IF new["confirmed"] # loaded["confirmed"] THEN new["confirmed"] ELSE row["confirmed"]
        /\ r["amount"] = IF new["amount"] # loaded["amount"] THEN new["amount"] ELSE row["amount"]
        /\ DOMAIN r = {"method", "confirmed", "amount"}
        /\ r = [c \in DOMAIN r |-> r[c]]
    BY <2>2
  <2>4. new["method"] = "manual" /\ new["confirmed"] = TRUE /\ new["amount"] = a
    BY <2>1
  <2>5. r = [method |-> r["method"], confirmed |-> r["confirmed"], amount |-> r["amount"]]
    BY <2>3
  <2> QED
    BY <2>3, <2>4, <2>5
<1>4. new = Link("manual", a)
  BY DEF Link
<1>5. r \in Rows /\ r.method # "none" /\ r.amount = a
  <2>1. "manual" \in Methods
    BY DEF Methods
  <2>2. (IF TRUE # loaded.confirmed THEN TRUE ELSE row.confirmed) \in BOOLEAN
    BY <1>1
  <2>3. (IF "manual" # loaded.method THEN "manual" ELSE row.method) \in Methods \ {"none"}
    BY <1>1, <2>1
  <2>4. (IF a # loaded.amount THEN a ELSE row.amount) = a
    OBVIOUS
  <2>5. ASSUME NEW m \in Methods \ {"none"}, NEW c \in BOOLEAN,
               r = [method |-> m, confirmed |-> c, amount |-> a]
        PROVE  r \in Rows /\ r.method # "none" /\ r.amount = a
    <3> HIDE DEF r
    <3> QED
      BY <2>5 DEF Rows
  <2> HIDE DEF r
  <2> QED
    BY <1>3, <2>2, <2>3, <2>4, <2>5
<1> HIDE DEF r
<1>6. Share(r) <= a
  BY <1>5, ShareNat
<1> QED
  BY <1>4, <1>5, <1>6 DEF r

LEMMA CommitLinkStep ==
    ASSUME MatchingInv, NEW w \in Workers, CommitLink(w)
    PROVE  MatchingInv'
<1> DEFINE i == call[w].of
<1> DEFINE p == call[w].to
<1> DEFINE row == Written(links[i][p], call[w].loaded, Link("manual", call[w].amount))
<1>0. SUFFICES ASSUME ~(call[w].loaded.method = "none" /\ links[i][p].method # "none")
               PROVE  MatchingInv'
  BY FinishStep DEF CommitLink
<1>1. call[w].kind = "commit" /\ Idle /\ call[w] \in CommitCalls /\ RoomFor(call[w])
  BY ServesIdle, CallShapes DEF CommitLink, Serves, MatchingInv, HasInvoice
<1>2. /\ i \in Invoices /\ p \in Payments /\ call[w].amount \in Nat /\ call[w].loaded \in Rows
      /\ links \in Tables /\ links[i][p] \in Rows
      /\ Amount[i] \in Nat /\ Amount[p] \in Nat
  BY <1>1, PaymentAssumption DEF CommitCalls, MatchingInv, Sound, Tables
<1>3. row \in Rows /\ row.method # "none" /\ Share(row) <= call[w].amount /\ Share(row) \in Nat
  BY <1>1, <1>2, WrittenRow, ShareNat DEF RoomFor
<1>4. /\ links' = [links EXCEPT ![i][p] = row] /\ job' = job
      /\ call' = [call EXCEPT ![w] = NoCall]
  BY <1>0 DEF CommitLink, Finish
<1> HIDE DEF row
<1>5. /\ links' \in Tables /\ links'[i][p] = row
      /\ \A j \in Invoices, q \in Payments : j # i \/ q # p => links'[j][q] = links[j][q]
  BY <1>2, <1>3, <1>4 DEF Tables
<1>6. Sound(links)'
  BY <1>3, <1>5 DEF MatchingInv, Sound
<1>7. /\ PaidFor(links', i, Payments) <= Amount[i]
      /\ SpentOn(links', p, Invoices) <= Amount[p]
  <2>1. /\ PaidFor(links', i, Payments) = PaidFor(links, i, Payments) - Share(links[i][p]) + Share(row)
        /\ SpentOn(links', p, Invoices) = SpentOn(links, p, Invoices) - Share(links[i][p]) + Share(row)
    BY <1>2, <1>5, OneLink
  <2>2. /\ PaidFor(links, i, Payments) = PaidFor(links, i, Payments \ {p}) + Share(links[i][p])
        /\ SpentOn(links, p, Invoices) = SpentOn(links, p, Invoices \ {i}) + Share(links[i][p])
    BY <1>2, WithoutOne
  <2>3. /\ call[w].amount <= Amount[i] - PaidFor(links, i, Payments \ {p})
        /\ call[w].amount <= Amount[p] - SpentOn(links, p, Invoices \ {i})
    BY <1>1 DEF RoomFor, OpenOf, UnspentOf
  <2>4. /\ PaidFor(links, i, Payments \ {p}) \in Nat /\ SpentOn(links, p, Invoices \ {i}) \in Nat
        /\ Share(links[i][p]) \in Nat
    BY <1>2, PaidNat, SpentNat, ShareNat
  <2> QED
    BY <1>2, <1>3, <2>1, <2>2, <2>3, <2>4
<1>8. Fit(links)'
  <2>1. /\ \A j \in Invoices \ {i} : PaidFor(links', j, Payments) = PaidFor(links, j, Payments)
        /\ \A q \in Payments \ {p} : SpentOn(links', q, Invoices) = SpentOn(links, q, Invoices)
    BY <1>2, <1>5, OneLink
  <2> QED
    BY <1>7, <2>1 DEF MatchingInv, Fit
<1>9. /\ call' \in [Workers -> Calls] /\ call'[w] = NoCall
      /\ \A v \in Workers \ {w} : call'[v] = call[v]
  BY <1>4 DEF MatchingInv, Calls, NoCall
<1>10. LocksApart'
  BY <1>9 DEF MatchingInv, LocksApart, HasPayment, HasInvoice, NoCall
<1>11. ASSUME NEW v \in Workers, HasInvoice(v)' PROVE RoomFor(call[v])'
  <2> DEFINE c == call[v]
  <2>1. v # w /\ call'[v] = c
    BY <1>9, <1>11 DEF HasInvoice, NoCall
  <2>2. HasInvoice(v) /\ HasInvoice(w) /\ HasPayment(v) /\ HasPayment(w)
    BY <1>1, <1>11, <2>1 DEF HasInvoice, HasPayment
  <2>3. c \in CommitCalls /\ c.of # i /\ c.to # p /\ RoomFor(c)
    BY <2>1, <2>2, CallShapes DEF MatchingInv, LocksApart, HasInvoice
  <2>4. c.of \in Invoices /\ c.to \in Payments
    BY <2>3 DEF CommitCalls
  <2> HIDE DEF c
  <2>5. /\ PaidFor(links', c.of, Payments \ {c.to}) = PaidFor(links, c.of, Payments \ {c.to})
        /\ SpentOn(links', c.to, Invoices \ {c.of}) = SpentOn(links, c.to, Invoices \ {c.of})
        /\ links'[c.of][c.to] = links[c.of][c.to]
    BY <1>5, <2>3, <2>4, SameSums
  <2> QED
    BY <2>1, <2>3, <2>5 DEF RoomFor, OpenOf, UnspentOf
<1>12. Idle' /\ job' \in Jobs
  BY <1>1, <1>4 DEF Idle, MatchingInv
<1> QED
  BY <1>6, <1>8, <1>9, <1>10, <1>11, <1>12 DEF MatchingInv

LEMMA RejectedRow ==
    ASSUME NEW row \in Rows
    PROVE  /\ Rejected(row) \in Rows /\ Rejected(row).method = "rejected"
           /\ Rejected(row).amount = row.amount /\ Share(Rejected(row)) = 0
<1>1. /\ row = [method |-> row.method, confirmed |-> row.confirmed, amount |-> row.amount]
      /\ row.amount \in Nat
  BY DEF Rows
<1>2. Rejected(row) = [method |-> "rejected", confirmed |-> FALSE, amount |-> row.amount]
  <2> DEFINE m == row.method
  <2> DEFINE c == row.confirmed
  <2> DEFINE a == row.amount
  <2>1. row = [method |-> m, confirmed |-> c, amount |-> a]
    BY <1>1
  <2> HIDE DEF m, c, a
  <2>2. Rejected(row) = [[method |-> m, confirmed |-> c, amount |-> a] EXCEPT !.method = "rejected", !.confirmed = FALSE]
    BY <2>1 DEF Rejected
  <2>3. a = row.amount
    BY DEF a
  <2> QED
    BY <2>2, <2>3
<1> QED
  BY <1>1, <1>2 DEF Rows, Methods, Share, Active

LEMMA UnlinkStep ==
    ASSUME MatchingInv, NEW i \in Invoices, NEW p \in Payments, Unlink(i, p)
    PROVE  MatchingInv'
<1>1. /\ links \in Tables /\ links[i][p] \in Rows /\ Idle
      /\ links[i][p].method # "none"
      /\ links' = [links EXCEPT ![i][p] = Rejected(links[i][p])]
      /\ call' = call /\ job' = job
  BY DEF Unlink, MatchingInv, Sound, Tables
<1> DEFINE row == Rejected(links[i][p])
<1>2. row \in Rows /\ row.method = "rejected" /\ row.amount = links[i][p].amount /\ Share(row) = 0
  BY <1>1, RejectedRow
<1>3. links' = [links EXCEPT ![i][p] = row]
  BY <1>1
<1> HIDE DEF row
<1>4. /\ links' \in Tables /\ links'[i][p] = row
      /\ \A j \in Invoices, q \in Payments : j # i \/ q # p => links'[j][q] = links[j][q]
  BY <1>1, <1>2, <1>3 DEF Tables
<1>5. Sound(links)'
  BY <1>2, <1>4 DEF MatchingInv, Sound
<1>6. /\ \A j \in Invoices, ps \in SUBSET Payments : PaidFor(links', j, ps) <= PaidFor(links, j, ps)
      /\ \A q \in Payments, is \in SUBSET Invoices : SpentOn(links', q, is) <= SpentOn(links, q, is)
  <2>1. \A j \in Invoices, q \in Payments :
           Share(links'[j][q]) <= Share(links[j][q]) /\ Share(links[j][q]) \in Nat /\ Share(links'[j][q]) \in Nat
    BY <1>1, <1>2, <1>4, ShareNat DEF Tables
  <2>2. ASSUME NEW j \in Invoices, NEW ps \in SUBSET Payments
        PROVE  PaidFor(links', j, ps) <= PaidFor(links, j, ps)
    <3>1. /\ [q \in ps |-> Share(links'[j][q])] \in [ps -> Nat]
          /\ [q \in ps |-> Share(links[j][q])] \in [ps -> Nat]
          /\ IsFiniteSet(ps)
      BY <2>1, FS_Subset, PaymentAssumption
    <3> QED
      BY <2>1, <3>1, TotalMonotone DEF PaidFor
  <2>3. ASSUME NEW q \in Payments, NEW is \in SUBSET Invoices
        PROVE  SpentOn(links', q, is) <= SpentOn(links, q, is)
    <3>1. /\ [j \in is |-> Share(links'[j][q])] \in [is -> Nat]
          /\ [j \in is |-> Share(links[j][q])] \in [is -> Nat]
          /\ IsFiniteSet(is)
      BY <2>1, FS_Subset, PaymentAssumption
    <3> QED
      BY <2>1, <3>1, TotalMonotone DEF SpentOn
  <2> QED
    BY <2>2, <2>3
<1>7. Fit(links)'
  <2>1. ASSUME NEW j \in Invoices PROVE PaidFor(links', j, Payments) <= Amount[j]
    <3>1. PaidFor(links', j, Payments) <= PaidFor(links, j, Payments) /\ PaidFor(links, j, Payments) <= Amount[j]
      BY <1>6 DEF MatchingInv, Fit
    <3> QED
      BY <1>1, <1>4, <3>1, PaidNat, PaymentAssumption
  <2>2. ASSUME NEW q \in Payments PROVE SpentOn(links', q, Invoices) <= Amount[q]
    <3>1. SpentOn(links', q, Invoices) <= SpentOn(links, q, Invoices) /\ SpentOn(links, q, Invoices) <= Amount[q]
      BY <1>6 DEF MatchingInv, Fit
    <3> QED
      BY <1>1, <1>4, <3>1, SpentNat, PaymentAssumption
  <2> QED
    BY <2>1, <2>2 DEF Fit
<1>8. ASSUME NEW v \in Workers, HasInvoice(v)' PROVE RoomFor(call[v])'
  <2> DEFINE c == call[v]
  <2>1. c \in CommitCalls /\ RoomFor(c)
    BY <1>1, <1>8, CallShapes DEF MatchingInv, HasInvoice
  <2>2. c.of \in Invoices /\ c.to \in Payments /\ c.amount \in Nat
    BY <2>1 DEF CommitCalls
  <2> HIDE DEF c
  <2>3. /\ PaidFor(links', c.of, Payments \ {c.to}) <= PaidFor(links, c.of, Payments \ {c.to})
        /\ SpentOn(links', c.to, Invoices \ {c.of}) <= SpentOn(links, c.to, Invoices \ {c.of})
    BY <1>6, <2>2
  <2>4. /\ PaidFor(links', c.of, Payments \ {c.to}) \in Nat /\ PaidFor(links, c.of, Payments \ {c.to}) \in Nat
        /\ SpentOn(links', c.to, Invoices \ {c.of}) \in Nat /\ SpentOn(links, c.to, Invoices \ {c.of}) \in Nat
        /\ Amount[c.of] \in Nat /\ Amount[c.to] \in Nat
    BY <1>1, <1>4, <2>2, PaidNat, SpentNat, PaymentAssumption
  <2>5. /\ c.amount <= Amount[c.of] - PaidFor(links', c.of, Payments \ {c.to})
        /\ c.amount <= Amount[c.to] - SpentOn(links', c.to, Invoices \ {c.of})
    BY <2>1, <2>2, <2>3, <2>4 DEF RoomFor, OpenOf, UnspentOf
  <2>6. /\ links'[c.of][c.to].amount = links[c.of][c.to].amount
        /\ links'[c.of][c.to].method = "none" => links[c.of][c.to].method = "none"
    BY <1>2, <1>4, <2>2
  <2>7. call'[v] = c
    BY <1>1 DEF c
  <2> QED
    BY <2>1, <2>5, <2>6, <2>7 DEF RoomFor, OpenOf, UnspentOf
<1>9. LocksApart' /\ Idle' /\ call' \in [Workers -> Calls] /\ job' \in Jobs
  BY <1>1 DEF MatchingInv, LocksApart, HasPayment, HasInvoice, Idle
<1> QED
  BY <1>5, <1>7, <1>8, <1>9 DEF MatchingInv

-----------------------------------------------------------------------------
(* The job *)

ActiveJobs ==
    [round : DOMAIN RoundAfter \cup {"commit"}, months : Seq(Months) \ {<<>>},
     rest : SUBSET Payments, open : SUBSET Invoices, loaded : Tables, draft : Tables]

LEMMA RoundNames ==
    /\ DOMAIN RoundAfter = {"repair", "single", "split", "spread", "account"}
    /\ \A r \in DOMAIN RoundAfter : RoundAfter[r] \in DOMAIN RoundAfter \cup {"commit"}
  BY DEF RoundAfter

LEMMA ActiveJob ==
    ASSUME MatchingInv, job.round # "none" \/ ~Idle
    PROVE  /\ job \in ActiveJobs /\ ~Idle
           /\ job.draft \in Tables /\ GoodDraft(job.draft) /\ job.loaded = links
           /\ \A w \in Workers : call[w] = NoCall
<1>1. job \in [round : {"none"}] => job = NoJob
  BY DEF NoJob
<1>2. NoJob.round = "none"
  BY DEF NoJob
<1>3. ~Idle
  BY <1>2 DEF Idle
<1>4. job \in ActiveJobs
  BY <1>1, <1>3 DEF MatchingInv, Jobs, ActiveJobs, Idle
<1> QED
  BY <1>3, <1>4 DEF MatchingInv, ActiveJobs

(* Alone, the job finds what it read and its own writes.                   *)
LEMMA Undisturbed ==
    ASSUME MatchingInv, ~Idle
    PROVE  Current = job.draft /\ Reloaded = links /\ Merged = job.draft
<1>1. job.draft \in Tables /\ links \in Tables /\ job.loaded = links
  BY ActiveJob DEF MatchingInv, Sound
<1>2. \A i \in Invoices, p \in Payments : job.draft[i][p] \in Rows /\ links[i][p] \in Rows
  BY <1>1 DEF Tables
<1>3. ASSUME NEW row \in Rows, NEW new \in Rows PROVE Written(row, row, new) = new
  BY DEF Written, Rows
<1>4. Current = [i \in Invoices |-> [p \in Payments |-> job.draft[i][p]]]
  BY <1>1 DEF Current, Wrote
<1>5. Reloaded = [i \in Invoices |-> [p \in Payments |-> links[i][p]]]
  BY <1>1 DEF Reloaded, Wrote
<1>6. Merged = [i \in Invoices |-> [p \in Payments |-> job.draft[i][p]]]
  BY <1>1, <1>2, <1>3 DEF Merged
<1>7. ASSUME NEW ls \in Tables PROVE [i \in Invoices |-> [p \in Payments |-> ls[i][p]]] = ls
  BY DEF Tables
<1> QED
  BY <1>1, <1>4, <1>5, <1>6, <1>7

(* A step of the job within a month: only its draft matters.               *)
LEMMA JobStep ==
    ASSUME MatchingInv, ~Idle, UNCHANGED <<links, call>>,
           job' \in ActiveJobs, job'.loaded = links, GoodDraft(job'.draft)
    PROVE  MatchingInv'
<1>1. \A w \in Workers : call[w] = NoCall /\ call[w].kind = "none"
  BY DEF MatchingInv, NoCall
<1>2. LocksApart' /\ \A w \in Workers : ~HasInvoice(w)'
  BY <1>1 DEF LocksApart, HasPayment, HasInvoice
<1>3. Sound(links)' /\ Fit(links)'
  BY DEF MatchingInv, Sound, Fit, PaidFor, SpentOn
<1>4. GoodDraft(job.draft)'
  BY DEF GoodDraft, Sound, Fit, PaidFor, SpentOn, Decided
<1>5. call' \in [Workers -> Calls] /\ job' \in Jobs
  BY DEF MatchingInv, Jobs, ActiveJobs
<1> QED
  BY <1>1, <1>2, <1>3, <1>4, <1>5 DEF MatchingInv

LEMMA DoneStep ==
    ASSUME MatchingInv, ~Idle, NEW p \in Payments, NEW draft, Done(p, draft), GoodDraft(draft)
    PROVE  MatchingInv'
<1>1. job \in ActiveJobs
  BY ActiveJob
<1>2. draft \in Tables
  BY DEF GoodDraft, Sound
<1>3. job' = [job EXCEPT !.rest = job.rest \ {p}, !.draft = draft] /\ UNCHANGED <<links, call>>
  BY DEF Done
<1>4. job' \in ActiveJobs /\ job'.draft = draft /\ job'.loaded = job.loaded
  BY <1>1, <1>2, <1>3 DEF ActiveJobs
<1> QED
  BY <1>3, <1>4, ActiveJob, JobStep

(* The job's own rows are not decided by hand.                             *)
LEMMA NotDecided ==
    ASSUME MatchingInv, ~Idle, NEW i \in Invoices, NEW p \in Payments,
           job.draft[i][p].method \in {"none", "auto"}
    PROVE  ~Decided(i, p)
  BY ActiveJob DEF GoodDraft, Decided

LEMMA UntouchedRow ==
    ASSUME MatchingInv, ~Idle, NEW i \in Invoices, NEW p \in Payments, Untouched(i, p)
    PROVE  ~Decided(i, p) /\ job.draft[i][p] \in Rows /\ Share(job.draft[i][p]) = 0
<1>1. job.draft[i][p] = NoLink /\ job.draft[i][p] \in Rows
  BY ActiveJob DEF Untouched, GoodDraft, Sound, Tables
<1> QED
  BY <1>1, NotDecided DEF Untouched, NoLink, Share, Active

LEMMA MadeRow ==
    ASSUME NEW method \in {"auto", "split"}, NEW a \in Nat
    PROVE  /\ Link(method, a) \in Rows /\ Link(method, a).method # "none"
           /\ Share(Link(method, a)) = a
  BY DEF Link, Rows, Methods, Share, Active

LEMMA DraftNats ==
    ASSUME MatchingInv, ~Idle
    PROVE  /\ \A i \in Invoices : PaidFor(job.draft, i, Payments) \in Nat /\ Amount[i] \in Nat /\ Open(i) \in Nat
           /\ \A p \in Payments : SpentOn(job.draft, p, Invoices) \in Nat /\ Amount[p] \in Nat /\ Unspent(p) \in Nat
  BY ActiveJob, PaidNat, SpentNat, PaymentAssumption DEF GoodDraft, Fit, Open, Unspent

(* A payment that closes an invoice.                                       *)
LEMMA ClosingLink ==
    ASSUME MatchingInv, ~Idle, NEW i \in Invoices, NEW p \in Payments,
           Untouched(i, p), Open(i) = Unspent(p)
    PROVE  GoodDraft([job.draft EXCEPT ![i][p] = Link("auto", Unspent(p))])
<1> DEFINE row == Link("auto", Unspent(p))
<1> DEFINE d == [job.draft EXCEPT ![i][p] = row]
<1>1. job.draft \in Tables /\ GoodDraft(job.draft) /\ Unspent(p) \in Nat
  BY ActiveJob, DraftNats
<1>2. row \in Rows /\ row.method # "none" /\ Share(row) = Unspent(p)
  BY <1>1, MadeRow
<1> HIDE DEF row
<1>3. /\ d \in Tables /\ d[i][p] = row
      /\ \A j \in Invoices, q \in Payments : j # i \/ q # p => d[j][q] = job.draft[j][q]
  BY <1>1, <1>2 DEF Tables
<1> HIDE DEF d
<1>4. ~Decided(i, p) /\ Share(job.draft[i][p]) = 0
  BY UntouchedRow
<1>5. /\ PaidFor(d, i, Payments) = PaidFor(job.draft, i, Payments) + Unspent(p)
      /\ SpentOn(d, p, Invoices) = SpentOn(job.draft, p, Invoices) + Unspent(p)
      /\ \A j \in Invoices \ {i} : PaidFor(d, j, Payments) = PaidFor(job.draft, j, Payments)
      /\ \A q \in Payments \ {p} : SpentOn(d, q, Invoices) = SpentOn(job.draft, q, Invoices)
  <2>1. /\ PaidFor(d, i, Payments) = PaidFor(job.draft, i, Payments) - Share(job.draft[i][p]) + Share(d[i][p])
        /\ SpentOn(d, p, Invoices) = SpentOn(job.draft, p, Invoices) - Share(job.draft[i][p]) + Share(d[i][p])
        /\ \A j \in Invoices \ {i} : PaidFor(d, j, Payments) = PaidFor(job.draft, j, Payments)
        /\ \A q \in Payments \ {p} : SpentOn(d, q, Invoices) = SpentOn(job.draft, q, Invoices)
    <3> DEFINE o == job.draft
    <3>1. o \in Tables /\ d \in Tables
      BY <1>1, <1>3
    <3>2. \A j \in Invoices, q \in Payments : j # i \/ q # p => d[j][q] = o[j][q]
      BY <1>3
    <3> HIDE DEF o
    <3>3. /\ PaidFor(d, i, Payments) = PaidFor(o, i, Payments) - Share(o[i][p]) + Share(d[i][p])
          /\ SpentOn(d, p, Invoices) = SpentOn(o, p, Invoices) - Share(o[i][p]) + Share(d[i][p])
          /\ \A j \in Invoices \ {i} : PaidFor(d, j, Payments) = PaidFor(o, j, Payments)
          /\ \A q \in Payments \ {p} : SpentOn(d, q, Invoices) = SpentOn(o, q, Invoices)
      BY <3>1, <3>2, OneLink
    <3> QED
      BY <3>3 DEF o
  <2>2. /\ PaidFor(job.draft, i, Payments) \in Nat /\ SpentOn(job.draft, p, Invoices) \in Nat
        /\ Share(job.draft[i][p]) = 0 /\ Share(d[i][p]) = Unspent(p)
    BY <1>2, <1>3, <1>4, DraftNats
  <2> QED
    BY <1>1, <2>1, <2>2
<1>6. PaidFor(d, i, Payments) = Amount[i] /\ SpentOn(d, p, Invoices) = Amount[p]
  BY <1>5, DraftNats DEF Open, Unspent
<1>7. Fit(d)
  BY <1>1, <1>5, <1>6, DraftNats DEF GoodDraft, Fit
<1>8. \A q \in Payments : SpentOn(d, q, Invoices) >= SpentOn(links, q, Invoices)
  <2>1. \A q \in Payments : SpentOn(links, q, Invoices) \in Nat
    BY SpentNat DEF MatchingInv, Sound
  <2> QED
    BY <1>1, <1>5, <2>1, DraftNats DEF GoodDraft
<1>9. Sound(d) /\ \A j \in Invoices, q \in Payments : Decided(j, q) => d[j][q] = links[j][q]
  BY <1>1, <1>2, <1>3, <1>4 DEF GoodDraft, Sound
<1>10. GoodDraft(d)
  BY <1>7, <1>8, <1>9 DEF GoodDraft
<1> QED
  BY <1>10 DEF d, row

LEMMA MatchBestStep ==
    ASSUME MatchingInv, ~Idle, NEW p \in Payments, NEW is \in SUBSET Invoices,
           MatchBest(p, Equal(p, is))
    PROVE  MatchingInv'
<1>1. CASE Done(p, job.draft)
  BY <1>1, DoneStep, ActiveJob
<1>2. ASSUME NEW i \in BestOf(p, Equal(p, is)),
             Done(p, [job.draft EXCEPT ![i][p] = Link("auto", Unspent(p))])
      PROVE  MatchingInv'
  <2>1. i \in Invoices /\ Untouched(i, p) /\ Open(i) = Unspent(p)
    BY DEF BestOf, Equal
  <2> QED
    BY <1>2, <2>1, ClosingLink, DoneStep
<1> QED
  BY <1>1, <1>2 DEF MatchBest

LEMMA TakesActive ==
    ASSUME NEW round \in DOMAIN RoundAfter, NEW p \in Payments, MatchingInv, Takes(round, p)
    PROVE  ~Idle /\ InWindow \subseteq Invoices
<1>1. ~Idle /\ job \in ActiveJobs
  BY ActiveJob, RoundNames DEF Takes
<1>2. Head(job.months) \in Months
  BY <1>1 DEF ActiveJobs
<1> QED
  BY <1>1, <1>2, PaymentAssumption DEF InWindow

(* A payment that moves from one invoice to another.                       *)
LEMMA MovedLink ==
    ASSUME NEW ls \in Tables, NEW i \in Invoices, NEW j \in Invoices, i # j, NEW p \in Payments,
           NEW a \in Rows, NEW b \in Rows, NEW ns \in Tables, ns[i][p] = a, ns[j][p] = b,
           \A k \in Invoices, q \in Payments : q # p \/ k \notin {i, j} => ns[k][q] = ls[k][q]
    PROVE  /\ PaidFor(ns, i, Payments) = PaidFor(ls, i, Payments) - Share(ls[i][p]) + Share(a)
           /\ PaidFor(ns, j, Payments) = PaidFor(ls, j, Payments) - Share(ls[j][p]) + Share(b)
           /\ \A k \in Invoices \ {i, j} : PaidFor(ns, k, Payments) = PaidFor(ls, k, Payments)
           /\ SpentOn(ns, p, Invoices) = SpentOn(ls, p, Invoices)
                 - Share(ls[i][p]) - Share(ls[j][p]) + Share(a) + Share(b)
           /\ \A q \in Payments \ {p} : SpentOn(ns, q, Invoices) = SpentOn(ls, q, Invoices)
<1> DEFINE ms == [ls EXCEPT ![i][p] = a]
<1>1. /\ ms \in Tables /\ ms[i][p] = a
      /\ \A k \in Invoices, q \in Payments : k # i \/ q # p => ms[k][q] = ls[k][q]
  BY DEF Tables
<1> HIDE DEF ms
<1>3. ms \in Tables /\ \A k \in Invoices, q \in Payments : k # j \/ q # p => ns[k][q] = ms[k][q]
  BY <1>1
<1>4. /\ PaidFor(ms, i, Payments) = PaidFor(ls, i, Payments) - Share(ls[i][p]) + Share(ms[i][p])
      /\ SpentOn(ms, p, Invoices) = SpentOn(ls, p, Invoices) - Share(ls[i][p]) + Share(ms[i][p])
      /\ \A k \in Invoices \ {i} : PaidFor(ms, k, Payments) = PaidFor(ls, k, Payments)
      /\ \A q \in Payments \ {p} : SpentOn(ms, q, Invoices) = SpentOn(ls, q, Invoices)
  BY ZenonT(30), <1>1, OneLink
<1>5. /\ PaidFor(ns, j, Payments) = PaidFor(ms, j, Payments) - Share(ms[j][p]) + Share(ns[j][p])
      /\ SpentOn(ns, p, Invoices) = SpentOn(ms, p, Invoices) - Share(ms[j][p]) + Share(ns[j][p])
      /\ \A k \in Invoices \ {j} : PaidFor(ns, k, Payments) = PaidFor(ms, k, Payments)
      /\ \A q \in Payments \ {p} : SpentOn(ns, q, Invoices) = SpentOn(ms, q, Invoices)
  BY <1>3, OneLink, ZenonT(60)
<1>6. /\ Share(ls[i][p]) \in Nat /\ Share(ls[j][p]) \in Nat /\ Share(a) \in Nat /\ Share(b) \in Nat
      /\ SpentOn(ls, p, Invoices) \in Nat /\ ms[j][p] = ls[j][p]
  BY <1>1, ShareNat, SpentNat DEF Tables
<1>8. SpentOn(ns, p, Invoices) = SpentOn(ls, p, Invoices)
        - Share(ls[i][p]) - Share(ls[j][p]) + Share(a) + Share(b)
  BY <1>1, <1>3, <1>4, <1>5, <1>6
<1>9. /\ PaidFor(ns, i, Payments) = PaidFor(ls, i, Payments) - Share(ls[i][p]) + Share(a)
      /\ PaidFor(ns, j, Payments) = PaidFor(ls, j, Payments) - Share(ls[j][p]) + Share(b)
  BY <1>1, <1>3, <1>4, <1>5, <1>6
<1> QED
  BY <1>4, <1>5, <1>8, <1>9

(* The repair gives a payment's whole amount to another invoice, which had *)
(* exactly as much left.                                                   *)
LEMMA RepairMove ==
    ASSUME MatchingInv, ~Idle, NEW i \in Invoices, NEW j \in Invoices, NEW p \in Payments,
           WholeLink(p, i), j \in BetterFor(p, i)
    PROVE  GoodDraft(Moved(p, i, j))
<1> DEFINE o == job.draft
<1> DEFINE d == Moved(p, i, j)
<1> DEFINE a == Rejected(o[i][p])
<1> DEFINE b == Link("auto", Amount[p])
<1>1. /\ o \in Tables /\ GoodDraft(o) /\ o[i][p] \in Rows /\ Amount[p] \in Nat
      /\ OnPayment(o, p) = {i} /\ o[i][p].method = "auto" /\ o[i][p].amount = Amount[p]
  BY ActiveJob, PaymentAssumption DEF WholeLink, Tables
<1>2. i # j /\ Untouched(j, p) /\ WouldTake(j, p, i)
  BY DEF BetterFor, BestOf, Repairs
<1>3. Share(o[i][p]) = Amount[p] /\ Share(o[j][p]) = 0 /\ ~Decided(i, p) /\ ~Decided(j, p)
  <2>1. Active(o[i][p])
    BY <1>1 DEF OnPayment
  <2> QED
    BY <1>1, <1>2, <2>1, NotDecided, UntouchedRow DEF Share
<1>4. a \in Rows /\ a.method = "rejected" /\ Share(a) = 0
  BY <1>1, RejectedRow
<1>5. b \in Rows /\ b.method # "none" /\ Share(b) = Amount[p]
  BY <1>1, MadeRow
<1>6. d = [[o EXCEPT ![i][p] = a] EXCEPT ![j][p] = b]
  BY DEF Moved
<1>a. /\ d \in Tables /\ d[i][p] = a /\ d[j][p] = b
      /\ \A k \in Invoices, q \in Payments : q # p \/ k \notin {i, j} => d[k][q] = o[k][q]
  <2> HIDE DEF o, d, a, b
  <2> QED
    BY <1>1, <1>2, <1>4, <1>5, <1>6 DEF Tables
<1>7. Amount[j] - PaidFor(o, j, Payments) = Amount[p]
  BY <1>2, Undisturbed DEF WouldTake
<1>8. /\ \A k \in Invoices : PaidFor(o, k, Payments) \in Nat /\ Amount[k] \in Nat
      /\ \A q \in Payments : SpentOn(o, q, Invoices) \in Nat /\ Amount[q] \in Nat
  BY DraftNats
<1> HIDE DEF o, d, a, b
<1>9. /\ PaidFor(d, i, Payments) = PaidFor(o, i, Payments) - Share(o[i][p]) + Share(a)
      /\ PaidFor(d, j, Payments) = PaidFor(o, j, Payments) - Share(o[j][p]) + Share(b)
      /\ \A k \in Invoices \ {i, j} : PaidFor(d, k, Payments) = PaidFor(o, k, Payments)
      /\ SpentOn(d, p, Invoices) = SpentOn(o, p, Invoices)
            - Share(o[i][p]) - Share(o[j][p]) + Share(a) + Share(b)
      /\ \A q \in Payments \ {p} : SpentOn(d, q, Invoices) = SpentOn(o, q, Invoices)
  BY <1>1, <1>2, <1>4, <1>5, <1>a, MovedLink
<1>10. \A q \in Payments : SpentOn(d, q, Invoices) = SpentOn(o, q, Invoices)
  BY <1>3, <1>4, <1>5, <1>8, <1>9
<1>11. \A k \in Invoices : PaidFor(d, k, Payments) <= Amount[k]
  <2>1. \A k \in Invoices : PaidFor(o, k, Payments) <= Amount[k]
    BY <1>1 DEF GoodDraft, Fit
  <2>2. PaidFor(d, i, Payments) <= Amount[i]
    BY <1>1, <1>3, <1>4, <1>8, <1>9, <2>1
  <2>3. PaidFor(d, j, Payments) = Amount[j]
    BY <1>1, <1>3, <1>5, <1>7, <1>8, <1>9
  <2> QED
    BY <1>8, <1>9, <2>1, <2>2, <2>3
<1>12. Fit(d) /\ \A q \in Payments : SpentOn(d, q, Invoices) >= SpentOn(links, q, Invoices)
  BY <1>1, <1>10, <1>11 DEF GoodDraft, Fit
<1>13. \A k \in Invoices, q \in Payments : Decided(k, q) => d[k][q] = links[k][q]
  BY <1>1, <1>3, <1>a DEF GoodDraft
<1>14. Sound(d)
  BY <1>1, <1>4, <1>5, <1>a DEF GoodDraft, Sound
<1> QED
  BY <1>12, <1>13, <1>14 DEF GoodDraft, d

LEMMA RepairStep ==
    ASSUME MatchingInv, NEW p \in Payments, Repair(p)
    PROVE  MatchingInv'
<1>1. ~Idle
  BY TakesActive, RoundNames DEF Repair
<1>2. CASE Done(p, job.draft)
  BY <1>1, <1>2, DoneStep, ActiveJob
<1>3. ASSUME NEW i \in Invoices, NEW j \in Invoices, WholeLink(p, i), j \in BetterFor(p, i),
             Done(p, Moved(p, i, j))
      PROVE  MatchingInv'
  BY <1>1, <1>3, RepairMove, DoneStep
<1> QED
  BY <1>2, <1>3 DEF Repair

(* Where values of zero in a part are raised to those of u.                *)
LEMMA RaisedTotal ==
    ASSUME NEW D, IsFiniteSet(D), NEW f \in [D -> Nat], NEW g \in [D -> Nat],
           NEW S \in SUBSET D, NEW u \in [S -> Nat],
           \A x \in D : g[x] = f[x] \/ (x \in S /\ f[x] = 0 /\ g[x] = u[x])
    PROVE  Total(g) <= Total(f) + Total(u)
<1> DEFINE z == [x \in D |-> IF x \in S THEN u[x] ELSE 0]
<1> DEFINE s == [x \in D |-> f[x] + z[x]]
<1>1. /\ z \in [D -> Nat] /\ s \in [D -> Nat] /\ \A x \in D : g[x] <= s[x]
      /\ \A x \in D : z[x] = IF x \in S THEN u[x] ELSE 0
      /\ \A x \in D : s[x] = f[x] + z[x]
  OBVIOUS
<1> HIDE DEF z, s
<1>2. Total(z) = Total(u)
  <2>1. z \in [D -> Nat]
    BY <1>1
  <2>2. \A x \in D : z[x] = IF x \in S THEN u[x] ELSE 0
    BY <1>1
  <2> QED
    BY <2>1, <2>2, TotalPadded
<1>3. Total(s) = Total(f) + Total(z)
  <2>1. z \in [D -> Nat]
    BY <1>1
  <2>2. s \in [D -> Nat]
    BY <1>1
  <2>3. Sums(s, f, z)
    BY <1>1 DEF Sums
  <2> QED
    BY <2>1, <2>2, <2>3, TotalSum
<1>4. Total(g) <= Total(s)
  BY <1>1, TotalMonotone
<1> QED
  BY <1>2, <1>3, <1>4

(* The table after some untouched links were made: a good draft if no      *)
(* invoice and no payment exceeds its amount.                              *)
LEMMA MadeLinks ==
    ASSUME MatchingInv, ~Idle, NEW d, d \in Tables,
           \A j \in Invoices, q \in Payments :
              \/ d[j][q] = job.draft[j][q]
              \/ Untouched(j, q) /\ d[j][q].method # "none",
           Fit(d)
    PROVE  GoodDraft(d)
<1>1. GoodDraft(job.draft) /\ job.draft \in Tables
  BY ActiveJob
<1>2. Sound(d)
  BY <1>1 DEF GoodDraft, Sound
<1>3. \A j \in Invoices, q \in Payments : Decided(j, q) => d[j][q] = links[j][q]
  BY <1>1, UntouchedRow DEF GoodDraft
<1>4. ASSUME NEW q \in Payments
      PROVE  SpentOn(d, q, Invoices) >= SpentOn(links, q, Invoices)
  <2>1. \A j \in Invoices :
          /\ Share(d[j][q]) \in Nat /\ Share(job.draft[j][q]) \in Nat
          /\ Share(job.draft[j][q]) <= Share(d[j][q])
    BY <1>1, UntouchedRow, ShareNat DEF Tables
  <2>2. /\ [j \in Invoices |-> Share(d[j][q])] \in [Invoices -> Nat]
        /\ [j \in Invoices |-> Share(job.draft[j][q])] \in [Invoices -> Nat]
        /\ IsFiniteSet(Invoices)
    BY <2>1, PaymentAssumption
  <2>3. SpentOn(job.draft, q, Invoices) <= SpentOn(d, q, Invoices)
    BY <2>1, <2>2, TotalMonotone DEF SpentOn
  <2>4. /\ SpentOn(links, q, Invoices) \in Nat /\ SpentOn(job.draft, q, Invoices) \in Nat
        /\ SpentOn(d, q, Invoices) \in Nat
    BY <1>1, SpentNat DEF MatchingInv, Sound
  <2> QED
    BY <1>1, <2>3, <2>4 DEF GoodDraft
<1> QED
  BY <1>2, <1>3, <1>4 DEF GoodDraft

LEMMA SplitGood ==
    ASSUME MatchingInv, ~Idle, NEW i \in Invoices, NEW ps \in SUBSET Payments, MakeUp(i, ps)
    PROVE  GoodDraft(SplitOver(i, ps))
<1> DEFINE o == job.draft
<1> DEFINE d == SplitOver(i, ps)
<1> DEFINE u == [p \in ps |-> Unspent(p)]
<1>1. /\ o \in Tables /\ GoodDraft(o) /\ IsFiniteSet(Payments)
      /\ \A j \in Invoices : PaidFor(o, j, Payments) \in Nat /\ Amount[j] \in Nat
      /\ \A q \in Payments : SpentOn(o, q, Invoices) \in Nat /\ Amount[q] \in Nat /\ Unspent(q) \in Nat
  BY ActiveJob, DraftNats, PaymentAssumption
<1>2. \A q \in Payments : /\ Link("split", Unspent(q)) \in Rows
                          /\ Link("split", Unspent(q)).method # "none"
                          /\ Share(Link("split", Unspent(q))) = Unspent(q)
  BY <1>1, MadeRow
<1>3. d \in Tables
  BY <1>1, <1>2 DEF SplitOver, Tables
<1>4. /\ \A j \in Invoices \ {i}, q \in Payments : d[j][q] = o[j][q]
      /\ \A q \in Payments : \/ d[i][q] = o[i][q]
                             \/ q \in ps /\ Untouched(i, q) /\ d[i][q] = Link("split", Unspent(q))
  BY <1>1, Undisturbed DEF SplitOver, Tables, Absent, Untouched
<1> HIDE DEF d
<1>5. PaidFor(d, i, Payments) <= PaidFor(o, i, Payments) + Total(u)
  <2> DEFINE f == [q \in Payments |-> Share(o[i][q])]
  <2> DEFINE g == [q \in Payments |-> Share(d[i][q])]
  <2>1. f \in [Payments -> Nat] /\ g \in [Payments -> Nat] /\ u \in [ps -> Nat]
    BY <1>1, <1>3, ShareNat DEF Tables
  <2>2. \A q \in Payments : g[q] = f[q] \/ (q \in ps /\ f[q] = 0 /\ g[q] = u[q])
    BY <1>2, <1>4, UntouchedRow
  <2>3. PaidFor(o, i, Payments) = Total(f) /\ PaidFor(d, i, Payments) = Total(g)
    BY DEF PaidFor
  <2> HIDE DEF f, g, u
  <2> QED
    BY <1>1, <2>1, <2>2, <2>3, RaisedTotal
<1>6. PaidFor(d, i, Payments) <= Amount[i]
  <2>1. Amount[i] - PaidFor(o, i, Payments) = Total(u)
    BY DEF MakeUp, Open
  <2> HIDE DEF u
  <2>2. PaidFor(d, i, Payments) \in Nat
    BY <1>3, PaidNat
  <2> QED
    BY <1>1, <1>5, <2>1, <2>2
<1>7. \A j \in Invoices \ {i} : PaidFor(d, j, Payments) = PaidFor(o, j, Payments)
  BY <1>4, SameSums
<1>8. ASSUME NEW q \in Payments PROVE SpentOn(d, q, Invoices) <= Amount[q]
  <2>1. /\ SpentOn(d, q, Invoices) = SpentOn(o, q, Invoices) - Share(o[i][q]) + Share(d[i][q])
        /\ SpentOn(o, q, Invoices) <= Amount[q]
    <3>1. \A j \in Invoices, r \in Payments : j # i => d[j][r] = o[j][r]
      BY <1>4
    <3>2. SpentOn(d, q, Invoices \ {i}) = SpentOn(o, q, Invoices \ {i})
      BY <1>4, SameSums
    <3>3. /\ SpentOn(d, q, Invoices) = SpentOn(d, q, Invoices \ {i}) + Share(d[i][q])
          /\ SpentOn(o, q, Invoices) = SpentOn(o, q, Invoices \ {i}) + Share(o[i][q])
      BY <1>1, <1>3, WithoutOne
    <3>4. /\ Share(d[i][q]) \in Nat /\ Share(o[i][q]) \in Nat
          /\ SpentOn(o, q, Invoices \ {i}) \in Nat
      BY <1>1, <1>3, ShareNat, SpentNat DEF Tables
    <3> QED
      BY <1>1, <3>2, <3>3, <3>4 DEF GoodDraft, Fit
  <2>2. \/ d[i][q] = o[i][q]
        \/ Share(o[i][q]) = 0 /\ Share(d[i][q]) = Unspent(q)
    BY <1>2, <1>4, UntouchedRow
  <2>3. Unspent(q) = Amount[q] - SpentOn(o, q, Invoices)
    BY DEF Unspent
  <2>4. Share(d[i][q]) \in Nat
    BY <1>3, ShareNat DEF Tables
  <2> HIDE DEF o
  <2> QED
    BY <1>1, <2>1, <2>2, <2>3, <2>4
<1>9. Fit(d)
  BY <1>1, <1>6, <1>7, <1>8 DEF GoodDraft, Fit
<1>10. \A j \in Invoices, q \in Payments :
          d[j][q] = o[j][q] \/ (Untouched(j, q) /\ d[j][q].method # "none")
  <2> SUFFICES ASSUME NEW j \in Invoices, NEW q \in Payments
               PROVE  d[j][q] = o[j][q] \/ (Untouched(j, q) /\ d[j][q].method # "none")
    OBVIOUS
  <2>1. CASE j = i
    BY <1>2, <1>4, <2>1
  <2>2. CASE ~(j = i)
    BY <1>4, <2>2
  <2> QED
    BY <2>1, <2>2
<1> QED
  BY <1>3, <1>9, <1>10, MadeLinks DEF d

LEMMA SpreadGood ==
    ASSUME MatchingInv, ~Idle, NEW p \in Payments, InWindow \subseteq Invoices, CoversAll(p)
    PROVE  GoodDraft(SpreadOver(p))
<1> DEFINE o == job.draft
<1> DEFINE d == SpreadOver(p)
<1> DEFINE is == OpenOfName(p)
<1> DEFINE u == [i \in is |-> Open(i)]
<1>1. /\ o \in Tables /\ GoodDraft(o) /\ IsFiniteSet(Invoices)
      /\ \A j \in Invoices : PaidFor(o, j, Payments) \in Nat /\ Amount[j] \in Nat /\ Open(j) \in Nat
      /\ \A q \in Payments : SpentOn(o, q, Invoices) \in Nat /\ Amount[q] \in Nat
  BY ActiveJob, DraftNats, PaymentAssumption
<1>2. \A j \in Invoices : /\ Link("split", Open(j)) \in Rows
                          /\ Link("split", Open(j)).method # "none"
                          /\ Share(Link("split", Open(j))) = Open(j)
  BY <1>1, MadeRow
<1>a. is \in SUBSET Invoices
  BY DEF OpenOfName
<1> HIDE DEF is
<1>3. d \in Tables
  BY <1>1, <1>2 DEF SpreadOver, Tables
<1>4. /\ \A j \in Invoices, q \in Payments \ {p} : d[j][q] = o[j][q]
      /\ \A j \in Invoices : \/ d[j][p] = o[j][p]
                             \/ j \in is /\ Untouched(j, p) /\ d[j][p] = Link("split", Open(j))
  BY <1>1, Undisturbed DEF SpreadOver, Tables, Absent, Untouched, is
<1> HIDE DEF d
<1>5. SpentOn(d, p, Invoices) <= SpentOn(o, p, Invoices) + Total(u)
  <2> DEFINE f == [j \in Invoices |-> Share(o[j][p])]
  <2> DEFINE g == [j \in Invoices |-> Share(d[j][p])]
  <2>1. f \in [Invoices -> Nat] /\ g \in [Invoices -> Nat] /\ u \in [is -> Nat]
    BY <1>1, <1>3, <1>a, ShareNat DEF Tables
  <2>2. \A j \in Invoices : g[j] = f[j] \/ (j \in is /\ f[j] = 0 /\ g[j] = u[j])
    BY <1>2, <1>4, UntouchedRow
  <2>3. SpentOn(o, p, Invoices) = Total(f) /\ SpentOn(d, p, Invoices) = Total(g)
    BY DEF SpentOn
  <2> HIDE DEF f, g, u
  <2> QED
    BY <1>1, <1>a, <2>1, <2>2, <2>3, RaisedTotal
<1>6. SpentOn(d, p, Invoices) <= Amount[p]
  <2>1. Amount[p] - SpentOn(o, p, Invoices) = Total(u)
    BY DEF CoversAll, Unspent, is
  <2> HIDE DEF u
  <2>2. SpentOn(d, p, Invoices) \in Nat
    BY <1>3, SpentNat
  <2> QED
    BY <1>1, <1>5, <2>1, <2>2
<1>7. \A q \in Payments \ {p} : SpentOn(d, q, Invoices) = SpentOn(o, q, Invoices)
  BY <1>4, SameSums
<1>8. ASSUME NEW j \in Invoices PROVE PaidFor(d, j, Payments) <= Amount[j]
  <2>1. /\ PaidFor(d, j, Payments) = PaidFor(o, j, Payments) - Share(o[j][p]) + Share(d[j][p])
        /\ PaidFor(o, j, Payments) <= Amount[j]
    <3>2. PaidFor(d, j, Payments \ {p}) = PaidFor(o, j, Payments \ {p})
      BY <1>4, SameSums
    <3>3. /\ PaidFor(d, j, Payments) = PaidFor(d, j, Payments \ {p}) + Share(d[j][p])
          /\ PaidFor(o, j, Payments) = PaidFor(o, j, Payments \ {p}) + Share(o[j][p])
      BY <1>1, <1>3, WithoutOne
    <3>4. /\ Share(d[j][p]) \in Nat /\ Share(o[j][p]) \in Nat
          /\ PaidFor(o, j, Payments \ {p}) \in Nat
      BY <1>1, <1>3, ShareNat, PaidNat DEF Tables
    <3> QED
      BY <1>1, <3>2, <3>3, <3>4 DEF GoodDraft, Fit
  <2>2. \/ d[j][p] = o[j][p]
        \/ Share(o[j][p]) = 0 /\ Share(d[j][p]) = Open(j)
    BY <1>2, <1>4, UntouchedRow
  <2>3. Open(j) = Amount[j] - PaidFor(o, j, Payments)
    BY DEF Open
  <2>4. Share(d[j][p]) \in Nat
    BY <1>3, ShareNat DEF Tables
  <2> HIDE DEF o
  <2> QED
    BY <1>1, <2>1, <2>2, <2>3, <2>4
<1>9. Fit(d)
  BY <1>1, <1>6, <1>7, <1>8 DEF GoodDraft, Fit
<1>10. \A j \in Invoices, q \in Payments :
          d[j][q] = o[j][q] \/ (Untouched(j, q) /\ d[j][q].method # "none")
  <2> SUFFICES ASSUME NEW j \in Invoices, NEW q \in Payments
               PROVE  d[j][q] = o[j][q] \/ (Untouched(j, q) /\ d[j][q].method # "none")
    OBVIOUS
  <2>1. CASE q = p
    BY <1>2, <1>4, <2>1
  <2>2. CASE ~(q = p)
    BY <1>4, <2>2
  <2> QED
    BY <2>1, <2>2
<1> QED
  BY <1>3, <1>9, <1>10, MadeLinks DEF d

LEMMA MatchStep ==
    ASSUME MatchingInv, NEW p \in Payments, MatchSingle(p) \/ MatchAccount(p)
    PROVE  MatchingInv'
<1>1. ~Idle /\ InWindow \subseteq Invoices
  BY TakesActive, RoundNames DEF MatchSingle, MatchAccount
<1>2. CASE MatchSingle(p)
  <2>1. {i \in InWindow : Evident(p, i)} \in SUBSET Invoices
    BY <1>1
  <2> QED
    BY <1>1, <1>2, <2>1, MatchBestStep DEF MatchSingle
<1>3. CASE MatchAccount(p)
  <2>1. {i \in InWindow : <<p, i>> \in SameAccount} \in SUBSET Invoices
    BY <1>1
  <2> QED
    BY <1>1, <1>3, <2>1, MatchBestStep DEF MatchAccount
<1> QED
  BY <1>2, <1>3

LEMMA SpreadStep ==
    ASSUME MatchingInv, NEW p \in Payments, Spread(p)
    PROVE  MatchingInv'
<1>1. ~Idle /\ InWindow \subseteq Invoices
  BY TakesActive, RoundNames DEF Spread
<1>2. CASE CoversAll(p)
  BY <1>1, <1>2, SpreadGood, DoneStep DEF Spread
<1>3. CASE ~CoversAll(p)
  BY <1>1, <1>3, ActiveJob, DoneStep DEF Spread
<1> QED
  BY <1>2, <1>3

LEMMA SplitStep ==
    ASSUME MatchingInv, NEW i \in Invoices, Split(i)
    PROVE  MatchingInv'
<1>1. job \in ActiveJobs /\ ~Idle /\ GoodDraft(job.draft)
  BY ActiveJob DEF Split
<1>2. PICK draft \in {SplitOver(i, ps) : ps \in Parts(i)} \cup (IF Parts(i) = {} THEN {job.draft} ELSE {}) :
          job' = [job EXCEPT !.open = job.open \ {i}, !.draft = draft]
  BY DEF Split
<1>3. GoodDraft(draft)
  <2>1. CASE draft = job.draft
    BY <1>1, <2>1
  <2>2. ASSUME NEW ps \in Parts(i), draft = SplitOver(i, ps) PROVE GoodDraft(draft)
    <3>1. ps \in SUBSET Payments /\ MakeUp(i, ps)
      BY DEF Parts, Firsts, SpareFor, PaymentsIn
    <3> QED
      BY <1>1, <2>2, <3>1, SplitGood
  <2> QED
    BY <2>1, <2>2
<1>4. job' \in ActiveJobs /\ job'.draft = draft /\ job'.loaded = job.loaded
  BY <1>1, <1>2, <1>3 DEF ActiveJobs, GoodDraft, Sound
<1>5. UNCHANGED <<links, call>>
  BY DEF Split
<1> QED
  BY <1>1, <1>3, <1>4, <1>5, ActiveJob, JobStep

LEMMA NextRoundStep ==
    ASSUME MatchingInv, NextRound
    PROVE  MatchingInv'
<1> DEFINE r == RoundAfter[job.round]
<1> DEFINE rest == IF r \in {"split", "commit"} THEN {} ELSE PaymentsIn(Head(job.months))
<1> DEFINE open == IF r = "split" THEN {i \in InWindow : Open(i) > 0} ELSE {}
<1>1. job \in ActiveJobs /\ ~Idle /\ GoodDraft(job.draft)
  BY ActiveJob, RoundNames DEF NextRound
<1>a. /\ job.draft = IF r = "single" THEN Current ELSE job.draft
      /\ job.loaded = IF r = "single" THEN Reloaded ELSE job.loaded
      /\ job.loaded = links
  BY <1>1, ActiveJob, Undisturbed
<1>2. /\ job' = [job EXCEPT !.round = r, !.rest = rest, !.open = open,
                            !.loaded = job.loaded, !.draft = job.draft]
      /\ UNCHANGED <<links, call>>
  BY <1>a DEF NextRound
<1>3. r \in DOMAIN RoundAfter \cup {"commit"}
  BY RoundNames DEF NextRound
<1>4. rest \in SUBSET Payments
  BY DEF PaymentsIn
<1>5. open \in SUBSET Invoices
  <2>1. Head(job.months) \in Months
    BY <1>1 DEF ActiveJobs
  <2> QED
    BY <2>1, PaymentAssumption DEF InWindow
<1> HIDE DEF r, rest, open
<1>6. job' \in ActiveJobs /\ job'.draft = job.draft /\ job'.loaded = job.loaded
  BY <1>1, <1>2, <1>3, <1>4, <1>5 DEF ActiveJobs
<1> QED
  BY <1>1, <1>a, <1>2, <1>6, JobStep

LEMMA StartJobStep ==
    ASSUME MatchingInv, NEW s \in Schedules, StartJob(s)
    PROVE  MatchingInv'
<1>1. /\ s \in Seq(Months) \ {<<>>} /\ links \in Tables
      /\ job' = [round |-> "repair", months |-> s, rest |-> PaymentsIn(Head(s)),
                 open |-> {}, loaded |-> links, draft |-> links]
      /\ UNCHANGED <<links, call>> /\ \A w \in Workers : call[w] = NoCall
  BY PaymentAssumption DEF StartJob, MatchingInv, Sound
<1>2. PaymentsIn(Head(s)) \in SUBSET Payments /\ "repair" \in DOMAIN RoundAfter
  BY RoundNames DEF PaymentsIn
<1>3. job' \in ActiveJobs /\ job'.draft = links /\ job'.loaded = links
  BY <1>1, <1>2 DEF ActiveJobs
<1>4. \A p \in Payments : SpentOn(links, p, Invoices) \in Nat
  BY <1>1, SpentNat
<1>5. GoodDraft(job.draft)'
  <2>1. GoodDraft(links)
    BY <1>1, <1>4 DEF GoodDraft, MatchingInv
  <2>2. GoodDraft(links)'
    BY <1>1, <2>1 DEF GoodDraft, Sound, Fit, PaidFor, SpentOn, Decided
  <2>3. job'.draft = links'
    BY <1>1, <1>3
  <2> QED
    BY <2>2, <2>3
<1>6. LocksApart' /\ \A w \in Workers : ~HasInvoice(w)'
  BY <1>1 DEF LocksApart, HasPayment, HasInvoice, NoCall
<1>7. Sound(links)' /\ Fit(links)'
  BY <1>1 DEF MatchingInv, Sound, Fit, PaidFor, SpentOn
<1>8. call' \in [Workers -> Calls] /\ job' \in Jobs
  BY <1>1, <1>3 DEF MatchingInv, Jobs, ActiveJobs
<1> QED
  BY <1>1, <1>3, <1>5, <1>6, <1>7, <1>8 DEF MatchingInv

LEMMA LaterMonths ==
    ASSUME NEW ms \in Seq(Months) \ {<<>>}, Len(ms) # 1
    PROVE  Tail(ms) \in Seq(Months) \ {<<>>}
<1>1. Len(ms) \in Nat \ {0, 1}
  OBVIOUS
<1>2. Tail(ms) \in Seq(Months) /\ Len(Tail(ms)) = Len(ms) - 1
  BY <1>1
<1>3. Len(Tail(ms)) # 0
  BY <1>1, <1>2
<1> DEFINE s == Tail(ms)
<1>4. Len(s) # 0
  BY <1>3
<1>5. Len(<<>>) = 0
  OBVIOUS
<1> HIDE DEF s
<1>6. s # <<>>
  BY <1>4, <1>5
<1> QED
  BY <1>2, <1>6 DEF s

(* A job that ends, or a month of it: the links are what they were or the  *)
(* draft.                                                                  *)
LEMMA CommitJobStep ==
    ASSUME MatchingInv, CommitJob
    PROVE  MatchingInv'
<1>1. /\ job \in ActiveJobs /\ ~Idle /\ GoodDraft(job.draft)
      /\ links' = job.draft /\ call' = call /\ \A w \in Workers : call[w] = NoCall
  BY ActiveJob, Undisturbed DEF CommitJob
<1>2. LocksApart' /\ \A w \in Workers : ~HasInvoice(w)'
  BY <1>1 DEF LocksApart, HasPayment, HasInvoice, NoCall
<1>3. Sound(links)' /\ Fit(links)'
  BY <1>1 DEF GoodDraft, Sound, Fit, PaidFor, SpentOn
<1>4. CASE Len(job.months) = 1
  <2>1. job' = NoJob /\ NoJob \in Jobs
    BY <1>4 DEF CommitJob, NoJob, Jobs
  <2> QED
    BY <1>1, <1>2, <1>3, <2>1 DEF MatchingInv, Idle
<1>5. CASE Len(job.months) # 1
  <2> DEFINE months == Tail(job.months)
  <2> DEFINE rest == PaymentsIn(Head(Tail(job.months)))
  <2>1. job' = [job EXCEPT !.round = "repair", !.months = months, !.rest = rest,
                           !.loaded = job.draft, !.draft = job.draft]
    BY <1>1, <1>5 DEF CommitJob
  <2>2. months \in Seq(Months) \ {<<>>}
    BY <1>1, <1>5, LaterMonths DEF ActiveJobs
  <2>3. rest \in SUBSET Payments /\ "repair" \in DOMAIN RoundAfter
    BY RoundNames DEF PaymentsIn
  <2> HIDE DEF months, rest
  <2>4. job' \in ActiveJobs /\ job'.draft = job.draft /\ job'.loaded = links'
    BY <1>1, <2>1, <2>2, <2>3 DEF ActiveJobs
  <2>5. \A p \in Payments : SpentOn(job.draft, p, Invoices) \in Nat
    BY <1>1, SpentNat DEF GoodDraft, Sound
  <2>6. GoodDraft(job.draft)'
    <3>1. \A p \in Payments : SpentOn(links', p, Invoices) >= SpentOn(links', p, Invoices)
      BY <1>1, <2>5
    <3>2. job'.draft = links'
      BY <1>1, <2>4
    <3> QED
      BY <1>3, <3>1, <3>2 DEF GoodDraft, Sound, Fit, PaidFor, SpentOn, Decided
  <2>7. job' \in Jobs
    BY <2>4 DEF Jobs, ActiveJobs
  <2> QED
    BY <1>1, <1>2, <1>3, <2>4, <2>6, <2>7 DEF MatchingInv
<1> QED
  BY <1>4, <1>5

LEMMA CrashJobStep ==
    ASSUME MatchingInv, CrashJob
    PROVE  MatchingInv'
<1>1. job' = NoJob /\ NoJob \in Jobs /\ UNCHANGED <<links, call>>
  BY DEF CrashJob, NoJob, Jobs
<1>2. \A w \in Workers : call[w] = NoCall
  BY DEF CrashJob, MatchingInv
<1>3. LocksApart' /\ \A w \in Workers : ~HasInvoice(w)'
  BY <1>1, <1>2 DEF LocksApart, HasPayment, HasInvoice, NoCall
<1>4. Sound(links)' /\ Fit(links)'
  BY <1>1 DEF MatchingInv, Sound, Fit, PaidFor, SpentOn
<1> QED
  BY <1>1, <1>3, <1>4 DEF MatchingInv, Idle

-----------------------------------------------------------------------------
(* The invariant *)

LEMMA InitMatching ==
    ASSUME JobAlone, Init
    PROVE  MatchingInv
<1>1. NoLink \in Rows /\ Share(NoLink) = 0
  BY DEF NoLink, Rows, Methods, Share, Active
<1>2. links \in Tables /\ \A i \in Invoices, p \in Payments : links[i][p] = NoLink
  BY <1>1 DEF Init, Tables
<1>3. \A D : Total([x \in D |-> 0]) = 0
  <2> SUFFICES ASSUME NEW D PROVE Total([x \in D |-> 0]) = 0
    OBVIOUS
  <2>1. Units([x \in D |-> 0]) = {}
    BY DEF Units
  <2> QED
    BY <2>1, FS_EmptySet DEF Total
<1>4. /\ \A i \in Invoices : PaidFor(links, i, Payments) = 0
      /\ \A p \in Payments : SpentOn(links, p, Invoices) = 0
  <2>1. ASSUME NEW i \in Invoices PROVE PaidFor(links, i, Payments) = 0
    <3>1. [p \in Payments |-> Share(links[i][p])] = [p \in Payments |-> 0]
      BY <1>1, <1>2
    <3> QED
      BY <1>3, <3>1 DEF PaidFor
  <2>2. ASSUME NEW p \in Payments PROVE SpentOn(links, p, Invoices) = 0
    <3>1. [i \in Invoices |-> Share(links[i][p])] = [i \in Invoices |-> 0]
      BY <1>1, <1>2
    <3> QED
      BY <1>3, <3>1 DEF SpentOn
  <2> QED
    BY <2>1, <2>2
<1>5. Sound(links) /\ Fit(links)
  BY <1>2, <1>4, PaymentAssumption DEF Sound, Fit
<1>6. call \in [Workers -> Calls] /\ \A w \in Workers : call[w] = NoCall
  BY DEF Init, Calls, NoCall
<1>7. job \in Jobs /\ Idle
  BY DEF Init, Idle, NoJob, Jobs
<1>8. LocksApart /\ \A w \in Workers : ~HasInvoice(w)
  BY <1>6 DEF LocksApart, HasPayment, HasInvoice, NoCall
<1> QED
  BY <1>5, <1>6, <1>7, <1>8 DEF MatchingInv

LEMMA StutterMatching ==
    ASSUME MatchingInv, UNCHANGED vars
    PROVE  MatchingInv'
  BY ZenonT(30) DEF MatchingInv, vars, Sound, Fit, LocksApart, HasPayment, HasInvoice, RoomFor, OpenOf, UnspentOf,
         PaidFor, SpentOn, Idle, GoodDraft, Decided

LEMMA NextMatching == MatchingInv /\ [Next]_vars => MatchingInv'
<1> SUFFICES ASSUME MatchingInv, [Next]_vars PROVE MatchingInv'
  OBVIOUS
<1>1. ASSUME NEW w \in Workers, NEW r \in Requests, StartLink(w, r) PROVE MatchingInv'
  BY <1>1, StartLinkStep
<1>2. ASSUME NEW w \in Workers, LockPayment(w) PROVE MatchingInv'
  BY <1>2, LockPaymentStep
<1>3. ASSUME NEW w \in Workers, LockInvoice(w) PROVE MatchingInv'
  BY <1>3, LockInvoiceStep
<1>4. ASSUME NEW w \in Workers, CommitLink(w) PROVE MatchingInv'
  BY <1>4, CommitLinkStep
<1>5. ASSUME NEW w \in Workers, Crash(w) PROVE MatchingInv'
  BY <1>5, FinishStep DEF Crash
<1>6. ASSUME NEW i \in Invoices, NEW p \in Payments, Unlink(i, p) PROVE MatchingInv'
  BY <1>6, UnlinkStep
<1>7. ASSUME NEW s \in Schedules, StartJob(s) PROVE MatchingInv'
  BY <1>7, StartJobStep
<1>8. ASSUME NEW p \in Payments, Repair(p) PROVE MatchingInv'
  BY <1>8, RepairStep
<1>9. ASSUME NEW p \in Payments, MatchSingle(p) \/ MatchAccount(p) PROVE MatchingInv'
  BY <1>9, MatchStep
<1>10. ASSUME NEW p \in Payments, Spread(p) PROVE MatchingInv'
  BY <1>10, SpreadStep
<1>11. ASSUME NEW i \in Invoices, Split(i) PROVE MatchingInv'
  BY <1>11, SplitStep
<1>12. CASE NextRound
  BY <1>12, NextRoundStep
<1>13. CASE CommitJob
  BY <1>13, CommitJobStep
<1>14. CASE CrashJob
  BY <1>14, CrashJobStep
<1>15. CASE UNCHANGED vars
  BY <1>15, StutterMatching
<1> QED
  BY <1>1, <1>2, <1>3, <1>4, <1>5, <1>6, <1>7, <1>8, <1>9, <1>10, <1>11, <1>12, <1>13, <1>14, <1>15
  DEF Next

THEOREM Matching ==
    ASSUME JobAlone
    PROVE  Spec => []MatchingInv
  BY InitMatching, NextMatching, PTL DEF Spec

(* Nothing is paid or spent twice: the locks of link and the rounds of     *)
(* auto_match keep every invoice and every payment within its amount, if   *)
(* no call is under way while the job runs.                                *)
THEOREM NothingPaidTwice ==
    ASSUME JobAlone
    PROVE  Spec => []PaymentsFit
<1>1. MatchingInv => PaymentsFit
  BY DEF MatchingInv, PaymentsFit, Fit
<1> QED
  BY <1>1, Matching, PTL

(* What a step that moves the job does to the links.                       *)
LEMMA JobWrites ==
    ASSUME MatchingInv, [Next]_vars, job' # job
    PROVE  links' = links \/ (links' = job.draft /\ GoodDraft(job.draft))
<1>1. CASE CommitJob
  BY <1>1, ActiveJob, Undisturbed DEF CommitJob
<1>2. CASE ~CommitJob
  BY <1>2 DEF Next, vars, StartLink, LockPayment, LockInvoice, CommitLink, Crash, Finish, Unlink, StartJob,
     Repair, MatchSingle, MatchAccount, MatchBest, Spread, Split, NextRound, CrashJob, Done
<1> QED
  BY <1>1, <1>2

(* The job (auto_match) leaves alone what was linked or rejected by hand,  *)
(* if no call is under way while it runs.                                  *)
THEOREM DecisionsKept ==
    ASSUME JobAlone
    PROVE  Spec => JobKeepsDecisions
<1>1. MatchingInv /\ [Next]_vars =>
        [\A i \in Invoices, p \in Payments :
           job' # job /\ links[i][p].method \in {"manual", "rejected"} => links'[i][p] = links[i][p]]_vars
  BY JobWrites DEF GoodDraft, Decided
<1> QED
  BY <1>1, Matching, PTL DEF Spec, JobKeepsDecisions

(* The job (_repair_wrong_auto_links, auto_match) takes back no part of a  *)
(* payment, if no call is under way while it runs.                         *)
THEOREM NothingTakenBack ==
    ASSUME JobAlone
    PROVE  Spec => PaidStaysPaid
<1>1. MatchingInv /\ [Next]_vars =>
        [job' # job => \A p \in Payments :
           SpentOn(links', p, Invoices) >= SpentOn(links, p, Invoices)]_vars
  <2> SUFFICES ASSUME MatchingInv, [Next]_vars, job' # job, NEW p \in Payments
               PROVE  SpentOn(links', p, Invoices) >= SpentOn(links, p, Invoices)
    OBVIOUS
  <2>1. CASE links' = links
    <3>1. SpentOn(links, p, Invoices) \in Nat
      BY SpentNat DEF MatchingInv, Sound
    <3> QED
      BY <2>1, <3>1
  <2>2. CASE links' = job.draft /\ GoodDraft(job.draft)
    BY <2>2 DEF GoodDraft
  <2> QED
    BY <2>1, <2>2, JobWrites
<1> QED
  BY <1>1, Matching, PTL DEF Spec, PaidStaysPaid

-----------------------------------------------------------------------------
(* Jobs that overlap calls: without JobAlone *)

(* What the job makes of a pair it read: nothing, a rejection, or, where   *)
(* there was no row and none appeared, a new row.                          *)
Kept(i, p) ==
    \/ job.draft[i][p] = job.loaded[i][p]
    \/ job.draft[i][p].method = "rejected" /\ job.loaded[i][p].method # "rejected"
    \/ /\ job.draft[i][p].method # "none" /\ job.loaded[i][p].method = "none"
       /\ links[i][p].method = "none"

(* A row never disappears.                                                 *)
Older(loaded, row) == row.method = "none" => loaded.method = "none"

OverlapInv ==
    /\ call \in [Workers -> Calls] /\ job \in Jobs /\ Sound(links)
    /\ \A w \in Workers :
          HasInvoice(w) => Older(call[w].loaded, links[call[w].of][call[w].to])
    /\ ~Idle =>
          /\ Sound(job.loaded) /\ Sound(job.draft)
          /\ \A i \in Invoices, p \in Payments :
                Kept(i, p) /\ Older(job.loaded[i][p], links[i][p])

LEMMA WrittenMethod ==
    ASSUME NEW row \in Rows, NEW loaded \in Rows, NEW new \in Rows
    PROVE  /\ Written(row, loaded, new) \in Rows
           /\ Written(row, loaded, new).method =
                 IF new.method # loaded.method THEN new.method ELSE row.method
<1> DEFINE r == Written(row, loaded, new)
<1>1. DOMAIN row = {"method", "confirmed", "amount"}
  BY DEF Rows
<1>2. r = [c \in {"method", "confirmed", "amount"} |-> IF new[c] # loaded[c] THEN new[c] ELSE row[c]]
  BY <1>1 DEF Written
<1>3. r = [method |-> IF new.method # loaded.method THEN new.method ELSE row.method,
           confirmed |-> IF new.confirmed # loaded.confirmed THEN new.confirmed ELSE row.confirmed,
           amount |-> IF new.amount # loaded.amount THEN new.amount ELSE row.amount]
  BY <1>2
<1>4. /\ row.method \in Methods /\ row.confirmed \in BOOLEAN /\ row.amount \in Nat
      /\ new.method \in Methods /\ new.confirmed \in BOOLEAN /\ new.amount \in Nat
  BY DEF Rows
<1> HIDE DEF r
<1> QED
  BY <1>3, <1>4 DEF Rows, r

LEMMA OverlapJob ==
    ASSUME OverlapInv, job.round # "none" \/ ~Idle
    PROVE  /\ job \in ActiveJobs /\ ~Idle /\ links \in Tables
           /\ job.loaded \in Tables /\ job.draft \in Tables
           /\ Sound(job.loaded) /\ Sound(job.draft)
<1>1. ~Idle
  BY DEF Idle, NoJob
<1>2. job \in ActiveJobs
  BY <1>1 DEF OverlapInv, Jobs, ActiveJobs, Idle, NoJob
<1> QED
  BY <1>1, <1>2 DEF OverlapInv, Sound

LEMMA OverlapCall ==
    ASSUME OverlapInv, NEW w \in Workers, NEW c \in Calls,
           call' = [call EXCEPT ![w] = c], UNCHANGED <<links, job>>,
           c.kind = "commit" => Older(c.loaded, links[c.of][c.to])
    PROVE  OverlapInv'
<1>1. call' \in [Workers -> Calls] /\ call'[w] = c /\ \A v \in Workers \ {w} : call'[v] = call[v]
  BY DEF OverlapInv
<1>2. \A v \in Workers :
        HasInvoice(v)' => Older(call'[v].loaded, links'[call'[v].of][call'[v].to])
  BY <1>1 DEF OverlapInv, HasInvoice
<1>3. job' \in Jobs /\ Sound(links)'
  BY DEF OverlapInv, Sound
<1>4. ~Idle' => /\ Sound(job.loaded)' /\ Sound(job.draft)'
               /\ \A i \in Invoices, p \in Payments :
                     (Kept(i, p) /\ Older(job.loaded[i][p], links[i][p]))'
  BY DEF OverlapInv, Idle, Sound, Kept, Older
<1> QED
  BY <1>1, <1>2, <1>3, <1>4 DEF OverlapInv, Older

(* A call that writes a row the job did not.                               *)
LEMMA OverlapRow ==
    ASSUME OverlapInv, NEW i \in Invoices, NEW p \in Payments, ~Wrote(i, p),
           NEW row \in Rows, row.method # "none",
           links' = [links EXCEPT ![i][p] = row], UNCHANGED job,
           call' \in [Workers -> Calls], \A w \in Workers : call'[w] \in {call[w], NoCall}
    PROVE  OverlapInv'
<1>1. /\ links' \in Tables /\ links'[i][p] = row
      /\ \A j \in Invoices, q \in Payments : j # i \/ q # p => links'[j][q] = links[j][q]
  BY DEF OverlapInv, Sound, Tables
<1>2. Sound(links)'
  BY <1>1 DEF OverlapInv, Sound
<1>3. \A j \in Invoices, q \in Payments :
        links'[j][q].method = "none" => links'[j][q] = links[j][q]
  BY <1>1
<1>4. ASSUME NEW w \in Workers, HasInvoice(w)'
      PROVE  Older(call'[w].loaded, links'[call'[w].of][call'[w].to])
  <2>1. call'[w] = call[w] /\ call[w].kind = "commit"
    BY <1>4 DEF HasInvoice, NoCall
  <2>2. call[w].of \in Invoices /\ call[w].to \in Payments
    BY <2>1, CallShapes DEF OverlapInv, CommitCalls
  <2> QED
    BY <1>3, <2>1, <2>2 DEF OverlapInv, HasInvoice, Older
<1>5. ASSUME ~Idle', NEW j \in Invoices, NEW q \in Payments
      PROVE  (Kept(j, q) /\ Older(job.loaded[j][q], links[j][q]))'
  <2>1. Kept(j, q) /\ Older(job.loaded[j][q], links[j][q]) /\ ~Idle
    BY <1>5 DEF OverlapInv, Idle
  <2>2. CASE j = i /\ q = p
    BY <1>1, <2>1, <2>2 DEF Wrote, Kept, Older
  <2>3. CASE j # i \/ q # p
    BY <1>1, <2>1, <2>3 DEF Kept, Older
  <2> QED
    BY <2>2, <2>3
<1>6. ~Idle' => Sound(job.loaded)' /\ Sound(job.draft)'
  BY DEF OverlapInv, Idle, Sound
<1>7. job' \in Jobs
  BY DEF OverlapInv
<1> QED
  BY <1>2, <1>4, <1>5, <1>6, <1>7 DEF OverlapInv

(* A step of the job within a month.                                       *)
LEMMA OverlapDraft ==
    ASSUME OverlapInv, ~Idle, UNCHANGED <<links, call>>, NEW d \in Tables,
           job' \in ActiveJobs, job'.draft = d, job'.loaded = job.loaded,
           \A i \in Invoices, p \in Payments :
              \/ d[i][p] = job.draft[i][p]
              \/ job.draft[i][p].method = "auto" /\ d[i][p].method = "rejected"
              \/ links[i][p].method = "none" /\ d[i][p].method # "none"
    PROVE  OverlapInv'
<1>1. Sound(job.loaded) /\ Sound(job.draft)
  BY OverlapJob
<1>2. Sound(job'.loaded) /\ Sound(job'.draft)
  <2>1. ASSUME NEW i \in Invoices, NEW p \in Payments, d[i][p].method = "none" PROVE d[i][p] = NoLink
    BY <1>1, <2>1 DEF Sound
  <2> QED
    BY <1>1, <2>1 DEF Sound
<1>3. ASSUME NEW i \in Invoices, NEW p \in Payments
      PROVE  (Kept(i, p) /\ Older(job.loaded[i][p], links[i][p]))'
  <2>1. Kept(i, p) /\ Older(job.loaded[i][p], links[i][p])
    BY DEF OverlapInv
  <2>2. CASE d[i][p] = job.draft[i][p]
    BY <2>1, <2>2 DEF Kept, Older
  <2>3. CASE job.draft[i][p].method = "auto" /\ d[i][p].method = "rejected"
    BY <2>1, <2>3 DEF Kept, Older
  <2>4. CASE links[i][p].method = "none" /\ d[i][p].method # "none"
    BY <2>1, <2>4 DEF Kept, Older
  <2> QED
    BY <2>2, <2>3, <2>4
<1>4. call' \in [Workers -> Calls] /\ job' \in Jobs /\ Sound(links)'
  BY DEF OverlapInv, Jobs, ActiveJobs, Sound
<1>5. \A w \in Workers :
        HasInvoice(w)' => Older(call'[w].loaded, links'[call'[w].of][call'[w].to])
  BY DEF OverlapInv, HasInvoice
<1> QED
  BY <1>2, <1>3, <1>4, <1>5 DEF OverlapInv, Sound

LEMMA OverlapDone ==
    ASSUME OverlapInv, ~Idle, NEW p \in Payments, NEW d \in Tables, Done(p, d),
           \A i \in Invoices, q \in Payments :
              \/ d[i][q] = job.draft[i][q]
              \/ job.draft[i][q].method = "auto" /\ d[i][q].method = "rejected"
              \/ (Untouched(i, q) \/ links[i][q].method = "none") /\ d[i][q].method # "none"
    PROVE  OverlapInv'
<1>1. job \in ActiveJobs
  BY OverlapJob
<1>2. /\ job' = [job EXCEPT !.rest = job.rest \ {p}, !.draft = d]
      /\ UNCHANGED <<links, call>> /\ MayWrite(d)
  BY DEF Done
<1>3. job' \in ActiveJobs /\ job'.draft = d /\ job'.loaded = job.loaded
  BY <1>1, <1>2 DEF ActiveJobs
<1>4. \A i \in Invoices, q \in Payments :
        Untouched(i, q) /\ d[i][q].method # "none" => links[i][q].method = "none"
  BY <1>2 DEF MayWrite
<1> QED
  BY <1>2, <1>3, <1>4, OverlapDraft

LEMMA AbsentRow ==
    ASSUME NEW i \in Invoices, NEW p \in Payments, Absent(i, p)
    PROVE  Untouched(i, p) \/ links[i][p].method = "none"
  BY DEF Absent, Current, Wrote, Untouched

LEMMA OverlapSums ==
    ASSUME OverlapInv, ~Idle
    PROVE  /\ \A i \in Invoices : Open(i) \in Int /\ Amount[i] \in Nat
           /\ \A p \in Payments : Unspent(p) \in Int /\ Amount[p] \in Nat
  BY OverlapJob, PaidNat, SpentNat, PaymentAssumption DEF Open, Unspent

(* The rounds write nothing but new rows over positive amounts and, in the *)
(* repair, rejections of rows of their own.                                *)
LEMMA OverlapRounds ==
    ASSUME OverlapInv, NEW p \in Payments,
           Repair(p) \/ MatchSingle(p) \/ MatchAccount(p) \/ Spread(p)
    PROVE  OverlapInv'
<1>1. /\ ~Idle /\ job \in ActiveJobs /\ job.draft \in Tables
  BY OverlapJob, RoundNames DEF Repair, MatchSingle, MatchAccount, Spread, Takes
<1>2. InWindow \subseteq Invoices
  BY <1>1, PaymentAssumption DEF ActiveJobs, InWindow
<1>3. CASE Done(p, job.draft)
  BY <1>1, <1>3, OverlapDone
<1>4. ASSUME NEW i \in Invoices, NEW j \in Invoices, WholeLink(p, i), j \in BetterFor(p, i),
             Done(p, Moved(p, i, j))
      PROVE  OverlapInv'
  <2> DEFINE a == Rejected(job.draft[i][p])
  <2> DEFINE b == Link("auto", Amount[p])
  <2> DEFINE d == Moved(p, i, j)
  <2>1. i # j /\ Untouched(j, p) /\ job.draft[i][p].method = "auto"
    BY <1>4 DEF BetterFor, BestOf, Repairs, WholeLink
  <2>2. a \in Rows /\ a.method = "rejected" /\ b \in Rows /\ b.method # "none"
    BY <1>1, OverlapSums, RejectedRow, MadeRow DEF Tables
  <2>3. d = [[job.draft EXCEPT ![i][p] = a] EXCEPT ![j][p] = b]
    BY DEF Moved
  <2> HIDE DEF a, b, d
  <2>4. /\ d \in Tables /\ d[i][p] = a /\ d[j][p] = b
        /\ \A k \in Invoices, q \in Payments : q # p \/ k \notin {i, j} => d[k][q] = job.draft[k][q]
    BY <1>1, <2>1, <2>2, <2>3 DEF Tables
  <2>5. Done(p, d)
    BY <1>4 DEF d
  <2> QED
    BY <1>1, <2>1, <2>2, <2>4, <2>5, OverlapDone
<1>5. ASSUME NEW is \in SUBSET Invoices, NEW i \in BestOf(p, Equal(p, is)),
             Done(p, [job.draft EXCEPT ![i][p] = Link("auto", Unspent(p))])
      PROVE  OverlapInv'
  <2> DEFINE b == Link("auto", Unspent(p))
  <2> DEFINE d == [job.draft EXCEPT ![i][p] = b]
  <2>1. i \in Invoices /\ Untouched(i, p) /\ Open(i) > 0 /\ Open(i) = Unspent(p)
    BY <1>5 DEF BestOf, Equal
  <2>2. Unspent(p) \in Nat
    BY <1>1, <2>1, OverlapSums
  <2>3. b \in Rows /\ b.method # "none"
    BY <2>2, MadeRow
  <2> HIDE DEF b
  <2>4. /\ d \in Tables /\ d[i][p] = b
        /\ \A k \in Invoices, q \in Payments : k # i \/ q # p => d[k][q] = job.draft[k][q]
    BY <1>1, <2>1, <2>3 DEF Tables
  <2>5. Done(p, d)
    BY <1>5 DEF b
  <2> HIDE DEF d
  <2> QED
    BY <1>1, <2>1, <2>3, <2>4, <2>5, OverlapDone
<1>6. CASE Done(p, SpreadOver(p))
  <2> DEFINE d == SpreadOver(p)
  <2>1. ASSUME NEW i \in OpenOfName(p) PROVE Link("split", Open(i)) \in Rows /\ Link("split", Open(i)).method # "none"
    <3>1. Open(i) \in Nat
      BY <1>1, <1>2, OverlapSums DEF OpenOfName
    <3> QED
      BY <3>1, MadeRow
  <2>2. /\ d \in Tables
        /\ \A i \in Invoices, q \in Payments :
              \/ d[i][q] = job.draft[i][q]
              \/ Absent(i, q) /\ d[i][q].method # "none"
    BY <1>1, <2>1 DEF SpreadOver, Tables
  <2> HIDE DEF d
  <2> QED
    BY <1>1, <1>6, <2>2, AbsentRow, OverlapDone DEF d
<1>7. {i \in InWindow : Evident(p, i)} \in SUBSET Invoices /\ {i \in InWindow : <<p, i>> \in SameAccount} \in SUBSET Invoices
  BY <1>2
<1> QED
  BY <1>3, <1>4, <1>5, <1>6, <1>7 DEF Repair, MatchSingle, MatchAccount, MatchBest, Spread

LEMMA OverlapSplit ==
    ASSUME OverlapInv, NEW i \in Invoices, Split(i)
    PROVE  OverlapInv'
<1>1. ~Idle /\ job \in ActiveJobs /\ job.draft \in Tables
  BY OverlapJob DEF Split
<1>2. PICK d \in {SplitOver(i, ps) : ps \in Parts(i)} \cup (IF Parts(i) = {} THEN {job.draft} ELSE {}) :
         MayWrite(d) /\ job' = [job EXCEPT !.open = job.open \ {i}, !.draft = d]
  BY DEF Split
<1>3. /\ d \in Tables
      /\ \A j \in Invoices, q \in Payments :
            d[j][q] = job.draft[j][q] \/ (Absent(j, q) /\ d[j][q].method # "none")
  <2>1. ASSUME NEW ps \in Parts(i), d = SplitOver(i, ps)
        PROVE  /\ d \in Tables
               /\ \A j \in Invoices, q \in Payments :
                     d[j][q] = job.draft[j][q] \/ (Absent(j, q) /\ d[j][q].method # "none")
    <3>1. ASSUME NEW q \in Payments, q \in ps
          PROVE  Link("split", Unspent(q)) \in Rows /\ Link("split", Unspent(q)).method # "none"
      <4>1. Unspent(q) > 0
        BY <3>1 DEF Parts, Firsts, SpareFor
      <4>2. Unspent(q) \in Nat
        BY <1>1, <4>1, OverlapSums
      <4> QED
        BY <4>2, MadeRow
    <3> DEFINE row == [q \in Payments |->
          IF q \in ps /\ Absent(i, q) THEN Link("split", Unspent(q)) ELSE job.draft[i][q]]
    <3>2. row \in [Payments -> Rows]
      BY <1>1, <3>1 DEF Tables
    <3>3. \A q \in Payments : row[q] = job.draft[i][q] \/ (Absent(i, q) /\ row[q].method # "none")
      BY <3>1
    <3>4. d = [job.draft EXCEPT ![i] = row]
      BY <2>1 DEF SplitOver
    <3> HIDE DEF row
    <3> QED
      BY <1>1, <3>2, <3>3, <3>4 DEF Tables
  <2> QED
    BY <1>1, <2>1
<1>4. job' \in ActiveJobs /\ job'.draft = d /\ job'.loaded = job.loaded
  BY <1>1, <1>2, <1>3 DEF ActiveJobs
<1>5. \A j \in Invoices, q \in Payments :
        \/ d[j][q] = job.draft[j][q]
        \/ links[j][q].method = "none" /\ d[j][q].method # "none"
  BY <1>2, <1>3, AbsentRow DEF MayWrite
<1>6. UNCHANGED <<links, call>>
  BY DEF Split
<1> QED
  BY <1>1, <1>3, <1>4, <1>5, <1>6, OverlapDraft

LEMMA OverlapNextRound ==
    ASSUME OverlapInv, NextRound
    PROVE  OverlapInv'
<1> DEFINE r == RoundAfter[job.round]
<1> DEFINE rest == IF r \in {"split", "commit"} THEN {} ELSE PaymentsIn(Head(job.months))
<1> DEFINE open == IF r = "split" THEN {i \in InWindow : Open(i) > 0} ELSE {}
<1> DEFINE loaded == IF r = "single" THEN Reloaded ELSE job.loaded
<1> DEFINE draft == IF r = "single" THEN Current ELSE job.draft
<1>1. /\ ~Idle /\ job \in ActiveJobs /\ links \in Tables
      /\ job.loaded \in Tables /\ job.draft \in Tables
      /\ Sound(links) /\ Sound(job.loaded) /\ Sound(job.draft)
  BY OverlapJob, RoundNames DEF NextRound, OverlapInv
<1>2. /\ job' = [job EXCEPT !.round = r, !.rest = rest, !.open = open, !.loaded = loaded, !.draft = draft]
      /\ UNCHANGED <<links, call>>
  BY DEF NextRound
<1>3. r \in DOMAIN RoundAfter \cup {"commit"}
  BY RoundNames DEF NextRound
<1>4. rest \in SUBSET Payments /\ open \in SUBSET Invoices
  BY <1>1, PaymentAssumption DEF PaymentsIn, ActiveJobs, InWindow
<1>5. ASSUME NEW i \in Invoices, NEW p \in Payments
      PROVE  /\ loaded[i][p] \in Rows /\ draft[i][p] \in Rows
             /\ \/ loaded[i][p] = job.loaded[i][p] /\ draft[i][p] = job.draft[i][p]
                \/ loaded[i][p] = links[i][p] /\ draft[i][p] = links[i][p]
  BY <1>1 DEF Reloaded, Current, Tables
<1>6. /\ DOMAIN loaded = Invoices /\ \A i \in Invoices : DOMAIN loaded[i] = Payments
      /\ DOMAIN draft = Invoices /\ \A i \in Invoices : DOMAIN draft[i] = Payments
  BY <1>1 DEF Reloaded, Current, Tables
<1>7. loaded \in Tables /\ draft \in Tables
  <2>1. loaded = [i \in Invoices |-> [p \in Payments |-> loaded[i][p]]]
    BY <1>1 DEF Reloaded, Tables
  <2>2. draft = [i \in Invoices |-> [p \in Payments |-> draft[i][p]]]
    BY <1>1 DEF Current, Tables
  <2> HIDE DEF loaded, draft
  <2> QED
    BY <1>5, <2>1, <2>2 DEF Tables
<1> HIDE DEF r, rest, open, loaded, draft
<1>8. Sound(loaded) /\ Sound(draft)
  BY <1>1, <1>5, <1>7 DEF Sound
<1>9. job' \in ActiveJobs /\ job'.draft = draft /\ job'.loaded = loaded
  BY <1>1, <1>2, <1>3, <1>4, <1>7 DEF ActiveJobs
<1>10. ASSUME NEW i \in Invoices, NEW p \in Payments
       PROVE  (Kept(i, p) /\ Older(job.loaded[i][p], links[i][p]))'
  <2>1. Kept(i, p) /\ Older(job.loaded[i][p], links[i][p])
    BY <1>1 DEF OverlapInv
  <2> QED
    BY <1>2, <1>5, <1>9, <2>1 DEF Kept, Older
<1>11. call' \in [Workers -> Calls] /\ job' \in Jobs /\ Sound(links)'
  BY <1>2, <1>9 DEF OverlapInv, Jobs, ActiveJobs, Sound
<1>12. \A w \in Workers :
        HasInvoice(w)' => Older(call'[w].loaded, links'[call'[w].of][call'[w].to])
  BY <1>2 DEF OverlapInv, HasInvoice
<1> QED
  BY <1>8, <1>9, <1>10, <1>11, <1>12 DEF OverlapInv, Sound

(* What the commit of a month leaves of a row.                             *)
LEMMA MergedRow ==
    ASSUME OverlapInv, ~Idle, NEW i \in Invoices, NEW p \in Payments
    PROVE  /\ Merged[i][p] \in Rows
           /\ Merged[i][p].method = "none" => Merged[i][p] = NoLink /\ links[i][p].method = "none"
           /\ links[i][p].method = "rejected" => Merged[i][p].method = "rejected"
<1> DEFINE row == links[i][p]
<1> DEFINE loaded == job.loaded[i][p]
<1> DEFINE draft == job.draft[i][p]
<1>1. row \in Rows /\ loaded \in Rows /\ draft \in Rows /\ Kept(i, p)
  BY OverlapJob DEF OverlapInv, Tables
<1>2. Merged[i][p] = Written(row, loaded, draft)
  BY DEF Merged
<1>3. row.method = "none" => row = NoLink
  BY DEF OverlapInv, Sound
<1>4. CASE draft = loaded
  <2>1. Written(row, loaded, loaded) = row
    BY <1>1 DEF Written, Rows
  <2> HIDE DEF row, loaded, draft
  <2> QED
    BY <1>1, <1>2, <1>3, <1>4, <2>1 DEF row
<1>5. CASE draft # loaded
  <2>1. /\ draft.method # loaded.method /\ draft.method # "none"
        /\ draft.method = "rejected" \/ row.method = "none"
    BY <1>1, <1>5 DEF Kept
  <2> HIDE DEF row, loaded, draft
  <2>2. Written(row, loaded, draft) \in Rows /\ Written(row, loaded, draft).method = draft.method
    BY <1>1, <2>1, WrittenMethod
  <2> QED
    BY <1>2, <2>1, <2>2 DEF row
<1> QED
  BY <1>4, <1>5

LEMMA OverlapCommitJob ==
    ASSUME OverlapInv, CommitJob
    PROVE  OverlapInv'
<1>1. ~Idle /\ job \in ActiveJobs
  BY OverlapJob DEF CommitJob
<1>2. links' = Merged /\ call' = call
  BY DEF CommitJob
<1>3. Merged \in Tables
  <2>1. Merged = [i \in Invoices |-> [p \in Payments |-> Merged[i][p]]]
    BY DEF Merged
  <2>2. \A i \in Invoices, p \in Payments : Merged[i][p] \in Rows
    BY <1>1, MergedRow
  <2> QED
    BY <2>1, <2>2 DEF Tables
<1>4. Sound(links')
  BY <1>1, <1>2, <1>3, MergedRow DEF Sound
<1>5. ASSUME NEW w \in Workers, HasInvoice(w)'
      PROVE  Older(call'[w].loaded, links'[call'[w].of][call'[w].to])
  <2>1. call'[w] = call[w] /\ call[w].of \in Invoices /\ call[w].to \in Payments /\ HasInvoice(w)
    BY <1>2, <1>5, CallShapes DEF OverlapInv, CommitCalls, HasInvoice
  <2>2. Older(call[w].loaded, links[call[w].of][call[w].to])
    BY <2>1 DEF OverlapInv
  <2> QED
    BY <1>1, <1>2, <2>1, <2>2, MergedRow DEF Older
<1>6. \/ job' = NoJob
      \/ job' \in ActiveJobs /\ job'.loaded = links' /\ job'.draft = links'
  <2>1. CASE Len(job.months) = 1
    BY <2>1 DEF CommitJob
  <2>2. CASE Len(job.months) # 1
    <3> DEFINE months == Tail(job.months)
    <3> DEFINE rest == PaymentsIn(Head(Tail(job.months)))
    <3>1. job' = [job EXCEPT !.round = "repair", !.months = months, !.rest = rest,
                             !.loaded = Merged, !.draft = Merged]
      BY <1>2, <2>2 DEF CommitJob
    <3>2. months \in Seq(Months) \ {<<>>}
      BY <1>1, <2>2, LaterMonths DEF ActiveJobs
    <3>3. rest \in SUBSET Payments /\ "repair" \in DOMAIN RoundAfter
      BY RoundNames DEF PaymentsIn
    <3> HIDE DEF months, rest
    <3> QED
      BY <1>1, <1>2, <1>3, <3>1, <3>2, <3>3 DEF ActiveJobs
  <2> QED
    BY <2>1, <2>2
<1>7. job' \in Jobs
  BY <1>6 DEF Jobs, ActiveJobs, NoJob
<1>8. ASSUME ~Idle'
      PROVE  /\ Sound(job.loaded)' /\ Sound(job.draft)'
             /\ \A i \in Invoices, p \in Payments :
                   (Kept(i, p) /\ Older(job.loaded[i][p], links[i][p]))'
  <2>1. job'.loaded = links' /\ job'.draft = links'
    BY <1>6, <1>8 DEF Idle
  <2> QED
    BY <1>4, <2>1 DEF Sound, Kept, Older
<1>9. call' \in [Workers -> Calls] /\ Sound(links)'
  BY <1>2, <1>4 DEF OverlapInv, Sound
<1> QED
  BY <1>5, <1>7, <1>8, <1>9 DEF OverlapInv

LEMMA OverlapCalls ==
    ASSUME OverlapInv, NEW w \in Workers,
           \/ \E r \in Requests : StartLink(w, r)
           \/ LockPayment(w) \/ LockInvoice(w) \/ CommitLink(w) \/ Crash(w)
    PROVE  OverlapInv'
<1>1. call[w] \in Calls /\ links \in Tables
  BY DEF OverlapInv, Sound
<1>2. NoCall \in Calls /\ NoCall.kind = "none"
  BY DEF Calls, NoCall
<1>3. CASE Finish(w) /\ UNCHANGED <<links, job>>
  BY <1>2, <1>3, OverlapCall DEF Finish
<1>4. ASSUME NEW r \in Requests, StartLink(w, r) PROVE OverlapInv'
  <2> DEFINE c == [kind |-> "payment", of |-> r.of, to |-> r.to, amount |-> r.amount]
  <2>1. r.of \in Invoices /\ r.to \in Payments /\ r.amount \in (Nat \ {0}) \cup {Rest}
    BY PaymentAssumption
  <2>2. c \in Calls /\ c.kind = "payment"
    BY <2>1 DEF Calls
  <2>3. call' = [call EXCEPT ![w] = c] /\ UNCHANGED <<links, job>>
    BY <1>4 DEF StartLink
  <2> HIDE DEF c
  <2> QED
    BY <2>2, <2>3, OverlapCall
<1>5. CASE LockPayment(w)
  <2> DEFINE c == [call[w] EXCEPT !.kind = "invoice"]
  <2>1. /\ call[w].of \in Invoices /\ call[w].to \in Payments
        /\ call[w].amount \in (Nat \ {0}) \cup {Rest}
        /\ call[w] = [kind |-> "payment", of |-> call[w].of, to |-> call[w].to, amount |-> call[w].amount]
    BY <1>1, <1>5, CallShapes DEF LockPayment, Serves
  <2>2. c = [kind |-> "invoice", of |-> call[w].of, to |-> call[w].to, amount |-> call[w].amount]
    BY <2>1
  <2>3. c \in Calls /\ c.kind = "invoice"
    BY <2>1, <2>2 DEF Calls
  <2>4. call' = [call EXCEPT ![w] = c] /\ UNCHANGED <<links, job>>
    BY <1>5 DEF LockPayment
  <2> HIDE DEF c
  <2> QED
    BY <2>3, <2>4, OverlapCall
<1>6. CASE LockInvoice(w) /\ Fits(w)
  <2> DEFINE i == call[w].of
  <2> DEFINE p == call[w].to
  <2> DEFINE c == [kind |-> "commit", of |-> i, to |-> p, amount |-> AmountFor(w), loaded |-> links[i][p]]
  <2>1. i \in Invoices /\ p \in Payments /\ call[w].amount \in (Nat \ {0}) \cup {Rest}
    BY <1>1, <1>6, CallShapes DEF LockInvoice, Serves
  <2>2. OpenOf(i, p) \in Int /\ UnspentOf(i, p) \in Int
    <3>1. Amount[i] \in Nat /\ Amount[p] \in Nat
      BY <2>1, PaymentAssumption
    <3>2. PaidFor(links, i, Payments \ {p}) \in Nat /\ SpentOn(links, p, Invoices \ {i}) \in Nat
      BY <1>1, <2>1, PaidNat, SpentNat
    <3> QED
      BY <3>1, <3>2 DEF OpenOf, UnspentOf
  <2>3. AmountFor(w) \in Int
    BY <2>1, <2>2 DEF AmountFor, Smaller
  <2>4. AmountFor(w) \in Nat
    BY <1>6, <2>3 DEF Fits
  <2>5. c \in Calls /\ c.kind = "commit" /\ Older(c.loaded, links[c.of][c.to])
    BY <1>1, <2>1, <2>4 DEF Calls, Tables, Older
  <2>6. call' = [call EXCEPT ![w] = c] /\ UNCHANGED <<links, job>>
    BY <1>6 DEF LockInvoice
  <2> HIDE DEF c
  <2> QED
    BY <2>5, <2>6, OverlapCall
<1>7. CASE /\ CommitLink(w)
           /\ ~(/\ call[w].loaded.method = "none"
                /\ links[call[w].of][call[w].to].method # "none")
  <2> DEFINE i == call[w].of
  <2> DEFINE p == call[w].to
  <2> DEFINE new == Link("manual", call[w].amount)
  <2> DEFINE row == Written(links[i][p], call[w].loaded, new)
  <2>1. /\ call[w].kind = "commit" /\ i \in Invoices /\ p \in Payments
        /\ call[w].amount \in Nat /\ call[w].loaded \in Rows /\ links[i][p] \in Rows
    BY <1>1, <1>7, CallShapes DEF CommitLink, Serves, CommitCalls, Tables
  <2>2. new \in Rows /\ new.method = "manual"
    BY <2>1 DEF Link, Rows, Methods
  <2>3. Older(call[w].loaded, links[i][p])
    BY <2>1 DEF OverlapInv, HasInvoice
  <2> HIDE DEF new
  <2>4. row \in Rows /\ row.method # "none"
    <3>1. row \in Rows /\ row.method = IF new.method # call[w].loaded.method THEN new.method ELSE links[i][p].method
      BY <2>1, <2>2, WrittenMethod
    <3> QED
      BY <2>2, <2>3, <3>1 DEF Older
  <2>5. /\ links' = [links EXCEPT ![i][p] = row] /\ UNCHANGED job /\ ~Wrote(i, p)
        /\ call' = [call EXCEPT ![w] = NoCall]
    BY <1>7 DEF CommitLink, Finish, new
  <2>6. call' \in [Workers -> Calls] /\ \A v \in Workers : call'[v] \in {call[v], NoCall}
    BY <1>2, <2>5 DEF OverlapInv
  <2> HIDE DEF row
  <2> QED
    BY <2>1, <2>4, <2>5, <2>6, OverlapRow
<1> QED
  BY <1>3, <1>4, <1>5, <1>6, <1>7 DEF LockInvoice, CommitLink, Crash

LEMMA OverlapUnlink ==
    ASSUME OverlapInv, NEW i \in Invoices, NEW p \in Payments, Unlink(i, p)
    PROVE  OverlapInv'
<1>1. links[i][p] \in Rows
  BY DEF OverlapInv, Sound, Tables
<1>2. Rejected(links[i][p]) \in Rows /\ Rejected(links[i][p]).method # "none"
  BY <1>1, RejectedRow
<1>3. links' = [links EXCEPT ![i][p] = Rejected(links[i][p])] /\ UNCHANGED <<call, job>> /\ ~Wrote(i, p)
  BY DEF Unlink
<1>4. call' \in [Workers -> Calls] /\ \A w \in Workers : call'[w] \in {call[w], NoCall}
  BY <1>3 DEF OverlapInv
<1> QED
  BY <1>2, <1>3, <1>4, OverlapRow

LEMMA OverlapJobEnds ==
    ASSUME OverlapInv, CrashJob \/ \E s \in Schedules : StartJob(s)
    PROVE  OverlapInv'
<1>1. UNCHANGED <<links, call>>
  BY DEF CrashJob, StartJob
<1>2. \/ job' = NoJob
      \/ job' \in ActiveJobs /\ job'.loaded = links /\ job'.draft = links
  <2>1. CASE CrashJob
    BY <2>1 DEF CrashJob
  <2>2. ASSUME NEW s \in Schedules, StartJob(s)
        PROVE  job' \in ActiveJobs /\ job'.loaded = links /\ job'.draft = links
    BY <2>2, PaymentAssumption, RoundNames DEF StartJob, ActiveJobs, OverlapInv, Sound, PaymentsIn
  <2> QED
    BY <2>1, <2>2
<1>3. job' \in Jobs
  BY <1>2 DEF Jobs, ActiveJobs, NoJob
<1>4. ASSUME ~Idle'
      PROVE  /\ Sound(job.loaded)' /\ Sound(job.draft)'
             /\ \A i \in Invoices, p \in Payments :
                   (Kept(i, p) /\ Older(job.loaded[i][p], links[i][p]))'
  <2>1. job'.loaded = links' /\ job'.draft = links'
    BY <1>1, <1>2, <1>4 DEF Idle
  <2> QED
    BY <1>1, <2>1 DEF OverlapInv, Sound, Kept, Older
<1>5. call' \in [Workers -> Calls] /\ Sound(links)'
  BY <1>1 DEF OverlapInv, Sound
<1>6. \A w \in Workers :
        HasInvoice(w)' => Older(call'[w].loaded, links'[call'[w].of][call'[w].to])
  BY <1>1 DEF OverlapInv, HasInvoice
<1> QED
  BY <1>3, <1>4, <1>5, <1>6 DEF OverlapInv

LEMMA NextOverlap == OverlapInv /\ [Next]_vars => OverlapInv'
<1> SUFFICES ASSUME OverlapInv, [Next]_vars PROVE OverlapInv'
  OBVIOUS
<1>1. CASE UNCHANGED vars
  BY <1>1 DEF OverlapInv, vars, Sound, HasInvoice, Idle, Kept, Older
<1>2. CASE Next
  BY <1>2, OverlapCalls, OverlapUnlink, OverlapJobEnds, OverlapRounds, OverlapSplit,
     OverlapNextRound, OverlapCommitJob DEF Next
<1> QED
  BY <1>1, <1>2

LEMMA InitOverlap == Init => OverlapInv
<1> SUFFICES ASSUME Init PROVE OverlapInv
  OBVIOUS
<1>1. NoLink \in Rows /\ NoLink.method = "none"
  BY DEF NoLink, Rows, Methods
<1>2. Sound(links)
  BY <1>1 DEF Init, Tables, Sound
<1>3. call \in [Workers -> Calls] /\ \A w \in Workers : ~HasInvoice(w)
  BY DEF Init, Calls, NoCall, HasInvoice
<1>4. job \in Jobs /\ Idle
  BY DEF Init, Idle, NoJob, Jobs
<1> QED
  BY <1>2, <1>3, <1>4 DEF OverlapInv

THEOREM Overlap == Spec => []OverlapInv
  BY InitOverlap, NextOverlap, PTL DEF Spec

(* Every variable has its type and an unwritten row is no link             *)
(* (tax_invoice_links as link, unlink and auto_match write it), whatever   *)
(* overlaps.                                                               *)
THEOREM TypeCorrect == Spec => []TypeOK
<1>1. OverlapInv => TypeOK
  BY DEF OverlapInv, TypeOK, Sound
<1> QED
  BY <1>1, Overlap, PTL

(* Whatever auto_match read of a pair and whatever is linked and taken     *)
(* back meanwhile, its month does not bring back a rejected pair: it       *)
(* writes rejections and new rows only, and the pair is unique.            *)
THEOREM RejectionsOutlastJob == Spec => RejectedStaysRejected
<1>1. OverlapInv /\ [Next]_vars =>
        [\A i \in Invoices, p \in Payments :
           job' # job /\ links[i][p].method = "rejected" => links'[i][p].method = "rejected"]_vars
  <2> SUFFICES ASSUME OverlapInv, [Next]_vars, job' # job, NEW i \in Invoices, NEW p \in Payments,
                      links[i][p].method = "rejected"
               PROVE  links'[i][p].method = "rejected"
    OBVIOUS
  <2>1. CASE CommitJob
    <3>1. ~Idle /\ links' = Merged
      BY <2>1, OverlapJob DEF CommitJob
    <3> QED
      BY <3>1, MergedRow
  <2>2. CASE ~CommitJob
    <3>1. links' = links
      BY <2>2 DEF Next, vars, StartLink, LockPayment, LockInvoice, CommitLink, Crash, Finish, Unlink, StartJob,
         Repair, MatchSingle, MatchAccount, MatchBest, Spread, Split, NextRound, CrashJob, Done
    <3> QED
      BY <3>1
  <2> QED
    BY <2>1, <2>2
<1> QED
  BY <1>1, Overlap, PTL DEF Spec, RejectedStaysRejected

=============================================================================
