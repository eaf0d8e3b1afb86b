--------------------------- MODULE PaymentMatching ---------------------------
(***************************************************************************)
(* Which invoices a bank payment paid (services/                           *)
(* payment_invoice_match_service.py).  A link between an invoice and a     *)
(* payment allocates a part of both.                                       *)
(*                                                                         *)
(* A call that links by hand locks the payment, then the invoice, reads    *)
(* what both have left, and commits; it writes the columns that differ     *)
(* from those it read.  Unlinking is one update without a lock.  The job   *)
(* of a month goes through five rounds in one transaction.  It locks       *)
(* nothing it reads: it reads the links when the month begins and again    *)
(* after its repair, and draws on those.  The rows it writes stay locked   *)
(* until it commits, and a pair has one row: of two sessions that insert   *)
(* it the second fails.                                                    *)
(***************************************************************************)
EXTENDS Integers, Sequences, Totals

CONSTANTS
    Invoices, Payments,
    Amount,           \* what each invoice is worth after red ones, each payment paid
    Turn,             \* the order of the payments by date and id
    Months, Month,    \* months, and that of each payment
    Window,           \* the invoices the job of a month looks at
    Party,            \* the name on an invoice or a payment
    SamePartner,      \* pairs <<payment, invoice>> of one business partner
    SameAccount,      \* pairs where the account is known to be the supplier's
    Days,             \* days between payment and invoice
    NearDays, StaleDays,
    Requests,         \* pairs to link by hand: of, to, amount, a number or Rest
    Schedules,        \* sequences of months a job may be asked for
    Workers, Rest,
    JobAlone          \* whether no call is under way while the job runs

Pairs == Payments \X Invoices

ASSUME PaymentAssumption ==
    /\ IsFiniteSet(Invoices) /\ IsFiniteSet(Payments)
    /\ Amount \in [Invoices \cup Payments -> Nat \ {0}]
    /\ Turn \in [Payments -> Nat] /\ \A p, q \in Payments : Turn[p] = Turn[q] => p = q
    /\ Month \in [Payments -> Months] /\ Window \in [Months -> SUBSET Invoices]
    /\ SamePartner \subseteq Pairs /\ SameAccount \subseteq Pairs
    /\ Days \in [Pairs -> Nat] /\ NearDays \in Nat /\ StaleDays \in Nat
    /\ Requests \subseteq [of : Invoices, to : Payments, amount : (Nat \ {0}) \cup {Rest}]
    /\ Rest \notin Nat
    /\ Schedules \subseteq Seq(Months) \ {<<>>}
    /\ JobAlone \in BOOLEAN

VARIABLES
    links,        \* invoice -> payment -> method, confirmed, amount
    call,         \* per session, the request it serves
    job           \* the job: months and payments to go, its round, what it
                  \* read of the links, and its draft: that with what it wrote

vars == <<links, call, job>>

NoLink == [method |-> "none", confirmed |-> FALSE, amount |-> 0]
Link(method, amount) == [method |-> method, confirmed |-> TRUE, amount |-> amount]
(* Mutant: a method no other call knows. *)
RejectedMisspelt(link) == [link EXCEPT !.method = "removed", !.confirmed = FALSE]

Rejected(link) == [link EXCEPT !.method = "rejected", !.confirmed = FALSE]

NoCall == [kind |-> "none"]
NoJob == [round |-> "none"]
Idle == job = NoJob

Init ==
    /\ links = [i \in Invoices |-> [p \in Payments |-> NoLink]]
    /\ call = [w \in Workers |-> NoCall]
    /\ job = NoJob

-----------------------------------------------------------------------------
(* What is left *)

Active(link) == link.confirmed /\ link.method # "rejected"

OnPayment(ls, p) == {i \in Invoices : Active(ls[i][p])}

Share(link) == IF Active(link) THEN link.amount ELSE 0

(* What the payments ps paid of an invoice, a payment paid of invoices is. *)
PaidFor(ls, i, ps) == Total([p \in ps |-> Share(ls[i][p])])
SpentOn(ls, p, is) == Total([i \in is |-> Share(ls[i][p])])

(* _invoice_bank_allocated, _txn_bank_allocated: what the invoice and the  *)
(* payment have left, the link of the pair itself not counted.             *)
OpenOf(i, p) == Amount[i] - PaidFor(links, i, Payments \ {p})
UnspentOf(i, p) == Amount[p] - SpentOn(links, p, Invoices \ {i})

(* What the job wrote and has not committed yet.                           *)
Wrote(i, p) == ~Idle /\ job.draft[i][p] # job.loaded[i][p]

-----------------------------------------------------------------------------
(* link *)
Serves(w, step) == call[w].kind = step

StartLink(w, r) ==
    /\ (JobAlone => Idle) /\ call[w] = NoCall
    /\ call' = [call EXCEPT ![w] =
          [kind |-> "payment", of |-> r.of, to |-> r.to, amount |-> r.amount]]
    /\ UNCHANGED <<links, job>>

HoldsPayment(w, p) == call[w].kind \in {"invoice", "commit"} /\ call[w].to = p

(* Mutant: the invoice is read without a lock. *)
ReadsInvoice(w, i) == FALSE /\ HoldsPayment(w, i)

HoldsInvoice(w, i) == call[w].kind = "commit" /\ call[w].of = i

LockPayment(w) ==
    /\ Serves(w, "payment")
    /\ \A v \in Workers : ~HoldsPayment(v, call[w].to)
    /\ call' = [call EXCEPT ![w].kind = "invoice"]
    /\ UNCHANGED <<links, job>>

Smaller(m, n) == IF m < n THEN m ELSE n

AmountFor(w) ==
    LET i == call[w].of
        p == call[w].to
    IN  IF call[w].amount = Rest THEN Smaller(OpenOf(i, p), UnspentOf(i, p)) ELSE call[w].amount

Fits(w) ==
    LET i == call[w].of
        p == call[w].to
    IN  /\ AmountFor(w) > 0
        /\ AmountFor(w) <= OpenOf(i, p)
        /\ AmountFor(w) <= UnspentOf(i, p)

Finish(w) == call' = [call EXCEPT ![w] = NoCall]

LockInvoice(w) ==
    LET i == call[w].of
        p == call[w].to
    IN
    /\ Serves(w, "invoice")
    /\ \A v \in Workers : ~HoldsInvoice(v, i)
    /\ IF Fits(w)
       THEN call' = [call EXCEPT ![w] = [kind |-> "commit", of |-> i, to |-> p,
                       amount |-> AmountFor(w), loaded |-> links[i][p]]]
       ELSE Finish(w)
    /\ UNCHANGED <<links, job>>

(* An update writes the columns that differ from what was loaded. *)
Written(row, loaded, new) ==
    [c \in DOMAIN row |-> IF new[c] # loaded[c] THEN new[c] ELSE row[c]]

(* The job may have inserted the row meanwhile: the call fails.            *)
CommitLink(w) ==
    LET i == call[w].of
        p == call[w].to
    IN
    /\ Serves(w, "commit") /\ ~Wrote(i, p)
    /\ links' = IF call[w].loaded.method = "none" /\ links[i][p].method # "none" THEN links
                ELSE [links EXCEPT ![i][p] =
                        Written(@, call[w].loaded, Link("manual", call[w].amount))]
    /\ Finish(w)
    /\ UNCHANGED job

Crash(w) ==
    /\ call[w] # NoCall
    /\ Finish(w)
    /\ UNCHANGED <<links, job>>

(* unlink *)
Unlink(i, p) ==
    /\ (JobAlone => Idle) /\ ~Wrote(i, p)
    /\ links[i][p].method \notin {"none", "rejected"}
    /\ links' = [links EXCEPT ![i][p] = Rejected(@)]
    /\ UNCHANGED <<call, job>>

-----------------------------------------------------------------------------
(* auto_match and auto_match_all_periods *)

RoundAfter ==
    [repair |-> "single", single |-> "split", split |-> "spread", spread |-> "account",
     account |-> "commit"]

PaymentsIn(m) == {p \in Payments : Month[p] = m}

StartJob(s) ==
    /\ Idle
    /\ JobAlone => \A w \in Workers : call[w] = NoCall
    /\ job' = [round |-> "repair", months |-> s, rest |-> PaymentsIn(Head(s)),
               open |-> {}, loaded |-> links, draft |-> links]
    /\ UNCHANGED <<links, call>>

(* What a query of the job finds now.                                      *)
Current ==
    [i \in Invoices |-> [p \in Payments |->
        IF Wrote(i, p) THEN job.draft[i][p] ELSE links[i][p]]]

InWindow == Window[Head(job.months)]

Open(i) == Amount[i] - PaidFor(job.draft, i, Payments)
Unspent(p) == Amount[p] - SpentOn(job.draft, p, Invoices)
Untouched(i, p) == job.draft[i][p].method = "none"
Absent(i, p) == Current[i][p].method = "none"

(* _candidate_evidence *)
SameName(p, i) == Party[p] = Party[i]
Evident(p, i) == SameName(p, i) \/ <<p, i>> \in SamePartner \cup SameAccount

Rank(p, i) == IF <<p, i>> \in SamePartner THEN 0 ELSE IF <<p, i>> \in SameAccount THEN 1 ELSE 2

Closer(p, i, j) ==
    \/ Rank(p, i) < Rank(p, j)
    \/ Rank(p, i) = Rank(p, j) /\ Days[<<p, i>>] < Days[<<p, j>>]

(* _choose_unique_best_candidate *)
BestOf(p, is) == {i \in is : \A j \in is \ {i} : Closer(p, i, j)}

(* The rounds go through the payments of the month in order.               *)
Takes(round, p) ==
    /\ job.round = round
    /\ p \in job.rest /\ \A q \in job.rest : Turn[p] <= Turn[q]

(* Where the pair has a row by now a new one fails, and with it the month. *)
MayWrite(draft) ==
    \A i \in Invoices, p \in Payments :
        Untouched(i, p) /\ draft[i][p].method # "none" => links[i][p].method = "none"

Done(p, draft) ==
    /\ MayWrite(draft)
    /\ job' = [job EXCEPT !.rest = @ \ {p}, !.draft = draft]
    /\ UNCHANGED <<links, call>>

Reloaded ==
    [i \in Invoices |-> [p \in Payments |->
        IF Wrote(i, p) THEN job.loaded[i][p] ELSE links[i][p]]]

NextRound ==
    /\ job.round \in DOMAIN RoundAfter /\ job.rest = {} /\ job.open = {}
    /\ LET r == RoundAfter[job.round] IN
       job' = [job EXCEPT !.round = r,
                 !.rest = IF r \in {"split", "commit"} THEN {} ELSE PaymentsIn(Head(job.months)),
                 !.open = IF r = "split" THEN {i \in InWindow : Open(i) > 0} ELSE {},
                 !.loaded = IF r = "single" THEN Reloaded ELSE @,
                 !.draft = IF r = "single" THEN Current ELSE @]
    /\ UNCHANGED <<links, call>>

(* _repair_wrong_auto_links: a payment with one whole link made by the job *)
(* moves to a better invoice, which is near but not of the same day: no    *)
(* distance counts as an unknown one.                                      *)
WholeLink(p, i) ==
    /\ OnPayment(job.draft, p) = {i}
    /\ job.draft[i][p].method = "auto" /\ job.draft[i][p].amount = Amount[p]

WouldTake(j, p, i) ==
    Amount[j] - PaidFor(Current, j, IF j = i THEN Payments \ {p} ELSE Payments) = Amount[p]

(* Mutant: pairs that were rejected before are candidates, too. *)
RepairsAgain(p, i) == {j \in InWindow : Evident(p, j) /\ WouldTake(j, p, i)}

Repairs(p, i) ==
    {j \in InWindow : (j = i \/ Untouched(j, p)) /\ Evident(p, j) /\ WouldTake(j, p, i)}

BetterFor(p, i) ==
    {j \in BestOf(p, Repairs(p, i)) \ {i} :
        /\ Closer(p, j, i)
        /\ <<p, j>> \in SamePartner \cup SameAccount
        /\ Days[<<p, j>>] \in 1..NearDays /\ Days[<<p, i>>] >= StaleDays}

(* Mutant: the wrong link is taken back and none put in its place. *)
OnlyTakenBack(p, i, j) ==
    [job.draft EXCEPT ![i][p] = Rejected(@), ![j][p] = Rejected(@)]

Moved(p, i, j) ==
    [job.draft EXCEPT ![i][p] = Rejected(@), ![j][p] = Link("auto", Amount[p])]

Repair(p) ==
    /\ Takes("repair", p)
    /\ \/ \E i, j \in Invoices : WholeLink(p, i) /\ j \in BetterFor(p, i) /\ Done(p, Moved(p, i, j))
       \/ /\ \A i \in Invoices : WholeLink(p, i) => BetterFor(p, i) = {}
          /\ Done(p, job.draft)

(* Rounds one and four: an invoice with as much left as the payment.       *)
Equal(p, is) == {i \in is : Untouched(i, p) /\ Open(i) > 0 /\ Open(i) = Unspent(p)}

MatchBest(p, is) ==
    \/ \E i \in BestOf(p, is) : Done(p, [job.draft EXCEPT ![i][p] = Link("auto", Unspent(p))])
    \/ BestOf(p, is) = {} /\ Done(p, job.draft)

MatchSingle(p) ==
    /\ Takes("single", p)
    /\ MatchBest(p, Equal(p, {i \in InWindow : Evident(p, i)}))

MatchAccount(p) ==
    /\ Takes("account", p)
    /\ MatchBest(p, Equal(p, {i \in InWindow : <<p, i>> \in SameAccount}))

(* Round two: the first payments of the same name, two at least, that      *)
(* together make up an invoice, if no other one of the name is as much.    *)
SpareFor(i) ==
    {p \in PaymentsIn(Head(job.months)) : SameName(p, i) /\ Unspent(p) > 0}

Firsts(ps) ==
    {qs \in SUBSET ps : Cardinality(qs) >= 2 /\ \A q \in qs, p \in ps \ qs : Turn[q] < Turn[p]}

MakeUp(i, ps) == Open(i) > 0 /\ Open(i) = Total([p \in ps |-> Unspent(p)])

OnlyOfItsAmount(i) ==
    \A j \in InWindow \ {i} : Party[j] = Party[i] => Open(j) # Open(i)

Parts(i) == {ps \in Firsts(SpareFor(i)) : MakeUp(i, ps) /\ OnlyOfItsAmount(i)}

SplitOver(i, ps) ==
    [job.draft EXCEPT ![i] = [p \in Payments |->
        IF p \in ps /\ Absent(i, p) THEN Link("split", Unspent(p)) ELSE job.draft[i][p]]]

Split(i) ==
    /\ job.round = "split" /\ i \in job.open
    /\ \E draft \in {SplitOver(i, ps) : ps \in Parts(i)}
                   \cup (IF Parts(i) = {} THEN {job.draft} ELSE {}) :
          /\ MayWrite(draft)
          /\ job' = [job EXCEPT !.open = @ \ {i}, !.draft = draft]
    /\ UNCHANGED <<links, call>>

(* Round three: a payment that is as much as all open invoices of the name.*)
OpenOfName(p) == {i \in InWindow : SameName(p, i) /\ Open(i) > 0}

CoversAll(p) ==
    /\ Cardinality(OpenOfName(p)) >= 2
    /\ Unspent(p) = Total([i \in OpenOfName(p) |-> Open(i)])

SpreadOver(p) ==
    [i \in Invoices |-> IF i \in OpenOfName(p) /\ Absent(i, p)
        THEN [job.draft[i] EXCEPT ![p] = Link("split", Open(i))] ELSE job.draft[i]]

Spread(p) ==
    /\ Takes("spread", p)
    /\ Done(p, IF CoversAll(p) THEN SpreadOver(p) ELSE job.draft)

Merged ==
    [i \in Invoices |-> [p \in Payments |->
        Written(links[i][p], job.loaded[i][p], job.draft[i][p])]]

CommitJob ==
    /\ job.round = "commit"
    /\ links' = Merged
    /\ job' = IF Len(job.months) = 1 THEN NoJob
              ELSE [job EXCEPT !.round = "repair", !.months = Tail(@),
                      !.rest = PaymentsIn(Head(Tail(job.months))),
                      !.loaded = links', !.draft = links']
    /\ UNCHANGED call

(* The job dies: the month it was working on is rolled back.               *)
CrashJob ==
    /\ ~Idle
    /\ job' = NoJob
    /\ UNCHANGED <<links, call>>

Next ==
    \/ \E w \in Workers :
          \/ \E r \in Requests : StartLink(w, r)
          \/ LockPayment(w) \/ LockInvoice(w) \/ CommitLink(w) \/ Crash(w)
    \/ \E i \in Invoices, p \in Payments : Unlink(i, p)
    \/ \E s \in Schedules : StartJob(s)
    \/ \E p \in Payments : Repair(p) \/ MatchSingle(p) \/ Spread(p) \/ MatchAccount(p)
    \/ \E i \in Invoices : Split(i)
    \/ NextRound \/ CommitJob \/ CrashJob

Spec == Init /\ [][Next]_vars

-----------------------------------------------------------------------------
Methods == {"none", "manual", "auto", "split", "rejected"}
Rows == [method : Methods, confirmed : BOOLEAN, amount : Nat]
Tables == [Invoices -> [Payments -> Rows]]

Calls ==
    [kind : {"none"}]
    \cup [kind : {"payment", "invoice"}, of : Invoices, to : Payments,
          amount : (Nat \ {0}) \cup {Rest}]
    \cup [kind : {"commit"}, of : Invoices, to : Payments, amount : Nat, loaded : Rows]

Jobs ==
    [round : {"none"}]
    \cup [round : DOMAIN RoundAfter \cup {"commit"}, months : Seq(Months) \ {<<>>},
          rest : SUBSET Payments, open : SUBSET Invoices, loaded : Tables, draft : Tables]

(* Every variable has its type, and a row without a method is no link. *)
TypeOK ==
    /\ links \in Tables /\ call \in [Workers -> Calls] /\ job \in Jobs
    /\ \A i \in Invoices, p \in Payments : links[i][p].method = "none" => links[i][p] = NoLink

(* No invoice is paid for more than it is worth and no payment is spent    *)
(* twice, whatever calls link and unlink at the same time and whatever the *)
(* job adds or moves.                                                      *)
PaymentsFit ==
    /\ \A i \in Invoices : PaidFor(links, i, Payments) <= Amount[i]
    /\ \A p \in Payments : SpentOn(links, p, Invoices) <= Amount[p]

(* The job leaves alone what was linked or rejected by hand.               *)
JobKeepsDecisions ==
    [][\A i \in Invoices, p \in Payments :
          job' # job /\ links[i][p].method \in {"manual", "rejected"} =>
             links'[i][p] = links[i][p]]_vars

(* Not even a job that overlaps the calls makes a link of a pair rejected  *)
(* before it commits, whatever it read of the pair.                        *)
RejectedStaysRejected ==
    [][\A i \in Invoices, p \in Payments :
          job' # job /\ links[i][p].method = "rejected" =>
             links'[i][p].method = "rejected"]_vars

(* The job never takes back a part of a payment: a link it withdraws is    *)
(* replaced by one over the same amount in the same transaction.           *)
PaidStaysPaid ==
    [][job' # job => \A p \in Payments :
          SpentOn(links', p, Invoices) >= SpentOn(links, p, Invoices)]_vars

=============================================================================
