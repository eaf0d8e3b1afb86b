---------------------------- MODULE BankReceipts ----------------------------
(***************************************************************************)
(* Bank statements and the receivables their receipts settle               *)
(* (services/reconciliation.py).                                           *)
(*                                                                         *)
(* A statement is imported entry by entry, each in a transaction of its    *)
(* own: an entry that is on record is recognised by its fingerprint or,    *)
(* when it comes in another form than last time, by its numbers.  Nothing  *)
(* is locked meanwhile; fingerprints are unique in the database.           *)
(*                                                                         *)
(* A receipt is confirmed for one receivable under the locks of both.      *)
(* Rejecting takes no lock beforehand.  Both leave the status of the       *)
(* receivable to a second transaction.                                     *)
(***************************************************************************)
EXTENDS Integers, Sequences, Totals

CONSTANTS
    Entries,          \* the entries of the bank's books
    Day, Name,        \* date with amount, direction with counterparty of each
    Number,           \* the serial number the bank gave it
    Amount,           \* of a day
    Incoming,         \* the names that stand for money received
    Files,            \* statements: sequences of lines [of, serial, voucher]
    Settlements, Expected,
    Tolerance,        \* a difference that counts as none
    MaxMatches,       \* bound on the confirmations
    Workers, None

Lines == UNION {{f[k] : k \in DOMAIN f} : f \in Files}

ASSUME ReceiptsAssumption ==
    /\ IsFiniteSet(Entries) /\ IsFiniteSet(Settlements)
    /\ \A e \in Entries : Amount[Day[e]] \in Nat \ {0}
    /\ \A e, g \in Entries : Number[e] = Number[g] => e = g
    /\ Expected \in [Settlements -> Nat \ {0}]
    /\ Tolerance \in Nat /\ MaxMatches \in Nat
    /\ \A f \in Files : f \in Seq(Lines) /\ f # <<>>
    /\ \A l \in Lines : l.of \in Entries

VARIABLES
    rows,             \* the entries on record
    matches,          \* receipts confirmed for receivables, the rejected ones too
    status,           \* of each receivable
    done,             \* statements whose import has ended well
    call              \* per session, the request it serves

vars == <<rows, matches, status, done, call>>

NoCall == [kind |-> "none"]

Init ==
    /\ rows = <<>> /\ matches = <<>>
    /\ status = [s \in Settlements |-> "open"]
    /\ done = {}
    /\ call = [w \in Workers |-> NoCall]

Serves(w, step) == call[w].kind = step
Finish(w) == call' = [call EXCEPT ![w] = NoCall]

-----------------------------------------------------------------------------
(* Confirmed receipts *)

Confirmed(n) == {m \in DOMAIN matches : matches[m].of = n /\ matches[m].status = "confirmed"}

ConfirmedFor(s) == {m \in DOMAIN matches : matches[m].to = s /\ matches[m].status = "confirmed"}

Worth(n) == Amount[rows[n].day]

(* settled_amount_of *)
Settled(s) ==
    Total([m \in {x \in ConfirmedFor(s) : rows[matches[x].of].name \in Incoming} |->
              Worth(matches[m].of)])

-----------------------------------------------------------------------------
(* import_bank_xlsx, add_transaction *)

(* An assumption: one statement is uploaded at a time, if need be more     *)
(* than once.                                                              *)
MayImport(f) == \A w \in Workers : call[w].kind \in {"read", "write"} => call[w].file = f

StartImport(w, f) ==
    /\ call[w] = NoCall
    /\ MayImport(f)
    /\ call' = [call EXCEPT ![w] = [kind |-> "read", file |-> f, next |-> 1]]
    /\ UNCHANGED <<rows, matches, status, done>>

LineOf(w) == call[w].file[call[w].next]

(* build_fingerprint; an entry without numbers goes by name and summary,   *)
(* and entries of one day and name are taken to have one summary.          *)
Fingerprint(l) ==
    IF l.serial # None THEN <<Day[l.of], l.serial, l.voucher>>
    ELSE IF l.voucher # None THEN <<Day[l.of], l.voucher>>
    ELSE <<Day[l.of], Name[l.of], "by name">>

(* Mutant: the voucher is left out of the numbers an old row is known by. *)
AlikeBySerial(l) ==
    {n \in DOMAIN rows :
        /\ rows[n].day = Day[l.of] /\ rows[n].name = Name[l.of]
        /\ l.serial # None /\ rows[n].serial = l.serial}

(* _legacy_candidate *)
Alike(l) ==
    LET same == {n \in DOMAIN rows : rows[n].day = Day[l.of] /\ rows[n].name = Name[l.of]}
        wanted == {l.serial, l.voucher} \ {None}
    IN  IF wanted = {} THEN same
        ELSE {n \in same : {rows[n].serial, rows[n].voucher} \cap wanted # {}}

Known(l) ==
    LET byPrint == {n \in DOMAIN rows : rows[n].print = Fingerprint(l)}
    IN  IF byPrint # {} THEN byPrint
        ELSE IF Cardinality(Alike(l)) = 1 THEN Alike(l) ELSE {}

ReadRow(w) ==
    /\ Serves(w, "read")
    /\ call' = [call EXCEPT ![w] =
          [kind |-> "write", file |-> @.file, next |-> @.next, known |-> Known(LineOf(w))]]
    /\ UNCHANGED <<rows, matches, status, done>>

Either(new, old) == IF new # None THEN new ELSE old

Recorded(row, l) ==
    [row EXCEPT !.serial = Either(l.serial, @), !.voucher = Either(l.voucher, @),
                !.print = Fingerprint(l)]

NewRow(l) ==
    [day |-> Day[l.of], name |-> Name[l.of], serial |-> l.serial, voucher |-> l.voucher,
     print |-> Fingerprint(l), matched |-> FALSE]

(* Mutant: fingerprints are not unique in the database. *)
NeverTaken(l, known) == FALSE /\ l.of \in known

(* uq_bank_txn_fingerprint *)
Taken(l, known) == \E n \in DOMAIN rows \ known : rows[n].print = Fingerprint(l)

HoldsRow(w, n) == call[w].kind \in {"settlement", "commit"} /\ call[w].of = n

NextLine(w) ==
    IF call[w].next < Len(call[w].file)
    THEN /\ call' = [call EXCEPT ![w] =
               [kind |-> "read", file |-> @.file, next |-> @.next + 1]]
         /\ UNCHANGED done
    ELSE Finish(w) /\ done' = done \cup {call[w].file}

WriteRow(w) ==
    LET l == LineOf(w)
        known == call[w].known
    IN
    /\ Serves(w, "write")
    /\ \A n \in known, v \in Workers : ~HoldsRow(v, n)
    /\ ~Taken(l, known)
    /\ rows' = IF known = {} THEN Append(rows, NewRow(l))
               ELSE [n \in DOMAIN rows |-> IF n \in known THEN Recorded(rows[n], l) ELSE rows[n]]
    /\ NextLine(w)
    /\ UNCHANGED <<matches, status>>

(* The database refuses the fingerprint and the import ends where it is.   *)
Clash(w) ==
    /\ Serves(w, "write")
    /\ Taken(LineOf(w), call[w].known)
    /\ Finish(w)
    /\ UNCHANGED <<rows, matches, status, done>>

-----------------------------------------------------------------------------
(* confirm_match *)

StartConfirm(w, n, s) ==
    /\ call[w] = NoCall
    /\ rows[n].name \in Incoming
    /\ call' = [call EXCEPT ![w] = [kind |-> "receipt", of |-> n, to |-> s]]
    /\ UNCHANGED <<rows, matches, status, done>>

LockReceipt(w) ==
    /\ Serves(w, "receipt")
    /\ \A v \in Workers : ~HoldsRow(v, call[w].of)
    /\ call' = [call EXCEPT ![w].kind = "settlement"]
    /\ UNCHANGED <<rows, matches, status, done>>

(* Mutant: the receivable is read without a lock. *)
ReadsSettlement(w, s) == FALSE /\ Serves(w, "commit") /\ call[w].to = s

HoldsSettlement(w, s) == Serves(w, "commit") /\ call[w].to = s

Bigger(m, n) == IF m > n THEN m ELSE n

Fits(n, s) ==
    LET remaining == Bigger(Expected[s] - Settled(s), 0)
    IN  /\ Confirmed(n) = {}
        /\ remaining > Tolerance
        /\ Worth(n) <= remaining + Tolerance

(* Locks the receivable, which loads its status, and decides. *)
LockSettlement(w) ==
    LET s == call[w].to
    IN
    /\ Serves(w, "settlement")
    /\ \A v \in Workers : ~HoldsSettlement(v, s)
    /\ IF Fits(call[w].of, s)
       THEN call' = [call EXCEPT ![w] =
                [kind |-> "commit", of |-> @.of, to |-> s, loaded |-> status[s]]]
       ELSE Finish(w)
    /\ UNCHANGED <<rows, matches, status, done>>

(* uq_reconciliation_matches_confirmed_txn refuses a second target. *)
CommitConfirm(w) ==
    LET n == call[w].of
        s == call[w].to
    IN
    /\ Serves(w, "commit")
    /\ Len(matches) < MaxMatches
    /\ IF Confirmed(n) = {}
       THEN /\ matches' = Append(matches, [of |-> n, to |-> s, status |-> "confirmed"])
            /\ rows' = [rows EXCEPT ![n].matched = TRUE]
            /\ call' = [call EXCEPT ![w] = [kind |-> "sum", to |-> s, loaded |-> @.loaded]]
       ELSE Finish(w) /\ UNCHANGED <<matches, rows>>
    /\ UNCHANGED <<status, done>>

-----------------------------------------------------------------------------
(* reject_match *)

Pairs(n, s) == {m \in DOMAIN matches : matches[m].of = n /\ matches[m].to = s}

(* Takes the first match of the pair the database returns, in no order.    *)
StartReject(w, n, s) ==
    /\ call[w] = NoCall
    /\ call' \in {[call EXCEPT ![w] = [kind |-> "reject", match |-> m, was |-> matches[m].status,
                                       to |-> s]] : m \in Pairs(n, s)}
    /\ UNCHANGED <<rows, matches, status, done>>

StartRejectNothing(w, n, s) ==
    /\ call[w] = NoCall
    /\ Pairs(n, s) = {}
    /\ call' = [call EXCEPT ![w] = [kind |-> "load", to |-> s]]
    /\ UNCHANGED <<rows, matches, status, done>>

HoldsMatch(w, m) ==
    Serves(w, "withdraw") /\ call[w].match = m /\ call[w].was = "confirmed"

(* The flush, which locks the match, and the look for another confirmed    *)
(* one.                                                                    *)
LockMatch(w) ==
    LET m == call[w].match
        clears == call[w].was = "confirmed" /\ Confirmed(matches[m].of) \subseteq {m}
    IN
    /\ Serves(w, "reject")
    /\ call[w].was = "confirmed" => \A v \in Workers : ~HoldsMatch(v, m)
    /\ call' = [call EXCEPT ![w] =
          [kind |-> "withdraw", match |-> m, was |-> @.was, to |-> @.to, clears |-> clears]]
    /\ UNCHANGED <<rows, matches, status, done>>

(* An update of the receipt waits for a confirmation that holds it. *)
CommitReject(w) ==
    LET m == call[w].match
        n == matches[m].of
        unmarks == call[w].clears /\ rows[n].matched
    IN
    /\ Serves(w, "withdraw")
    /\ unmarks => \A v \in Workers : ~HoldsRow(v, n)
    /\ matches' = IF call[w].was = "rejected" THEN matches
                  ELSE [matches EXCEPT ![m].status = "rejected"]
    /\ rows' = IF unmarks THEN [rows EXCEPT ![n].matched = FALSE] ELSE rows
    /\ call' = [call EXCEPT ![w] = [kind |-> "load", to |-> @.to]]
    /\ UNCHANGED <<status, done>>

LoadStatus(w) ==
    /\ Serves(w, "load")
    /\ call' = [call EXCEPT ![w] =
          [kind |-> "sum", to |-> @.to, loaded |-> status[call[w].to]]]
    /\ UNCHANGED <<rows, matches, status, done>>

-----------------------------------------------------------------------------
(* refresh_settlement_status *)

StatusOf(s) ==
    IF Settled(s) >= Expected[s] THEN "settled"
    ELSE IF Settled(s) > 0 THEN "partial" ELSE "open"

(* Sums up; there is nothing to write if the status is the one loaded. *)
SumUp(w) ==
    LET s == call[w].to
    IN
    /\ Serves(w, "sum")
    /\ IF StatusOf(s) = call[w].loaded
       THEN Finish(w)
       ELSE call' = [call EXCEPT ![w] = [kind |-> "status", to |-> s, found |-> StatusOf(s)]]
    /\ UNCHANGED <<rows, matches, status, done>>

WriteStatus(w) ==
    LET s == call[w].to
    IN
    /\ Serves(w, "status")
    /\ \A v \in Workers : ~HoldsSettlement(v, s)
    /\ status' = [status EXCEPT ![s] = call[w].found]
    /\ Finish(w)
    /\ UNCHANGED <<rows, matches, done>>

Crash(w) ==
    /\ call[w] # NoCall
    /\ Finish(w)
    /\ UNCHANGED <<rows, matches, status, done>>

Step(w) ==
    \/ ReadRow(w) \/ WriteRow(w) \/ Clash(w)
    \/ LockReceipt(w) \/ LockSettlement(w) \/ CommitConfirm(w)
    \/ LockMatch(w) \/ CommitReject(w) \/ LoadStatus(w)
    \/ SumUp(w) \/ WriteStatus(w)

Start(w) ==
    \/ \E f \in Files : StartImport(w, f)
    \/ \E n \in DOMAIN rows, s \in Settlements :
          StartConfirm(w, n, s) \/ StartReject(w, n, s) \/ StartRejectNothing(w, n, s)

Next == \E w \in Workers : Start(w) \/ Step(w) \/ Crash(w)

Spec == Init /\ [][Next]_vars

-----------------------------------------------------------------------------
(* Properties *)

Steps == {"none", "read", "write", "receipt", "settlement", "commit", "reject", "withdraw",
          "load", "sum", "status"}

(* Rows, matches, statuses and calls keep their types; a match is about an *)
(* entry on record, and every row has a fingerprint of its own.            *)
TypeOK ==
    /\ \A n \in DOMAIN rows : rows[n].matched \in BOOLEAN
    /\ \A n, k \in DOMAIN rows : rows[n].print = rows[k].print => n = k
    /\ \A m \in DOMAIN matches : /\ matches[m].of \in DOMAIN rows
                                 /\ matches[m].to \in Settlements
                                 /\ matches[m].status \in {"confirmed", "rejected"}
    /\ status \in [Settlements -> {"open", "partial", "settled"}]
    /\ done \subseteq Files
    /\ \A w \in Workers : call[w].kind \in Steps

(* A receipt counts for one receivable at most, and no receivable is       *)
(* settled beyond what is expected, whoever confirms and rejects at the    *)
(* same time, from whatever list of suggestions.                           *)
CountedOnce ==
    /\ \A n \in DOMAIN rows : Cardinality(Confirmed(n)) <= 1
    /\ \A s \in Settlements : Settled(s) <= Expected[s] + Tolerance

Shows(row, e) ==
    row.day = Day[e] /\ row.name = Name[e] /\ Number[e] \in {row.serial, row.voucher}

(* What a statement may be taken to say: a line has the number the bank    *)
(* gave its entry, as serial number or as voucher; the numbers on the      *)
(* lines of two entries of one day and amount differ; and a statement      *)
(* lists an entry once.                                                    *)
Numbers(l) == {l.serial, l.voucher} \ {None}

NumbersTell ==
    /\ \A e \in Entries : Number[e] # None
    /\ \A l \in Lines : Number[l.of] \in Numbers(l)
    /\ \A l, k \in Lines :
          Day[l.of] = Day[k.of] /\ Numbers(l) \cap Numbers(k) # {} => l.of = k.of
    /\ \A f \in Files : \A i, j \in DOMAIN f : f[i].of = f[j].of => i = j

(* An entry is on record once at most, although statements overlap, come   *)
(* in several forms, are uploaded twice at the same time and break off;    *)
(* and every entry of a statement whose import has ended well stays there. *)
StatementKept ==
    \A e \in Entries :
        LET shown == {n \in DOMAIN rows : Shows(rows[n], e)}
        IN  /\ Cardinality(shown) <= 1
            /\ (\E f \in done : \E k \in DOMAIN f : f[k].of = e) => shown # {}

=============================================================================
