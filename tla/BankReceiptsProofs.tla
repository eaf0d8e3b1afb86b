------------------------- MODULE BankReceiptsProofs -------------------------
(***************************************************************************)
(* BankReceipts for every set of entries, statements, receivables and      *)
(* sessions, and every amount.                                             *)
(*                                                                         *)
(* A session about to commit a confirmation has found room for the receipt *)
(* and holds the receivable, so that the others can only make more room.   *)
(* What an import writes leaves the day and the name of a row alone, and   *)
(* with them what the row is worth (ReceiptsInv).  That an entry is on     *)
(* record once rests on the numbers of the entries: each row belongs to    *)
(* one entry, and an import that passes an entry leaves it a row           *)
(* (KeptInv).                                                              *)
(***************************************************************************)
EXTENDS BankReceipts, SequenceTheorems, SharedLemmas

Statuses == {"open", "partial", "settled"}
Decisions == {"confirmed", "rejected"}
Days == {Day[e] : e \in Entries}
Names == {Name[e] : e \in Entries}
Marks == {l.serial : l \in Lines} \cup {l.voucher : l \in Lines}
Prints == {Fingerprint(l) : l \in Lines}

Row == [day : Days, name : Names, serial : Marks, voucher : Marks, print : Prints,
        matched : BOOLEAN]
Match == [of : Nat, to : Settlements, status : Decisions]

Calls ==
    {NoCall}
    \cup [kind : {"read"}, file : Files, next : Nat]
    \cup [kind : {"write"}, file : Files, next : Nat, known : SUBSET Nat]
    \cup [kind : {"receipt", "settlement"}, of : Nat, to : Settlements]
    \cup [kind : {"commit"}, of : Nat, to : Settlements, loaded : Statuses]
    \cup [kind : {"reject"}, match : Nat, was : Decisions, to : Settlements]
    \cup [kind : {"withdraw"}, match : Nat, was : Decisions, to : Settlements, clears : BOOLEAN]
    \cup [kind : {"load"}, to : Settlements]
    \cup [kind : {"sum"}, to : Settlements, loaded : Statuses]
    \cup [kind : {"status"}, to : Settlements, found : Statuses]

(* The numbers a call carries are those of lines, rows and matches.        *)
Placed(c, rs, ms) ==
    /\ c.kind \in {"read", "write"} => c.next \in DOMAIN c.file
    /\ c.kind = "write" => c.known \subseteq DOMAIN rs /\ \A n, k \in c.known : n = k
    /\ c.kind \in {"receipt", "settlement", "commit"} => c.of \in DOMAIN rs
    /\ c.kind \in {"reject", "withdraw"} => c.match \in DOMAIN ms

Apart(rs) == \A n, k \in DOMAIN rs : rs[n].print = rs[k].print => n = k

About(ms, rs) == \A m \in DOMAIN ms : ms[m].of \in DOMAIN rs

Commits(w) == call[w].kind = "commit"

CommitsApart ==
    \A v, w \in Workers : v # w /\ Commits(v) /\ Commits(w) => call[v].to # call[w].to

Room(n, s) == Settled(s) + Worth(n) <= Expected[s] + Tolerance

TypesInv ==
    /\ rows \in Seq(Row) /\ Apart(rows)
    /\ matches \in Seq(Match) /\ About(matches, rows)
    /\ status \in [Settlements -> Statuses]
    /\ done \subseteq Files
    /\ call \in [Workers -> Calls]
    /\ \A w \in Workers : Placed(call[w], rows, matches)

ReceiptsInv ==
    /\ TypesInv
    /\ CommitsApart
    /\ \A w \in Workers : Commits(w) => Room(call[w].of, call[w].to)
    /\ CountedOnce

-----------------------------------------------------------------------------
(* What receipts are worth *)

Parts(s) == {x \in ConfirmedFor(s) : rows[matches[x].of].name \in Incoming}

LEMMA SettledParts ==
    ASSUME NEW s
    PROVE  Settled(s) = Total([m \in Parts(s) |-> Worth(matches[m].of)])
  BY DEF Settled, Parts

LEMMA SeqFacts ==
    ASSUME NEW S, NEW q \in Seq(S)
    PROVE  /\ Len(q) \in Nat /\ DOMAIN q = 1..Len(q) /\ IsFiniteSet(DOMAIN q)
           /\ DOMAIN q \subseteq Nat
           /\ \A k \in DOMAIN q : q[k] \in S
<1>1. Len(q) \in Nat /\ q \in [1..Len(q) -> S] /\ DOMAIN q = 1..Len(q)
  BY LenProperties
<1>2. 1 \in Int /\ Len(q) \in Int
  BY <1>1
<1>3. IsFiniteSet(1..Len(q))
  BY <1>2, FS_Interval
<1> QED
  BY <1>1, <1>3

LEMMA WorthNat ==
    ASSUME TypesInv
    PROVE  /\ \A n \in DOMAIN rows : rows[n] \in Row /\ Worth(n) \in Nat \ {0}
           /\ \A m \in DOMAIN matches : matches[m] \in Match /\ matches[m].of \in DOMAIN rows
<1>1. \A n \in DOMAIN rows : rows[n] \in Row
  BY SeqFacts DEF TypesInv
<1>2. \A m \in DOMAIN matches : matches[m] \in Match
  BY SeqFacts DEF TypesInv
<1>3. \A n \in DOMAIN rows : \E e \in Entries : rows[n].day = Day[e]
  BY <1>1 DEF Row, Days
<1> QED
  BY <1>1, <1>2, <1>3, ReceiptsAssumption DEF Worth, TypesInv, About

LEMMA PartsFinite ==
    ASSUME TypesInv, NEW s
    PROVE  /\ IsFiniteSet(DOMAIN matches)
           /\ IsFiniteSet(Parts(s)) /\ Parts(s) \subseteq DOMAIN matches
           /\ [m \in Parts(s) |-> Worth(matches[m].of)] \in [Parts(s) -> Nat]
<1>1. IsFiniteSet(DOMAIN matches)
  BY SeqFacts DEF TypesInv
<1>2. Parts(s) \subseteq DOMAIN matches
  BY DEF Parts, ConfirmedFor
<1>3. IsFiniteSet(Parts(s))
  BY <1>1, <1>2, FS_Subset
<1>4. \A m \in Parts(s) : Worth(matches[m].of) \in Nat
  BY <1>2, WorthNat
<1> QED
  BY <1>1, <1>2, <1>3, <1>4

SettledNat == \A s : Settled(s) \in Nat

LEMMA NowNat == TypesInv => SettledNat
  BY PartsFinite, SettledParts, TotalNat DEF SettledNat

LEMMA NextNat == TypesInv' => SettledNat'
  BY NowNat, PTL

(* Rows may be added and renumbered, matches stay.                         *)
RowsKept ==
    /\ DOMAIN rows \subseteq DOMAIN rows'
    /\ \A n \in DOMAIN rows : rows'[n].day = rows[n].day /\ rows'[n].name = rows[n].name

LEMMA KeptWorth ==
    ASSUME RowsKept
    PROVE  \A n \in DOMAIN rows : Worth(n)' = Worth(n)
  BY DEF RowsKept, Worth

LEMMA KeptSums ==
    ASSUME TypesInv, RowsKept, matches' = matches
    PROVE  /\ \A s : Settled(s)' = Settled(s)
           /\ \A n : Confirmed(n)' = Confirmed(n)
<1>1. \A n : Confirmed(n)' = Confirmed(n)
  BY DEF Confirmed
<1>2. ASSUME NEW s PROVE Settled(s)' = Settled(s)
  <2>1. \A m \in DOMAIN matches : matches[m].of \in DOMAIN rows
    BY DEF TypesInv, About
  <2>2. Parts(s)' = Parts(s)
    BY <2>1 DEF Parts, ConfirmedFor, RowsKept
  <2>3. \A m \in Parts(s) : Worth(matches[m].of)' = Worth(matches[m].of)
    <3>1. \A m \in Parts(s) : matches[m].of \in DOMAIN rows
      BY <2>1 DEF Parts, ConfirmedFor
    <3> QED
      BY <3>1 DEF RowsKept, Worth
  <2>4. [m \in Parts(s) |-> Worth(matches[m].of)]' = [m \in Parts(s) |-> Worth(matches[m].of)]
    BY <2>2, <2>3
  <2>5. Settled(s)' = Total([m \in Parts(s) |-> Worth(matches[m].of)]')
    BY DEF Settled, Parts
  <2> QED
    BY <2>4, <2>5, SettledParts
<1> QED
  BY <1>1, <1>2

-----------------------------------------------------------------------------
(* Steps *)

(* A step of session w that leaves it with call c.                         *)
LEMMA AnyStep ==
    ASSUME ReceiptsInv, NEW w \in Workers, NEW c \in Calls,
           call' = [call EXCEPT ![w] = c],
           rows' \in Seq(Row), Apart(rows'), RowsKept,
           matches' \in Seq(Match), About(matches', rows'), DOMAIN matches \subseteq DOMAIN matches',
           status' \in [Settlements -> Statuses], done' \subseteq Files,
           Placed(c, rows', matches'),
           c.kind = "commit" =>
              /\ UNCHANGED <<rows, matches>>
              /\ Room(c.of, c.to)
              /\ \A v \in Workers \ {w} : Commits(v) => call[v].to # c.to,
           \A v \in Workers \ {w} : Commits(v) =>
              \A s : s = call[v].to => Settled(s)' <= Settled(s),
           CountedOnce'
    PROVE  ReceiptsInv'
<1>1. call' \in [Workers -> Calls] /\ call'[w] = c /\ \A v \in Workers \ {w} : call'[v] = call[v]
  BY DEF ReceiptsInv, TypesInv
<1>2. \A v \in Workers : Placed(call'[v], rows', matches')
  <2> SUFFICES ASSUME NEW v \in Workers \ {w} PROVE Placed(call[v], rows', matches')
    BY <1>1
  <2>1. Placed(call[v], rows, matches)
    BY DEF ReceiptsInv, TypesInv
  <2>2. DOMAIN rows \subseteq DOMAIN rows'
    BY DEF RowsKept
  <2> QED
    BY <2>1, <2>2 DEF Placed
<1>3. TypesInv'
  BY <1>1, <1>2 DEF TypesInv
<1>4. CommitsApart'
  BY <1>1 DEF ReceiptsInv, CommitsApart, Commits
<1>5. ASSUME NEW v \in Workers, Commits(v)' PROVE Room(call[v].of, call[v].to)'
  <2>1. CASE v = w
    <3>1. PICK n, s : n = c.of /\ s = c.to
      OBVIOUS
    <3>2. UNCHANGED <<rows, matches>> /\ Room(n, s)
      BY <1>1, <1>5, <2>1, <3>1 DEF Commits
    <3>3. Room(n, s)'
      BY <3>2 DEF Room, Settled, Worth, ConfirmedFor
    <3> QED
      BY <1>1, <2>1, <3>1, <3>3
  <2>2. CASE v # w
    <3>1. PICK n, s : n = call[v].of /\ s = call[v].to
      OBVIOUS
    <3>2. Commits(v) /\ call'[v] = call[v]
      BY <1>1, <1>5, <2>2 DEF Commits
    <3>3. Room(n, s) /\ n \in DOMAIN rows /\ s \in Settlements
      <4>1. Room(n, s)
        BY <3>1, <3>2 DEF ReceiptsInv
      <4>2. n \in DOMAIN rows
        BY <3>1, <3>2 DEF ReceiptsInv, TypesInv, Placed, Commits
      <4>3. call[v] \in Calls /\ call[v].kind = "commit"
        BY <3>2 DEF ReceiptsInv, TypesInv, Commits
      <4>4. s \in Settlements
        BY <3>1, <4>3 DEF Calls, NoCall
      <4> QED
        BY <4>1, <4>2, <4>4
    <3>4. Settled(s)' <= Settled(s) /\ Worth(n)' = Worth(n)
      BY <2>2, <3>1, <3>2, <3>3, KeptWorth
    <3>5. Settled(s) \in Nat /\ Settled(s)' \in Nat /\ Worth(n) \in Nat
      <4>1. SettledNat /\ SettledNat'
        BY <1>3, NowNat, NextNat DEF ReceiptsInv
      <4> QED
        BY <3>3, <4>1, WorthNat DEF ReceiptsInv, SettledNat
    <3>6. Expected[s] \in Nat /\ Tolerance \in Nat
      BY <3>3, ReceiptsAssumption
    <3>7. Room(n, s)'
      BY <3>3, <3>4, <3>5, <3>6 DEF Room
    <3> QED
      BY <3>1, <3>2, <3>7
  <2> QED
    BY <2>1, <2>2
<1> QED
  BY <1>3, <1>4, <1>5 DEF ReceiptsInv

(* A step that leaves the matches alone.                                   *)
LEMMA QuietStep ==
    ASSUME ReceiptsInv, NEW w \in Workers, NEW c \in Calls,
           call' = [call EXCEPT ![w] = c],
           rows' \in Seq(Row), Apart(rows'), RowsKept, matches' = matches,
           status' \in [Settlements -> Statuses], done' \subseteq Files,
           Placed(c, rows', matches),
           c.kind = "commit" =>
              /\ UNCHANGED rows
              /\ Room(c.of, c.to)
              /\ \A v \in Workers \ {w} : Commits(v) => call[v].to # c.to
    PROVE  ReceiptsInv'
<1>1. /\ \A s : Settled(s)' = Settled(s)
      /\ \A n : Confirmed(n)' = Confirmed(n)
  BY KeptSums DEF ReceiptsInv
<1>2. \A s : Settled(s) \in Nat
  BY NowNat DEF ReceiptsInv, SettledNat
<1>3. matches' \in Seq(Match) /\ About(matches', rows')
  BY DEF ReceiptsInv, TypesInv, About, RowsKept
<1>4. CountedOnce'
  <2>1. ASSUME NEW n \in DOMAIN rows' PROVE Cardinality(Confirmed(n)) <= 1
    <3>1. CASE n \in DOMAIN rows
      BY <3>1 DEF ReceiptsInv, CountedOnce
    <3>2. CASE n \notin DOMAIN rows
      <4>1. Confirmed(n) = {}
        BY <3>2 DEF Confirmed, ReceiptsInv, TypesInv, About
      <4> QED
        BY <4>1, FS_EmptySet
    <3> QED
      BY <3>1, <3>2
  <2>2. \A s \in Settlements : Settled(s) <= Expected[s] + Tolerance
    BY DEF ReceiptsInv, CountedOnce
  <2> QED
    BY <1>1, <2>1, <2>2 DEF CountedOnce
<1>5. \A s : Settled(s)' <= Settled(s)
  BY <1>1, <1>2
<1> QED
  BY <1>3, <1>4, <1>5, AnyStep

(* A step that reads, or writes a status.                                  *)
LEMMA ReadStep ==
    ASSUME ReceiptsInv, NEW w \in Workers, NEW c \in Calls,
           call' = [call EXCEPT ![w] = c], UNCHANGED <<rows, matches>>,
           status' \in [Settlements -> Statuses], done' \subseteq Files,
           Placed(c, rows, matches), c.kind # "commit"
    PROVE  ReceiptsInv'
<1>1. rows' \in Seq(Row) /\ Apart(rows') /\ RowsKept /\ Placed(c, rows', matches)
  BY DEF ReceiptsInv, TypesInv, RowsKept
<1> QED
  BY <1>1, QuietStep

LEMMA FinishStep ==
    ASSUME ReceiptsInv, NEW w \in Workers, Finish(w), UNCHANGED <<rows, matches, status>>,
           done' \subseteq Files
    PROVE  ReceiptsInv'
<1>1. NoCall \in Calls /\ NoCall.kind = "none" /\ Placed(NoCall, rows, matches)
  BY DEF Calls, NoCall, Placed
<1>2. status' \in [Settlements -> Statuses]
  BY DEF ReceiptsInv, TypesInv
<1> QED
  BY <1>1, <1>2, ReadStep DEF Finish

-----------------------------------------------------------------------------
(* Calls and lines *)

LEMMA CallShape ==
    ASSUME NEW c \in Calls
    PROVE  /\ c.kind \in {"read", "write"} => c.file \in Files /\ c.next \in Nat
           /\ c.kind = "write" => c.known \in SUBSET Nat
           /\ c.kind \in {"receipt", "settlement", "commit"} => c.of \in Nat /\ c.to \in Settlements
           /\ c.kind \in {"receipt", "settlement"} =>
                c = [kind |-> c.kind, of |-> c.of, to |-> c.to]
           /\ c.kind = "commit" => c.loaded \in Statuses
           /\ c.kind \in {"reject", "withdraw"} =>
                c.match \in Nat /\ c.was \in Decisions /\ c.to \in Settlements
           /\ c.kind \in {"load", "sum", "status"} => c.to \in Settlements
           /\ c.kind = "sum" => c.loaded \in Statuses
           /\ c.kind = "status" => c.found \in Statuses
           /\ c.kind \in Steps
  BY DEF Calls, NoCall, Steps

LEMMA CallOf ==
    ASSUME ReceiptsInv, NEW w \in Workers
    PROVE  call[w] \in Calls /\ Placed(call[w], rows, matches)
  BY DEF ReceiptsInv, TypesInv

LEMMA LineFacts ==
    ASSUME NEW f \in Files, NEW k \in DOMAIN f
    PROVE  /\ f \in Seq(Lines) /\ Len(f) \in Nat \ {0} /\ DOMAIN f = 1..Len(f)
           /\ f[k] \in Lines /\ f[k].of \in Entries
<1>1. f \in Seq(Lines) /\ f # <<>> /\ f[k] \in Lines
  BY ReceiptsAssumption DEF Lines
<1>2. Len(f) \in Nat \ {0} /\ DOMAIN f = 1..Len(f)
  BY <1>1, EmptySeq, LenProperties
<1> QED
  BY <1>1, <1>2, ReceiptsAssumption

LEMMA LineOfCall ==
    ASSUME ReceiptsInv, NEW w \in Workers, call[w].kind \in {"read", "write"}
    PROVE  LineOf(w) \in Lines /\ LineOf(w).of \in Entries
<1>1. call[w].file \in Files /\ call[w].next \in DOMAIN call[w].file
  BY CallOf, CallShape DEF Placed
<1> QED
  BY <1>1, LineFacts DEF LineOf

-----------------------------------------------------------------------------
(* Imports *)

LEMMA StartImportStep ==
    ASSUME ReceiptsInv, NEW w \in Workers, NEW f \in Files, StartImport(w, f)
    PROVE  ReceiptsInv'
<1> DEFINE c == [kind |-> "read", file |-> f, next |-> 1]
<1>1. f \in Seq(Lines) /\ f # <<>>
  BY ReceiptsAssumption
<1>2. 1 \in DOMAIN f
  BY <1>1, EmptySeq, LenProperties
<1>3. c \in Calls /\ c.kind = "read" /\ Placed(c, rows, matches)
  BY <1>2 DEF Calls, Placed
<1>4. call' = [call EXCEPT ![w] = c] /\ UNCHANGED <<rows, matches, status, done>>
  BY DEF StartImport
<1> HIDE DEF c
<1>5. status' \in [Settlements -> Statuses] /\ done' \subseteq Files
  BY <1>4 DEF ReceiptsInv, TypesInv
<1> QED
  BY <1>3, <1>4, <1>5, ReadStep

(* At most one row is known: fingerprints are unique, and the look for a   *)
(* row in another form takes none but a single one.                        *)
LEMMA KnownOne ==
    ASSUME TypesInv, NEW l
    PROVE  /\ Known(l) \subseteq DOMAIN rows
           /\ \A n, k \in Known(l) : n = k
<1> DEFINE print == {n \in DOMAIN rows : rows[n].print = Fingerprint(l)}
<1>1. CASE print # {}
  <2>1. Known(l) = print
    BY <1>1 DEF Known
  <2> QED
    BY <2>1 DEF TypesInv, Apart
<1>2. CASE print = {}
  <2>1. CASE Cardinality(Alike(l)) = 1
    <3>1. Known(l) = Alike(l)
      BY <1>2, <2>1 DEF Known
    <3>2. Alike(l) \subseteq DOMAIN rows
      BY DEF Alike
    <3>3. IsFiniteSet(Alike(l))
      BY <3>2, SeqFacts, FS_Subset DEF TypesInv
    <3>4. \E x : Alike(l) = {x}
      BY <2>1, <3>3, FS_Singleton
    <3> QED
      BY <3>1, <3>2, <3>4
  <2>2. CASE Cardinality(Alike(l)) # 1
    BY <1>2, <2>2 DEF Known
  <2> QED
    BY <2>1, <2>2
<1> QED
  BY <1>1, <1>2

LEMMA ReadRowStep ==
    ASSUME ReceiptsInv, NEW w \in Workers, ReadRow(w)
    PROVE  ReceiptsInv'
<1>1. PICK c : c = [kind |-> "write", file |-> call[w].file, next |-> call[w].next,
                    known |-> Known(LineOf(w))]
  OBVIOUS
<1>2. call[w].file \in Files /\ call[w].next \in Nat /\ call[w].next \in DOMAIN call[w].file
  BY CallOf, CallShape DEF ReadRow, Serves, Placed
<1>3. Known(LineOf(w)) \subseteq DOMAIN rows /\ \A n, k \in Known(LineOf(w)) : n = k
  BY KnownOne DEF ReceiptsInv
<1>4. DOMAIN rows \subseteq Nat
  BY SeqFacts DEF ReceiptsInv, TypesInv
<1>5. c \in Calls /\ c.kind = "write" /\ Placed(c, rows, matches)
  BY <1>1, <1>2, <1>3, <1>4 DEF Calls, Placed
<1>6. call' = [call EXCEPT ![w] = c] /\ UNCHANGED <<rows, matches, status, done>>
  BY <1>1 DEF ReadRow
<1>7. status' \in [Settlements -> Statuses] /\ done' \subseteq Files
  BY <1>6 DEF ReceiptsInv, TypesInv
<1> QED
  BY <1>5, <1>6, <1>7, ReadStep

(* Where the call goes after a line.                                       *)
LEMMA NextLineCall ==
    ASSUME ReceiptsInv, NEW w \in Workers, Serves(w, "write"), NextLine(w)
    PROVE  /\ \E c \in Calls : /\ call' = [call EXCEPT ![w] = c]
                               /\ c.kind # "commit" /\ Placed(c, rows', matches)
           /\ done' \subseteq Files
<1>1. /\ call[w].file \in Files /\ call[w].next \in Nat /\ call[w].next \in DOMAIN call[w].file
      /\ done \subseteq Files
  BY CallOf, CallShape DEF Serves, Placed, ReceiptsInv, TypesInv
<1>2. CASE call[w].next < Len(call[w].file)
  <2>1. PICK c : c = [kind |-> "read", file |-> call[w].file, next |-> call[w].next + 1]
    OBVIOUS
  <2>2. call[w].next + 1 \in DOMAIN call[w].file
    BY <1>1, <1>2, LineFacts
  <2>3. c \in Calls /\ c.kind = "read" /\ Placed(c, rows', matches)
    BY <1>1, <2>1, <2>2 DEF Calls, Placed
  <2>4. call' = [call EXCEPT ![w] = c] /\ done' = done
    BY <1>2, <2>1 DEF NextLine
  <2> QED
    BY <1>1, <2>3, <2>4
<1>3. CASE ~(call[w].next < Len(call[w].file))
  <2>1. NoCall \in Calls /\ NoCall.kind # "commit" /\ Placed(NoCall, rows', matches)
    BY DEF Calls, NoCall, Placed
  <2>2. call' = [call EXCEPT ![w] = NoCall] /\ done' = done \cup {call[w].file}
    BY <1>3 DEF NextLine, Finish
  <2> QED
    BY <1>1, <2>1, <2>2
<1> QED
  BY <1>2, <1>3

LEMMA NewRowTyped ==
    ASSUME NEW l \in Lines, l.of \in Entries
    PROVE  NewRow(l) \in Row /\ NewRow(l).print = Fingerprint(l)
  BY DEF NewRow, Row, Days, Names, Marks, Prints

LEMMA RecordedTyped ==
    ASSUME NEW l \in Lines, NEW row \in Row
    PROVE  /\ Recorded(row, l) \in Row
           /\ Recorded(row, l).print = Fingerprint(l)
           /\ Recorded(row, l).day = row.day /\ Recorded(row, l).name = row.name
<1>1. Either(l.serial, row.serial) \in Marks /\ Either(l.voucher, row.voucher) \in Marks
  BY DEF Either, Marks, Row
<1>2. Fingerprint(l) \in Prints
  BY DEF Prints
<1> QED
  BY <1>1, <1>2 DEF Recorded, Row

(* A sequence whose elements are replaced.                                 *)
LEMMA Replaced ==
    ASSUME NEW S, NEW q \in Seq(S), NEW r \in [DOMAIN q -> S]
    PROVE  r \in Seq(S) /\ DOMAIN r = DOMAIN q
<1>1. Len(q) \in Nat /\ DOMAIN q = 1..Len(q)
  BY LenProperties
<1>2. r \in [1..Len(q) -> S]
  BY <1>1
<1> QED
  BY <1>1, <1>2, SeqDef

LEMMA WriteRowStep ==
    ASSUME ReceiptsInv, NEW w \in Workers, WriteRow(w)
    PROVE  ReceiptsInv'
<1>1. PICK l, known : l = LineOf(w) /\ known = call[w].known
  OBVIOUS
<1>2. l \in Lines /\ l.of \in Entries
  BY <1>1, LineOfCall DEF WriteRow, Serves
<1>3. known \subseteq DOMAIN rows /\ \A n, k \in known : n = k
  BY <1>1, CallOf DEF WriteRow, Serves, Placed
<1>4. /\ \A n \in DOMAIN rows \ known : rows[n].print # Fingerprint(l)
      /\ rows' = IF known = {} THEN Append(rows, NewRow(l))
                 ELSE [n \in DOMAIN rows |-> IF n \in known THEN Recorded(rows[n], l) ELSE rows[n]]
      /\ Serves(w, "write") /\ NextLine(w) /\ UNCHANGED <<matches, status>>
  BY <1>1 DEF WriteRow, Taken
<1>5. rows \in Seq(Row) /\ Apart(rows) /\ \A n \in DOMAIN rows : rows[n] \in Row
  BY WorthNat DEF ReceiptsInv, TypesInv
<1>6. rows' \in Seq(Row) /\ Apart(rows') /\ RowsKept
  <2>1. CASE known = {}
    <3>1. PICK row : row = NewRow(l)
      OBVIOUS
    <3>2. row \in Row /\ row.print = Fingerprint(l) /\ rows' = Append(rows, row)
      BY <1>2, <1>4, <2>1, <3>1, NewRowTyped
    <3>3. /\ rows' \in Seq(Row) /\ Len(rows) \in Nat /\ DOMAIN rows = 1..Len(rows)
          /\ DOMAIN rows' = 1..(Len(rows) + 1) /\ rows'[Len(rows) + 1] = row
          /\ \A n \in DOMAIN rows : rows'[n] = rows[n]
      BY <1>5, <3>2, LenProperties
    <3>4. RowsKept
      BY <3>3 DEF RowsKept
    <3>5. Apart(rows')
      BY <1>4, <1>5, <2>1, <3>2, <3>3 DEF Apart
    <3> QED
      BY <3>3, <3>4, <3>5
  <2>2. CASE known # {}
    <3>1. rows' = [n \in DOMAIN rows |-> IF n \in known THEN Recorded(rows[n], l) ELSE rows[n]]
      BY <1>4, <2>2
    <3>2. \A n \in DOMAIN rows :
             /\ Recorded(rows[n], l) \in Row /\ Recorded(rows[n], l).print = Fingerprint(l)
             /\ Recorded(rows[n], l).day = rows[n].day /\ Recorded(rows[n], l).name = rows[n].name
      BY <1>2, <1>5, RecordedTyped
    <3>3. rows' \in [DOMAIN rows -> Row]
      BY <1>5, <3>1, <3>2
    <3>4. rows' \in Seq(Row) /\ DOMAIN rows' = DOMAIN rows
      BY <1>5, <3>3, Replaced
    <3>5. /\ \A n \in known : rows'[n] = Recorded(rows[n], l)
          /\ \A n \in DOMAIN rows \ known : rows'[n] = rows[n]
      BY <1>3, <3>1
    <3>6. RowsKept
      BY <3>2, <3>4, <3>5 DEF RowsKept
    <3>7. Apart(rows')
      <4> SUFFICES ASSUME NEW n \in DOMAIN rows, NEW k \in DOMAIN rows, rows'[n].print = rows'[k].print
                   PROVE  n = k
        BY <3>4 DEF Apart
      <4>1. \A m \in known : rows'[m].print = Fingerprint(l)
        BY <1>3, <3>2, <3>5
      <4>2. \A m \in DOMAIN rows \ known : rows'[m].print = rows[m].print /\ rows[m].print # Fingerprint(l)
        BY <1>4, <3>5
      <4> QED
        BY <1>3, <1>5, <4>1, <4>2 DEF Apart
    <3> QED
      BY <3>4, <3>6, <3>7
  <2> QED
    BY <2>1, <2>2
<1>7. status' \in [Settlements -> Statuses]
  BY <1>4 DEF ReceiptsInv, TypesInv
<1>8. /\ \E c \in Calls : /\ call' = [call EXCEPT ![w] = c]
                          /\ c.kind # "commit" /\ Placed(c, rows', matches)
      /\ done' \subseteq Files
  BY <1>4, NextLineCall
<1> QED
  BY <1>4, <1>6, <1>7, <1>8, QuietStep

-----------------------------------------------------------------------------
(* Confirmations *)

LEMMA StartConfirmStep ==
    ASSUME ReceiptsInv, NEW w \in Workers, NEW n \in DOMAIN rows, NEW s \in Settlements,
           StartConfirm(w, n, s)
    PROVE  ReceiptsInv'
<1>1. PICK c : c = [kind |-> "receipt", of |-> n, to |-> s]
  OBVIOUS
<1>2. n \in Nat
  BY SeqFacts DEF ReceiptsInv, TypesInv
<1>3. c \in Calls /\ c.kind = "receipt" /\ Placed(c, rows, matches)
  BY <1>1, <1>2 DEF Calls, Placed
<1>4. call' = [call EXCEPT ![w] = c] /\ UNCHANGED <<rows, matches, status, done>>
  BY <1>1 DEF StartConfirm
<1>5. status' \in [Settlements -> Statuses] /\ done' \subseteq Files
  BY <1>4 DEF ReceiptsInv, TypesInv
<1> QED
  BY <1>3, <1>4, <1>5, ReadStep

LEMMA LockReceiptStep ==
    ASSUME ReceiptsInv, NEW w \in Workers, LockReceipt(w)
    PROVE  ReceiptsInv'
<1>1. PICK c : c = [call[w] EXCEPT !.kind = "settlement"]
  OBVIOUS
<1>2. /\ call[w] \in Calls /\ call[w].kind = "receipt" /\ call[w].of \in DOMAIN rows
      /\ call[w].of \in Nat /\ call[w].to \in Settlements
      /\ call[w] = [kind |-> "receipt", of |-> call[w].of, to |-> call[w].to]
  BY CallOf, CallShape DEF LockReceipt, Serves, Placed
<1>3. c = [kind |-> "settlement", of |-> call[w].of, to |-> call[w].to]
  BY <1>1, <1>2
<1>4. c \in Calls /\ c.kind = "settlement" /\ Placed(c, rows, matches)
  BY <1>2, <1>3 DEF Calls, Placed
<1>5. call' = [call EXCEPT ![w] = c] /\ UNCHANGED <<rows, matches, status, done>>
  BY <1>1 DEF LockReceipt
<1>6. status' \in [Settlements -> Statuses] /\ done' \subseteq Files
  BY <1>5 DEF ReceiptsInv, TypesInv
<1> QED
  BY <1>4, <1>5, <1>6, ReadStep

(* What is found to fit has room.                                          *)
LEMMA FitsRoom ==
    ASSUME TypesInv, NEW n \in DOMAIN rows, NEW s \in Settlements, Fits(n, s)
    PROVE  Room(n, s)
<1>1. Settled(s) \in Nat /\ Worth(n) \in Nat /\ Expected[s] \in Nat /\ Tolerance \in Nat
  BY NowNat, WorthNat, ReceiptsAssumption DEF SettledNat
<1> QED
  BY <1>1 DEF Fits, Bigger, Room

LEMMA LockSettlementStep ==
    ASSUME ReceiptsInv, NEW w \in Workers, LockSettlement(w)
    PROVE  ReceiptsInv'
<1>1. PICK n, s : n = call[w].of /\ s = call[w].to
  OBVIOUS
<1>2. n \in DOMAIN rows /\ n \in Nat /\ s \in Settlements
  BY <1>1, CallOf, CallShape DEF LockSettlement, Serves, Placed
<1>3. UNCHANGED <<rows, matches, status, done>> /\ done' \subseteq Files
  BY DEF LockSettlement, ReceiptsInv, TypesInv
<1>4. CASE ~Fits(n, s)
  <2>1. Finish(w)
    BY <1>1, <1>4 DEF LockSettlement
  <2> QED
    BY <1>3, <2>1, FinishStep
<1>5. CASE Fits(n, s)
  <2>1. PICK c : c = [kind |-> "commit", of |-> n, to |-> s, loaded |-> status[s]]
    OBVIOUS
  <2>2. call' = [call EXCEPT ![w] = c]
    BY <1>1, <1>5, <2>1 DEF LockSettlement
  <2>3. status[s] \in Statuses
    BY <1>2 DEF ReceiptsInv, TypesInv
  <2>4. c \in Calls /\ c.of = n /\ c.to = s /\ Placed(c, rows, matches)
    BY <1>2, <2>1, <2>3 DEF Calls, Placed
  <2>5. Room(c.of, c.to)
    BY <1>2, <1>5, <2>4, FitsRoom DEF ReceiptsInv
  <2>6. \A v \in Workers \ {w} : Commits(v) => call[v].to # c.to
    BY <1>1, <2>4 DEF LockSettlement, HoldsSettlement, Serves, Commits
  <2>7. /\ rows' \in Seq(Row) /\ Apart(rows') /\ RowsKept /\ matches' = matches
        /\ status' \in [Settlements -> Statuses] /\ Placed(c, rows', matches)
    BY <1>3, <2>4 DEF ReceiptsInv, TypesInv, RowsKept
  <2> QED
    BY <1>3, <2>2, <2>4, <2>5, <2>6, <2>7, QuietStep
<1> QED
  BY <1>4, <1>5

(* A row is marked or unmarked.                                            *)
LEMMA Marked ==
    ASSUME TypesInv, NEW n \in DOMAIN rows, NEW b \in BOOLEAN, rows' = [rows EXCEPT ![n].matched = b]
    PROVE  rows' \in Seq(Row) /\ Apart(rows') /\ RowsKept /\ DOMAIN rows' = DOMAIN rows
<1>1. PICK r : r = [rows[n] EXCEPT !.matched = b]
  OBVIOUS
<1>2. rows[n] \in Row
  BY WorthNat
<1>3. r \in Row /\ r.day = rows[n].day /\ r.name = rows[n].name /\ r.print = rows[n].print
  BY <1>1, <1>2 DEF Row
<1>4. rows' = [rows EXCEPT ![n] = r]
  BY <1>1
<1>5. DOMAIN rows' = DOMAIN rows /\ rows'[n] = r /\ \A k \in DOMAIN rows \ {n} : rows'[k] = rows[k]
  BY <1>4
<1>6. \A k \in DOMAIN rows : rows[k] \in Row
  BY WorthNat
<1>7. rows' \in [DOMAIN rows -> Row]
  BY <1>3, <1>4, <1>6
<1>8. rows \in Seq(Row) /\ Apart(rows)
  BY DEF TypesInv
<1>9. rows' \in Seq(Row)
  BY <1>7, <1>8, Replaced
<1>10. \A k \in DOMAIN rows : rows'[k].print = rows[k].print
  BY <1>3, <1>5
<1>11. Apart(rows')
  BY <1>5, <1>8, <1>10 DEF Apart
<1>12. RowsKept
  BY <1>3, <1>5 DEF RowsKept
<1> QED
  BY <1>5, <1>9, <1>11, <1>12

(* One more match, for receipt n and receivable s.                         *)
LEMMA OneMore ==
    ASSUME TypesInv, RowsKept, NEW n \in DOMAIN rows, NEW s \in Settlements,
           matches' = Append(matches, [of |-> n, to |-> s, status |-> "confirmed"])
    PROVE  /\ matches' \in Seq(Match) /\ About(matches', rows')
           /\ DOMAIN matches \subseteq DOMAIN matches'
           /\ Confirmed(n)' = Confirmed(n) \cup {Len(matches) + 1}
           /\ \A k : k # n => Confirmed(k)' = Confirmed(k)
           /\ \A t : t # s => Settled(t)' = Settled(t)
           /\ Settled(s)' \in {Settled(s), Settled(s) + Worth(n)}
<1>1. PICK x : x = [of |-> n, to |-> s, status |-> "confirmed"]
  OBVIOUS
<1>2. n \in Nat /\ matches \in Seq(Match) /\ About(matches, rows)
  BY SeqFacts DEF TypesInv
<1>3. x \in Match /\ x.of = n /\ x.to = s /\ x.status = "confirmed"
  BY <1>1, <1>2 DEF Match, Decisions
<1>4. matches' = Append(matches, x)
  BY <1>1
<1>5. PICK m : m = Len(matches) + 1
  OBVIOUS
<1>6. /\ matches' \in Seq(Match) /\ DOMAIN matches' = DOMAIN matches \cup {m} /\ m \notin DOMAIN matches
      /\ matches'[m] = x /\ \A k \in DOMAIN matches : matches'[k] = matches[k]
  BY <1>2, <1>3, <1>4, <1>5, LenProperties
<1>7. About(matches', rows')
  BY <1>2, <1>3, <1>6 DEF About, RowsKept
<1>8. Confirmed(n)' = Confirmed(n) \cup {m}
  BY <1>3, <1>6 DEF Confirmed
<1>9. \A k : k # n => Confirmed(k)' = Confirmed(k)
  BY <1>3, <1>6 DEF Confirmed
<1>10. \A k \in DOMAIN matches : matches[k].of \in DOMAIN rows
  BY <1>2 DEF About
<1>11. /\ \A k \in DOMAIN matches : Worth(matches[k].of)' = Worth(matches[k].of)
       /\ Worth(matches[m].of)' = Worth(n)
  <2>1. \A k \in DOMAIN matches : matches'[k].of = matches[k].of
    BY <1>6
  <2> QED
    BY <1>3, <1>6, <1>10, <2>1 DEF RowsKept, Worth
<1>12. ASSUME NEW t, t # s PROVE Settled(t)' = Settled(t)
  <2>1. Parts(t)' = Parts(t)
    BY <1>3, <1>6, <1>10, <1>12 DEF Parts, ConfirmedFor, RowsKept
  <2>2. [k \in Parts(t) |-> Worth(matches[k].of)]' = [k \in Parts(t) |-> Worth(matches[k].of)]
    BY <1>11, <2>1, PartsFinite
  <2>3. Settled(t)' = Total([k \in Parts(t) |-> Worth(matches[k].of)]')
    BY DEF Settled, Parts
  <2> QED
    BY <2>2, <2>3, SettledParts
<1>13. Settled(s)' \in {Settled(s), Settled(s) + Worth(n)}
  <2>1. Settled(s)' = Total([k \in Parts(s) |-> Worth(matches[k].of)]')
    BY DEF Settled, Parts
  <2>2. Worth(n) \in Nat
    BY WorthNat
  <2>3. CASE Parts(s)' = Parts(s)
    <3>1. [k \in Parts(s) |-> Worth(matches[k].of)]' = [k \in Parts(s) |-> Worth(matches[k].of)]
      BY <1>11, <2>3, PartsFinite
    <3>2. Settled(s)' = Settled(s)
      BY <2>1, <3>1, SettledParts
    <3> QED
      BY <3>2
  <2>4. CASE Parts(s)' = Parts(s) \cup {m}
    <3>1. PICK f : f = [k \in Parts(s) |-> Worth(matches[k].of)]'
      OBVIOUS
    <3>2. /\ DOMAIN f = Parts(s) \cup {m} /\ f[m] = Worth(n)
          /\ \A k \in Parts(s) : f[k] = Worth(matches[k].of)
          /\ f = [k \in Parts(s) \cup {m} |-> f[k]]
      BY <1>11, <2>4, <3>1, PartsFinite
    <3>3. /\ IsFiniteSet(Parts(s)) /\ m \notin Parts(s)
          /\ \A k \in Parts(s) : Worth(matches[k].of) \in Nat
      BY <1>6, PartsFinite
    <3>4. IsFiniteSet(Parts(s) \cup {m}) /\ f \in [Parts(s) \cup {m} -> Nat]
      <4>1. IsFiniteSet(Parts(s) \cup {m})
        BY <3>3, FS_AddElement
      <4>2. \A k \in Parts(s) \cup {m} : f[k] \in Nat
        BY <2>2, <3>2, <3>3
      <4> QED
        BY <3>2, <4>1, <4>2
    <3>5. Total(f) = Total([k \in (Parts(s) \cup {m}) \ {m} |-> f[k]]) + f[m]
      BY <3>4, TotalWithout
    <3>6. [k \in (Parts(s) \cup {m}) \ {m} |-> f[k]] = [k \in Parts(s) |-> Worth(matches[k].of)]
      BY <3>2, <3>3
    <3>7. Total(f) = Settled(s) + Worth(n)
      BY <3>2, <3>5, <3>6, SettledParts
    <3>8. Settled(s)' = Settled(s) + Worth(n)
      BY <2>1, <3>1, <3>7
    <3> QED
      BY <3>8
  <2>5. Parts(s)' = Parts(s) \/ Parts(s)' = Parts(s) \cup {m}
    <3>1. \A k \in DOMAIN matches : k \in Parts(s)' <=> k \in Parts(s)
      BY <1>6, <1>10 DEF Parts, ConfirmedFor, RowsKept
    <3>2. Parts(s)' \subseteq DOMAIN matches \cup {m} /\ Parts(s) \subseteq DOMAIN matches
      BY <1>6 DEF Parts, ConfirmedFor
    <3> QED
      BY <3>1, <3>2
  <2> QED
    BY <2>3, <2>4, <2>5
<1> QED
  BY <1>5, <1>6, <1>7, <1>8, <1>9, <1>12, <1>13

LEMMA CommitConfirmStep ==
    ASSUME ReceiptsInv, NEW w \in Workers, CommitConfirm(w)
    PROVE  ReceiptsInv'
<1>1. PICK n, s : n = call[w].of /\ s = call[w].to
  OBVIOUS
<1>2. /\ call[w].kind = "commit" /\ n \in DOMAIN rows /\ s \in Settlements
      /\ call[w].loaded \in Statuses /\ Room(n, s)
  BY <1>1, CallOf, CallShape DEF CommitConfirm, Serves, Placed, ReceiptsInv, Commits
<1>3. UNCHANGED <<status, done>> /\ done' \subseteq Files /\ status' \in [Settlements -> Statuses]
  BY DEF CommitConfirm, ReceiptsInv, TypesInv
<1>4. CASE Confirmed(n) # {}
  <2>1. Finish(w) /\ UNCHANGED <<matches, rows>>
    BY <1>1, <1>4 DEF CommitConfirm
  <2> QED
    BY <1>3, <2>1, FinishStep
<1>5. CASE Confirmed(n) = {}
  <2>1. PICK c : c = [kind |-> "sum", to |-> s, loaded |-> call[w].loaded]
    OBVIOUS
  <2>2. /\ matches' = Append(matches, [of |-> n, to |-> s, status |-> "confirmed"])
        /\ rows' = [rows EXCEPT ![n].matched = TRUE]
        /\ call' = [call EXCEPT ![w] = c]
    BY <1>1, <1>5, <2>1 DEF CommitConfirm
  <2>3. c \in Calls /\ c.kind = "sum" /\ Placed(c, rows', matches')
    BY <1>2, <2>1 DEF Calls, Placed
  <2>4. TypesInv
    BY DEF ReceiptsInv
  <2>5. rows' \in Seq(Row) /\ Apart(rows') /\ RowsKept /\ DOMAIN rows' = DOMAIN rows
    BY <1>2, <2>2, <2>4, Marked
  <2>6. /\ matches' \in Seq(Match) /\ About(matches', rows')
        /\ DOMAIN matches \subseteq DOMAIN matches'
        /\ Confirmed(n)' = Confirmed(n) \cup {Len(matches) + 1}
        /\ \A k : k # n => Confirmed(k)' = Confirmed(k)
        /\ \A t : t # s => Settled(t)' = Settled(t)
        /\ Settled(s)' \in {Settled(s), Settled(s) + Worth(n)}
    BY <1>2, <2>2, <2>4, <2>5, OneMore
  <2>7. SettledNat
    BY <2>4, NowNat
  <2>8. CountedOnce'
    <3>1. ASSUME NEW k \in DOMAIN rows PROVE Cardinality(Confirmed(k)') <= 1
      <4>1. CASE k = n
        <5>1. Confirmed(k)' = {Len(matches) + 1}
          BY <1>5, <2>6, <4>1
        <5>2. Cardinality({Len(matches) + 1}) = 1
          BY FS_Singleton
        <5> QED
          BY <5>1, <5>2
      <4>2. CASE k # n
        <5>1. Cardinality(Confirmed(k)) <= 1 /\ Confirmed(k)' = Confirmed(k)
          BY <2>6, <4>2 DEF ReceiptsInv, CountedOnce
        <5> QED
          BY <5>1
      <4> QED
        BY <4>1, <4>2
    <3>2. ASSUME NEW t \in Settlements PROVE Settled(t)' <= Expected[t] + Tolerance
      <4>1. CASE t = s
        <5>1. /\ Settled(s) \in Nat /\ Worth(n) \in Nat /\ Expected[s] \in Nat /\ Tolerance \in Nat
          BY <1>2, <2>4, <2>7, WorthNat, ReceiptsAssumption DEF SettledNat
        <5>2. Settled(s) <= Expected[s] + Tolerance
          BY <1>2 DEF ReceiptsInv, CountedOnce
        <5> QED
          BY <1>2, <2>6, <4>1, <5>1, <5>2 DEF Room
      <4>2. CASE t # s
        BY <2>6, <4>2 DEF ReceiptsInv, CountedOnce
      <4> QED
        BY <4>1, <4>2
    <3> QED
      BY <2>5, <3>1, <3>2 DEF CountedOnce
  <2>9. \A v \in Workers \ {w} : Commits(v) => \A t : t = call[v].to => Settled(t)' <= Settled(t)
    <3>1. \A v \in Workers \ {w} : Commits(v) => call[v].to # s
      BY <1>1, <1>2 DEF ReceiptsInv, CommitsApart, Commits
    <3>2. \A t : t # s => Settled(t)' <= Settled(t)
      BY <2>6, <2>7 DEF SettledNat
    <3> QED
      BY <3>1, <3>2
  <2> QED
    BY <1>3, <2>2, <2>3, <2>5, <2>6, <2>8, <2>9, AnyStep
<1> QED
  BY <1>4, <1>5

-----------------------------------------------------------------------------
(* Rejections *)

LEMMA StartRejectStep ==
    ASSUME ReceiptsInv, NEW w \in Workers, NEW n \in DOMAIN rows, NEW s \in Settlements,
           StartReject(w, n, s)
    PROVE  ReceiptsInv'
<1>1. PICK m \in Pairs(n, s) :
          call' = [call EXCEPT ![w] = [kind |-> "reject", match |-> m, was |-> matches[m].status,
                                       to |-> s]]
  BY DEF StartReject
<1>2. PICK c : c = [kind |-> "reject", match |-> m, was |-> matches[m].status, to |-> s]
  OBVIOUS
<1>3. m \in DOMAIN matches /\ m \in Nat /\ matches[m].status \in Decisions
  <2>1. m \in DOMAIN matches
    BY DEF Pairs
  <2>2. m \in Nat
    BY <2>1, SeqFacts DEF ReceiptsInv, TypesInv
  <2> QED
    BY <2>1, <2>2, WorthNat DEF ReceiptsInv, Match
<1>4. c \in Calls /\ c.kind = "reject" /\ Placed(c, rows, matches)
  BY <1>2, <1>3 DEF Calls, Placed
<1>5. call' = [call EXCEPT ![w] = c] /\ UNCHANGED <<rows, matches, status, done>>
  BY <1>1, <1>2 DEF StartReject
<1>6. status' \in [Settlements -> Statuses] /\ done' \subseteq Files
  BY <1>5 DEF ReceiptsInv, TypesInv
<1> QED
  BY <1>4, <1>5, <1>6, ReadStep

LEMMA StartRejectNothingStep ==
    ASSUME ReceiptsInv, NEW w \in Workers, NEW n \in DOMAIN rows, NEW s \in Settlements,
           StartRejectNothing(w, n, s)
    PROVE  ReceiptsInv'
<1>1. PICK c : c = [kind |-> "load", to |-> s]
  OBVIOUS
<1>2. c \in Calls /\ c.kind = "load" /\ Placed(c, rows, matches)
  BY <1>1 DEF Calls, Placed
<1>3. call' = [call EXCEPT ![w] = c] /\ UNCHANGED <<rows, matches, status, done>>
  BY <1>1 DEF StartRejectNothing
<1>4. status' \in [Settlements -> Statuses] /\ done' \subseteq Files
  BY <1>3 DEF ReceiptsInv, TypesInv
<1> QED
  BY <1>2, <1>3, <1>4, ReadStep

LEMMA LockMatchStep ==
    ASSUME ReceiptsInv, NEW w \in Workers, LockMatch(w)
    PROVE  ReceiptsInv'
<1>1. PICK b : b = (call[w].was = "confirmed" /\ Confirmed(matches[call[w].match].of) \subseteq {call[w].match})
  OBVIOUS
<1>2. PICK c : c = [kind |-> "withdraw", match |-> call[w].match, was |-> call[w].was,
                    to |-> call[w].to, clears |-> b]
  OBVIOUS
<1>3. /\ call[w].match \in DOMAIN matches /\ call[w].match \in Nat
      /\ call[w].was \in Decisions /\ call[w].to \in Settlements
  BY CallOf, CallShape DEF LockMatch, Serves, Placed
<1>4. b \in BOOLEAN
  BY <1>1
<1>5. c \in Calls /\ c.kind = "withdraw" /\ Placed(c, rows, matches)
  BY <1>2, <1>3, <1>4 DEF Calls, Placed
<1>6. call' = [call EXCEPT ![w] = c] /\ UNCHANGED <<rows, matches, status, done>>
  BY <1>1, <1>2 DEF LockMatch
<1>7. status' \in [Settlements -> Statuses] /\ done' \subseteq Files
  BY <1>6 DEF ReceiptsInv, TypesInv
<1> QED
  BY <1>5, <1>6, <1>7, ReadStep

(* One match is rejected.                                                  *)
LEMMA OneLess ==
    ASSUME TypesInv, RowsKept, NEW m \in DOMAIN matches,
           matches' = [matches EXCEPT ![m].status = "rejected"]
    PROVE  /\ matches' \in Seq(Match) /\ About(matches', rows')
           /\ DOMAIN matches' = DOMAIN matches
           /\ \A k : Confirmed(k)' \subseteq Confirmed(k)
           /\ \A s : Settled(s)' <= Settled(s)
<1>1. PICK x : x = [matches[m] EXCEPT !.status = "rejected"]
  OBVIOUS
<1>2. matches \in Seq(Match) /\ \A k \in DOMAIN matches : matches[k] \in Match /\ matches[k].of \in DOMAIN rows
  BY WorthNat DEF TypesInv
<1>3. x \in Match /\ x.of = matches[m].of /\ x.to = matches[m].to /\ x.status = "rejected"
  BY <1>1, <1>2 DEF Match, Decisions
<1>4. matches' = [matches EXCEPT ![m] = x]
  BY <1>1
<1>5. DOMAIN matches' = DOMAIN matches /\ matches'[m] = x /\ \A k \in DOMAIN matches \ {m} : matches'[k] = matches[k]
  BY <1>4
<1>6. matches' \in [DOMAIN matches -> Match]
  BY <1>2, <1>3, <1>4
<1>7. matches' \in Seq(Match)
  BY <1>2, <1>6, Replaced
<1>8. \A k \in DOMAIN matches : matches'[k].of = matches[k].of /\ matches'[k].to = matches[k].to
  BY <1>3, <1>5
<1>9. About(matches', rows')
  BY <1>2, <1>5, <1>8 DEF About, RowsKept
<1>10. \A k : Confirmed(k)' \subseteq Confirmed(k)
  BY <1>3, <1>5, <1>8 DEF Confirmed
<1>11. ASSUME NEW s PROVE Settled(s)' <= Settled(s)
  <2>1. Settled(s)' = Total([k \in Parts(s) |-> Worth(matches[k].of)]')
    BY DEF Settled, Parts
  <2>2. Parts(s)' = Parts(s) \ {m}
    BY <1>2, <1>3, <1>5, <1>8 DEF Parts, ConfirmedFor, RowsKept
  <2>3. \A k \in DOMAIN matches : Worth(matches[k].of)' = Worth(matches[k].of)
    BY <1>2, <1>8 DEF RowsKept, Worth
  <2>4. PICK f : f = [k \in Parts(s) |-> Worth(matches[k].of)]
    OBVIOUS
  <2>5. f \in [Parts(s) -> Nat] /\ IsFiniteSet(Parts(s)) /\ Settled(s) = Total(f) /\ Settled(s) \in Nat
    BY <2>4, PartsFinite, SettledParts, NowNat DEF SettledNat
  <2>6. [k \in Parts(s) |-> Worth(matches[k].of)]' = [k \in Parts(s) \ {m} |-> f[k]]
    BY <2>2, <2>3, <2>4, PartsFinite
  <2>7. CASE m \in Parts(s)
    <3>1. Total(f) = Total([k \in Parts(s) \ {m} |-> f[k]]) + f[m]
      BY <2>5, <2>7, TotalWithout
    <3>2. f[m] \in Nat
      BY <2>5, <2>7
    <3>3. IsFiniteSet(Parts(s) \ {m}) /\ [k \in Parts(s) \ {m} |-> f[k]] \in [Parts(s) \ {m} -> Nat]
      BY <2>5, FS_Subset
    <3>4. Total([k \in Parts(s) \ {m} |-> f[k]]) \in Nat
      BY <3>3, TotalNat
    <3>5. Settled(s)' = Total([k \in Parts(s) \ {m} |-> f[k]])
      BY <2>1, <2>6
    <3> QED
      BY <2>5, <3>1, <3>2, <3>4, <3>5
  <2>8. CASE m \notin Parts(s)
    <3>1. [k \in Parts(s) \ {m} |-> f[k]] = f
      BY <2>5, <2>8
    <3>2. Settled(s)' = Settled(s)
      BY <2>1, <2>5, <2>6, <3>1
    <3> QED
      BY <2>5, <3>2
  <2> QED
    BY <2>7, <2>8
<1> QED
  BY <1>5, <1>7, <1>9, <1>10, <1>11

LEMMA CommitRejectStep ==
    ASSUME ReceiptsInv, NEW w \in Workers, CommitReject(w)
    PROVE  ReceiptsInv'
<1>1. PICK m, c : m = call[w].match /\ c = [kind |-> "load", to |-> call[w].to]
  OBVIOUS
<1>2. PICK n : n = matches[m].of
  OBVIOUS
<1>3. m \in DOMAIN matches /\ call[w].to \in Settlements
  BY <1>1, CallOf, CallShape DEF CommitReject, Serves, Placed
<1>4. n \in DOMAIN rows
  BY <1>2, <1>3, WorthNat DEF ReceiptsInv
<1>5. /\ matches' = matches \/ matches' = [matches EXCEPT ![m].status = "rejected"]
      /\ rows' = rows \/ rows' = [rows EXCEPT ![n].matched = FALSE]
      /\ call' = [call EXCEPT ![w] = c]
      /\ UNCHANGED <<status, done>>
  BY <1>1, <1>2 DEF CommitReject
<1>6. status' \in [Settlements -> Statuses] /\ done' \subseteq Files
  BY <1>5 DEF ReceiptsInv, TypesInv
<1>7. rows' \in Seq(Row) /\ Apart(rows') /\ RowsKept /\ DOMAIN rows' = DOMAIN rows
  <2>1. CASE rows' = rows
    BY <2>1 DEF ReceiptsInv, TypesInv, RowsKept
  <2>2. CASE rows' = [rows EXCEPT ![n].matched = FALSE]
    BY <1>4, <2>2, Marked DEF ReceiptsInv
  <2> QED
    BY <1>5, <2>1, <2>2
<1>8. c \in Calls /\ c.kind = "load" /\ \A rs, ms : Placed(c, rs, ms)
  BY <1>1, <1>3 DEF Calls, Placed
<1>9. CASE matches' = matches
  BY <1>5, <1>6, <1>7, <1>8, <1>9, QuietStep
<1>10. CASE matches' = [matches EXCEPT ![m].status = "rejected"]
  <2>1. /\ matches' \in Seq(Match) /\ About(matches', rows')
        /\ DOMAIN matches' = DOMAIN matches
        /\ \A k : Confirmed(k)' \subseteq Confirmed(k)
        /\ \A s : Settled(s)' <= Settled(s)
    BY <1>3, <1>7, <1>10, OneLess DEF ReceiptsInv
  <2>2. ASSUME NEW k \in DOMAIN rows' PROVE Cardinality(Confirmed(k)') <= 1
    <3>1. Confirmed(k)' \subseteq Confirmed(k) /\ Cardinality(Confirmed(k)) <= 1
      BY <1>7, <2>1 DEF ReceiptsInv, CountedOnce
    <3>2. IsFiniteSet(Confirmed(k))
      <4>1. Confirmed(k) \subseteq DOMAIN matches
        BY DEF Confirmed
      <4> QED
        BY <4>1, PartsFinite, FS_Subset DEF ReceiptsInv
    <3>3. Cardinality(Confirmed(k)') <= Cardinality(Confirmed(k)) /\ IsFiniteSet(Confirmed(k)')
      BY <3>1, <3>2, FS_Subset
    <3>4. Cardinality(Confirmed(k)') \in Nat /\ Cardinality(Confirmed(k)) \in Nat
      BY <3>2, <3>3, FS_CardinalityType
    <3> QED
      BY <3>1, <3>3, <3>4
  <2>3. ASSUME NEW s \in Settlements PROVE Settled(s)' <= Expected[s] + Tolerance
    <3>1. Settled(s)' <= Settled(s) /\ Settled(s) <= Expected[s] + Tolerance
      BY <2>1 DEF ReceiptsInv, CountedOnce
    <3>2. Settled(s) \in Nat /\ Expected[s] \in Nat /\ Tolerance \in Nat
      BY NowNat, ReceiptsAssumption DEF ReceiptsInv, SettledNat
    <3>3. Settled(s)' \in Nat
      <4>1. Parts(s)' \subseteq DOMAIN matches'
        BY DEF Parts, ConfirmedFor
      <4>2. IsFiniteSet(DOMAIN matches')
        BY <2>1, SeqFacts
      <4>3. IsFiniteSet(Parts(s)')
        BY <4>1, <4>2, FS_Subset
      <4>4. \A k \in DOMAIN matches' : Worth(matches[k].of)' \in Nat
        <5>1. \A k \in DOMAIN matches' : matches'[k].of \in DOMAIN rows'
          BY <2>1 DEF About
        <5>2. \A r \in DOMAIN rows' : rows'[r] \in Row
          BY <1>7, SeqFacts
        <5>3. \A r \in DOMAIN rows' : \E e \in Entries : rows'[r].day = Day[e]
          BY <5>2 DEF Row, Days
        <5> QED
          BY <5>1, <5>3, ReceiptsAssumption DEF Worth
      <4>5. [k \in Parts(s) |-> Worth(matches[k].of)]' \in [Parts(s)' -> Nat]
        BY <4>1, <4>4
      <4>6. Settled(s)' = Total([k \in Parts(s) |-> Worth(matches[k].of)]')
        BY DEF Settled, Parts
      <4> QED
        BY <4>3, <4>5, <4>6, TotalNat
    <3> QED
      BY <3>1, <3>2, <3>3
  <2>4. CountedOnce'
    BY <2>2, <2>3 DEF CountedOnce
  <2> QED
    BY <1>5, <1>6, <1>7, <1>8, <2>1, <2>4, AnyStep
<1> QED
  BY <1>5, <1>9, <1>10

-----------------------------------------------------------------------------
(* The status of a receivable *)

LEMMA LoadStatusStep ==
    ASSUME ReceiptsInv, NEW w \in Workers, LoadStatus(w)
    PROVE  ReceiptsInv'
<1>1. PICK c : c = [kind |-> "sum", to |-> call[w].to, loaded |-> status[call[w].to]]
  OBVIOUS
<1>2. call[w].to \in Settlements
  BY CallOf, CallShape DEF LoadStatus, Serves
<1>3. status[call[w].to] \in Statuses
  BY <1>2 DEF ReceiptsInv, TypesInv
<1>4. c \in Calls /\ c.kind = "sum" /\ Placed(c, rows, matches)
  BY <1>1, <1>2, <1>3 DEF Calls, Placed
<1>5. call' = [call EXCEPT ![w] = c] /\ UNCHANGED <<rows, matches, status, done>>
  BY <1>1 DEF LoadStatus
<1>6. status' \in [Settlements -> Statuses] /\ done' \subseteq Files
  BY <1>5 DEF ReceiptsInv, TypesInv
<1> QED
  BY <1>4, <1>5, <1>6, ReadStep

LEMMA SumUpStep ==
    ASSUME ReceiptsInv, NEW w \in Workers, SumUp(w)
    PROVE  ReceiptsInv'
<1>1. UNCHANGED <<rows, matches, status, done>> /\ done' \subseteq Files /\ status' \in [Settlements -> Statuses]
  BY DEF SumUp, ReceiptsInv, TypesInv
<1>2. CASE Finish(w)
  BY <1>1, <1>2, FinishStep
<1>3. CASE ~Finish(w)
  <2>1. PICK c : c = [kind |-> "status", to |-> call[w].to, found |-> StatusOf(call[w].to)]
    OBVIOUS
  <2>2. call[w].to \in Settlements
    BY CallOf, CallShape DEF SumUp, Serves
  <2>3. StatusOf(call[w].to) \in Statuses
    BY DEF StatusOf, Statuses
  <2>4. c \in Calls /\ c.kind = "status" /\ Placed(c, rows, matches)
    BY <2>1, <2>2, <2>3 DEF Calls, Placed
  <2>5. call' = [call EXCEPT ![w] = c]
    BY <1>3, <2>1 DEF SumUp
  <2> QED
    BY <1>1, <2>4, <2>5, ReadStep
<1> QED
  BY <1>2, <1>3

LEMMA WriteStatusStep ==
    ASSUME ReceiptsInv, NEW w \in Workers, WriteStatus(w)
    PROVE  ReceiptsInv'
<1>1. call[w].to \in Settlements /\ call[w].found \in Statuses
  BY CallOf, CallShape DEF WriteStatus, Serves
<1>2. status' = [status EXCEPT ![call[w].to] = call[w].found] /\ Finish(w) /\ UNCHANGED <<rows, matches, done>>
  BY DEF WriteStatus
<1>3. status' \in [Settlements -> Statuses] /\ done' \subseteq Files
  BY <1>1, <1>2 DEF ReceiptsInv, TypesInv
<1>4. NoCall \in Calls /\ NoCall.kind = "none" /\ Placed(NoCall, rows, matches)
  BY DEF Calls, NoCall, Placed
<1> QED
  BY <1>2, <1>3, <1>4, ReadStep DEF Finish

-----------------------------------------------------------------------------
(* The invariant *)

LEMMA InitReceipts == Init => ReceiptsInv
<1> SUFFICES ASSUME Init PROVE ReceiptsInv
  OBVIOUS
<1>1. rows = <<>> /\ matches = <<>>
  BY DEF Init
<1>2. DOMAIN rows = {} /\ DOMAIN matches = {} /\ rows \in Seq(Row) /\ matches \in Seq(Match)
  BY <1>1
<1>3. call \in [Workers -> Calls] /\ \A w \in Workers : call[w] = NoCall
  BY DEF Init, Calls
<1>4. status \in [Settlements -> Statuses] /\ done \subseteq Files
  BY DEF Init, Statuses
<1>5. TypesInv
  BY <1>2, <1>3, <1>4 DEF TypesInv, Apart, About, Placed, NoCall
<1>6. \A w \in Workers : ~Commits(w)
  BY <1>3 DEF Commits, NoCall
<1>7. CountedOnce
  <2>1. ASSUME NEW s \in Settlements PROVE Settled(s) <= Expected[s] + Tolerance
    <3>1. Parts(s) = {}
      BY <1>2 DEF Parts, ConfirmedFor
    <3>2. Units([m \in {} |-> Worth(matches[m].of)]) = {}
      BY DEF Units
    <3>3. Settled(s) = 0
      BY <3>1, <3>2, SettledParts, FS_EmptySet DEF Total
    <3> QED
      BY <3>3, ReceiptsAssumption
  <2> QED
    BY <1>2, <2>1 DEF CountedOnce
<1> QED
  BY <1>5, <1>6, <1>7 DEF ReceiptsInv, CommitsApart

LEMMA StutterReceipts ==
    ASSUME ReceiptsInv, UNCHANGED vars
    PROVE  ReceiptsInv'
  BY DEF ReceiptsInv, vars, TypesInv, CommitsApart, Commits, Room, CountedOnce, Settled, ConfirmedFor,
         Confirmed, Worth

LEMMA NextReceipts == ReceiptsInv /\ [Next]_vars => ReceiptsInv'
<1> SUFFICES ASSUME ReceiptsInv, [Next]_vars PROVE ReceiptsInv'
  OBVIOUS
<1>1. ASSUME NEW w \in Workers, NEW f \in Files, StartImport(w, f) PROVE ReceiptsInv'
  BY <1>1, StartImportStep
<1>2. ASSUME NEW w \in Workers, NEW n \in DOMAIN rows, NEW s \in Settlements, StartConfirm(w, n, s)
      PROVE ReceiptsInv'
  BY <1>2, StartConfirmStep
<1>3. ASSUME NEW w \in Workers, NEW n \in DOMAIN rows, NEW s \in Settlements, StartReject(w, n, s)
      PROVE ReceiptsInv'
  BY <1>3, StartRejectStep
<1>4. ASSUME NEW w \in Workers, NEW n \in DOMAIN rows, NEW s \in Settlements, StartRejectNothing(w, n, s)
      PROVE ReceiptsInv'
  BY <1>4, StartRejectNothingStep
<1>5. ASSUME NEW w \in Workers, ReadRow(w) PROVE ReceiptsInv'
  BY <1>5, ReadRowStep
<1>6. ASSUME NEW w \in Workers, WriteRow(w) PROVE ReceiptsInv'
  BY <1>6, WriteRowStep
<1>7. ASSUME NEW w \in Workers, Clash(w) \/ Crash(w) PROVE ReceiptsInv'
  <2>1. Finish(w) /\ UNCHANGED <<rows, matches, status, done>> /\ done' \subseteq Files
    BY <1>7 DEF Clash, Crash, ReceiptsInv, TypesInv
  <2> QED
    BY <2>1, FinishStep
<1>8. ASSUME NEW w \in Workers, LockReceipt(w) PROVE ReceiptsInv'
  BY <1>8, LockReceiptStep
<1>9. ASSUME NEW w \in Workers, LockSettlement(w) PROVE ReceiptsInv'
  BY <1>9, LockSettlementStep
<1>10. ASSUME NEW w \in Workers, CommitConfirm(w) PROVE ReceiptsInv'
  BY <1>10, CommitConfirmStep
<1>11. ASSUME NEW w \in Workers, LockMatch(w) PROVE ReceiptsInv'
  BY <1>11, LockMatchStep
<1>12. ASSUME NEW w \in Workers, CommitReject(w) PROVE ReceiptsInv'
  BY <1>12, CommitRejectStep
<1>13. ASSUME NEW w \in Workers, LoadStatus(w) PROVE ReceiptsInv'
  BY <1>13, LoadStatusStep
<1>14. ASSUME NEW w \in Workers, SumUp(w) PROVE ReceiptsInv'
  BY <1>14, SumUpStep
<1>15. ASSUME NEW w \in Workers, WriteStatus(w) PROVE ReceiptsInv'
  BY <1>15, WriteStatusStep
<1>16. CASE UNCHANGED vars
  BY <1>16, StutterReceipts
<1> QED
  BY <1>1, <1>2, <1>3, <1>4, <1>5, <1>6, <1>7, <1>8, <1>9, <1>10, <1>11, <1>12, <1>13, <1>14, <1>15, <1>16
  DEF Next, Start, Step

THEOREM Receipts == Spec => []ReceiptsInv
  BY InitReceipts, NextReceipts, PTL DEF Spec

(* Rows, matches and calls keep their types, a match is about an entry on  *)
(* record, and no two rows share a fingerprint: an import takes over a row *)
(* it knows and is refused where another one has the fingerprint           *)
(* (import_bank_xlsx, uq_bank_txn_fingerprint).                            *)
THEOREM TypeCorrect == Spec => []TypeOK
<1>1. ReceiptsInv => TypeOK
  <2> SUFFICES ASSUME ReceiptsInv PROVE TypeOK
    OBVIOUS
  <2>1. \A n \in DOMAIN rows : rows[n].matched \in BOOLEAN
    BY WorthNat DEF ReceiptsInv, Row
  <2>2. \A m \in DOMAIN matches : /\ matches[m].of \in DOMAIN rows
                                  /\ matches[m].to \in Settlements
                                  /\ matches[m].status \in {"confirmed", "rejected"}
    BY WorthNat DEF ReceiptsInv, Match, Decisions
  <2>3. \A w \in Workers : call[w].kind \in Steps
    BY CallOf, CallShape
  <2> QED
    BY <2>1, <2>2, <2>3 DEF TypeOK, ReceiptsInv, TypesInv, Apart, Statuses
<1> QED
  BY <1>1, Receipts, PTL

(* A receipt counts for one receivable at most and no receivable is        *)
(* settled beyond what is expected (confirm_match under its two locks,     *)
(* with imports and rejections under way).                                 *)
THEOREM ReceiptsCountOnce == Spec => []CountedOnce
<1>1. ReceiptsInv => CountedOnce
  BY DEF ReceiptsInv
<1> QED
  BY <1>1, Receipts, PTL

-----------------------------------------------------------------------------
(* Entries on record                                                       *)
(*                                                                         *)
(* A row belongs to the entry whose day, name and number it shows.  As the *)
(* numbers of a day tell entries apart, an import recognises the row of an *)
(* entry by its fingerprint or by a number, in whatever form it comes; and *)
(* as the imports under way are of one statement, which lists an entry     *)
(* once, a row written between the look and the write has the fingerprint  *)
(* that is about to be written, which the database refuses.                *)

Owns(e, row) ==
    /\ Shows(row, e)
    /\ \A x \in {row.serial, row.voucher} \ {None} :
          \E l \in Lines : l.of = e /\ x \in Numbers(l)
    /\ \E l \in Lines : l.of = e /\ row.print = Fingerprint(l)

OnRecord(e, rs) == \E n \in DOMAIN rs : Owns(e, rs[n])

OwnedOnce(rs) ==
    /\ \A n \in DOMAIN rs : \E e \in Entries : Owns(e, rs[n])
    /\ \A n, k \in DOMAIN rs, e \in Entries : Owns(e, rs[n]) /\ Owns(e, rs[k]) => n = k

Importing(c) == c.kind \in {"read", "write"}

PassedKept(c, rs) ==
    \A k \in DOMAIN c.file : k < c.next => OnRecord(c.file[k].of, rs)

(* What the import has found is the row of the entry; if it has found none *)
(* and there is one by now, that one has the fingerprint of the line.      *)
KnowsOwn(c, rs) ==
    \A l \in Lines : l = c.file[c.next] =>
        /\ \A n \in c.known : Owns(l.of, rs[n])
        /\ c.known = {} => \A n \in DOMAIN rs : Owns(l.of, rs[n]) => rs[n].print = Fingerprint(l)

CallKept(c, rs) ==
    /\ Importing(c) => PassedKept(c, rs)
    /\ c.kind = "write" => KnowsOwn(c, rs)

DoneKept(fs, rs) == \A f \in fs : \A k \in DOMAIN f : OnRecord(f[k].of, rs)

OneFile ==
    \A v, w \in Workers : Importing(call[v]) /\ Importing(call[w]) => call[v].file = call[w].file

KeptInv ==
    /\ ReceiptsInv
    /\ OwnedOnce(rows) /\ DoneKept(done, rows) /\ OneFile
    /\ \A w \in Workers : CallKept(call[w], rows)

LEMMA OwnerUnique ==
    ASSUME NumbersTell, NEW row, NEW e \in Entries, NEW g \in Entries, Owns(e, row), Owns(g, row)
    PROVE  e = g
<1>1. Number[e] \in {row.serial, row.voucher} \ {None} /\ Day[e] = row.day /\ Day[g] = row.day
  BY DEF Owns, Shows, NumbersTell
<1>2. PICK l \in Lines : l.of = e /\ Number[e] \in Numbers(l)
  BY <1>1 DEF Owns
<1>3. PICK k \in Lines : k.of = g /\ Number[e] \in Numbers(k)
  BY <1>1 DEF Owns
<1> QED
  BY <1>1, <1>2, <1>3 DEF NumbersTell

(* No two entries share a fingerprint.                                     *)
LEMMA PrintTells ==
    ASSUME NumbersTell, NEW l \in Lines, NEW k \in Lines, Fingerprint(l) = Fingerprint(k)
    PROVE  l.of = k.of
<1>1. /\ l.serial # None \/ (l.serial = None /\ l.voucher # None)
      /\ k.serial # None \/ (k.serial = None /\ k.voucher # None)
  BY DEF NumbersTell, Numbers
<1>2. CASE l.serial # None /\ k.serial # None
  BY <1>2 DEF Fingerprint, NumbersTell, Numbers
<1>3. CASE l.serial = None /\ k.serial = None
  BY <1>1, <1>3 DEF Fingerprint, NumbersTell, Numbers
<1>4. CASE l.serial # None /\ k.serial = None
  BY <1>1, <1>4 DEF Fingerprint
<1>5. CASE l.serial = None /\ k.serial # None
  BY <1>1, <1>5 DEF Fingerprint
<1> QED
  BY <1>2, <1>3, <1>4, <1>5

LEMMA AlikeOwn ==
    ASSUME NumbersTell, OwnedOnce(rows), NEW l \in Lines, l.of \in Entries
    PROVE  /\ \A n \in Alike(l) : Owns(l.of, rows[n])
           /\ \A n \in DOMAIN rows : Owns(l.of, rows[n]) => n \in Alike(l)
<1>1. Number[l.of] \in Numbers(l)
  BY DEF NumbersTell
<1>2. Alike(l) = {n \in DOMAIN rows :
                    /\ rows[n].day = Day[l.of] /\ rows[n].name = Name[l.of]
                    /\ {rows[n].serial, rows[n].voucher} \cap Numbers(l) # {}}
  BY <1>1 DEF Alike, Numbers
<1>3. ASSUME NEW n \in Alike(l) PROVE Owns(l.of, rows[n])
  <2>1. PICK x \in {rows[n].serial, rows[n].voucher} : x \in Numbers(l)
    BY <1>2
  <2>2. PICK g \in Entries : Owns(g, rows[n])
    BY <1>2 DEF OwnedOnce
  <2>3. PICK k \in Lines : k.of = g /\ x \in Numbers(k)
    BY <2>1, <2>2 DEF Owns, Numbers
  <2>4. Day[g] = Day[l.of]
    BY <1>2, <2>2 DEF Owns, Shows
  <2>5. g = l.of
    BY <2>1, <2>3, <2>4 DEF NumbersTell
  <2> QED
    BY <2>2, <2>5
<1>4. ASSUME NEW n \in DOMAIN rows, Owns(l.of, rows[n]) PROVE n \in Alike(l)
  BY <1>1, <1>2, <1>4 DEF Owns, Shows
<1> QED
  BY <1>3, <1>4

LEMMA KnownOwn ==
    ASSUME NumbersTell, OwnedOnce(rows), NEW l \in Lines, l.of \in Entries
    PROVE  /\ \A n \in Known(l) : Owns(l.of, rows[n])
           /\ Known(l) = {} => ~OnRecord(l.of, rows)
<1> DEFINE print == {n \in DOMAIN rows : rows[n].print = Fingerprint(l)}
<1>1. ASSUME NEW n \in print PROVE Owns(l.of, rows[n])
  <2>1. PICK g \in Entries : Owns(g, rows[n])
    BY DEF OwnedOnce
  <2>2. PICK k \in Lines : k.of = g /\ rows[n].print = Fingerprint(k)
    BY <2>1 DEF Owns
  <2> QED
    BY <2>1, <2>2, PrintTells
<1>2. Known(l) = IF print # {} THEN print ELSE IF Cardinality(Alike(l)) = 1 THEN Alike(l) ELSE {}
  BY DEF Known
<1> HIDE DEF print
<1>3. \A n \in Known(l) : Owns(l.of, rows[n])
  BY <1>1, <1>2, AlikeOwn
<1>4. ASSUME OnRecord(l.of, rows) PROVE Known(l) # {}
  <2>1. PICK n \in DOMAIN rows : Owns(l.of, rows[n])
    BY <1>4 DEF OnRecord
  <2>2. n \in Alike(l) /\ \A k \in Alike(l) : Owns(l.of, rows[k]) /\ k \in DOMAIN rows
    BY <2>1, AlikeOwn DEF Alike
  <2>3. Alike(l) = {n}
    BY <2>1, <2>2 DEF OwnedOnce
  <2>4. Cardinality(Alike(l)) = 1
    BY <2>3, FS_Singleton
  <2> QED
    BY <1>2, <2>3, <2>4
<1> QED
  BY <1>3, <1>4

(* What an import writes for an entry belongs to the entry.                *)
LEMMA NewOwn ==
    ASSUME NumbersTell, NEW l \in Lines
    PROVE  Owns(l.of, NewRow(l))
<1>1. PICK row : row = NewRow(l)
  OBVIOUS
<1>2. /\ row.day = Day[l.of] /\ row.name = Name[l.of] /\ row.serial = l.serial
      /\ row.voucher = l.voucher /\ row.print = Fingerprint(l)
  BY <1>1 DEF NewRow
<1>3. Number[l.of] \in Numbers(l)
  BY DEF NumbersTell
<1> QED
  BY <1>1, <1>2, <1>3 DEF Owns, Shows, Numbers

LEMMA RecordedOwn ==
    ASSUME NumbersTell, NEW l \in Lines, NEW row \in Row, Owns(l.of, row)
    PROVE  Owns(l.of, Recorded(row, l))
<1>1. PICK r : r = Recorded(row, l)
  OBVIOUS
<1>2. /\ r.day = row.day /\ r.name = row.name /\ r.print = Fingerprint(l)
      /\ r.serial = Either(l.serial, row.serial) /\ r.voucher = Either(l.voucher, row.voucher)
  <2> DEFINE new == [day |-> row.day, name |-> row.name, serial |-> Either(l.serial, row.serial),
                     voucher |-> Either(l.voucher, row.voucher), print |-> Fingerprint(l),
                     matched |-> row.matched]
  <2>1. r = new
    BY <1>1 DEF Recorded, Row
  <2> QED
    BY <2>1
<1>3. Number[l.of] \in Numbers(l)
  BY DEF NumbersTell
<1>4. Shows(r, l.of)
  BY <1>2, <1>3 DEF Owns, Shows, Numbers, Either
<1>5. ASSUME NEW x \in {r.serial, r.voucher} \ {None}
      PROVE  \E k \in Lines : k.of = l.of /\ x \in Numbers(k)
  <2>1. CASE x \in Numbers(l)
    BY <2>1
  <2>2. CASE x \notin Numbers(l)
    <3>1. x \in {row.serial, row.voucher} \ {None}
      BY <1>2, <2>2 DEF Either, Numbers
    <3> QED
      BY <3>1 DEF Owns
  <2> QED
    BY <2>1, <2>2
<1> QED
  BY <1>1, <1>2, <1>4, <1>5 DEF Owns

(* Steps that leave the numbers of the rows alone.                         *)
SameOwners ==
    /\ DOMAIN rows' = DOMAIN rows
    /\ \A n \in DOMAIN rows : /\ rows'[n].print = rows[n].print
                              /\ \A e : Owns(e, rows'[n]) <=> Owns(e, rows[n])

(* Steps after which a row has the owner it had.                           *)
OwnersStay ==
    /\ DOMAIN rows \subseteq DOMAIN rows'
    /\ \A n \in DOMAIN rows : \A e : Owns(e, rows[n]) => Owns(e, rows'[n])

LEMMA RecordStays ==
    ASSUME OwnersStay
    PROVE  /\ \A e : OnRecord(e, rows) => OnRecord(e, rows')
           /\ \A fs : DoneKept(fs, rows) => DoneKept(fs, rows')
           /\ \A c : PassedKept(c, rows) => PassedKept(c, rows')
<1>1. \A e : OnRecord(e, rows) => OnRecord(e, rows')
  BY DEF OwnersStay, OnRecord
<1> QED
  BY <1>1 DEF DoneKept, PassedKept

LEMMA SameStay ==
    ASSUME SameOwners
    PROVE  OwnersStay
  BY DEF SameOwners, OwnersStay

(* A step of session w that leaves it with call c and imports nothing.     *)
LEMMA QuietKept ==
    ASSUME KeptInv, ReceiptsInv', NEW w \in Workers, NEW c \in Calls,
           call' = [call EXCEPT ![w] = c], SameOwners, done' = done,
           CallKept(c, rows),
           Importing(c) => \A v \in Workers \ {w} : Importing(call[v]) => call[v].file = c.file
    PROVE  KeptInv'
<1>1. call'[w] = c /\ \A v \in Workers \ {w} : call'[v] = call[v]
  BY DEF KeptInv, ReceiptsInv, TypesInv
<1>2. OwnedOnce(rows')
  BY DEF KeptInv, OwnedOnce, SameOwners
<1>3. DoneKept(done', rows')
  BY SameStay, RecordStays DEF KeptInv
<1>4. OneFile'
  BY <1>1 DEF KeptInv, OneFile
<1>5. ASSUME NEW d, CallKept(d, rows), d.kind = "write" => d.known \subseteq DOMAIN rows
      PROVE  CallKept(d, rows')
  <2>1. Importing(d) => PassedKept(d, rows')
    BY <1>5, SameStay, RecordStays DEF CallKept
  <2>2. ASSUME d.kind = "write" PROVE KnowsOwn(d, rows')
    <3>1. KnowsOwn(d, rows) /\ d.known \subseteq DOMAIN rows
      BY <1>5, <2>2 DEF CallKept
    <3> QED
      BY <3>1 DEF KnowsOwn, SameOwners
  <2> QED
    BY <2>1, <2>2 DEF CallKept
<1>6. ASSUME NEW v \in Workers PROVE CallKept(call'[v], rows')
  <2>1. CallKept(call'[v], rows)
    BY <1>1 DEF KeptInv
  <2>2. Placed(call'[v], rows', matches')
    BY DEF ReceiptsInv, TypesInv
  <2>3. call'[v].kind = "write" => call'[v].known \subseteq DOMAIN rows
    BY <2>2 DEF Placed, SameOwners
  <2> QED
    BY <1>5, <2>1, <2>3
<1> QED
  BY <1>2, <1>3, <1>4, <1>6 DEF KeptInv

(* Rows that differ in the matched flag only have the same owners.         *)
LEMMA MarkKeepsOwners ==
    ASSUME TypesInv, NEW n \in DOMAIN rows, NEW b \in BOOLEAN, rows' = [rows EXCEPT ![n].matched = b]
    PROVE  SameOwners
<1>1. rows[n] \in Row
  BY WorthNat
<1>2. PICK r : r = [rows[n] EXCEPT !.matched = b]
  OBVIOUS
<1>3. /\ r.day = rows[n].day /\ r.name = rows[n].name /\ r.serial = rows[n].serial
      /\ r.voucher = rows[n].voucher /\ r.print = rows[n].print
  BY <1>1, <1>2 DEF Row
<1>4. rows' = [rows EXCEPT ![n] = r]
  BY <1>2
<1>5. DOMAIN rows' = DOMAIN rows /\ rows'[n] = r /\ \A k \in DOMAIN rows \ {n} : rows'[k] = rows[k]
  BY <1>4
<1>6. \A e : Owns(e, r) <=> Owns(e, rows[n])
  BY <1>3 DEF Owns, Shows
<1> QED
  BY <1>3, <1>5, <1>6 DEF SameOwners

LEMMA StayOwners ==
    ASSUME rows' = rows
    PROVE  SameOwners
  BY DEF SameOwners

(* Calls that import nothing.                                              *)
LEMMA OtherCall ==
    ASSUME NEW c, c.kind \notin {"read", "write"}
    PROVE  CallKept(c, rows) /\ ~Importing(c)
  BY DEF CallKept, Importing

LEMMA OtherStep ==
    ASSUME KeptInv, ReceiptsInv', NEW w \in Workers, NEW c,
           call' = [call EXCEPT ![w] = c], c.kind \notin {"read", "write"},
           SameOwners, done' = done
    PROVE  KeptInv'
<1>1. call' \in [Workers -> Calls] /\ call'[w] = c
  BY DEF KeptInv, ReceiptsInv, TypesInv
<1>2. c \in Calls
  BY <1>1
<1>3. CallKept(c, rows) /\ ~Importing(c)
  BY OtherCall
<1> QED
  BY <1>2, <1>3, QuietKept

LEMMA FinishKept ==
    ASSUME KeptInv, ReceiptsInv', NEW w \in Workers, Finish(w), rows' = rows, done' = done
    PROVE  KeptInv'
<1>1. NoCall.kind = "none" /\ call' = [call EXCEPT ![w] = NoCall]
  BY DEF NoCall, Finish
<1> QED
  BY <1>1, StayOwners, OtherStep

(* The calls of confirmations, rejections and statuses.                    *)
LEMMA DecisionsKept ==
    ASSUME KeptInv, ReceiptsInv', NEW w \in Workers,
           \/ \E n \in DOMAIN rows, s \in Settlements :
                 StartConfirm(w, n, s) \/ StartReject(w, n, s) \/ StartRejectNothing(w, n, s)
           \/ LockReceipt(w) \/ LockSettlement(w) \/ LockMatch(w)
           \/ LoadStatus(w) \/ SumUp(w) \/ WriteStatus(w) \/ Clash(w) \/ Crash(w)
    PROVE  KeptInv'
<1>0. rows' = rows /\ done' = done
  BY DEF StartConfirm, StartReject, StartRejectNothing, LockReceipt, LockSettlement, LockMatch,
         LoadStatus, SumUp, WriteStatus, Clash, Crash
<1> DEFINE Moves == Finish(w) \/ \E c : call' = [call EXCEPT ![w] = c] /\ c.kind \notin {"read", "write"}
<1>1. ASSUME NEW n \in DOMAIN rows, NEW s \in Settlements, StartConfirm(w, n, s) PROVE Moves
  <2>1. [kind |-> "receipt", of |-> n, to |-> s].kind = "receipt"
    OBVIOUS
  <2> QED
    BY <1>1, <2>1 DEF StartConfirm
<1>2. ASSUME NEW n \in DOMAIN rows, NEW s \in Settlements, StartReject(w, n, s) PROVE Moves
  <2>1. PICK m \in Pairs(n, s) :
           call' = [call EXCEPT ![w] = [kind |-> "reject", match |-> m, was |-> matches[m].status,
                                        to |-> s]]
    BY <1>2 DEF StartReject
  <2>2. [kind |-> "reject", match |-> m, was |-> matches[m].status, to |-> s].kind = "reject"
    OBVIOUS
  <2> QED
    BY <2>1, <2>2
<1>3. ASSUME NEW n \in DOMAIN rows, NEW s \in Settlements, StartRejectNothing(w, n, s) PROVE Moves
  <2>1. [kind |-> "load", to |-> s].kind = "load"
    OBVIOUS
  <2> QED
    BY <1>3, <2>1 DEF StartRejectNothing
<1>4. ASSUME LockReceipt(w) PROVE Moves
  <2>1. call[w] = [kind |-> "receipt", of |-> call[w].of, to |-> call[w].to]
    BY <1>4, CallOf, CallShape DEF LockReceipt, Serves, KeptInv
  <2>2. PICK c : c = [call[w] EXCEPT !.kind = "settlement"]
    OBVIOUS
  <2>3. c = [kind |-> "settlement", of |-> call[w].of, to |-> call[w].to]
    BY <2>1, <2>2
  <2>4. c.kind = "settlement"
    BY <2>3
  <2>5. call' = [call EXCEPT ![w] = c]
    BY <1>4, <2>2 DEF LockReceipt
  <2> QED
    BY <2>4, <2>5
<1>5. ASSUME LockSettlement(w) PROVE Moves
  <2> DEFINE c == [kind |-> "commit", of |-> call[w].of, to |-> call[w].to,
                   loaded |-> status[call[w].to]]
  <2>1. Finish(w) \/ call' = [call EXCEPT ![w] = c]
    BY <1>5 DEF LockSettlement
  <2>2. c.kind = "commit"
    OBVIOUS
  <2> HIDE DEF c
  <2> QED
    BY <2>1, <2>2
<1>6. ASSUME LockMatch(w) PROVE Moves
  <2>1. PICK clears : call' = [call EXCEPT ![w] = [kind |-> "withdraw", match |-> call[w].match,
                        was |-> call[w].was, to |-> call[w].to, clears |-> clears]]
    BY <1>6 DEF LockMatch
  <2> DEFINE c == [kind |-> "withdraw", match |-> call[w].match, was |-> call[w].was,
                   to |-> call[w].to, clears |-> clears]
  <2>2. c.kind = "withdraw" /\ call' = [call EXCEPT ![w] = c]
    BY <2>1
  <2> HIDE DEF c
  <2> QED
    BY <2>2
<1>7. ASSUME LoadStatus(w) PROVE Moves
  <2> DEFINE c == [kind |-> "sum", to |-> call[w].to, loaded |-> status[call[w].to]]
  <2>1. c.kind = "sum" /\ call' = [call EXCEPT ![w] = c]
    BY <1>7 DEF LoadStatus
  <2> HIDE DEF c
  <2> QED
    BY <2>1
<1>8. ASSUME SumUp(w) PROVE Moves
  <2> DEFINE c == [kind |-> "status", to |-> call[w].to, found |-> StatusOf(call[w].to)]
  <2>1. Finish(w) \/ call' = [call EXCEPT ![w] = c]
    BY <1>8 DEF SumUp
  <2>2. c.kind = "status"
    OBVIOUS
  <2> HIDE DEF c
  <2> QED
    BY <2>1, <2>2
<1>9. ASSUME WriteStatus(w) \/ Clash(w) \/ Crash(w) PROVE Moves
  BY <1>9 DEF WriteStatus, Clash, Crash
<1>10. Moves
  BY <1>1, <1>2, <1>3, <1>4, <1>5, <1>6, <1>7, <1>8, <1>9
<1> QED
  BY <1>0, <1>10, FinishKept, StayOwners, OtherStep

LEMMA CommitConfirmKept ==
    ASSUME KeptInv, ReceiptsInv', NEW w \in Workers, CommitConfirm(w)
    PROVE  KeptInv'
<1>1. call[w].of \in DOMAIN rows /\ done' = done
  BY CallOf DEF CommitConfirm, Serves, Placed, KeptInv
<1>2. CASE Finish(w) /\ rows' = rows
  BY <1>1, <1>2, FinishKept
<1>3. CASE ~(Finish(w) /\ rows' = rows)
  <2> DEFINE c == [kind |-> "sum", to |-> call[w].to, loaded |-> call[w].loaded]
  <2>1. /\ call' = [call EXCEPT ![w] = c]
        /\ rows' = [rows EXCEPT ![call[w].of].matched = TRUE]
    BY <1>3 DEF CommitConfirm
  <2>2. c.kind = "sum"
    OBVIOUS
  <2> HIDE DEF c
  <2>3. SameOwners
    BY <1>1, <2>1, MarkKeepsOwners DEF KeptInv, ReceiptsInv
  <2> QED
    BY <1>1, <2>1, <2>2, <2>3, OtherStep
<1> QED
  BY <1>2, <1>3

LEMMA CommitRejectKept ==
    ASSUME KeptInv, ReceiptsInv', NEW w \in Workers, CommitReject(w)
    PROVE  KeptInv'
<1> DEFINE c == [kind |-> "load", to |-> call[w].to]
<1>1. /\ call' = [call EXCEPT ![w] = c] /\ done' = done
      /\ rows' = rows \/ rows' = [rows EXCEPT ![matches[call[w].match].of].matched = FALSE]
  BY DEF CommitReject
<1>2. matches[call[w].match].of \in DOMAIN rows
  BY CallOf, WorthNat DEF CommitReject, Serves, Placed, KeptInv, ReceiptsInv
<1>3. c.kind = "load"
  OBVIOUS
<1> HIDE DEF c
<1>4. SameOwners
  BY <1>1, <1>2, MarkKeepsOwners, StayOwners DEF KeptInv, ReceiptsInv
<1> QED
  BY <1>1, <1>3, <1>4, OtherStep

LEMMA StartImportKept ==
    ASSUME KeptInv, ReceiptsInv', NEW w \in Workers, NEW f \in Files, StartImport(w, f)
    PROVE  KeptInv'
<1> DEFINE c == [kind |-> "read", file |-> f, next |-> 1]
<1>1. call' = [call EXCEPT ![w] = c] /\ UNCHANGED <<rows, done>> /\ MayImport(f)
  BY DEF StartImport
<1>2. c \in Calls
  BY DEF Calls
<1>3. c.kind = "read" /\ c.file = f /\ c.next = 1
  OBVIOUS
<1> HIDE DEF c
<1>4. DOMAIN f \subseteq Nat \ {0}
  BY ReceiptsAssumption, LenProperties
<1>5. CallKept(c, rows)
  BY <1>3, <1>4 DEF CallKept, PassedKept
<1>6. \A v \in Workers \ {w} : Importing(call[v]) => call[v].file = c.file
  BY <1>1, <1>3 DEF MayImport, Importing
<1> QED
  BY <1>1, <1>2, <1>5, <1>6, StayOwners, QuietKept

LEMMA ReadRowKept ==
    ASSUME NumbersTell, KeptInv, ReceiptsInv', NEW w \in Workers, ReadRow(w)
    PROVE  KeptInv'
<1> DEFINE c == [kind |-> "write", file |-> call[w].file, next |-> call[w].next,
                 known |-> Known(LineOf(w))]
<1>1. call' = [call EXCEPT ![w] = c] /\ UNCHANGED <<rows, done>> /\ call[w].kind = "read"
  BY DEF ReadRow, Serves
<1>2. c \in Calls
  <2>1. call' \in [Workers -> Calls] /\ call'[w] = c
    BY <1>1 DEF KeptInv, ReceiptsInv, TypesInv
  <2> QED
    BY <2>1
<1>3. /\ c.kind = "write" /\ c.file = call[w].file /\ c.next = call[w].next
      /\ c.known = Known(LineOf(w))
  OBVIOUS
<1> HIDE DEF c
<1>4. LineOf(w) \in Lines /\ LineOf(w).of \in Entries /\ LineOf(w) = c.file[c.next]
  BY <1>1, <1>3, LineOfCall DEF KeptInv, LineOf
<1>5. KnowsOwn(c, rows)
  BY <1>3, <1>4, KnownOwn DEF KeptInv, KnowsOwn, OnRecord
<1>6. PassedKept(c, rows)
  BY <1>1, <1>3 DEF KeptInv, CallKept, Importing, PassedKept
<1>7. CallKept(c, rows)
  BY <1>3, <1>5, <1>6 DEF CallKept
<1>8. \A v \in Workers \ {w} : Importing(call[v]) => call[v].file = c.file
  BY <1>1, <1>3 DEF KeptInv, OneFile, Importing
<1> QED
  BY <1>1, <1>2, <1>7, <1>8, StayOwners, QuietKept

(* What a write leaves on record: the entry of the line once, with the     *)
(* fingerprint of the line, and every other row as it was.                 *)
Written(l) ==
    /\ OwnedOnce(rows') /\ OwnersStay /\ OnRecord(l.of, rows')
    /\ \A n \in DOMAIN rows' : Owns(l.of, rows'[n]) => rows'[n].print = Fingerprint(l)
    /\ \A n \in DOMAIN rows', g \in Entries :
          g # l.of /\ Owns(g, rows'[n]) => n \in DOMAIN rows /\ rows'[n] = rows[n]

LEMMA WriteRowWrites ==
    ASSUME NumbersTell, KeptInv, NEW w \in Workers, WriteRow(w), NEW l \in Lines, l = LineOf(w),
           l.of \in Entries
    PROVE  Written(l)
<1>1. PICK known : known = call[w].known
  OBVIOUS
<1>2. /\ \A n \in known : n \in DOMAIN rows /\ Owns(l.of, rows[n])
      /\ known = {} => \A n \in DOMAIN rows : Owns(l.of, rows[n]) => rows[n].print = Fingerprint(l)
  BY <1>1, CallOf DEF WriteRow, Serves, KeptInv, CallKept, KnowsOwn, LineOf, Placed
<1>3. /\ \A n \in DOMAIN rows \ known : rows[n].print # Fingerprint(l)
      /\ rows' = IF known = {} THEN Append(rows, NewRow(l))
                 ELSE [n \in DOMAIN rows |-> IF n \in known THEN Recorded(rows[n], l) ELSE rows[n]]
  BY <1>1 DEF WriteRow, Taken
<1>4. /\ \A n \in DOMAIN rows : \E e \in Entries : Owns(e, rows[n])
      /\ \A n, k \in DOMAIN rows, e \in Entries : Owns(e, rows[n]) /\ Owns(e, rows[k]) => n = k
  BY DEF KeptInv, OwnedOnce
<1>5. CASE known = {}
  <2>1. PICK row : row = NewRow(l)
    OBVIOUS
  <2>2. Owns(l.of, row) /\ row.print = Fingerprint(l)
    BY <2>1, NewOwn DEF NewRow
  <2>3. rows' = Append(rows, row)
    BY <1>3, <1>5, <2>1
  <2>4. /\ Len(rows) \in Nat /\ DOMAIN rows = 1..Len(rows) /\ DOMAIN rows' = 1..(Len(rows) + 1)
        /\ rows'[Len(rows) + 1] = row /\ \A n \in DOMAIN rows : rows'[n] = rows[n]
    BY <2>3, LenProperties DEF KeptInv, ReceiptsInv, TypesInv
  <2>5. PICK new : new \in DOMAIN rows' /\ rows'[new] = row /\ DOMAIN rows' = DOMAIN rows \cup {new}
                   /\ new \notin DOMAIN rows
    <3>1. DOMAIN rows' = DOMAIN rows \cup {Len(rows) + 1} /\ Len(rows) + 1 \notin DOMAIN rows
      BY <2>4
    <3> QED
      BY <2>4, <3>1
  <2>6. \A n \in DOMAIN rows : ~Owns(l.of, rows[n])
    BY <1>2, <1>3, <1>5
  <2>7. \A g \in Entries : Owns(g, row) => g = l.of
    BY <2>2, OwnerUnique
  <2>8. OwnersStay /\ OnRecord(l.of, rows')
    BY <2>2, <2>4, <2>5 DEF OwnersStay, OnRecord
  <2>9. OwnedOnce(rows')
    BY <1>4, <2>2, <2>4, <2>5, <2>6, <2>7 DEF OwnedOnce
  <2> QED
    BY <2>2, <2>4, <2>5, <2>6, <2>7, <2>8, <2>9 DEF Written
<1>6. CASE known # {}
  <2>1. PICK n \in known : TRUE
    BY <1>6
  <2>2. n \in DOMAIN rows /\ Owns(l.of, rows[n]) /\ known = {n}
    BY <1>2, <1>4, <2>1
  <2>3. PICK row : row = Recorded(rows[n], l)
    OBVIOUS
  <2>4. rows[n] \in Row
    BY <2>2, WorthNat DEF KeptInv, ReceiptsInv
  <2>5. Owns(l.of, row) /\ row.print = Fingerprint(l)
    BY <2>2, <2>3, <2>4, RecordedOwn, RecordedTyped
  <2>6. DOMAIN rows' = DOMAIN rows /\ rows'[n] = row /\ \A k \in DOMAIN rows \ {n} : rows'[k] = rows[k]
    BY <1>3, <1>6, <2>2, <2>3
  <2>7. \A g \in Entries : Owns(g, row) => g = l.of
    BY <2>5, OwnerUnique
  <2>8. \A g \in Entries : Owns(g, rows[n]) => g = l.of
    BY <2>2, OwnerUnique
  <2>9. \A k \in DOMAIN rows \ {n} : ~Owns(l.of, rows[k])
    BY <1>4, <2>2
  <2>10. OnRecord(l.of, rows')
    BY <2>2, <2>5, <2>6 DEF OnRecord
  <2>11. OwnedOnce(rows')
    BY <1>4, <2>2, <2>5, <2>6, <2>7, <2>9 DEF OwnedOnce
  <2>12. /\ \A k \in DOMAIN rows' : Owns(l.of, rows'[k]) => rows'[k].print = Fingerprint(l)
         /\ \A k \in DOMAIN rows', g \in Entries :
               g # l.of /\ Owns(g, rows'[k]) => k \in DOMAIN rows /\ rows'[k] = rows[k]
    BY <2>5, <2>6, <2>7, <2>9
  <2>13. OwnersStay
    <3> SUFFICES ASSUME NEW k \in DOMAIN rows, NEW e, Owns(e, rows[k]) PROVE Owns(e, rows'[k])
      BY <2>6 DEF OwnersStay
    <3>1. CASE k # n
      BY <2>6, <3>1
    <3>2. CASE k = n
      <4>1. e \in Entries
        BY ReceiptsAssumption DEF Owns
      <4> QED
        BY <2>5, <2>6, <2>8, <3>2, <4>1
    <3> QED
      BY <3>1, <3>2
  <2> QED
    BY <2>10, <2>11, <2>12, <2>13 DEF Written
<1> QED
  BY <1>5, <1>6

(* A write of one import leaves what another one of the statement has      *)
(* found true.                                                             *)
LEMMA OthersWriteKept ==
    ASSUME NumbersTell, NEW l \in Lines, l.of \in Entries, Written(l),
           NEW c, CallKept(c, rows), c.kind = "write" => c.known \subseteq DOMAIN rows,
           NEW f \in Files, NEW i \in DOMAIN f, l = f[i],
           Importing(c) => c.file = f /\ c.next \in DOMAIN f
    PROVE  CallKept(c, rows')
<1>1. Importing(c) => PassedKept(c, rows')
  BY RecordStays DEF CallKept, Written
<1>2. ASSUME c.kind = "write" PROVE KnowsOwn(c, rows')
  <2> SUFFICES ASSUME NEW k \in Lines, k = c.file[c.next]
               PROVE  /\ \A n \in c.known : Owns(k.of, rows'[n])
                      /\ c.known = {} => \A n \in DOMAIN rows' :
                            Owns(k.of, rows'[n]) => rows'[n].print = Fingerprint(k)
    BY DEF KnowsOwn
  <2>1. /\ \A n \in c.known : Owns(k.of, rows[n])
        /\ c.known = {} => \A n \in DOMAIN rows :
              Owns(k.of, rows[n]) => rows[n].print = Fingerprint(k)
    BY <1>2 DEF CallKept, KnowsOwn
  <2>2. \A n \in c.known : Owns(k.of, rows'[n])
    BY <1>2, <2>1 DEF Written, OwnersStay
  <2>3. k = f[c.next] /\ c.next \in DOMAIN f
    BY <1>2 DEF Importing
  <2>4. CASE k.of = l.of
    <3>1. k = l
      BY <2>3, <2>4 DEF NumbersTell
    <3> QED
      BY <2>2, <3>1 DEF Written
  <2>5. CASE k.of # l.of
    <3>1. k.of \in Entries
      BY ReceiptsAssumption
    <3> QED
      BY <2>1, <2>2, <2>5, <3>1 DEF Written
  <2> QED
    BY <2>4, <2>5
<1> QED
  BY <1>1, <1>2 DEF CallKept

LEMMA WriteRowKept ==
    ASSUME NumbersTell, KeptInv, ReceiptsInv', NEW w \in Workers, WriteRow(w)
    PROVE  KeptInv'
<1> DEFINE f == call[w].file  i == call[w].next
<1>1. PICK l : l = LineOf(w)
  OBVIOUS
<1>2. l \in Lines /\ l.of \in Entries /\ l = f[i] /\ Serves(w, "write") /\ NextLine(w)
  BY <1>1, LineOfCall DEF WriteRow, Serves, KeptInv, LineOf
<1>3. f \in Files /\ i \in DOMAIN f /\ Importing(call[w])
  BY <1>2, CallOf, CallShape DEF Serves, KeptInv, Placed, Importing
<1>4. DOMAIN f = 1..Len(f) /\ Len(f) \in Nat
  BY <1>3, LineFacts
<1>5. Written(l)
  BY <1>1, <1>2, WriteRowWrites
<1>6. PassedKept(call[w], rows')
  BY <1>3, <1>5, RecordStays DEF KeptInv, CallKept, Written
<1>7. \A v \in Workers \ {w} : call'[v] = call[v]
  BY <1>2 DEF NextLine, Finish, KeptInv, ReceiptsInv, TypesInv
<1>8. ASSUME NEW v \in Workers \ {w} PROVE CallKept(call'[v], rows')
  <2>1. call[v].kind = "write" => call[v].known \subseteq DOMAIN rows
    BY CallOf DEF KeptInv, Placed
  <2>2. Importing(call[v]) => call[v].file = f /\ call[v].next \in DOMAIN f
    <3>1. Importing(call[v]) => call[v].next \in DOMAIN call[v].file
      BY CallOf DEF KeptInv, Placed, Importing
    <3> QED
      BY <1>3, <3>1 DEF KeptInv, OneFile
  <2>3. CallKept(call[v], rows)
    BY DEF KeptInv
  <2> HIDE DEF f, i
  <2>4. CallKept(call[v], rows')
    BY <1>2, <1>3, <1>5, <2>1, <2>2, <2>3, OthersWriteKept
  <2> QED
    BY <1>7, <2>4
<1>9. DoneKept(done, rows') /\ OwnedOnce(rows') /\ OnRecord(l.of, rows')
  BY <1>5, RecordStays DEF KeptInv, Written
<1>10. CASE i < Len(f)
  <2> DEFINE c == [kind |-> "read", file |-> f, next |-> i + 1]
  <2>1. call' = [call EXCEPT ![w] = c] /\ done' = done
    BY <1>2, <1>10 DEF NextLine
  <2>2. call'[w] = c
    BY <2>1 DEF KeptInv, ReceiptsInv, TypesInv
  <2>3. c.kind = "read" /\ c.file = f /\ c.next = i + 1
    OBVIOUS
  <2> HIDE DEF c
  <2>4. PassedKept(c, rows')
    <3> SUFFICES ASSUME NEW k \in DOMAIN f, k < i + 1 PROVE OnRecord(f[k].of, rows')
      BY <2>3 DEF PassedKept
    <3>1. CASE k < i
      BY <1>6, <3>1 DEF PassedKept
    <3>2. CASE k = i
      BY <1>2, <1>9, <3>2
    <3> QED
      BY <1>3, <1>4, <3>1, <3>2
  <2>5. CallKept(call'[w], rows')
    BY <2>2, <2>3, <2>4 DEF CallKept
  <2>6. OneFile'
    BY <1>3, <1>7, <2>2, <2>3 DEF KeptInv, OneFile
  <2> QED
    BY <1>8, <1>9, <2>1, <2>5, <2>6 DEF KeptInv
<1>11. CASE ~(i < Len(f))
  <2>1. call' = [call EXCEPT ![w] = NoCall] /\ done' = done \cup {f}
    BY <1>2, <1>11 DEF NextLine, Finish
  <2>2. call'[w] = NoCall /\ NoCall.kind = "none"
    BY <2>1 DEF KeptInv, ReceiptsInv, TypesInv, NoCall
  <2>3. ASSUME NEW k \in DOMAIN f PROVE OnRecord(f[k].of, rows')
    <3>1. CASE k < i
      BY <1>6, <3>1 DEF PassedKept
    <3>2. CASE k = i
      BY <1>2, <1>9, <3>2
    <3> QED
      BY <1>3, <1>4, <1>11, <3>1, <3>2
  <2>4. DoneKept(done', rows')
    BY <1>9, <2>1, <2>3 DEF DoneKept
  <2>5. CallKept(call'[w], rows') /\ ~Importing(call'[w])
    BY <2>2 DEF CallKept, Importing
  <2>6. OneFile'
    BY <1>7, <2>5 DEF KeptInv, OneFile
  <2> QED
    BY <1>8, <1>9, <2>4, <2>5, <2>6 DEF KeptInv
<1> QED
  BY <1>10, <1>11

LEMMA InitKept == Init => KeptInv
<1> SUFFICES ASSUME Init PROVE KeptInv
  OBVIOUS
<1>1. DOMAIN rows = {} /\ done = {}
  BY DEF Init
<1>2. \A w \in Workers : call[w].kind = "none"
  BY DEF Init, NoCall
<1>3. OwnedOnce(rows) /\ DoneKept(done, rows)
  BY <1>1 DEF OwnedOnce, DoneKept
<1> QED
  BY <1>2, <1>3, InitReceipts DEF KeptInv, OneFile, CallKept, Importing

LEMMA StutterKept ==
    ASSUME KeptInv, UNCHANGED vars, ReceiptsInv'
    PROVE  KeptInv'
  BY DEF KeptInv, vars, OneFile

LEMMA NextKept == ASSUME NumbersTell PROVE KeptInv /\ [Next]_vars => KeptInv'
<1> SUFFICES ASSUME KeptInv, [Next]_vars PROVE KeptInv'
  OBVIOUS
<1>1. ReceiptsInv'
  BY NextReceipts DEF KeptInv
<1>2. ASSUME NEW w \in Workers, NEW f \in Files, StartImport(w, f) PROVE KeptInv'
  BY <1>1, <1>2, StartImportKept
<1>3. ASSUME NEW w \in Workers, ReadRow(w) PROVE KeptInv'
  BY <1>1, <1>3, ReadRowKept
<1>4. ASSUME NEW w \in Workers, WriteRow(w) PROVE KeptInv'
  BY <1>1, <1>4, WriteRowKept
<1>5. ASSUME NEW w \in Workers,
             \/ \E n \in DOMAIN rows, s \in Settlements :
                   StartConfirm(w, n, s) \/ StartReject(w, n, s) \/ StartRejectNothing(w, n, s)
             \/ LockReceipt(w) \/ LockSettlement(w) \/ LockMatch(w)
             \/ LoadStatus(w) \/ SumUp(w) \/ WriteStatus(w) \/ Clash(w) \/ Crash(w)
      PROVE  KeptInv'
  BY <1>1, <1>5, DecisionsKept
<1>6. ASSUME NEW w \in Workers, CommitConfirm(w) PROVE KeptInv'
  BY <1>1, <1>6, CommitConfirmKept
<1>7. ASSUME NEW w \in Workers, CommitReject(w) PROVE KeptInv'
  BY <1>1, <1>7, CommitRejectKept
<1>8. CASE UNCHANGED vars
  BY <1>1, <1>8, StutterKept
<1> QED
  BY <1>2, <1>3, <1>4, <1>5, <1>6, <1>7, <1>8 DEF Next, Start, Step

(* Rows that show one entry have one owner, whether the entry is of a      *)
(* statement or not.                                                       *)
LEMMA KeptShows ==
    ASSUME NumbersTell, KeptInv
    PROVE  StatementKept
<1> SUFFICES ASSUME NEW e \in Entries
             PROVE  LET shown == {n \in DOMAIN rows : Shows(rows[n], e)}
                    IN  /\ Cardinality(shown) <= 1
                        /\ (\E f \in done : \E k \in DOMAIN f : f[k].of = e) => shown # {}
  BY DEF StatementKept
<1> DEFINE shown == {n \in DOMAIN rows : Shows(rows[n], e)}
<1>1. ASSUME NEW n \in shown, NEW k \in shown PROVE n = k
  <2>1. PICK g \in Entries : Owns(g, rows[n])
    BY DEF KeptInv, OwnedOnce
  <2>2. PICK h \in Entries : Owns(h, rows[k])
    BY DEF KeptInv, OwnedOnce
  <2>3. /\ Number[e] \in {rows[n].serial, rows[n].voucher} \ {None}
        /\ Number[e] \in {rows[k].serial, rows[k].voucher} \ {None}
    BY DEF Shows, NumbersTell
  <2>4. PICK l \in Lines : l.of = g /\ Number[e] \in Numbers(l)
    BY <2>1, <2>3 DEF Owns
  <2>5. PICK m \in Lines : m.of = h /\ Number[e] \in Numbers(m)
    BY <2>2, <2>3 DEF Owns
  <2>6. Day[g] = Day[h]
    BY <2>1, <2>2 DEF Owns, Shows
  <2>7. g = h
    BY <2>4, <2>5, <2>6 DEF NumbersTell
  <2> QED
    BY <2>1, <2>2, <2>7 DEF KeptInv, OwnedOnce
<1>2. Cardinality(shown) <= 1
  <2>1. CASE shown = {}
    BY <2>1, FS_EmptySet
  <2>2. CASE shown # {}
    <3>1. PICK n : shown = {n}
      BY <1>1, <2>2
    <3> QED
      BY <3>1, FS_Singleton
  <2> QED
    BY <2>1, <2>2
<1>3. ASSUME NEW f \in done, NEW k \in DOMAIN f, f[k].of = e PROVE shown # {}
  <2>1. OnRecord(e, rows)
    BY <1>3 DEF KeptInv, DoneKept
  <2> QED
    BY <2>1 DEF OnRecord, Owns
<1> QED
  BY <1>2, <1>3

(* Statements that overlap, come in several forms, are uploaded by two     *)
(* sessions at once and break off anywhere leave every entry on record     *)
(* once at most, and a statement whose import has ended well is on record  *)
(* entirely (import_bank_xlsx with add_transaction, whose look and write   *)
(* are two steps), provided the numbers tell entries apart.                *)
THEOREM StatementsAreKept == ASSUME NumbersTell PROVE Spec => []StatementKept
<1>1. KeptInv /\ [Next]_vars => KeptInv'
  BY NextKept
<1>2. KeptInv => StatementKept
  BY KeptShows
<1> QED
  BY <1>1, <1>2, InitKept, PTL DEF Spec

=============================================================================
