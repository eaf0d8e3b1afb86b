------------------------- MODULE InvoiceLinksProofs -------------------------
(***************************************************************************)
(* InvoiceLinks for every set of invoices, purchases, requests, lists and  *)
(* sessions.                                                               *)
(*                                                                         *)
(* LinksInv assumes nothing of what runs alone: rows are links, one that   *)
(* was there when a session loaded it is still there, and a call of a kind *)
(* that does run alone finds what it has loaded as it was.  RoomInv adds   *)
(* what a session found when it had taken the locks of a manual link.      *)
(* Each theorem names the kinds it needs to be alone.                      *)
(***************************************************************************)
EXTENDS InvoiceLinks, SharedLemmas

Methods == {"none", "manual", "auto", "source_ref", "rejected"}
Statuses == {"unmatched", "partial", "matched", "needs_review"}
Rows == [method : Methods, confirmed : BOOLEAN, amount : Nat]
Tables == [Invoices -> [Targets -> Rows]]

WaitCalls ==
    [kind : {"link"}, of : Invoices, to : Targets, amount : (Nat \ {0}) \cup {Rest},
     at : {"target", "invoice"}]
CommitCalls ==
    [kind : {"link"}, of : Invoices, to : Targets, amount : Nat \ {0}, at : {"commit"},
     loaded : Rows]
ChangeCalls ==
    [kind : {"unlink", "confirm"}, of : Invoices, to : Targets, writes : BOOLEAN,
     was : Statuses, status : Statuses]
ImportCalls ==
    [kind : {"import"}, of : Invoices, ref : Targets \cup {NoRef, Ambiguous}, said : Conditions,
     known : Conditions \cup {"absent"}, was : Statuses,
     before : [Targets -> Rows], after : [Targets -> Rows]]
Calls == {NoCall} \cup WaitCalls \cup CommitCalls \cup ChangeCalls \cup ImportCalls

(* Links of the right type; a row that was never written is no link.       *)
Sound(ls) ==
    /\ ls \in Tables
    /\ \A i \in Invoices, t \in Targets : ls[i][t].method = "none" => ls[i][t] = NoLink

Commits(w) == call[w].kind = "link" /\ call[w].at = "commit"

(* What a session has loaded as a link is one.                             *)
LinkThere(c) == c.loaded.method # "none" => links[c.of][c.to].method # "none"

RowsThere(c) ==
    /\ c.after = Followed(c.before, c.of, c.ref, c.said)
    /\ \A t \in Targets :
          IF c.before[t].method = "none" THEN c.before[t] = NoLink
          ELSE links[c.of][t].method # "none"

StillThere(c) ==
    /\ c.kind = "link" /\ c.at = "commit" => LinkThere(c)
    /\ c.kind = "confirm" => links[c.of][c.to].method # "none"
    /\ c.kind = "import" => RowsThere(c)

(* While a call of a kind that runs alone is under way no other one is,    *)
Apart == \A v, w \in Workers : v # w /\ call[v].kind \in Alone => call[w] = NoCall

(* and what it has loaded is as it was.                                    *)
Changed(c) ==
    LET link == links[c.of][c.to] IN
    [links EXCEPT ![c.of][c.to] = IF c.kind = "unlink" THEN Rejected(link) ELSE Confirmed(link)]

AsLoaded(c) ==
    c.kind \in Alone =>
       /\ c.kind \in {"unlink", "confirm", "import"} => c.was = status[c.of]
       /\ c.kind \in {"unlink", "confirm"} => c.status = StatusOf(Changed(c), c.of)
       /\ c.kind = "import" => c.before = links[c.of]

LinksInv ==
    /\ condition \in [Invoices -> Conditions \cup {"absent"}]
    /\ status \in [Invoices -> Statuses]
    /\ paired \in [Reds -> Invoices \cup {NoInvoice}]
    /\ call \in [Workers -> Calls]
    /\ Sound(links)
    /\ Apart
    /\ \A w \in Workers : StillThere(call[w]) /\ AsLoaded(call[w])

-----------------------------------------------------------------------------
(* Rows *)

LEMMA RowShape ==
    ASSUME NEW row \in Rows
    PROVE  /\ row = [method |-> row.method, confirmed |-> row.confirmed, amount |-> row.amount]
           /\ row.method \in Methods /\ row.confirmed \in BOOLEAN /\ row.amount \in Nat
           /\ DOMAIN row = {"method", "confirmed", "amount"}
  BY DEF Rows

(* What may become of a row: a link stays one.                             *)
RowChange(old, new) == new \in Rows /\ (new.method = "none" => new = old)

(* What may become of a row that a person or the matcher has decided on.   *)
Stands(old, new) == old.method = "rejected" => new.method \in {"rejected", "manual"}

(* What becomes of rows but by a manual link.                              *)
ByOthers(old, new) ==
    new.method = "manual" => old.method = "manual" /\ (old.confirmed => new = old)

LEMMA RejectedRow ==
    ASSUME NEW row \in Rows
    PROVE  /\ RowChange(row, Rejected(row)) /\ Stands(row, Rejected(row))
           /\ ByOthers(row, Rejected(row))
           /\ Rejected(row).method = "rejected" /\ ~Active(Rejected(row))
  BY DEF Rows, Methods, RowChange, Stands, ByOthers, Rejected, Active

LEMMA ConfirmedRow ==
    ASSUME NEW row \in Rows, row.method # "none"
    PROVE  /\ RowChange(row, Confirmed(row)) /\ Stands(row, Confirmed(row))
           /\ ByOthers(row, Confirmed(row))
           /\ Confirmed(row).method = row.method
  BY DEF Rows, RowChange, Stands, ByOthers, Confirmed

LEMMA UnconfirmedRow ==
    ASSUME NEW row \in Rows
    PROVE  /\ RowChange(row, Unconfirmed(row)) /\ Stands(row, Unconfirmed(row))
           /\ ByOthers(row, Unconfirmed(row))
           /\ Unconfirmed(row).method = row.method
  BY DEF Rows, RowChange, Stands, ByOthers, Unconfirmed

(* The row that is left when some of its columns are written.              *)
LEMMA WrittenRow ==
    ASSUME NEW row \in Rows, NEW loaded \in Rows, NEW new \in Rows
    PROVE  LET r == Written(row, loaded, new) IN
           /\ r \in Rows
           /\ r.method \in {row.method, new.method}
           /\ new.method = loaded.method => r.method = row.method
           /\ loaded = row => r = new
           /\ loaded = new => r = row
<1> DEFINE r == Written(row, loaded, new)
<1>1. r = [c \in {"method", "confirmed", "amount"} |-> IF new[c] # loaded[c] THEN new[c] ELSE row[c]]
  BY RowShape DEF Written
<1> HIDE DEF r
<1>2. /\ r["method"] = IF new["method"] # loaded["method"] THEN new["method"] ELSE row["method"]
      /\ r["confirmed"] = IF new["confirmed"] # loaded["confirmed"] THEN new["confirmed"] ELSE row["confirmed"]
      /\ r["amount"] = IF new["amount"] # loaded["amount"] THEN new["amount"] ELSE row["amount"]
      /\ DOMAIN r = {"method", "confirmed", "amount"}
      /\ r = [c \in DOMAIN r |-> r[c]]
  BY <1>1
<1>3. r = [method |-> r["method"], confirmed |-> r["confirmed"], amount |-> r["amount"]]
  BY <1>2
<1>4. r["method"] \in Methods /\ r["confirmed"] \in BOOLEAN /\ r["amount"] \in Nat
  BY <1>2, RowShape
<1>5. r \in Rows
  <2>1. ASSUME NEW x \in Methods, NEW y \in BOOLEAN, NEW z \in Nat,
               r = [method |-> x, confirmed |-> y, amount |-> z]
        PROVE  r \in Rows
    BY <2>1 DEF Rows
  <2> QED
    BY <1>3, <1>4, <2>1
<1>6. r.method \in {row.method, new.method} /\ (new.method = loaded.method => r.method = row.method)
  BY <1>2
<1>7. ASSUME NEW other \in Rows, r["method"] = other["method"],
             r["confirmed"] = other["confirmed"], r["amount"] = other["amount"]
      PROVE  r = other
  <2>1. other = [method |-> other["method"], confirmed |-> other["confirmed"], amount |-> other["amount"]]
    BY RowShape
  <2> QED
    BY <1>3, <1>7, <2>1
<1>8. ASSUME loaded = row PROVE r = new
  BY <1>2, <1>7, <1>8
<1>9. ASSUME loaded = new PROVE r = row
  BY <1>2, <1>7, <1>9
<1> QED
  BY <1>5, <1>6, <1>8, <1>9 DEF r

LEMMA ManualRow ==
    ASSUME NEW a \in Nat \ {0}
    PROVE  Manual(a) \in Rows /\ Manual(a).method = "manual" /\ Manual(a).confirmed
  BY DEF Manual, Rows, Methods

-----------------------------------------------------------------------------
(* What a step does to the links *)

ByHand(i, t) == \E w \in Workers : CommitLink(w) /\ call[w].of = i /\ call[w].to = t

OneRow(i, t) ==
    /\ RowChange(links[i][t], links'[i][t])
    /\ "import" \in Alone =>
          /\ Stands(links[i][t], links'[i][t])
          /\ ByOthers(links[i][t], links'[i][t]) \/ ByHand(i, t)
    /\ links'[i][t].method = "auto" /\ links[i][t].method # "auto" =>
          \A u \in Aliases(t) : links[i][u].method = "none"

RowsStep == links' \in Tables /\ \A i \in Invoices, t \in Targets : OneRow(i, t)

LEMMA AmountNat ==
    ASSUME NEW i \in Invoices \cup Reds
    PROVE  Amount[i] \in Nat \ {0}
  BY InvoiceAssumption

LEMMA Rows0 ==
    ASSUME LinksInv, NEW i \in Invoices, NEW t \in Targets
    PROVE  links[i][t] \in Rows /\ links \in Tables
  BY DEF LinksInv, Sound, Tables

LEMMA SameRows ==
    ASSUME LinksInv, UNCHANGED links
    PROVE  RowsStep
<1>1. ASSUME NEW i \in Invoices, NEW t \in Targets PROVE OneRow(i, t)
  BY Rows0 DEF OneRow, RowChange, Stands, ByOthers
<1> QED
  BY <1>1 DEF RowsStep, LinksInv, Sound

(* One row changes.                                                        *)
LEMMA OneRowStep ==
    ASSUME LinksInv, NEW i \in Invoices, NEW t \in Targets, NEW row,
           links' = [links EXCEPT ![i][t] = row],
           RowChange(links[i][t], row), Stands(links[i][t], row),
           ByOthers(links[i][t], row) \/ ByHand(i, t),
           row.method = "auto" => links[i][t].method = "auto"
    PROVE  /\ RowsStep /\ links'[i][t] = row
           /\ \A j \in Invoices, u \in Targets : j # i \/ u # t => links'[j][u] = links[j][u]
<1>1. row \in Rows /\ links \in Tables
  BY Rows0 DEF RowChange
<1>2. /\ links' \in Tables /\ links'[i][t] = row
      /\ \A j \in Invoices, u \in Targets : j # i \/ u # t => links'[j][u] = links[j][u]
  BY <1>1 DEF Tables
<1>3. ASSUME NEW j \in Invoices, NEW u \in Targets PROVE OneRow(j, u)
  <2>1. CASE j = i /\ u = t
    BY <1>2, <2>1 DEF OneRow
  <2>2. CASE j # i \/ u # t
    BY <1>2, <2>2, Rows0 DEF OneRow, RowChange, Stands, ByOthers
  <2> QED
    BY <2>1, <2>2
<1> QED
  BY <1>2, <1>3 DEF RowsStep

LEMMA CallShapes ==
    ASSUME NEW c \in Calls
    PROVE  /\ c.kind = "link" /\ c.at = "commit" => c \in CommitCalls
           /\ c.kind = "link" /\ c.at # "commit" => c \in WaitCalls
           /\ c.kind \in {"unlink", "confirm"} => c \in ChangeCalls
           /\ c.kind = "import" => c \in ImportCalls
           /\ c.kind \in {"none", "link", "unlink", "confirm", "import"}
           /\ c.kind = "none" => c = NoCall
  BY DEF Calls, NoCall, WaitCalls, CommitCalls, ChangeCalls, ImportCalls

LEMMA CommitLinkRows ==
    ASSUME LinksInv, NEW w \in Workers, CommitLink(w)
    PROVE  /\ call[w] \in CommitCalls /\ RowsStep
           /\ links' = [links EXCEPT ![call[w].of][call[w].to] =
                 Written(links[call[w].of][call[w].to], call[w].loaded, Manual(call[w].amount))]
<1> DEFINE i == call[w].of
<1> DEFINE t == call[w].to
<1> DEFINE row == Written(links[i][t], call[w].loaded, Manual(call[w].amount))
<1>1. call[w] \in CommitCalls /\ LinkThere(call[w])
  BY CallShapes DEF LinksInv, CommitLink, At, StillThere
<1>2. /\ i \in Invoices /\ t \in Targets
      /\ call[w].amount \in Nat \ {0} /\ call[w].loaded \in Rows /\ links[i][t] \in Rows
  BY <1>1, Rows0 DEF CommitCalls
<1>3. row \in Rows /\ row.method # "none" /\ row.method \in {"manual", links[i][t].method}
  <2>1. /\ row \in Rows /\ row.method \in {links[i][t].method, "manual"}
        /\ links[i][t] = call[w].loaded => row = Manual(call[w].amount)
        /\ "manual" = call[w].loaded.method => row.method = links[i][t].method
    BY <1>2, ManualRow, WrittenRow
  <2>2. CASE call[w].loaded.method # "none"
    BY <1>1, <2>1, <2>2 DEF LinkThere
  <2>3. CASE call[w].loaded.method = "none"
    <3>1. row["method"] = "manual"
      <4>1. "method" \in DOMAIN links[i][t] /\ Manual(call[w].amount)["method"] = "manual"
        BY <1>2, RowShape DEF Manual
      <4> QED
        BY <2>3, <4>1 DEF Written
    <3> QED
      BY <2>1, <3>1
  <2> QED
    BY <2>1, <2>2, <2>3
<1>4. links' = [links EXCEPT ![i][t] = row]
  BY DEF CommitLink
<1> HIDE DEF row
<1>5. RowChange(links[i][t], row) /\ Stands(links[i][t], row)
  BY <1>3 DEF RowChange, Stands
<1>6. ByHand(i, t)
  BY DEF ByHand
<1>7. RowsStep
  BY <1>2, <1>3, <1>4, <1>5, <1>6, OneRowStep
<1> QED
  BY <1>1, <1>4, <1>7 DEF row

LEMMA CommitUnlinkRows ==
    ASSUME LinksInv, NEW w \in Workers, CommitUnlink(w)
    PROVE  RowsStep
<1>1. call[w] \in ChangeCalls
  BY CallShapes DEF LinksInv, CommitUnlink
<1>2. call[w].of \in Invoices /\ call[w].to \in Targets
  BY <1>1 DEF ChangeCalls
<1>3. links[call[w].of][call[w].to] \in Rows
  BY <1>2, Rows0
<1>4. links' = [links EXCEPT ![call[w].of][call[w].to] = Rejected(links[call[w].of][call[w].to])]
  BY DEF CommitUnlink
<1> QED
  BY <1>2, <1>3, <1>4, RejectedRow, OneRowStep

LEMMA CommitConfirmRows ==
    ASSUME LinksInv, NEW w \in Workers, CommitConfirm(w)
    PROVE  RowsStep
<1> DEFINE row == links[call[w].of][call[w].to]
<1>1. call[w] \in ChangeCalls /\ row.method # "none"
  BY CallShapes DEF LinksInv, CommitConfirm, StillThere
<1>2. call[w].of \in Invoices /\ call[w].to \in Targets /\ row \in Rows
  BY <1>1, Rows0 DEF ChangeCalls
<1>3. CASE UNCHANGED links
  BY <1>3, SameRows
<1>4. CASE links' = [links EXCEPT ![call[w].of][call[w].to] = Confirmed(row)]
  <2> DEFINE new == Confirmed(row)
  <2>1. /\ RowChange(row, new) /\ Stands(row, new) /\ ByOthers(row, new)
        /\ new.method = row.method
    BY <1>1, <1>2, ConfirmedRow
  <2> HIDE DEF new
  <2>2. links' = [links EXCEPT ![call[w].of][call[w].to] = new]
    BY <1>4 DEF new
  <2> QED
    BY <1>2, <2>1, <2>2, OneRowStep
<1> QED
  BY <1>3, <1>4 DEF CommitConfirm

(* The rows as a list leaves them.                                         *)
LEMMA FollowedRows ==
    ASSUME NEW row \in [Targets -> Rows], NEW i \in Invoices, NEW said,
           NEW ref \in Targets \cup {NoRef, Ambiguous}
    PROVE  LET new == Followed(row, i, ref, said) IN
           /\ new \in [Targets -> Rows]
           /\ \A t \in Targets : /\ RowChange(row[t], new[t]) /\ Stands(row[t], new[t])
                                 /\ ByOthers(row[t], new[t])
                                 /\ new[t].method \in {row[t].method, "source_ref"}
<1> DEFINE new == Followed(row, i, ref, said)
<1>1. CASE MayFollow(row, ref, said)
  <2>1. new = [row EXCEPT ![ref] = Named(i)] /\ ref \in Targets /\ row[ref].method # "rejected"
    BY <1>1, InvoiceAssumption DEF Followed, MayFollow
  <2>2. Named(i) \in Rows /\ Named(i).method = "source_ref"
    BY AmountNat DEF Named, Rows, Methods
  <2> HIDE DEF new
  <2>3. /\ new \in [Targets -> Rows] /\ new[ref] = Named(i)
        /\ \A t \in Targets : t # ref => new[t] = row[t]
    BY <2>1, <2>2
  <2>4. \A t \in Targets : row[t] \in Rows
    OBVIOUS
  <2> QED
    BY <2>1, <2>2, <2>3, <2>4 DEF RowChange, Stands, ByOthers, new
<1>2. CASE new = [t \in Targets |-> Unconfirmed(row[t])]
  <2> HIDE DEF new
  <2>1. \A t \in Targets : new[t] = Unconfirmed(row[t]) /\ row[t] \in Rows
    BY <1>2
  <2>2. \A t \in Targets : /\ RowChange(row[t], new[t]) /\ Stands(row[t], new[t])
                           /\ ByOthers(row[t], new[t])
                           /\ new[t].method = row[t].method
    BY <2>1, UnconfirmedRow
  <2> QED
    BY <1>2, <2>2 DEF RowChange, new
<1>3. CASE new = row
  <2> HIDE DEF new
  <2> QED
    BY <1>3 DEF RowChange, Stands, ByOthers, new
<1> QED
  BY <1>1, <1>2, <1>3 DEF Followed

(* What an import leaves of a row when others may have written it since.   *)
LEMMA ImportedRow ==
    ASSUME NEW row \in Rows, NEW before \in Rows, NEW after \in Rows,
           RowChange(before, after), after.method \in {before.method, "source_ref"},
           IF before.method = "none" THEN before = NoLink ELSE row.method # "none",
           ~(before = NoLink /\ after # NoLink /\ row # NoLink)
    PROVE  LET new == Written(row, before, after) IN
           /\ RowChange(row, new)
           /\ new.method = "auto" => row.method = "auto"
           /\ before = row => new = after
<1> DEFINE new == Written(row, before, after)
<1>1. /\ new \in Rows
      /\ new.method \in {row.method, after.method}
      /\ after.method = before.method => new.method = row.method
      /\ before = row => new = after
      /\ before = after => new = row
  BY WrittenRow
<1> HIDE DEF new
<1>2. new.method = "auto" => row.method = "auto"
  BY <1>1
<1>3. ASSUME new.method = "none" PROVE new = row
  <2>1. CASE before.method # "none"
    BY <1>1, <1>3, <2>1
  <2>2. CASE before.method = "none" /\ after = before
    BY <1>1, <2>2
  <2>3. CASE before.method = "none" /\ after # before
    <3>1. before = NoLink /\ row = NoLink /\ new = after
      BY <1>1, <2>3
    <3> QED
      BY <1>3, <2>3, <3>1 DEF RowChange
  <2> QED
    BY <2>1, <2>2, <2>3
<1> QED
  BY <1>1, <1>2, <1>3 DEF RowChange, new

LEMMA CommitImportRows ==
    ASSUME LinksInv, NEW w \in Workers, CommitImport(w)
    PROVE  /\ RowsStep /\ call[w] \in ImportCalls
           /\ \A i \in Invoices \ {call[w].of}, t \in Targets : links'[i][t] = links[i][t]
           /\ "import" \in Alone /\ ~Collides(w) =>
                 \A t \in Targets : links'[call[w].of][t] = call[w].after[t]
<1> DEFINE i == call[w].of
<1> DEFINE b == call[w].before
<1> DEFINE a == call[w].after
<1> DEFINE new == [t \in Targets |-> Written(links[i][t], b[t], a[t])]
<1>1. /\ call[w] \in ImportCalls /\ RowsThere(call[w]) /\ call[w].kind = "import"
      /\ "import" \in Alone => b = links[i]
  BY CallShapes DEF LinksInv, CommitImport, StillThere, AsLoaded
<1>2. /\ i \in Invoices /\ b \in [Targets -> Rows] /\ a \in [Targets -> Rows]
      /\ links \in Tables /\ links[i] \in [Targets -> Rows]
  BY <1>1 DEF ImportCalls, LinksInv, Sound, Tables
<1>3. CASE Collides(w)
  <2>1. links' = links
    BY <1>3 DEF CommitImport
  <2> QED
    BY <1>1, <1>3, <2>1, SameRows
<1>4. CASE ~Collides(w)
  <2>1. links' = [links EXCEPT ![i] = new]
    BY <1>2, <1>4 DEF CommitImport, Tables
  <2>2. \A t \in Targets : ~(b[t] = NoLink /\ a[t] # NoLink /\ links[i][t] # NoLink)
    BY <1>4 DEF Collides
  <2>3. /\ a = Followed(b, i, call[w].ref, call[w].said)
        /\ call[w].ref \in Targets \cup {NoRef, Ambiguous}
    BY <1>1 DEF RowsThere, ImportCalls
  <2>4. \A t \in Targets : /\ RowChange(b[t], a[t]) /\ Stands(b[t], a[t]) /\ ByOthers(b[t], a[t])
                           /\ a[t].method \in {b[t].method, "source_ref"}
    BY <1>2, <2>3, FollowedRows
  <2>5. \A t \in Targets : /\ b[t] \in Rows /\ a[t] \in Rows /\ links[i][t] \in Rows
                           /\ IF b[t].method = "none" THEN b[t] = NoLink ELSE links[i][t].method # "none"
    BY <1>1, <1>2 DEF RowsThere
  <2>6. \A t \in Targets : new[t] = Written(links[i][t], b[t], a[t])
    OBVIOUS
  <2>7. new = [t \in Targets |-> new[t]]
    OBVIOUS
  <2> HIDE DEF new, a, b, i
  <2>8. \A t \in Targets : /\ RowChange(links[i][t], new[t])
                           /\ new[t].method = "auto" => links[i][t].method = "auto"
                           /\ b[t] = links[i][t] => new[t] = a[t]
    BY <2>2, <2>4, <2>5, <2>6, ImportedRow
  <2>9. new \in [Targets -> Rows]
    BY <2>7, <2>8 DEF RowChange
  <2>10. /\ links' \in Tables /\ links'[i] = new
         /\ \A j \in Invoices \ {i} : links'[j] = links[j]
    BY <1>2, <2>1, <2>9 DEF Tables
  <2>11. ASSUME NEW j \in Invoices, NEW t \in Targets PROVE OneRow(j, t)
    <3>1. CASE j = i
      <4>1. "import" \in Alone => b[t] = links[i][t] /\ new[t] = a[t]
        BY <1>1, <2>8 DEF b, i
      <4> QED
        BY <2>4, <2>8, <2>10, <3>1, <4>1 DEF OneRow
    <3>2. CASE j # i
      BY <2>10, <3>2, Rows0 DEF OneRow, RowChange, Stands, ByOthers
    <3> QED
      BY <3>1, <3>2
  <2>12. "import" \in Alone => \A t \in Targets : links'[i][t] = a[t]
    BY <1>1, <2>8, <2>10 DEF b, i
  <2> QED
    BY <1>1, <2>10, <2>11, <2>12 DEF RowsStep, a, i
<1> QED
  BY <1>3, <1>4

(* A step that writes each row by itself.                                  *)
LEMMA EachRowStep ==
    ASSUME LinksInv,
           links' = [i \in Invoices |-> [t \in Targets |-> links'[i][t]]],
           \A i \in Invoices, t \in Targets : OneRow(i, t)
    PROVE  RowsStep
  BY DEF OneRow, RowChange, RowsStep, Tables

LEMMA SweepRows ==
    ASSUME LinksInv, Sweep
    PROVE  RowsStep
<1> DEFINE f(i, t) == IF t \in Swept /\ Sweepable(links[i][t])
                      THEN Confirmed(links[i][t]) ELSE links[i][t]
<1>1. links' = [i \in Invoices |-> [t \in Targets |-> f(i, t)]]
  BY DEF Sweep
<1>2. ASSUME NEW i \in Invoices, NEW t \in Targets
      PROVE  /\ RowChange(links[i][t], f(i, t)) /\ Stands(links[i][t], f(i, t))
             /\ ByOthers(links[i][t], f(i, t))
             /\ f(i, t).method = links[i][t].method
  <2>1. links[i][t] \in Rows
    BY Rows0
  <2>2. CASE t \in Swept /\ Sweepable(links[i][t])
    <3>1. links[i][t].method # "none" /\ f(i, t) = Confirmed(links[i][t])
      BY <2>2 DEF Sweepable
    <3> HIDE DEF f
    <3> QED
      BY <2>1, <3>1, ConfirmedRow
  <2>3. CASE ~(t \in Swept /\ Sweepable(links[i][t]))
    BY <2>1, <2>3 DEF RowChange, Stands, ByOthers
  <2> QED
    BY <2>2, <2>3
<1> HIDE DEF f
<1>3. \A i \in Invoices, t \in Targets : OneRow(i, t)
  BY <1>1, <1>2 DEF OneRow
<1>4. links' = [i \in Invoices |-> [t \in Targets |-> links'[i][t]]]
  BY <1>1
<1> QED
  BY <1>3, <1>4, EachRowStep

LEMMA PurgeRows ==
    ASSUME LinksInv, Purge
    PROVE  RowsStep
<1> DEFINE gone == {i \in Invoices : condition[i] = "red" /\ ActiveOn(links, i) # {}}
<1> DEFINE f(i, t) == IF i \in gone /\ Active(links[i][t]) THEN Rejected(links[i][t]) ELSE links[i][t]
<1>1. links' = [i \in Invoices |-> [t \in Targets |-> f(i, t)]]
  BY DEF Purge
<1>2. ASSUME NEW i \in Invoices, NEW t \in Targets
      PROVE  /\ RowChange(links[i][t], f(i, t)) /\ Stands(links[i][t], f(i, t))
             /\ ByOthers(links[i][t], f(i, t))
             /\ f(i, t).method = "auto" => links[i][t].method = "auto"
  <2>1. links[i][t] \in Rows
    BY Rows0
  <2>2. CASE i \in gone /\ Active(links[i][t])
    <3>1. f(i, t) = Rejected(links[i][t])
      BY <2>2
    <3> HIDE DEF f
    <3> QED
      BY <2>1, <3>1, RejectedRow
  <2>3. CASE ~(i \in gone /\ Active(links[i][t]))
    BY <2>1, <2>3 DEF RowChange, Stands, ByOthers
  <2> QED
    BY <2>2, <2>3
<1> HIDE DEF f, gone
<1>3. \A i \in Invoices, t \in Targets : OneRow(i, t)
  BY <1>1, <1>2 DEF OneRow
<1>4. links' = [i \in Invoices |-> [t \in Targets |-> links'[i][t]]]
  BY <1>1
<1> QED
  BY <1>3, <1>4, EachRowStep


(* The links as the matcher leaves them.                                   *)
Matched(is, confirm) ==
    /\ is \in SUBSET Matchable
    /\ links' = [i \in Invoices |->
          IF i \in is
          THEN [links[i] EXCEPT ![Best[i]] =
                  [method |-> "auto", confirmed |-> confirm, amount |-> Amount[i]]]
          ELSE links[i]]

LEMMA MatchRows ==
    ASSUME LinksInv, NEW confirm \in BOOLEAN, NEW is, Matched(is, confirm)
    PROVE  /\ RowsStep
           /\ \A i \in is : /\ i \in Invoices /\ Best[i] \in Targets
                            /\ links[i][Best[i]].method = "none"
                            /\ links'[i][Best[i]].confirmed = confirm
           /\ \A i \in Invoices, t \in Targets :
                 i \notin is \/ t # Best[i] => links'[i][t] = links[i][t]
<1>1. \A i \in Invoices : links[i] \in [Targets -> Rows] /\ Amount[i] \in Nat
  BY InvoiceAssumption DEF LinksInv, Sound, Tables
<1>2. \A i \in is : /\ i \in Invoices /\ Best[i] \in Targets /\ Best[i] \in Aliases(Best[i])
                    /\ \A u \in Aliases(Best[i]) : links[i][u].method = "none"
  BY InvoiceAssumption DEF Matched, Matchable, Aliases
<1> DEFINE auto(i) == [method |-> "auto", confirmed |-> confirm, amount |-> Amount[i]]
<1>3. \A i \in Invoices : auto(i) \in Rows /\ auto(i).method = "auto" /\ auto(i).confirmed = confirm
  BY <1>1 DEF Rows, Methods
<1>4. \A i \in Invoices : links'[i] = IF i \in is THEN [links[i] EXCEPT ![Best[i]] = auto(i)] ELSE links[i]
  BY DEF Matched
<1> HIDE DEF auto
<1>5. \A i \in is : /\ links'[i] \in [Targets -> Rows]
                    /\ links'[i][Best[i]] = auto(i)
                    /\ \A t \in Targets : t # Best[i] => links'[i][t] = links[i][t]
  <2> SUFFICES ASSUME NEW i \in is
               PROVE  /\ links'[i] \in [Targets -> Rows]
                      /\ links'[i][Best[i]] = auto(i)
                      /\ \A t \in Targets : t # Best[i] => links'[i][t] = links[i][t]
    OBVIOUS
  <2>1. /\ links[i] \in [Targets -> Rows] /\ Best[i] \in Targets /\ auto(i) \in Rows
        /\ links'[i] = [links[i] EXCEPT ![Best[i]] = auto(i)]
    BY <1>1, <1>2, <1>3, <1>4
  <2> QED
    BY <2>1
<1>6. \A i \in Invoices : i \notin is => links'[i] = links[i]
  BY <1>4
<1>7. links' \in Tables
  <2>1. \A i \in Invoices : links'[i] \in [Targets -> Rows]
    BY <1>1, <1>5, <1>6
  <2>2. links' = [i \in Invoices |-> links'[i]]
    BY DEF Matched
  <2> QED
    BY <2>1, <2>2 DEF Tables
<1>8. ASSUME NEW i \in Invoices, NEW t \in Targets PROVE OneRow(i, t)
  <2>1. CASE i \in is /\ t = Best[i]
    BY <1>2, <1>3, <1>5, <2>1 DEF OneRow, RowChange, Stands, ByOthers
  <2>2. CASE ~(i \in is /\ t = Best[i])
    <3>1. links'[i][t] = links[i][t]
      BY <1>5, <1>6, <2>2
    <3> QED
      BY <3>1, Rows0 DEF OneRow, RowChange, Stands, ByOthers
  <2> QED
    BY <2>1, <2>2
<1> QED
  BY <1>2, <1>3, <1>5, <1>6, <1>7, <1>8 DEF RowsStep

LEMMA NextRows ==
    ASSUME LinksInv, [Next]_vars
    PROVE  RowsStep
<1>1. CASE UNCHANGED links
  BY <1>1, SameRows
<1>2. ASSUME NEW confirm \in BOOLEAN, Match(confirm) PROVE RowsStep
  <2>1. PICK is \in SUBSET Matchable : Matched(is, confirm)
    BY <1>2 DEF Match, Matched
  <2> QED
    BY <2>1, MatchRows
<1>3. ASSUME NEW w \in Workers, CommitLink(w) \/ CommitUnlink(w) PROVE RowsStep
  BY <1>3, CommitLinkRows, CommitUnlinkRows
<1>4. ASSUME NEW w \in Workers, CommitConfirm(w) \/ CommitImport(w) PROVE RowsStep
  BY <1>4, CommitConfirmRows, CommitImportRows
<1>5. CASE Sweep \/ Purge
  BY <1>5, SweepRows, PurgeRows
<1> QED
  BY <1>1, <1>2, <1>3, <1>4, <1>5
  DEF Next, vars, StartLink, StartUnlink, StartConfirm, StartImport, Begin, LockTarget, LockInvoice,
      Finish, Crash, Pair, Unpair


-----------------------------------------------------------------------------
(* Sums *)

LEMMA ShareNat ==
    ASSUME NEW link \in Rows
    PROVE  Share(link) \in Nat /\ Share(link) <= link.amount
  BY DEF Rows, Share

LEMMA OfNat ==
    ASSUME NEW ls \in Tables, NEW i \in Invoices, NEW ts \in SUBSET Targets
    PROVE  AllocatedOf(ls, i, ts) \in Nat
<1>1. [t \in ts |-> Share(ls[i][t])] \in [ts -> Nat]
  BY ShareNat DEF Tables
<1>2. IsFiniteSet(ts)
  BY FS_Subset, InvoiceAssumption
<1> QED
  BY <1>1, <1>2, TotalNat DEF AllocatedOf

LEMMA ToNat ==
    ASSUME NEW ls \in Tables, NEW t \in Targets
    PROVE  AllocatedTo(ls, t) \in Nat
<1>1. [i \in Invoices |-> Share(ls[i][t])] \in [Invoices -> Nat]
  BY ShareNat DEF Tables
<1> QED
  BY <1>1, TotalNat, InvoiceAssumption DEF AllocatedTo

(* A purchase is covered at least by what its record is.                   *)
LEMMA CoveredNat ==
    ASSUME NEW ls \in Tables, NEW t \in Targets
    PROVE  Covered(ls, t) \in Nat /\ AllocatedTo(ls, t) <= Covered(ls, t)
<1> DEFINE f == [u \in Aliases(t) |-> AllocatedTo(ls, u)]
<1>1. IsFiniteSet(Aliases(t)) /\ t \in Aliases(t) /\ Aliases(t) \subseteq Targets
  BY FS_Subset, InvoiceAssumption DEF Aliases
<1>2. f \in [Aliases(t) -> Nat] /\ f[t] = AllocatedTo(ls, t)
  BY <1>1, ToNat
<1> HIDE DEF f
<1>3. Total(f) \in Nat /\ f[t] <= Total(f)
  BY <1>1, <1>2, TotalNat, PartOfTotal
<1> QED
  BY <1>2, <1>3 DEF Covered, f

LEMMA EffectiveNat ==
    ASSUME NEW i \in Invoices
    PROVE  Effective(i) \in Nat /\ Effective(i) <= Amount[i]
<1> DEFINE rs == {q \in Reds : BlueOf(q) = i}
<1>1. IsFiniteSet(rs)
  BY FS_Subset, InvoiceAssumption
<1>2. [r \in rs |-> Amount[r]] \in [rs -> Nat]
  BY AmountNat
<1>3. Offset(i) \in Nat
  BY <1>1, <1>2, TotalNat DEF Offset
<1>4. Amount[i] \in Nat
  BY AmountNat
<1> QED
  BY <1>3, <1>4 DEF Effective

(* An invoice without the link to t, a purchase without the link to i.     *)
LEMMA WithoutOne ==
    ASSUME NEW ls \in Tables, NEW i \in Invoices, NEW t \in Targets
    PROVE  AllocatedOf(ls, i, Targets) = AllocatedOf(ls, i, Targets \ {t}) + Share(ls[i][t])
<1> DEFINE f == [u \in Targets |-> Share(ls[i][u])]
<1>1. f \in [Targets -> Nat] /\ IsFiniteSet(Targets)
  BY ShareNat, InvoiceAssumption DEF Tables
<1>2. [u \in Targets \ {t} |-> Share(ls[i][u])] = [u \in Targets \ {t} |-> f[u]] /\ f[t] = Share(ls[i][t])
  OBVIOUS
<1> HIDE DEF f
<1>3. Total(f) = Total([u \in Targets \ {t} |-> f[u]]) + f[t]
  BY <1>1, TotalWithout
<1>4. Total(f) = AllocatedOf(ls, i, Targets)
  BY DEF f, AllocatedOf
<1> QED
  BY <1>2, <1>3, <1>4 DEF AllocatedOf

LEMMA ToChange ==
    ASSUME NEW ls \in Tables, NEW ns \in Tables, NEW i \in Invoices, NEW t \in Targets,
           \A j \in Invoices \ {i} : ns[j][t] = ls[j][t]
    PROVE  AllocatedTo(ns, t) = AllocatedTo(ls, t) - Share(ls[i][t]) + Share(ns[i][t])
<1> DEFINE f == [j \in Invoices |-> Share(ls[j][t])]
<1> DEFINE g == [j \in Invoices |-> Share(ns[j][t])]
<1>1. /\ f \in [Invoices -> Nat] /\ g \in [Invoices -> Nat] /\ IsFiniteSet(Invoices)
      /\ f[i] = Share(ls[i][t]) /\ g[i] = Share(ns[i][t])
      /\ \A j \in Invoices \ {i} : g[j] = f[j]
  BY ShareNat, InvoiceAssumption DEF Tables
<1> HIDE DEF f, g
<1>2. Total(g) = Total(f) + (g[i] - f[i]) /\ Total(f) \in Nat /\ f[i] \in Nat /\ g[i] \in Nat
  BY <1>1, TotalChange, TotalNat
<1>3. Total(f) = AllocatedTo(ls, t) /\ Total(g) = AllocatedTo(ns, t)
  BY DEF f, g, AllocatedTo
<1> QED
  BY <1>1, <1>2, <1>3

(* Where the links of an invoice or to a purchase are the same, so are     *)
(* the sums.                                                               *)
LEMMA SameSums ==
    ASSUME NEW ls, NEW ns
    PROVE  /\ \A i, ts : (\A t \in ts : ns[i][t] = ls[i][t]) => AllocatedOf(ns, i, ts) = AllocatedOf(ls, i, ts)
           /\ \A t : (\A i \in Invoices : ns[i][t] = ls[i][t]) => AllocatedTo(ns, t) = AllocatedTo(ls, t)
<1>1. ASSUME NEW i, NEW ts, \A t \in ts : ns[i][t] = ls[i][t]
      PROVE  AllocatedOf(ns, i, ts) = AllocatedOf(ls, i, ts)
  <2>1. [t \in ts |-> Share(ns[i][t])] = [t \in ts |-> Share(ls[i][t])]
    BY <1>1
  <2> QED
    BY <2>1 DEF AllocatedOf
<1>2. ASSUME NEW t, \A i \in Invoices : ns[i][t] = ls[i][t]
      PROVE  AllocatedTo(ns, t) = AllocatedTo(ls, t)
  <2>1. [i \in Invoices |-> Share(ns[i][t])] = [i \in Invoices |-> Share(ls[i][t])]
    BY <1>2
  <2> QED
    BY <2>1 DEF AllocatedTo
<1> QED
  BY <1>1, <1>2

(* What a session finds when it has locked the invoice.                    *)
LEMMA FitsMeans ==
    ASSUME LinksInv, NEW w \in Workers, NEW i \in Invoices, NEW t \in Targets,
           call[w].of = i, call[w].to = t, call[w].amount \in (Nat \ {0}) \cup {Rest}, Fits(w)
    PROVE  /\ AmountFor(w) \in Nat \ {0}
           /\ AllocatedOf(links, i, Targets \ {t}) + AmountFor(w) <= Effective(i)
           /\ Limit[t] > 0 => AllocatedTo(links, t) - Share(links[i][t]) + AmountFor(w) <= Limit[t]
<1>1. /\ links \in Tables /\ links[i][t] \in Rows /\ Limit[t] \in Nat /\ Amount[i] \in Nat
      /\ Share(links[i][t]) \in Nat
  BY Rows0, ShareNat, InvoiceAssumption, AmountNat
<1>2. /\ AllocatedOf(links, i, Targets \ {t}) \in Nat /\ AllocatedTo(links, t) \in Nat
      /\ Covered(links, t) \in Nat /\ AllocatedTo(links, t) <= Covered(links, t)
      /\ Effective(i) \in Nat /\ Effective(i) <= Amount[i]
  BY <1>1, OfNat, ToNat, CoveredNat, EffectiveNat
<1>3. LeftOf(i, t) = Effective(i) - AllocatedOf(links, i, Targets \ {t}) /\ LeftOf(i, t) \in Int
  BY <1>2 DEF LeftOf
<1>4. LeftTo(i, t) = Limit[t] - (Covered(links, t) - Share(links[i][t])) /\ LeftTo(i, t) \in Int
  BY <1>1, <1>2 DEF LeftTo, Share
<1>5. AmountFor(w) \in Int
  <2>1. CASE call[w].amount = Rest
    BY <1>3, <1>4, <2>1 DEF AmountFor
  <2>2. CASE call[w].amount # Rest
    BY <2>2 DEF AmountFor
  <2> QED
    BY <2>1, <2>2
<1>6. /\ AmountFor(w) > 0 /\ AmountFor(w) <= LeftOf(i, t)
      /\ Limit[t] > 0 => AmountFor(w) <= LeftTo(i, t)
  BY DEF Fits
<1> HIDE DEF LinksInv
<1> QED
  BY <1>1, <1>2, <1>3, <1>4, <1>5, <1>6


-----------------------------------------------------------------------------
(* Types *)

LEMMA StatusTyped ==
    ASSUME NEW ls, NEW i
    PROVE  StatusOf(ls, i) \in Statuses
  BY DEF StatusOf, Statuses

LEMMA SyncTyped ==
    ASSUME LinksInv, NEW is, NEW ls, Sync(is, ls)
    PROVE  status' \in [Invoices -> Statuses]
  BY StatusTyped DEF Sync, LinksInv

LEMMA NextStatus ==
    ASSUME LinksInv, [Next]_vars
    PROVE  status' \in [Invoices -> Statuses]
<1>1. CASE UNCHANGED status
  BY <1>1 DEF LinksInv
<1>2. ASSUME NEW w \in Workers, CommitUnlink(w) \/ CommitConfirm(w) PROVE status' \in [Invoices -> Statuses]
  <2>1. call[w] \in ChangeCalls
    BY <1>2, CallShapes DEF CommitUnlink, CommitConfirm, LinksInv
  <2>2. StatusWritten(call[w].of, call[w].was, call[w].status) \in Statuses
    BY <2>1 DEF ChangeCalls, LinksInv, StatusWritten
  <2> QED
    BY <1>2, <2>2 DEF CommitUnlink, CommitConfirm, LinksInv
<1>3. ASSUME NEW w \in Workers, CommitImport(w) PROVE status' \in [Invoices -> Statuses]
  <2>1. PICK i \in {call[w].of} :
           \/ status' = status
           \/ status' = [status EXCEPT ![i] =
                 IF call[w].ref = NoRef THEN @
                 ELSE StatusWritten(i, call[w].was,
                        IF ActiveOn(links', i) = {} THEN Fallback(call[w].ref, call[w].said)
                        ELSE StatusOf(links, i)')]
    BY <1>3 DEF CommitImport
  <2>2. i \in Invoices
    BY <1>3, CallShapes DEF CommitImport, LinksInv, ImportCalls
  <2>3. Fallback(call[w].ref, call[w].said) \in Statuses /\ StatusOf(links, i)' \in Statuses
    BY DEF Fallback, StatusOf, Statuses
  <2> DEFINE s == IF call[w].ref = NoRef THEN status[i]
                  ELSE StatusWritten(i, call[w].was,
                         IF ActiveOn(links', i) = {} THEN Fallback(call[w].ref, call[w].said)
                         ELSE StatusOf(links, i)')
  <2>4. s \in Statuses
    BY <2>2, <2>3 DEF LinksInv, StatusWritten
  <2>5. status' = status \/ status' = [status EXCEPT ![i] = s]
    BY <2>1
  <2> HIDE DEF s
  <2> QED
    BY <2>4, <2>5 DEF LinksInv
<1>4. ASSUME NEW is, NEW ls, Sync(is, ls) PROVE status' \in [Invoices -> Statuses]
  BY <1>4, SyncTyped
<1> QED
  BY <1>1, <1>2, <1>3, <1>4
  DEF Next, vars, StartLink, StartUnlink, StartConfirm, StartImport, Begin, LockTarget, LockInvoice,
      CommitLink, Crash, Pair, Unpair, Match, Sweep, Purge

LEMMA NextOthers ==
    ASSUME LinksInv, [Next]_vars
    PROVE  /\ condition' \in [Invoices -> Conditions \cup {"absent"}]
           /\ paired' \in [Reds -> Invoices \cup {NoInvoice}]
<1>1. ASSUME NEW w \in Workers, CommitImport(w)
      PROVE  condition' \in [Invoices -> Conditions \cup {"absent"}] /\ paired' = paired
  <2>1. call[w].said \in Conditions
    BY <1>1, CallShapes DEF CommitImport, LinksInv, ImportCalls
  <2> QED
    BY <1>1, <2>1 DEF CommitImport, LinksInv
<1>2. ASSUME NEW r \in Reds, NEW i \in Invoices, Pair(r, i)
      PROVE  condition' = condition /\ paired' \in [Reds -> Invoices \cup {NoInvoice}]
  BY <1>2 DEF Pair, LinksInv
<1>3. ASSUME NEW r \in Reds, Unpair(r)
      PROVE  condition' = condition /\ paired' \in [Reds -> Invoices \cup {NoInvoice}]
  BY <1>3 DEF Unpair, LinksInv
<1>4. CASE UNCHANGED <<condition, paired>>
  BY <1>4 DEF LinksInv
<1> QED
  BY <1>1, <1>2, <1>3, <1>4
  DEF Next, vars, LinksInv, StartLink, StartUnlink, StartConfirm, StartImport, Begin, LockTarget,
      LockInvoice, CommitLink, CommitUnlink, CommitConfirm, Crash, Match, Sweep, Purge

-----------------------------------------------------------------------------
(* The calls under way *)

Still == UNCHANGED <<condition, links, status, paired>>

LEMMA NobodyAlone == NoCall.kind \notin Alone
  BY InvoiceAssumption DEF NoCall

LEMMA SameLoaded ==
    ASSUME Still, NEW c, StillThere(c), AsLoaded(c)
    PROVE  StillThere(c)' /\ AsLoaded(c)'
<1>1. StillThere(c)'
  BY DEF Still, StillThere, LinkThere, RowsThere
<1>2. StatusOf(Changed(c), c.of)' = StatusOf(Changed(c), c.of)
  BY DEF Still, Changed, StatusOf, AllocatedOf, Effective, Offset, BlueOf, Repeated, ActiveOn
<1>3. AsLoaded(c)'
  BY <1>2 DEF Still, AsLoaded
<1> QED
  BY <1>1, <1>3

(* A call has ended, does not run alone, or has just loaded what is there. *)
LEMMA CallsStep ==
    ASSUME LinksInv, RowsStep, call' \in [Workers -> Calls],
           \A v \in Workers : \/ call'[v] = NoCall
                              \/ call'[v] = call[v] /\ call[v].kind \notin Alone
                              \/ StillThere(call'[v]) /\ AsLoaded(call'[v]) /\ Still
    PROVE  \A v \in Workers : StillThere(call[v])' /\ AsLoaded(call[v])'
<1> SUFFICES ASSUME NEW v \in Workers
             PROVE  StillThere(call[v])' /\ AsLoaded(call[v])'
  OBVIOUS
<1>1. CASE call'[v] = NoCall
  BY <1>1, NobodyAlone DEF NoCall, StillThere, AsLoaded
<1>2. CASE call'[v] = call[v] /\ call[v].kind \notin Alone
  <2>1. \A i \in Invoices, t \in Targets : links[i][t].method # "none" => links'[i][t].method # "none"
    BY DEF RowsStep, OneRow, RowChange
  <2>2. /\ call[v].kind = "link" /\ call[v].at = "commit" => call[v] \in CommitCalls
        /\ call[v].kind = "confirm" => call[v] \in ChangeCalls
        /\ call[v].kind = "import" => call[v] \in ImportCalls
    BY CallShapes DEF LinksInv
  <2>3. StillThere(call[v])
    BY DEF LinksInv
  <2>4. call[v].kind = "link" /\ call[v].at = "commit" => LinkThere(call[v])'
    BY <1>2, <2>1, <2>2, <2>3 DEF StillThere, LinkThere, CommitCalls
  <2>5. call[v].kind = "confirm" => links'[call[v].of][call[v].to].method # "none"
    BY <2>1, <2>2, <2>3 DEF StillThere, ChangeCalls
  <2>6. call[v].kind = "import" => RowsThere(call[v])'
    BY <1>2, <2>1, <2>2, <2>3 DEF StillThere, RowsThere, ImportCalls
  <2>7. StillThere(call[v])'
    BY <1>2, <2>4, <2>5, <2>6 DEF StillThere
  <2> QED
    BY <1>2, <2>7 DEF AsLoaded
<1>3. CASE StillThere(call'[v]) /\ AsLoaded(call'[v]) /\ Still
  BY <1>3, SameLoaded
<1> QED
  BY <1>1, <1>2, <1>3

(* Calls go on or end.                                                     *)
LEMMA ApartKept ==
    ASSUME LinksInv,
           \A v \in Workers : \/ call'[v] = NoCall
                              \/ call'[v] = call[v]
                              \/ call[v] # NoCall /\ call'[v].kind = call[v].kind
    PROVE  Apart'
<1> SUFFICES ASSUME NEW v \in Workers, NEW w \in Workers, v # w, call'[v].kind \in Alone
             PROVE  call'[w] = NoCall
  BY DEF Apart
<1>1. call[v].kind \in Alone
  BY NobodyAlone
<1> QED
  BY <1>1 DEF LinksInv, Apart

(* What a step leaves that changes rows or amounts: nothing that runs      *)
(* alone.                                                                  *)
CallsInv ==
    /\ call \in [Workers -> Calls]
    /\ Apart
    /\ \A w \in Workers : StillThere(call[w]) /\ AsLoaded(call[w])

LEMMA WritesCalls ==
    ASSUME LinksInv, RowsStep, call' \in [Workers -> Calls],
           \A v \in Workers : \/ call'[v] = NoCall
                              \/ call'[v] = call[v] /\ call[v].kind \notin Alone
    PROVE  CallsInv'
  BY CallsStep, ApartKept DEF CallsInv

LEMMA EndCalls ==
    ASSUME LinksInv, RowsStep, NEW w \in Workers, call[w] # NoCall, Finish(w)
    PROVE  CallsInv'
<1>1. /\ call' \in [Workers -> Calls] /\ call'[w] = NoCall
      /\ \A v \in Workers \ {w} : call'[v] = call[v]
  BY DEF Finish, LinksInv, Calls
<1>2. \A v \in Workers \ {w} : call[v].kind \notin Alone
  BY DEF LinksInv, Apart
<1> QED
  BY <1>1, <1>2, WritesCalls

(* One call goes on, and has loaded what is there.                         *)
LEMMA GoOnCalls ==
    ASSUME LinksInv, Still, NEW w \in Workers, NEW c \in Calls,
           call' = [call EXCEPT ![w] = c], call[w] # NoCall, c.kind = call[w].kind,
           StillThere(c), AsLoaded(c)
    PROVE  CallsInv'
<1>1. /\ call' \in [Workers -> Calls] /\ call'[w] = c
      /\ \A v \in Workers \ {w} : call'[v] = call[v]
  BY DEF LinksInv
<1>2. \A v \in Workers : StillThere(call'[v]) /\ AsLoaded(call'[v])
  BY <1>1 DEF LinksInv
<1>3. Apart'
  BY <1>1, ApartKept
<1>4. RowsStep
  BY SameRows DEF Still
<1> QED
  BY <1>1, <1>2, <1>3, <1>4, CallsStep DEF CallsInv

LEMMA BeginCalls ==
    ASSUME LinksInv, NEW w \in Workers, NEW c \in Calls, Begin(w, c), StillThere(c), AsLoaded(c)
    PROVE  /\ CallsInv' /\ Still /\ call[w] = NoCall /\ call'[w] = c
           /\ c.kind \in Alone => Quiet
           /\ \A v \in Workers \ {w} : call'[v] = call[v]
<1>1. /\ call' \in [Workers -> Calls] /\ call'[w] = c /\ Still /\ call[w] = NoCall
      /\ c.kind \in Alone => Quiet
      /\ NoneAlone
      /\ \A v \in Workers \ {w} : call'[v] = call[v]
  BY DEF LinksInv, Begin, Still, MayRun
<1>2. \A v \in Workers : StillThere(call'[v]) /\ AsLoaded(call'[v])
  BY <1>1 DEF LinksInv
<1>3. Apart'
  <2> SUFFICES ASSUME NEW v \in Workers, NEW u \in Workers, v # u, call'[v].kind \in Alone
               PROVE  call'[u] = NoCall
    BY DEF Apart
  <2>1. v = w
    BY <1>1 DEF NoneAlone
  <2> QED
    BY <1>1, <2>1 DEF Quiet
<1>4. RowsStep
  BY <1>1, SameRows DEF Still
<1> QED
  BY <1>1, <1>2, <1>3, <1>4, CallsStep DEF CallsInv

(* What LockInvoice makes of a call that fits.                             *)
CommitOf(w) ==
    [kind |-> "link", of |-> call[w].of, to |-> call[w].to, amount |-> AmountFor(w), at |-> "commit",
     loaded |-> links[call[w].of][call[w].to]]

LEMMA LockInvoiceTyped ==
    ASSUME LinksInv, NEW w \in Workers, LockInvoice(w), Fits(w)
    PROVE  /\ Still /\ call[w] \in WaitCalls /\ CommitOf(w) \in CommitCalls
           /\ call'[w] = CommitOf(w) /\ \A v \in Workers \ {w} : call'[v] = call[v]
           /\ CallsInv'
<1>1. call[w] \in WaitCalls /\ call[w].kind = "link" /\ call[w] # NoCall
  BY CallShapes DEF LinksInv, LockInvoice, At, NoCall
<1>2. /\ call[w].of \in Invoices /\ call[w].to \in Targets
      /\ call[w].amount \in (Nat \ {0}) \cup {Rest}
  BY <1>1 DEF WaitCalls
<1>3. AmountFor(w) \in Nat \ {0} /\ links[call[w].of][call[w].to] \in Rows
  BY <1>2, FitsMeans, Rows0
<1>4. CommitOf(w) \in CommitCalls /\ CommitOf(w).kind = "link"
  BY <1>2, <1>3 DEF CommitOf, CommitCalls
<1>5. Still /\ call' = [call EXCEPT ![w] = CommitOf(w)]
  BY DEF LockInvoice, Still, CommitOf
<1>6. StillThere(CommitOf(w)) /\ AsLoaded(CommitOf(w))
  <2>1. /\ CommitOf(w).of = call[w].of /\ CommitOf(w).to = call[w].to
        /\ CommitOf(w).loaded = links[call[w].of][call[w].to] /\ CommitOf(w).kind = "link"
    BY DEF CommitOf
  <2> QED
    BY <2>1 DEF StillThere, LinkThere, AsLoaded
<1>7. CommitOf(w) \in Calls
  BY <1>4 DEF Calls
<1>8. CallsInv'
  BY <1>1, <1>4, <1>5, <1>6, <1>7, GoOnCalls
<1> QED
  BY <1>1, <1>4, <1>5, <1>8 DEF LinksInv

LEMMA LockTargetTyped ==
    ASSUME LinksInv, NEW w \in Workers, LockTarget(w)
    PROVE  /\ CallsInv' /\ Still /\ ~Commits(w)' /\ call[w] \in WaitCalls
           /\ call'[w].kind = "link" /\ call'[w].to = call[w].to /\ call'[w].at = "invoice"
           /\ \A v \in Workers \ {w} : call'[v] = call[v]
<1> DEFINE c == [call[w] EXCEPT !.at = "invoice"]
<1>1. call[w] \in WaitCalls /\ call[w] # NoCall /\ call[w].kind = "link"
  BY CallShapes DEF LinksInv, LockTarget, At, NoCall
<1>2. c \in WaitCalls /\ c.kind = "link" /\ c.to = call[w].to /\ c.at = "invoice"
  BY <1>1 DEF WaitCalls
<1>3. call' = [call EXCEPT ![w] = c] /\ Still
  BY DEF LockTarget, LinksInv, Still
<1> HIDE DEF c
<1>4. c \in Calls /\ StillThere(c) /\ AsLoaded(c)
  BY <1>2 DEF Calls, StillThere, AsLoaded
<1>5. CallsInv'
  BY <1>1, <1>2, <1>3, <1>4, GoOnCalls
<1> QED
  BY <1>1, <1>2, <1>3, <1>5 DEF LinksInv, Commits

LEMMA StartLinkTyped ==
    ASSUME LinksInv, NEW w \in Workers, NEW r \in Requests, StartLink(w, r)
    PROVE  /\ CallsInv' /\ Still
           /\ call'[w].kind = "link" /\ call'[w].at = "target"
           /\ \A v \in Workers \ {w} : call'[v] = call[v]
<1> DEFINE c == [kind |-> "link", of |-> r.of, to |-> r.to, amount |-> r.amount, at |-> "target"]
<1>1. r.of \in Invoices /\ r.to \in Targets /\ r.amount \in (Nat \ {0}) \cup {Rest}
  BY InvoiceAssumption
<1>2. c \in WaitCalls /\ c.kind = "link" /\ c.at = "target"
  BY <1>1 DEF WaitCalls
<1>3. Begin(w, c)
  BY DEF StartLink
<1> HIDE DEF c
<1>4. c \in Calls /\ StillThere(c) /\ AsLoaded(c)
  BY <1>2 DEF Calls, StillThere, AsLoaded
<1> QED
  BY <1>2, <1>3, <1>4, BeginCalls

(* Unlinking and confirming load the link and the status.                  *)
LEMMA ChangeTyped ==
    ASSUME LinksInv, NEW i \in Invoices, NEW t \in Targets, NEW kind \in {"unlink", "confirm"},
           links[i][t].method # "none"
    PROVE  LET new == IF kind = "unlink" THEN Rejected(links[i][t]) ELSE Confirmed(links[i][t])
               c == Change(kind, i, t, new)
           IN  c \in ChangeCalls /\ c.kind = kind /\ c \in Calls /\ StillThere(c) /\ AsLoaded(c)
<1> DEFINE new == IF kind = "unlink" THEN Rejected(links[i][t]) ELSE Confirmed(links[i][t])
<1> DEFINE after == [links EXCEPT ![i][t] = new]
<1> DEFINE s == StatusOf(after, i)
<1> DEFINE c == Change(kind, i, t, new)
<1>1. /\ c.kind = kind /\ c.of = i /\ c.to = t /\ c.was = status[i] /\ c.status = s
      /\ c.writes = (new # links[i][t])
      /\ c = [kind |-> kind, of |-> i, to |-> t, writes |-> c.writes, was |-> c.was, status |-> c.status]
  BY DEF Change
<1>2. s \in Statuses /\ status[i] \in Statuses
  BY StatusTyped DEF LinksInv
<1>3. Changed(c) = after
  BY <1>1 DEF Changed
<1> HIDE DEF c, s, after, new
<1>4. c \in ChangeCalls
  BY <1>1, <1>2 DEF ChangeCalls
<1>5. c.status = StatusOf(Changed(c), c.of)
  BY <1>1, <1>3 DEF s
<1>6. StillThere(c)
  BY <1>1 DEF StillThere
<1>7. AsLoaded(c)
  BY <1>1, <1>5 DEF AsLoaded
<1> QED
  BY <1>1, <1>4, <1>6, <1>7 DEF Calls, c, new

LEMMA StartChangeTyped ==
    ASSUME LinksInv, NEW w \in Workers, NEW i \in Invoices, NEW t \in Targets,
           StartUnlink(w, i, t) \/ StartConfirm(w, i, t)
    PROVE  /\ CallsInv' /\ Still
           /\ call'[w].kind \in {"unlink", "confirm"}
           /\ \A v \in Workers \ {w} : call'[v] = call[v]
<1>1. CASE StartUnlink(w, i, t)
  <2> DEFINE c == Change("unlink", i, t, Rejected(links[i][t]))
  <2>1. Begin(w, c) /\ links[i][t].method # "none"
    BY <1>1 DEF StartUnlink
  <2>2. c \in Calls /\ StillThere(c) /\ AsLoaded(c) /\ c.kind = "unlink"
    BY <2>1, ChangeTyped
  <2> HIDE DEF c
  <2> QED
    BY <2>1, <2>2, BeginCalls
<1>2. CASE StartConfirm(w, i, t)
  <2> DEFINE c == Change("confirm", i, t, Confirmed(links[i][t]))
  <2>1. Begin(w, c) /\ links[i][t].method # "none"
    BY <1>2 DEF StartConfirm
  <2>2. c \in Calls /\ StillThere(c) /\ AsLoaded(c) /\ c.kind = "confirm"
    BY <2>1, ChangeTyped
  <2> HIDE DEF c
  <2> QED
    BY <2>1, <2>2, BeginCalls
<1> QED
  BY <1>1, <1>2

LEMMA StartImportTyped ==
    ASSUME LinksInv, NEW w \in Workers, NEW l \in Lists, StartImport(w, l)
    PROVE  /\ CallsInv' /\ Still
           /\ call'[w].kind = "import"
           /\ \A v \in Workers \ {w} : call'[v] = call[v]
<1> DEFINE a == Followed(links[l.of], l.of, l.ref, l.said)
<1> DEFINE c == [kind |-> "import", of |-> l.of, ref |-> l.ref, said |-> l.said,
                 known |-> condition[l.of], was |-> status[l.of], before |-> links[l.of],
                 after |-> a]
<1>1. l.of \in Invoices /\ l.ref \in Targets \cup {NoRef, Ambiguous} /\ l.said \in Conditions
  BY InvoiceAssumption
<1>2. links[l.of] \in [Targets -> Rows]
  BY <1>1 DEF LinksInv, Sound, Tables
<1>3. a \in [Targets -> Rows]
  BY <1>1, <1>2, FollowedRows
<1>4. /\ c.kind = "import" /\ c.of = l.of /\ c.before = links[l.of] /\ c.was = status[l.of]
      /\ c.after = Followed(c.before, c.of, c.ref, c.said)
  OBVIOUS
<1> HIDE DEF a
<1>5. c \in ImportCalls
  BY <1>1, <1>2, <1>3 DEF ImportCalls, LinksInv
<1>6. Begin(w, c)
  BY DEF StartImport, a
<1> HIDE DEF c
<1>7. StillThere(c) /\ AsLoaded(c)
  BY <1>1, <1>4 DEF StillThere, RowsThere, AsLoaded, LinksInv, Sound
<1> QED
  BY <1>4, <1>5, <1>6, <1>7, BeginCalls DEF Calls

(* A session that commits after a step was about to before it, or has just *)
(* locked the invoice.                                                     *)
LEMMA NextCalls ==
    ASSUME LinksInv, [Next]_vars
    PROVE  CallsInv'
<1>1. ASSUME NEW w \in Workers,
             \/ \E r \in Requests : StartLink(w, r)
             \/ \E i \in Invoices, t \in Targets : StartUnlink(w, i, t) \/ StartConfirm(w, i, t)
             \/ \E l \in Lists : StartImport(w, l)
      PROVE  CallsInv'
  BY <1>1, StartLinkTyped, StartChangeTyped, StartImportTyped
<1>2. ASSUME NEW w \in Workers, LockTarget(w) PROVE CallsInv'
  BY <1>2, LockTargetTyped
<1>3. ASSUME NEW w \in Workers, LockInvoice(w), Fits(w) PROVE CallsInv'
  BY <1>3, LockInvoiceTyped
<1>4. ASSUME NEW w \in Workers, call[w] # NoCall, Finish(w) PROVE CallsInv'
  BY <1>4, NextRows, EndCalls
<1>5. ASSUME NEW w \in Workers,
             \/ LockInvoice(w) /\ ~Fits(w)
             \/ CommitLink(w) \/ CommitUnlink(w) \/ CommitConfirm(w) \/ CommitImport(w) \/ Crash(w)
      PROVE  call[w] # NoCall /\ Finish(w)
  BY <1>5 DEF LockInvoice, CommitLink, CommitUnlink, CommitConfirm, CommitImport, Crash, At, NoCall
<1>6. ASSUME UNCHANGED call, NoneAlone PROVE CallsInv'
  <2>1. \A v \in Workers : call'[v] = call[v] /\ call[v].kind \notin Alone
    BY <1>6 DEF NoneAlone
  <2> QED
    BY <1>6, <2>1, NextRows, WritesCalls DEF LinksInv
<1>7. Quiet => NoneAlone
  BY NobodyAlone DEF Quiet, NoneAlone
<1>8. CASE UNCHANGED vars
  <2>1. Still /\ call' \in [Workers -> Calls] /\ \A v \in Workers : call'[v] = call[v]
    BY <1>8 DEF vars, Still, LinksInv
  <2>2. \A v \in Workers : StillThere(call'[v]) /\ AsLoaded(call'[v])
    BY <2>1 DEF LinksInv
  <2> QED
    BY <2>1, <2>2, NextRows, CallsStep, ApartKept DEF CallsInv
<1>9. ASSUME NEW confirm, Match(confirm) PROVE UNCHANGED call /\ NoneAlone
  BY <1>7, <1>9 DEF Match
<1>10. CASE Sweep \/ Purge
  BY <1>6, <1>7, <1>10 DEF Sweep, Purge
<1>11. ASSUME NEW r \in Reds, Unpair(r) \/ \E i \in Invoices : Pair(r, i) PROVE CallsInv'
  BY <1>6, <1>11 DEF Pair, Unpair, MayRun
<1> QED
  BY <1>1, <1>2, <1>3, <1>4, <1>5, <1>6, <1>8, <1>9, <1>10, <1>11 DEF Next

LEMMA InitLinks == Init => LinksInv
<1> SUFFICES ASSUME Init PROVE LinksInv
  OBVIOUS
<1>1. NoLink \in Rows
  BY DEF NoLink, Rows, Methods
<1>2. links \in Tables /\ \A i \in Invoices, t \in Targets : links[i][t] = NoLink
  BY <1>1 DEF Init, Tables
<1>3. call \in [Workers -> Calls] /\ \A w \in Workers : call[w] = NoCall /\ call[w].kind = "none"
  BY DEF Init, Calls, NoCall
<1>4. \A w \in Workers : StillThere(call[w]) /\ AsLoaded(call[w])
  BY <1>3, NobodyAlone DEF StillThere, AsLoaded
<1> QED
  BY <1>2, <1>3, <1>4 DEF Init, LinksInv, Sound, Statuses, Apart

LEMMA NextLinks == LinksInv /\ [Next]_vars => LinksInv'
<1> SUFFICES ASSUME LinksInv, [Next]_vars PROVE LinksInv'
  OBVIOUS
<1>1. RowsStep
  BY NextRows
<1>2. Sound(links)'
  BY <1>1 DEF RowsStep, OneRow, RowChange, Sound, LinksInv
<1> QED
  BY <1>2, NextStatus, NextOthers, NextCalls DEF LinksInv, CallsInv

THEOREM Links == Spec => []LinksInv
  BY InitLinks, NextLinks, PTL DEF Spec

(* Every variable has its type (tax_invoice_links as link_purchase_order,  *)
(* unlink_purchase, the lists and the jobs write it).                      *)
THEOREM TypeCorrect == Spec => []TypeOK
<1>1. LinksInv => TypeOK
  BY Rows0, RowShape DEF LinksInv, TypeOK, Methods, Statuses
<1> QED
  BY <1>1, Links, PTL

(* What unlink_purchase has rejected only link_purchase_order links again, *)
(* and run_match leaves a purchase alone that has a link to the invoice:   *)
(* links, unlinkings and confirmations overlap as they like, but no other  *)
(* call is under way while a list is imported or a job runs.               *)
ListsRunAlone == "import" \in Alone

THEOREM RejectionsStand ==
    ASSUME ListsRunAlone
    PROVE  Spec => DecisionsStand
<1>1. LinksInv /\ [Next]_vars =>
        [\A i \in Invoices, t \in Targets :
          /\ links[i][t].method = "rejected" => links'[i][t].method \in {"rejected", "manual"}
          /\ links'[i][t].method = "auto" /\ links[i][t].method # "auto" =>
                \A u \in Aliases(t) : links[i][u] = NoLink]_vars
  <2> SUFFICES ASSUME LinksInv, [Next]_vars, NEW i \in Invoices, NEW t \in Targets
               PROVE  /\ links[i][t].method = "rejected" => links'[i][t].method \in {"rejected", "manual"}
                      /\ links'[i][t].method = "auto" /\ links[i][t].method # "auto" =>
                            \A u \in Aliases(t) : links[i][u] = NoLink
    OBVIOUS
  <2>1. OneRow(i, t)
    BY NextRows DEF RowsStep
  <2>2. \A u \in Aliases(t) : links[i][u].method = "none" => links[i][u] = NoLink
    BY DEF Aliases, LinksInv, Sound
  <2> QED
    BY <2>1, <2>2 DEF OneRow, Stands, ListsRunAlone
<1> QED
  BY <1>1, Links, PTL DEF Spec, DecisionsStand


-----------------------------------------------------------------------------
(* Room under the locks of a manual link, when lists, confirmations and    *)
(* relations of red invoices are made while no other call runs             *)

RoomsRunAlone == {"confirm", "import", "pair"} \subseteq Alone

HasTarget(w) == call[w].kind = "link" /\ call[w].at # "target"

LocksApart ==
    \A v, w \in Workers : v # w =>
        /\ HasTarget(v) /\ HasTarget(w) => call[v].to # call[w].to
        /\ Commits(v) /\ Commits(w) => call[v].of # call[w].of

(* What a session about to commit found when it took its locks holds.      *)
RoomFor(c) ==
    /\ links[c.of][c.to] = c.loaded
    /\ AllocatedOf(links, c.of, Targets \ {c.to}) + c.amount <= Effective(c.of)
    /\ Limit[c.to] > 0 =>
          AllocatedTo(links, c.to) - Share(links[c.of][c.to]) + c.amount <= Limit[c.to]
    /\ \A u \in Aliases(c.to) \ {c.to} : ~Active(links[c.of][u])

ManualCounts ==
    \A i \in Invoices, t \in Targets : links[i][t].method = "manual" => links[i][t].confirmed

RoomInv ==
    /\ LinksInv
    /\ LocksApart
    /\ \A w \in Workers : Commits(w) => RoomFor(call[w])
    /\ ManualCounts

(* With what it has loaded, a session writes the link it was asked for.    *)
LEMMA CommitLinkWrites ==
    ASSUME RoomInv, NEW w \in Workers, CommitLink(w)
    PROVE  /\ call[w] \in CommitCalls /\ RoomFor(call[w])
           /\ links' \in Tables
           /\ links'[call[w].of][call[w].to] = Manual(call[w].amount)
           /\ \A j \in Invoices, u \in Targets :
                 j # call[w].of \/ u # call[w].to => links'[j][u] = links[j][u]
<1> DEFINE i == call[w].of
<1> DEFINE t == call[w].to
<1> DEFINE row == Written(links[i][t], call[w].loaded, Manual(call[w].amount))
<1>1. /\ call[w] \in CommitCalls /\ RoomFor(call[w]) /\ RowsStep
      /\ links' = [links EXCEPT ![i][t] = row]
  BY CommitLinkRows DEF RoomInv, CommitLink, At, Commits
<1>2. /\ i \in Invoices /\ t \in Targets /\ links[i][t] \in Rows /\ links \in Tables
      /\ call[w].amount \in Nat \ {0} /\ call[w].loaded = links[i][t]
  BY <1>1, Rows0 DEF CommitCalls, RoomFor, RoomInv
<1>3. row = Manual(call[w].amount)
  BY <1>2, ManualRow, WrittenRow
<1> HIDE DEF row
<1>4. /\ links'[i][t] = row
      /\ \A j \in Invoices, u \in Targets : j # i \/ u # t => links'[j][u] = links[j][u]
  BY <1>1, <1>2 DEF Tables
<1>5. links' \in Tables
  BY <1>1 DEF RowsStep
<1> QED
  BY <1>1, <1>3, <1>4, <1>5

LEMMA ManualStep ==
    ASSUME RoomsRunAlone, RoomInv, [Next]_vars
    PROVE  ManualCounts'
<1> SUFFICES ASSUME NEW i \in Invoices, NEW t \in Targets, links'[i][t].method = "manual"
             PROVE  links'[i][t].confirmed
  BY DEF ManualCounts
<1>1. OneRow(i, t)
  BY NextRows DEF RowsStep, RoomInv
<1>2. CASE ByHand(i, t)
  <2>1. PICK w \in Workers : CommitLink(w) /\ call[w].of = i /\ call[w].to = t
    BY <1>2 DEF ByHand
  <2>2. links'[i][t] = Manual(call[w].amount)
    BY <2>1, CommitLinkWrites
  <2> QED
    BY <2>2 DEF Manual
<1>3. CASE ByOthers(links[i][t], links'[i][t])
  BY <1>3 DEF ByOthers, RoomInv, ManualCounts
<1> QED
  BY <1>1, <1>2, <1>3 DEF OneRow, RoomsRunAlone

(* While no call is under way nothing rests on the sums.                   *)
LEMMA QuietStep ==
    ASSUME RoomsRunAlone, RoomInv, [Next]_vars, \A w \in Workers : call'[w] = NoCall
    PROVE  RoomInv'
<1>1. LinksInv' /\ ManualCounts'
  BY NextLinks, ManualStep DEF RoomInv
<1>2. \A w \in Workers : ~Commits(w)' /\ ~HasTarget(w)'
  BY DEF Commits, HasTarget, NoCall
<1>3. LocksApart'
  BY <1>2 DEF LocksApart
<1> QED
  BY <1>1, <1>2, <1>3 DEF RoomInv

LEMMA SameRoom ==
    ASSUME Still, NEW c, RoomFor(c)
    PROVE  RoomFor(c)'
  BY DEF Still, RoomFor, AllocatedOf, AllocatedTo, Effective, Offset, BlueOf

(* A call begins, waits or ends and the links stay.                        *)
LEMMA CallStepRoom ==
    ASSUME RoomsRunAlone, RoomInv, [Next]_vars, Still, NEW w \in Workers,
           \A v \in Workers \ {w} : call'[v] = call[v],
           HasTarget(w)' => \A v \in Workers \ {w} : HasTarget(v) => call[v].to # call'[w].to,
           Commits(w)' => /\ \A v \in Workers \ {w} : Commits(v) => call[v].of # call'[w].of
                          /\ RoomFor(call'[w])
    PROVE  RoomInv'
<1>1. LinksInv' /\ ManualCounts'
  BY NextLinks, ManualStep DEF RoomInv
<1>2. /\ \A v \in Workers \ {w} : Commits(v)' <=> Commits(v)
      /\ \A v \in Workers \ {w} : HasTarget(v)' <=> HasTarget(v)
  BY DEF Commits, HasTarget
<1>3. LocksApart'
  BY <1>2 DEF RoomInv, LocksApart
<1>4. ASSUME NEW v \in Workers, Commits(v)' PROVE RoomFor(call[v])'
  <2>1. RoomFor(call'[v])
    BY <1>2, <1>4 DEF RoomInv
  <2> QED
    BY <2>1, SameRoom
<1> QED
  BY <1>1, <1>3, <1>4 DEF RoomInv

LEMMA StartRoom ==
    ASSUME RoomsRunAlone, RoomInv, [Next]_vars, NEW w \in Workers,
           \/ \E r \in Requests : StartLink(w, r)
           \/ \E i \in Invoices, t \in Targets : StartUnlink(w, i, t) \/ StartConfirm(w, i, t)
           \/ \E l \in Lists : StartImport(w, l)
    PROVE  RoomInv'
<1>1. /\ Still /\ \A v \in Workers \ {w} : call'[v] = call[v]
      /\ ~HasTarget(w)' /\ ~Commits(w)'
  BY StartLinkTyped, StartChangeTyped, StartImportTyped DEF RoomInv, HasTarget, Commits
<1> QED
  BY <1>1, CallStepRoom

LEMMA LockTargetRoom ==
    ASSUME RoomsRunAlone, RoomInv, [Next]_vars, NEW w \in Workers, LockTarget(w)
    PROVE  RoomInv'
<1>1. /\ Still /\ \A v \in Workers \ {w} : call'[v] = call[v]
      /\ call'[w].kind = "link" /\ call'[w].to = call[w].to /\ ~Commits(w)'
  BY LockTargetTyped DEF RoomInv
<1>2. \A v \in Workers \ {w} : HasTarget(v) => call[v].to # call'[w].to
  BY <1>1 DEF LockTarget, HoldsTarget, HasTarget
<1> QED
  BY <1>1, <1>2, CallStepRoom

LEMMA LockInvoiceRoom ==
    ASSUME RoomsRunAlone, RoomInv, [Next]_vars, NEW w \in Workers, LockInvoice(w), Fits(w)
    PROVE  RoomInv'
<1> DEFINE i == call[w].of
<1> DEFINE t == call[w].to
<1>1. call[w].kind = "link" /\ call[w].at = "invoice" /\ HasTarget(w)
  BY DEF LockInvoice, At, HasTarget
<1>2. /\ \A v \in Workers \ {w} : call'[v] = call[v]
      /\ call'[w] = CommitOf(w) /\ call[w] \in WaitCalls /\ Still
  BY LockInvoiceTyped DEF RoomInv
<1>3. /\ call'[w].of = i /\ call'[w].to = t /\ call'[w].amount = AmountFor(w)
      /\ call'[w].loaded = links[i][t] /\ call'[w].kind = "link" /\ call'[w].at = "commit"
  BY <1>2 DEF CommitOf
<1>4. i \in Invoices /\ t \in Targets /\ call[w].amount \in (Nat \ {0}) \cup {Rest}
  BY <1>2 DEF WaitCalls
<1>5. /\ AllocatedOf(links, i, Targets \ {t}) + AmountFor(w) <= Effective(i)
      /\ Limit[t] > 0 => AllocatedTo(links, t) - Share(links[i][t]) + AmountFor(w) <= Limit[t]
  BY <1>4, FitsMeans DEF RoomInv
<1>6. \A u \in Aliases(t) \ {t} : ~Active(links[i][u])
  BY DEF Fits
<1>7. RoomFor(call'[w])
  BY <1>3, <1>5, <1>6 DEF RoomFor
<1>8. \A v \in Workers \ {w} : HasTarget(v) => call[v].to # t
  BY <1>1 DEF RoomInv, LocksApart
<1>9. \A v \in Workers \ {w} : Commits(v) => call[v].of # i
  BY DEF LockInvoice, HoldsInvoice, Commits
<1> HIDE DEF i, t
<1> QED
  BY <1>1, <1>2, <1>3, <1>7, <1>8, <1>9, CallStepRoom

LEMMA FinishRoom ==
    ASSUME RoomsRunAlone, RoomInv, [Next]_vars, NEW w \in Workers, Finish(w), Still
    PROVE  RoomInv'
<1>1. call'[w] = NoCall /\ \A v \in Workers \ {w} : call'[v] = call[v]
  BY DEF Finish, RoomInv, LinksInv
<1>2. ~HasTarget(w)' /\ ~Commits(w)'
  BY <1>1 DEF HasTarget, Commits, NoCall
<1> QED
  BY <1>1, <1>2, CallStepRoom

LEMMA SameEffective ==
    ASSUME UNCHANGED <<condition, paired>>, NEW i
    PROVE  Effective(i)' = Effective(i)
  BY DEF Effective, Offset, BlueOf

(* One link is made or taken apart, of another invoice than those about to *)
(* commit, and to none of their purchases unless its share goes.           *)
LEMMA CommitRoom ==
    ASSUME RoomsRunAlone, RoomInv, [Next]_vars, NEW w \in Workers, Finish(w), call[w] # NoCall,
           UNCHANGED <<condition, paired>>, NEW i \in Invoices, NEW t \in Targets,
           \A j \in Invoices, u \in Targets : j # i \/ u # t => links'[j][u] = links[j][u],
           \A v \in Workers \ {w} : Commits(v) => call[v].of # i,
           \A v \in Workers \ {w} : Commits(v) => call[v].to # t \/ ~Active(links'[i][t])
    PROVE  RoomInv'
<1>1. LinksInv' /\ ManualCounts' /\ links' \in Tables /\ links \in Tables
  BY NextLinks, ManualStep DEF RoomInv, LinksInv, Sound
<1>2. call'[w] = NoCall /\ \A v \in Workers \ {w} : call'[v] = call[v]
  BY DEF Finish, RoomInv, LinksInv
<1>3. /\ ~HasTarget(w)' /\ ~Commits(w)'
      /\ \A v \in Workers \ {w} : (Commits(v)' <=> Commits(v)) /\ (HasTarget(v)' <=> HasTarget(v))
  BY <1>2 DEF HasTarget, Commits, NoCall
<1>4. LocksApart'
  BY <1>2, <1>3 DEF RoomInv, LocksApart
<1>5. ASSUME NEW v \in Workers, Commits(v)' PROVE RoomFor(call[v])'
  <2> DEFINE j == call[v].of
  <2> DEFINE u == call[v].to
  <2>1. v # w /\ Commits(v) /\ call'[v] = call[v]
    BY <1>2, <1>3, <1>5
  <2>2. j # i /\ RoomFor(call[v]) /\ (u # t \/ ~Active(links'[i][t]))
    BY <2>1 DEF RoomInv
  <2>3. j \in Invoices /\ u \in Targets /\ call[v].amount \in Nat
    BY <2>1, CallShapes DEF RoomInv, LinksInv, Commits, CommitCalls
  <2>4. \A x \in Targets : links'[j][x] = links[j][x]
    BY <2>2, <2>3
  <2>5. AllocatedOf(links', j, Targets \ {u}) = AllocatedOf(links, j, Targets \ {u})
    BY <2>4, SameSums
  <2>6. AllocatedTo(links', u) <= AllocatedTo(links, u) /\ AllocatedTo(links, u) \in Nat
        /\ AllocatedTo(links', u) \in Nat
    <3>1. AllocatedTo(links, u) \in Nat /\ AllocatedTo(links', u) \in Nat
      BY <1>1, <2>3, ToNat
    <3>2. CASE u # t
      <4>1. \A k \in Invoices : links'[k][u] = links[k][u]
        BY <2>3, <3>2
      <4> QED
        BY <3>1, <4>1, SameSums
    <3>3. CASE u = t
      <4>1. AllocatedTo(links', u) = AllocatedTo(links, u) - Share(links[i][u]) + Share(links'[i][u])
        <5>1. \A k \in Invoices \ {i} : links'[k][u] = links[k][u]
          BY <2>3
        <5> QED
          BY <1>1, <2>3, <5>1, ToChange
      <4>2. Share(links'[i][u]) = 0
        BY <2>2, <3>3 DEF Share
      <4>3. Share(links[i][u]) \in Nat
        BY <1>1, <2>3, ShareNat DEF Tables
      <4> QED
        BY <3>1, <4>1, <4>2, <4>3
    <3> QED
      BY <3>1, <3>2, <3>3
  <2>7. \A x \in Aliases(u) : x \in Targets
    BY DEF Aliases
  <2>8. links[j][u] \in Rows /\ Share(links[j][u]) \in Nat /\ Limit[u] \in Nat
    BY <1>1, <2>3, ShareNat, InvoiceAssumption DEF Tables
  <2>9. Effective(call[v].of)' = Effective(j)
    BY <2>1, SameEffective
  <2> HIDE DEF j, u
  <2>10. /\ links'[j][u] = call[v].loaded
         /\ AllocatedOf(links', j, Targets \ {u}) + call[v].amount <= Effective(j)
         /\ \A x \in Aliases(u) \ {u} : ~Active(links'[j][x])
    BY <2>2, <2>3, <2>4, <2>5, <2>7 DEF RoomFor, j, u
  <2>11. Limit[u] > 0 => AllocatedTo(links', u) - Share(links'[j][u]) + call[v].amount <= Limit[u]
    <3>1. Limit[u] > 0 => AllocatedTo(links, u) - Share(links[j][u]) + call[v].amount <= Limit[u]
      BY <2>2 DEF RoomFor, j, u
    <3>2. Share(links'[j][u]) = Share(links[j][u])
      BY <2>3, <2>4
    <3> QED
      BY <2>3, <2>6, <2>8, <3>1, <3>2
  <2> QED
    BY <2>1, <2>9, <2>10, <2>11 DEF RoomFor, j, u
<1> QED
  BY <1>1, <1>4, <1>5 DEF RoomInv

LEMMA CommitLinkRoom ==
    ASSUME RoomsRunAlone, RoomInv, [Next]_vars, NEW w \in Workers, CommitLink(w)
    PROVE  RoomInv'
<1>1. /\ call[w] \in CommitCalls /\ Commits(w) /\ HasTarget(w) /\ call[w] # NoCall
      /\ Finish(w) /\ UNCHANGED <<condition, paired>>
      /\ \A j \in Invoices, u \in Targets :
            j # call[w].of \/ u # call[w].to => links'[j][u] = links[j][u]
  <2>1. Commits(w) /\ HasTarget(w) /\ call[w] # NoCall /\ Finish(w) /\ UNCHANGED <<condition, paired>>
    BY DEF CommitLink, At, Commits, HasTarget, NoCall
  <2> QED
    BY <2>1, CommitLinkWrites
<1>2. call[w].of \in Invoices /\ call[w].to \in Targets
  BY <1>1 DEF CommitCalls
<1>3. \A v \in Workers \ {w} : Commits(v) => call[v].of # call[w].of /\ call[v].to # call[w].to
  BY <1>1 DEF RoomInv, LocksApart, Commits, HasTarget
<1> QED
  BY <1>1, <1>2, <1>3, CommitRoom

LEMMA CommitUnlinkRoom ==
    ASSUME RoomsRunAlone, RoomInv, [Next]_vars, NEW w \in Workers, CommitUnlink(w)
    PROVE  RoomInv'
<1> DEFINE i == call[w].of
<1> DEFINE t == call[w].to
<1>1. /\ call[w] \in ChangeCalls /\ call[w] # NoCall
      /\ Finish(w) /\ UNCHANGED <<condition, paired>>
      /\ links' = [links EXCEPT ![i][t] = Rejected(links[i][t])]
      /\ \A v \in Workers : ~HoldsInvoice(v, i)
  BY CallShapes DEF CommitUnlink, NoCall, RoomInv, LinksInv
<1>2. i \in Invoices /\ t \in Targets /\ links \in Tables
  BY <1>1 DEF ChangeCalls, RoomInv, LinksInv, Sound
<1>3. links'[i][t] = Rejected(links[i][t])
  BY <1>1, <1>2 DEF Tables
<1>4. ~Active(links'[i][t])
  BY <1>2, <1>3, Rows0, RejectedRow DEF RoomInv
<1>5. \A j \in Invoices, u \in Targets : j # i \/ u # t => links'[j][u] = links[j][u]
  BY <1>1, <1>2 DEF Tables
<1>6. \A v \in Workers : Commits(v) => call[v].of # i
  BY <1>1 DEF HoldsInvoice, Commits
<1> HIDE DEF i, t
<1> QED
  BY <1>1, <1>2, <1>4, <1>5, <1>6, CommitRoom

LEMMA CommitAloneRoom ==
    ASSUME RoomsRunAlone, RoomInv, [Next]_vars, NEW w \in Workers,
           CommitConfirm(w) \/ CommitImport(w)
    PROVE  RoomInv'
<1>1. call[w].kind \in Alone /\ Finish(w)
  BY DEF RoomsRunAlone, CommitConfirm, CommitImport
<1>2. \A v \in Workers : call'[v] = NoCall
  BY <1>1 DEF Finish, RoomInv, LinksInv, Apart
<1> QED
  BY <1>2, QuietStep

LEMMA NextRoom ==
    ASSUME RoomsRunAlone, RoomInv, [Next]_vars
    PROVE  RoomInv'
<1>1. ASSUME NEW w \in Workers,
             \/ \E r \in Requests : StartLink(w, r)
             \/ \E i \in Invoices, t \in Targets : StartUnlink(w, i, t) \/ StartConfirm(w, i, t)
             \/ \E l \in Lists : StartImport(w, l)
      PROVE  RoomInv'
  BY <1>1, StartRoom
<1>2. ASSUME NEW w \in Workers, LockTarget(w) PROVE RoomInv'
  BY <1>2, LockTargetRoom
<1>3. ASSUME NEW w \in Workers, LockInvoice(w) PROVE RoomInv'
  <2>1. CASE Fits(w)
    BY <1>3, <2>1, LockInvoiceRoom
  <2>2. CASE ~Fits(w)
    BY <1>3, <2>2, FinishRoom DEF LockInvoice, Still
  <2> QED
    BY <2>1, <2>2
<1>4. ASSUME NEW w \in Workers, CommitLink(w) \/ CommitUnlink(w) PROVE RoomInv'
  BY <1>4, CommitLinkRoom, CommitUnlinkRoom
<1>5. ASSUME NEW w \in Workers, CommitConfirm(w) \/ CommitImport(w) PROVE RoomInv'
  BY <1>5, CommitAloneRoom
<1>6. ASSUME NEW w \in Workers, Crash(w) PROVE RoomInv'
  BY <1>6, FinishRoom DEF Crash, Still
<1>7. CASE Quiet /\ UNCHANGED call
  BY <1>7, QuietStep DEF Quiet
<1>8. ASSUME NEW r \in Reds, Unpair(r) \/ \E i \in Invoices : Pair(r, i) PROVE RoomInv'
  BY <1>7, <1>8 DEF Pair, Unpair, MayRun, RoomsRunAlone
<1>9. CASE UNCHANGED vars
  <2>1. LinksInv' /\ ManualCounts'
    BY NextLinks, ManualStep DEF RoomInv
  <2>2. LocksApart' /\ Still /\ UNCHANGED call
    BY <1>9 DEF vars, RoomInv, LocksApart, HasTarget, Commits, Still
  <2>3. ASSUME NEW v \in Workers, Commits(v)' PROVE RoomFor(call[v])'
    <3>1. RoomFor(call'[v])
      BY <2>2, <2>3 DEF RoomInv, Commits
    <3> QED
      BY <2>2, <3>1, SameRoom
  <2> QED
    BY <2>1, <2>2, <2>3 DEF RoomInv
<1> QED
  BY <1>1, <1>2, <1>3, <1>4, <1>5, <1>6, <1>7, <1>8, <1>9
  DEF Next, Match, Sweep, Purge

LEMMA InitRoom == Init => RoomInv
<1> SUFFICES ASSUME Init PROVE RoomInv
  OBVIOUS
<1>1. LinksInv
  BY InitLinks
<1>2. \A w \in Workers : ~Commits(w) /\ ~HasTarget(w)
  BY DEF Init, Commits, HasTarget, NoCall
<1>3. LocksApart
  BY <1>2 DEF LocksApart
<1>4. ManualCounts
  BY DEF Init, ManualCounts, NoLink
<1> QED
  BY <1>1, <1>2, <1>3, <1>4 DEF RoomInv

THEOREM RoomHolds ==
    ASSUME RoomsRunAlone
    PROVE  Spec => []RoomInv
<1>1. RoomInv /\ [Next]_vars => RoomInv'
  BY NextRoom
<1> QED
  BY <1>1, InitRoom, PTL DEF Spec


(* A status that the links and the red invoices known bear out.            *)
LEMMA StatusMeans ==
    ASSUME NEW s, NEW sum \in Nat, NEW e \in Nat, NEW twice \in BOOLEAN,
           s = IF sum > e \/ twice THEN "needs_review"
               ELSE IF e = 0 \/ sum = 0 THEN "unmatched"
               ELSE IF sum = e THEN "matched" ELSE "partial"
    PROVE  /\ s = "matched" => sum = e /\ sum > 0
           /\ s = "partial" => 0 < sum /\ sum < e
           /\ s = "unmatched" => sum = 0
           /\ twice => s = "needs_review"
<1>1. CASE sum > e \/ twice
  BY <1>1
<1>2. CASE ~(sum > e \/ twice) /\ (e = 0 \/ sum = 0)
  BY <1>2
<1>3. CASE ~(sum > e \/ twice) /\ ~(e = 0 \/ sum = 0)
  BY <1>3
<1> QED
  BY <1>1, <1>2, <1>3

LEMMA EffectiveNatAfter ==
    ASSUME NEW i \in Invoices
    PROVE  Effective(i)' \in Nat
<1> DEFINE rs == {q \in Reds : BlueOf(q)' = i}
<1>1. IsFiniteSet(rs)
  BY FS_Subset, InvoiceAssumption
<1>2. [r \in rs |-> Amount[r]] \in [rs -> Nat]
  BY AmountNat
<1>3. Offset(i)' \in Nat
  BY <1>1, <1>2, TotalNat DEF Offset
<1>4. Amount[i] \in Nat
  BY AmountNat
<1> QED
  BY <1>3, <1>4 DEF Effective

LEMMA StatusJustifiedAfter ==
    ASSUME links' \in Tables, NEW i \in Invoices, status'[i] = StatusOf(links, i)'
    PROVE  Justified(i)'
<1>1. Effective(i)' \in Nat /\ AllocatedOf(links', i, Targets) \in Nat
  BY EffectiveNatAfter, OfNat
<1>2. Repeated(links', i) \in BOOLEAN
  BY DEF Repeated
<1>3. status'[i] =
        IF AllocatedOf(links', i, Targets) > Effective(i)' \/ Repeated(links', i) THEN "needs_review"
        ELSE IF Effective(i)' = 0 \/ AllocatedOf(links', i, Targets) = 0 THEN "unmatched"
        ELSE IF AllocatedOf(links', i, Targets) = Effective(i)' THEN "matched" ELSE "partial"
  BY DEF StatusOf
<1>4. /\ status'[i] = "matched" => /\ AllocatedOf(links', i, Targets) = Effective(i)'
                                   /\ AllocatedOf(links', i, Targets) > 0
      /\ status'[i] = "partial" => /\ 0 < AllocatedOf(links', i, Targets)
                                   /\ AllocatedOf(links', i, Targets) < Effective(i)'
      /\ status'[i] = "unmatched" => AllocatedOf(links', i, Targets) = 0
      /\ Repeated(links', i) => status'[i] = "needs_review"
  BY <1>1, <1>2, <1>3, StatusMeans
<1> QED
  BY <1>4 DEF Justified

(* Amounts known before a step that leaves invoices and pairs alone.       *)
LEMMA StatusSame ==
    ASSUME UNCHANGED <<condition, paired>>, NEW i
    PROVE  StatusOf(links', i) = StatusOf(links, i)'
  BY DEF StatusOf, AllocatedOf, Effective, Offset, BlueOf, Repeated, ActiveOn

StatusesRunAlone == {"confirm", "import"} \subseteq Alone

Claims(i) == Adds(i) => Justified(i)'

SameAmounts(i) ==
    \A t \in Targets : \/ links'[i][t] = links[i][t]
                       \/ ~Active(links'[i][t])

LEMMA NothingAdded ==
    ASSUME LinksInv, NEW i \in Invoices, SameAmounts(i)
    PROVE  Claims(i)
<1>1. ASSUME NEW t \in Targets PROVE ~(Share(links'[i][t]) > Share(links[i][t]))
  <2>1. Share(links[i][t]) \in Nat
    BY Rows0, ShareNat
  <2>2. Share(links'[i][t]) \in {0, Share(links[i][t])}
    BY DEF SameAmounts, Share
  <2> QED
    BY <2>1, <2>2
<1> QED
  BY <1>1 DEF Claims, Adds

(* Steps that set the status by sync_business_match_status.                *)
LEMMA SyncClaims ==
    ASSUME LinksInv, [Next]_vars, UNCHANGED <<condition, paired>>, NEW i \in Invoices,
           status'[i] = StatusOf(links', i) \/ SameAmounts(i)
    PROVE  Claims(i)
<1>1. CASE status'[i] = StatusOf(links', i)
  <2>1. status'[i] = StatusOf(links, i)'
    BY <1>1, StatusSame
  <2>2. links' \in Tables
    BY NextLinks DEF LinksInv, Sound
  <2> QED
    BY <2>1, <2>2, StatusJustifiedAfter DEF Claims
<1>2. CASE SameAmounts(i)
  BY <1>2, NothingAdded
<1> QED
  BY <1>1, <1>2

LEMMA UnlinkClaims ==
    ASSUME LinksInv, NEW w \in Workers, CommitUnlink(w), NEW i \in Invoices
    PROVE  Claims(i)
<1>1. call[w] \in ChangeCalls /\ call[w].of \in Invoices /\ call[w].to \in Targets
  BY CallShapes DEF LinksInv, CommitUnlink, ChangeCalls
<1>2. \A t \in Targets : \/ links'[i][t] = links[i][t]
                         \/ links'[i][t] = Rejected(links[i][t])
  BY <1>1 DEF CommitUnlink, LinksInv, Sound, Tables
<1>3. \A t \in Targets : links[i][t] \in Rows
  BY DEF LinksInv, Sound, Tables
<1>4. SameAmounts(i)
  BY <1>2, <1>3 DEF SameAmounts, Active, Rejected, Rows
<1> QED
  BY <1>4, NothingAdded

LEMMA ConfirmClaims ==
    ASSUME StatusesRunAlone, LinksInv, [Next]_vars, NEW w \in Workers, CommitConfirm(w),
           NEW i \in Invoices
    PROVE  Claims(i)
<1>1. /\ call[w] \in ChangeCalls /\ call[w].kind \in Alone
      /\ call[w].of \in Invoices /\ call[w].to \in Targets
      /\ UNCHANGED <<condition, paired>>
  BY CallShapes DEF StatusesRunAlone, LinksInv, CommitConfirm, ChangeCalls
<1>2. call[w].was = status[call[w].of] /\ call[w].status = StatusOf(Changed(call[w]), call[w].of)
  BY <1>1 DEF LinksInv, AsLoaded, ChangeCalls
<1>3. status'[call[w].of] = call[w].status
  BY <1>1, <1>2 DEF CommitConfirm, StatusWritten, LinksInv
<1>4. links' = Changed(call[w]) \/ links' = links
  BY DEF CommitConfirm, Changed
<1>5. CASE UNCHANGED links
  BY <1>5, NothingAdded DEF SameAmounts
<1>6. CASE links' = Changed(call[w]) /\ i = call[w].of
  BY <1>1, <1>2, <1>3, <1>6, SyncClaims
<1>7. CASE links' = Changed(call[w]) /\ i # call[w].of
  <2>1. links'[i] = links[i]
    BY <1>1, <1>7 DEF Changed, LinksInv, Sound, Tables
  <2> QED
    BY <2>1, NothingAdded DEF SameAmounts
<1> QED
  BY <1>4, <1>5, <1>6, <1>7

LEMMA ImportClaims ==
    ASSUME StatusesRunAlone, LinksInv, [Next]_vars, NEW w \in Workers, CommitImport(w),
           NEW i \in Invoices
    PROVE  Claims(i)
<1>1. /\ call[w] \in ImportCalls /\ call[w].of \in Invoices /\ RowsThere(call[w])
      /\ call[w].was = status[call[w].of] /\ call[w].before = links[call[w].of]
  BY CallShapes
  DEF StatusesRunAlone, LinksInv, CommitImport, ImportCalls, StillThere, AsLoaded
<1>2. links' \in Tables
  BY NextLinks DEF LinksInv, Sound
<1>3. CASE i # call[w].of
  <2>1. \A t \in Targets : links'[i][t] = links[i][t]
    BY <1>3, CommitImportRows
  <2> QED
    BY <2>1, NothingAdded DEF SameAmounts
<1>4. CASE i = call[w].of /\ Collides(w)
  <2>1. links' = links
    BY <1>4 DEF CommitImport
  <2> QED
    BY <2>1, NothingAdded DEF SameAmounts
<1>5. CASE i = call[w].of /\ ~Collides(w) /\ call[w].ref = NoRef
  <2>1. Followed(call[w].before, i, call[w].ref, call[w].said) = call[w].before
    <3>1. call[w].ref \notin Targets /\ call[w].ref # Ambiguous
      BY <1>5, InvoiceAssumption
    <3> QED
      BY <3>1 DEF Followed, MayFollow
  <2>2. \A t \in Targets : links'[i][t] = call[w].after[t]
    BY <1>5, CommitImportRows DEF StatusesRunAlone
  <2>3. \A t \in Targets : links'[i][t] = links[i][t]
    BY <1>1, <1>5, <2>1, <2>2 DEF RowsThere
  <2> QED
    BY <2>3, NothingAdded DEF SameAmounts
<1>6. CASE i = call[w].of /\ ~Collides(w) /\ call[w].ref # NoRef
  <2> DEFINE new == IF ActiveOn(links', i) = {} THEN Fallback(call[w].ref, call[w].said)
                    ELSE StatusOf(links, i)'
  <2>1. status' = [status EXCEPT ![i] = StatusWritten(i, call[w].was, new)]
    <3>1. PICK j \in {call[w].of} :
             status' = [status EXCEPT ![j] =
                IF call[w].ref = NoRef THEN @
                ELSE StatusWritten(j, call[w].was,
                       IF ActiveOn(links', j) = {} THEN Fallback(call[w].ref, call[w].said)
                       ELSE StatusOf(links, j)')]
      BY <1>6 DEF CommitImport
    <3>2. j = i
      BY <1>6, <3>1
    <3> QED
      BY <1>6, <3>1, <3>2
  <2>2. status'[i] = new
    <3> HIDE DEF new
    <3>1. call[w].was = status[i] /\ i \in Invoices /\ status \in [Invoices -> Statuses]
      BY <1>1, <1>6 DEF LinksInv
    <3> QED
      BY <2>1, <3>1 DEF StatusWritten
  <2>3. CASE ActiveOn(links', i) = {}
    <3>1. \A t \in Targets : Share(links'[i][t]) = 0
      BY <2>3 DEF ActiveOn, Share
    <3>2. AllocatedOf(links', i, Targets) = 0
      <4>1. [t \in Targets |-> Share(links'[i][t])] = [t \in Targets |-> 0]
        BY <3>1
      <4>2. Units([t \in Targets |-> 0]) = {}
        BY DEF Units
      <4> QED
        BY <4>1, <4>2, FS_EmptySet DEF AllocatedOf, Total
    <3>3. ~Repeated(links', i)
      BY <2>3 DEF Repeated
    <3>4. status'[i] \in {"unmatched", "needs_review"}
      BY <2>2, <2>3 DEF Fallback
    <3> QED
      BY <3>2, <3>3, <3>4 DEF Claims, Justified
  <2>4. CASE ActiveOn(links', i) # {}
    BY <1>2, <2>2, <2>4, StatusJustifiedAfter DEF Claims
  <2> QED
    BY <2>3, <2>4
<1> QED
  BY <1>3, <1>4, <1>5, <1>6

LEMMA MatchClaims ==
    ASSUME LinksInv, [Next]_vars, NEW confirm \in BOOLEAN, Match(confirm), NEW i \in Invoices
    PROVE  Claims(i)
<1>1. PICK is \in SUBSET Matchable :
         Matched(is, confirm) /\ Sync(IF confirm THEN is ELSE {}, links')
  BY DEF Match, Matched
<1>2. /\ \A j \in is : /\ j \in Invoices /\ Best[j] \in Targets
                       /\ links[j][Best[j]].method = "none"
                       /\ links'[j][Best[j]].confirmed = confirm
      /\ \A j \in Invoices, t \in Targets :
            j \notin is \/ t # Best[j] => links'[j][t] = links[j][t]
  BY <1>1, MatchRows
<1>3. \A j \in Invoices, t \in Targets : links[j][t].method = "none" => ~Active(links[j][t])
  BY DEF Active, LinksInv, Sound, NoLink
<1>4. ~confirm => \A t \in Targets : \/ links'[i][t] = links[i][t]
                                     \/ ~Active(links[i][t]) /\ ~Active(links'[i][t])
  BY <1>2, <1>3 DEF Active
<1>5. UNCHANGED <<condition, paired>> /\ is \in SUBSET Invoices
  BY DEF Match, Matchable
<1> DEFINE js == IF confirm THEN is ELSE {}
<1>6. i \in js => status'[i] = StatusOf(links', i)
  BY <1>1 DEF Sync
<1>7. i \notin js => SameAmounts(i)
  BY <1>2, <1>4 DEF SameAmounts
<1> HIDE DEF js
<1> QED
  BY <1>5, <1>6, <1>7, SyncClaims

LEMMA NextClaims ==
    ASSUME StatusesRunAlone, LinksInv, [Next]_vars, NEW i \in Invoices
    PROVE  Claims(i)
<1>1. CASE UNCHANGED links
  BY <1>1, NothingAdded DEF SameAmounts
<1>2. ASSUME NEW confirm \in BOOLEAN, Match(confirm) PROVE Claims(i)
  BY <1>2, MatchClaims
<1>3. ASSUME NEW w \in Workers, CommitImport(w) PROVE Claims(i)
  BY <1>3, ImportClaims
<1>4. ASSUME NEW w \in Workers, CommitUnlink(w) \/ CommitConfirm(w) PROVE Claims(i)
  BY <1>4, UnlinkClaims, ConfirmClaims
<1>5. ASSUME NEW w \in Workers, CommitLink(w) PROVE Claims(i)
  <2> DEFINE is == {call[w].of}
  <2>1. UNCHANGED <<condition, paired>> /\ (i \in is => status'[i] = StatusOf(links', i))
    BY <1>5 DEF CommitLink, Sync
  <2>2. i \notin is => SameAmounts(i)
    <3>1. /\ call[w].of \in Invoices /\ links \in Tables
          /\ links' = [links EXCEPT ![call[w].of][call[w].to] =
                Written(links[call[w].of][call[w].to], call[w].loaded, Manual(call[w].amount))]
      BY <1>5, CommitLinkRows DEF CommitCalls, LinksInv, Sound
    <3>2. i \notin is => links'[i] = links[i]
      BY <3>1 DEF Tables
    <3> QED
      BY <3>2 DEF SameAmounts
  <2> HIDE DEF is
  <2> QED
    BY <2>1, <2>2, SyncClaims
<1>6. ASSUME Sweep PROVE Claims(i)
  <2> DEFINE is == {j \in Invoices : \E t \in Swept : Sweepable(links[j][t])}
  <2>1. /\ \A j \in Invoices, t \in Targets : ~(t \in Swept /\ Sweepable(links[j][t])) => links'[j][t] = links[j][t]
        /\ UNCHANGED <<condition, paired>> /\ (i \in is => status'[i] = StatusOf(links', i))
    BY <1>6 DEF Sweep, Sync
  <2>2. i \notin is => SameAmounts(i)
    BY <2>1 DEF SameAmounts
  <2> HIDE DEF is
  <2> QED
    BY <2>1, <2>2, SyncClaims
<1>7. ASSUME Purge PROVE Claims(i)
  <2> DEFINE gone == {j \in Invoices : condition[j] = "red" /\ ActiveOn(links, j) # {}}
  <2>1. /\ \A j \in Invoices, t \in Targets : j \notin gone => links'[j][t] = links[j][t]
        /\ UNCHANGED <<condition, paired>> /\ (i \in gone => status'[i] = StatusOf(links', i))
    BY <1>7 DEF Purge, Sync
  <2>2. i \notin gone => SameAmounts(i)
    BY <2>1 DEF SameAmounts
  <2> HIDE DEF gone
  <2> QED
    BY <2>1, <2>2, SyncClaims
<1> QED
  BY <1>1, <1>2, <1>3, <1>4, <1>5, <1>6, <1>7
  DEF Next, vars, StartLink, StartUnlink, StartConfirm, StartImport, Begin, LockTarget, LockInvoice,
      Finish, Crash, Pair, Unpair

(* sync_business_match_status: whoever allocates more of an invoice leaves *)
(* it with a status its links bear out, when no other call is under way    *)
(* while a link is confirmed, a list is imported or a job runs: links,     *)
(* unlinkings and the relations of red invoices overlap.                   *)
THEOREM StatusFollowsLinks ==
    ASSUME StatusesRunAlone
    PROVE  Spec => AdditionsAreJustified
<1>1. LinksInv /\ [Next]_vars =>
        [\A i \in Invoices : Adds(i) => Justified(i)']_vars
  BY NextClaims DEF Claims
<1> QED
  BY <1>1, Links, PTL DEF Spec, AdditionsAreJustified

(* link_purchase_order: a manual link leaves the invoice, after its red    *)
(* ones, and the record of the purchase no more allocated than they are    *)
(* worth, and takes the invoice to a purchase once only, when no other     *)
(* call is under way while a link is confirmed, a list is imported, a red  *)
(* invoice is related or a job runs: links and unlinkings overlap.         *)
THEOREM ManualLinksFit ==
    ASSUME RoomsRunAlone
    PROVE  Spec => LinkFits
<1> DEFINE Fit(i, t) ==
      links'[i][t] # links[i][t] /\ links'[i][t].method = "manual" =>
             /\ AllocatedOf(links', i, Targets) <= Effective(i)
             /\ Limit[t] > 0 => AllocatedTo(links', t) <= Limit[t]
             /\ \A u \in Aliases(t) \ {t} : ~Active(links'[i][u])
<1>1. ASSUME RoomInv, [Next]_vars, NEW i \in Invoices, NEW t \in Targets,
             links'[i][t] # links[i][t], links'[i][t].method = "manual"
      PROVE  Fit(i, t)
  <2>1. PICK w \in Workers : CommitLink(w) /\ call[w].of = i /\ call[w].to = t
    <3>1. OneRow(i, t)
      BY <1>1, NextRows DEF RowsStep, RoomInv
    <3>2. ~ByOthers(links[i][t], links'[i][t])
      BY <1>1 DEF ByOthers, RoomInv, ManualCounts
    <3> QED
      BY <3>1, <3>2 DEF OneRow, ByHand, RoomsRunAlone
  <2>2. /\ call[w] \in CommitCalls /\ RoomFor(call[w]) /\ links' \in Tables
        /\ links'[i][t] = Manual(call[w].amount)
        /\ \A j \in Invoices, u \in Targets : j # i \/ u # t => links'[j][u] = links[j][u]
    BY <1>1, <2>1, CommitLinkWrites
  <2>3. call[w].amount \in Nat /\ Share(links'[i][t]) = call[w].amount
    BY <2>2 DEF CommitCalls, Manual, Share, Active
  <2>4. links \in Tables /\ Amount[i] \in Nat /\ Limit[t] \in Nat
    BY <1>1, AmountNat, InvoiceAssumption DEF RoomInv, LinksInv, Sound
  <2>5. AllocatedOf(links', i, Targets) <= Effective(i)
    <3>1. AllocatedOf(links', i, Targets \ {t}) = AllocatedOf(links, i, Targets \ {t})
      BY <2>2, SameSums
    <3>2. AllocatedOf(links', i, Targets) = AllocatedOf(links, i, Targets \ {t}) + call[w].amount
      BY <2>2, <2>3, <3>1, WithoutOne
    <3> QED
      BY <2>1, <2>2, <3>2 DEF RoomFor
  <2>6. Limit[t] > 0 => AllocatedTo(links', t) <= Limit[t]
    <3>1. AllocatedTo(links', t) = AllocatedTo(links, t) - Share(links[i][t]) + call[w].amount
      BY <2>2, <2>3, <2>4, ToChange
    <3> QED
      BY <2>1, <2>2, <3>1 DEF RoomFor
  <2>7. \A u \in Aliases(t) \ {t} : ~Active(links'[i][u])
    BY <2>1, <2>2 DEF RoomFor, Aliases
  <2> QED
    BY <2>5, <2>6, <2>7
<1>2. RoomInv /\ [Next]_vars => [\A i \in Invoices, t \in Targets : Fit(i, t)]_vars
  BY <1>1
<1> QED
  BY <1>2, RoomHolds, PTL DEF Spec, LinkFits, MadeByHand

=============================================================================
