------------------------ MODULE StockDocumentsProofs ------------------------
(***************************************************************************)
(* The two kinds of documents that post to the consumable stock ledger,    *)
(* for every set of sessions, documents, consumables and quantities.       *)
(*                                                                         *)
(* Stocktake tasks.  The calls of a task race with each other and a        *)
(* completed task is not safe from them (see the runs), but the lock under *)
(* which a posting looks for its predecessor keeps the ledger right: a row *)
(* has one entry at most (PostingInv), and the counters have moved by what *)
(* the entries say (ExplainedInv).  The order in which these               *)
(* locks are taken keeps confirmations from blocking each other            *)
(* (OrderInv), and the shape of the rows gives the types (TypeInv).        *)
(*                                                                         *)
(* Purchases and usages (PurchaseInv).  A session works on documents it    *)
(* has locked and on counters nobody changes under it (SessionsInv), so    *)
(* what it found when it locked still holds when it commits; the documents *)
(* agree with each other (DocumentsInv), ids do not run out (IssuedInv),   *)
(* and the entries that a deletion reverses are those of the receipts and  *)
(* usages it takes off the record (BooksInv).                              *)
(***************************************************************************)
EXTENDS Stocktake, ConsumablePurchases, SharedLemmas, WellFoundedInduction


-----------------------------------------------------------------------------
(* Natural numbers *)

(* Natural numbers have a least one, and a largest one if they are         *)
(* finitely many.                                                          *)
LEMMA Least ==
    ASSUME NEW T, T \subseteq Nat, T # {}
    PROVE  \E x \in T : \A y \in T : x <= y
<1> DEFINE R == OpToRel(<, Nat)
<1>1. PICK x \in T : \A y \in T : <<y, x>> \notin R
  <2> HIDE DEF R
  <2>1. IsWellFoundedOn(R, Nat)
    BY NatLessThanWellFounded DEF R
  <2> QED
    BY <2>1, WFMin
<1>2. ASSUME NEW y \in T PROVE x <= y
  <2>1. <<y, x>> \in Nat \X Nat
    OBVIOUS
  <2>2. ~(<<y, x>>[1] < <<y, x>>[2])
    BY <1>1, <2>1 DEF OpToRel
  <2> QED
    BY <2>2
<1> QED
  BY <1>2

LEMMA Largest ==
    ASSUME NEW T, IsFiniteSet(T), T \subseteq Nat, T # {}
    PROVE  \E x \in T : \A y \in T : y <= x
<1> DEFINE above(x) == {y \in T : x <= y}
<1>1. \A x \in T : IsFiniteSet(above(x)) /\ Cardinality(above(x)) \in Nat
  <2> SUFFICES ASSUME NEW x \in T PROVE IsFiniteSet(above(x)) /\ Cardinality(above(x)) \in Nat
    OBVIOUS
  <2>1. above(x) \subseteq T
    OBVIOUS
  <2> HIDE DEF above
  <2> QED
    BY <2>1, FS_Subset, FS_CardinalityType
<1>2. PICK x \in T : \A y \in T : Cardinality(above(x)) <= Cardinality(above(y))
  <2> DEFINE sizes == {Cardinality(above(x)) : x \in T}
  <2>1. sizes \subseteq Nat /\ sizes # {}
    BY <1>1
  <2> HIDE DEF above
  <2>2. \E r \in sizes : \A s \in sizes : r <= s
    <3> HIDE DEF sizes
    <3> QED
      BY <2>1, Least
  <2> QED
    BY <2>2
<1>3. ASSUME NEW y \in T, ~(y <= x) PROVE FALSE
  <2>0. x \in Nat /\ y \in Nat /\ \A z \in T : z \in Nat
    OBVIOUS
  <2>1. above(y) \subseteq above(x) /\ x \in above(x) /\ x \notin above(y)
    <3>1. x < y
      BY <1>3, <2>0
    <3>2. ASSUME NEW z \in T, y <= z PROVE x <= z
      BY <2>0, <3>1, <3>2
    <3>3. above(y) \subseteq above(x)
      BY <3>2
    <3>4. x \in above(x)
      BY <2>0
    <3>5. x \notin above(y)
      BY <1>3
    <3> QED
      BY <3>3, <3>4, <3>5
  <2> HIDE DEF above
  <2>2. Cardinality(above(y)) <= Cardinality(above(x)) /\ Cardinality(above(y)) # Cardinality(above(x))
    BY <1>1, <2>1, FS_Subset
  <2> QED
    BY <1>1, <1>2, <2>2
<1> QED
  BY <1>3

-----------------------------------------------------------------------------
(* Row locks *)

(* No consumable is locked by two sessions.                                *)
ExclusiveRows ==
    \A v, w \in Workers : \A m \in Materials :
        m \in DOMAIN view[v] /\ m \in DOMAIN view[w] => v = w

LocksInv ==
    /\ view = [w \in Workers |-> view[w]]
    /\ bal = [m \in Materials |-> bal[m]]
    /\ \A w \in Workers : DOMAIN view[w] \subseteq Materials
    /\ ExclusiveRows
    /\ NoStaleView

LEMMA LockRowKeeps ==
    ASSUME LocksInv, NEW w \in Workers, NEW m \in Materials,
           LockRow(w, m), bal' = bal
    PROVE  LocksInv'
<1>1. FreshCopies(Workers, Materials, bal, view)
  BY DEF LocksInv, ExclusiveRows, NoStaleView, FreshCopies
<1>2. FreshCopies(Workers, Materials, bal, view')
  BY <1>1, TakingKeepsFresh DEF LockRow, Unlocked
<1> QED
  BY <1>2 DEF LocksInv, ExclusiveRows, NoStaleView, FreshCopies

LEMMA ReleaseKeeps ==
    ASSUME LocksInv, NEW w \in Workers, ReleaseRows(w),
           bal' = [m \in Materials |-> bal'[m]],
           \A m \in Materials : m \notin DOMAIN view[w] => bal'[m] = bal[m]
    PROVE  LocksInv'
<1>1. FreshCopies(Workers, Materials, bal, view)
  BY DEF LocksInv, ExclusiveRows, NoStaleView, FreshCopies
<1>2. DOMAIN NothingHeld = {}
  BY DEF NothingHeld
<1>3. /\ view' = [x \in Workers |-> view'[x]]
      /\ DOMAIN view'[w] = {}
      /\ \A x \in Workers \ {w} : view'[x] = view[x]
  BY <1>2 DEF ReleaseRows, LocksInv
<1>4. FreshCopies(Workers, Materials, bal', view')
  BY <1>1, <1>3, LeavingKeepsFresh
<1> QED
  BY <1>4 DEF LocksInv, ExclusiveRows, NoStaleView, FreshCopies

-----------------------------------------------------------------------------
(* One posting per row *)

Posting3(t, m) == <<"stocktake", t, m>>

(* A session that holds consumables is posting, and has seen every entry   *)
(* of the rows whose consumables it holds.                                 *)
PriorComplete ==
    \A w \in Workers : \A m \in DOMAIN view[w] :
        /\ pc[w] = "post"
        /\ \A e \in ledger : e.source = Posting3(request[w].task, m) => e \in seen[w].prior

SeenForm(s) == s = [status |-> s.status, rows |-> s.rows, prior |-> s.prior]

PostingInv ==
    /\ LocksInv
    /\ request = [w \in Workers |-> request[w]]
    /\ pc = [w \in Workers |-> pc[w]]
    /\ seen = [w \in Workers |-> seen[w]]
    /\ \A w \in Workers : SeenForm(seen[w])
    /\ PriorComplete
    /\ OneEntryPerRow

(* What the end of a call does to the sessions.                            *)
LEMMA FinishEffect ==
    ASSUME PostingInv, NEW w \in Workers, EndCall(w)
    PROVE  /\ request' = [x \in Workers |-> IF x = w THEN NoRequest ELSE request[x]]
           /\ pc' = [x \in Workers |-> IF x = w THEN "idle" ELSE pc[x]]
           /\ seen' = [x \in Workers |-> IF x = w THEN NoSeen ELSE seen[x]]
           /\ view' = [x \in Workers |-> IF x = w THEN NothingHeld ELSE view[x]]
           /\ DOMAIN NothingHeld = {}
           /\ \A x \in Workers : SeenForm(seen'[x])
<1>1. SeenForm(NoSeen)
  BY DEF SeenForm, NoSeen, Seen
<1> QED
  BY <1>1 DEF EndCall, ReleaseRows, PostingInv, LocksInv, NothingHeld

(* A session that ends without posting.                                    *)
LEMMA QuietFinishKeepsPosting ==
    ASSUME PostingInv, NEW w \in Workers, EndCall(w), UNCHANGED <<bal, ledger>>
    PROVE  PostingInv'
<1>1. LocksInv'
  BY ReleaseKeeps DEF PostingInv, LocksInv, EndCall
<1>2. PriorComplete'
  BY FinishEffect DEF PostingInv, PriorComplete
<1>3. OneEntryPerRow'
  BY DEF PostingInv, OneEntryPerRow
<1> QED
  BY <1>1, <1>2, <1>3, FinishEffect DEF PostingInv

(* A session that begins a call holds nothing yet.                         *)
LEMMA BeginKeepsPosting ==
    ASSUME PostingInv, NEW w \in Workers, NEW asked, NEW label, NEW read,
           SeenForm(read), BeginCall(w, asked, label, read)
    PROVE  PostingInv'
<1>1. /\ request' = [x \in Workers |-> IF x = w THEN asked ELSE request[x]]
      /\ pc' = [x \in Workers |-> IF x = w THEN label ELSE pc[x]]
      /\ seen' = [x \in Workers |-> IF x = w THEN read ELSE seen[x]]
      /\ UNCHANGED <<bal, ledger, view>>
      /\ DOMAIN view[w] = {}
  BY DEF BeginCall, ledgerVars, PostingInv, PriorComplete
<1>2. LocksInv'
  BY <1>1 DEF PostingInv, LocksInv, ExclusiveRows, NoStaleView
<1>3. PriorComplete'
  BY <1>1 DEF PostingInv, PriorComplete
<1>4. OneEntryPerRow'
  BY <1>1 DEF PostingInv, OneEntryPerRow
<1> QED
  BY <1>1, <1>2, <1>3, <1>4 DEF PostingInv

LEMMA CheckKeepsPosting ==
    ASSUME PostingInv, NEW w \in Workers, CheckBooks(w)
    PROVE  PostingInv'
<1>1. /\ pc[w] = "check" /\ UNCHANGED <<bal, ledger, view, request, seen>>
      /\ pc' = [x \in Workers |-> IF x = w THEN "post" ELSE pc[x]]
  BY DEF CheckBooks, ServesAt, ledgerVars, PostingInv
<1>2. LocksInv'
  BY <1>1 DEF PostingInv, LocksInv, ExclusiveRows, NoStaleView
<1>3. PriorComplete'
  BY <1>1 DEF PostingInv, PriorComplete
<1>4. OneEntryPerRow'
  BY <1>1 DEF PostingInv, OneEntryPerRow
<1> QED
  BY <1>1, <1>2, <1>3, <1>4 DEF PostingInv

LEMMA PriorUpdate ==
    ASSUME NEW a, NEW b, NEW c, NEW p, NEW s, s = [status |-> a, rows |-> b, prior |-> c]
    PROVE  [s EXCEPT !.prior = p] = [status |-> a, rows |-> b, prior |-> p]
  OBVIOUS

LEMMA LockKeepsPosting ==
    ASSUME PostingInv, NEW w \in Workers, NEW m \in Materials, LockForPosting(w, m)
    PROVE  PostingInv'
<1> DEFINE found == seen[w].prior \cup PostedBefore(w, m)
<1>1. /\ pc[w] = "post" /\ LockRow(w, m) /\ UNCHANGED <<bal, ledger, request, pc>>
      /\ seen' = [seen EXCEPT ![w].prior = found]
  BY DEF LockForPosting, ServesAt
<1>2. LocksInv'
  BY <1>1, LockRowKeeps DEF PostingInv
<1>3. /\ seen' = [x \in Workers |-> seen'[x]]
      /\ \A x \in Workers \ {w} : seen'[x] = seen[x]
      /\ seen'[w].prior = found
      /\ SeenForm(seen'[w])
  <2> DEFINE S == [status |-> seen[w].status, rows |-> seen[w].rows, prior |-> found]
  <2>1. [seen[w] EXCEPT !.prior = found] = S
    <3> DEFINE a == seen[w].status  b == seen[w].rows  c == seen[w].prior
    <3>1. seen[w] = [status |-> a, rows |-> b, prior |-> c]
      BY DEF PostingInv, SeenForm
    <3> HIDE DEF a, b, c, found
    <3>2. [seen[w] EXCEPT !.prior = found] = [status |-> a, rows |-> b, prior |-> found]
      BY <3>1, PriorUpdate
    <3> QED
      BY <3>2 DEF a, b
  <2>2. seen' = [seen EXCEPT ![w] = S]
    BY <1>1, <2>1
  <2>3. SeenForm(S) /\ S.prior = found
    BY DEF SeenForm
  <2> HIDE DEF S, found
  <2> QED
    BY <2>2, <2>3 DEF PostingInv
<1>4. /\ \A x \in Workers \ {w} : view'[x] = view[x]
      /\ DOMAIN view'[w] = DOMAIN view[w] \cup {m}
  BY <1>1 DEF LockRow, PostingInv, LocksInv
<1>5. PriorComplete'
  <2> SUFFICES ASSUME NEW x \in Workers, NEW n \in DOMAIN view'[x]
               PROVE  /\ pc'[x] = "post"
                      /\ \A e \in ledger' : e.source = Posting3(request'[x].task, n)
                                               => e \in seen'[x].prior
    BY DEF PriorComplete
  <2>1. CASE x # w
    BY <2>1, <1>1, <1>3, <1>4 DEF PostingInv, PriorComplete
  <2>2. CASE x = w /\ n \in DOMAIN view[w]
    BY <2>2, <1>1, <1>3 DEF PostingInv, PriorComplete
  <2>3. CASE x = w /\ n = m
    BY <2>3, <1>1, <1>3 DEF PostedBefore, StocktakeEntry, Posting3
  <2> QED
    BY <2>1, <2>2, <2>3, <1>4
<1>6. OneEntryPerRow'
  BY <1>1 DEF PostingInv, OneEntryPerRow
<1> QED
  BY <1>1, <1>2, <1>3, <1>5, <1>6 DEF PostingInv

(* A confirmation that commits adds entries of rows that had none.         *)
LEMMA ConfirmEntries ==
    ASSUME PostingInv, NEW w \in Workers, CommitConfirm(w)
    PROVE  \E new \in SUBSET DOMAIN view[w] :
             /\ ledger' = ledger \cup {StocktakeEntry(w, m) : m \in new}
             /\ \A m \in new : \A e \in ledger : e.source # StocktakeEntry(w, m).source
             /\ \A m \in Materials : m \notin new => bal'[m] = bal[m]
<1> DEFINE new == {m \in ToPost(w) : StocktakeEntry(w, m) \notin seen[w].prior}
<1>1. /\ ledger' = ledger \cup {StocktakeEntry(w, m) : m \in new}
      /\ \A e \in seen[w].prior : e = StocktakeEntry(w, e.mat)
      /\ \A m \in Materials : m \notin new => bal'[m] = bal[m]
  BY DEF CommitConfirm, Contradicted
<1>2. new \subseteq DOMAIN view[w]
  BY DEF CommitConfirm, ToLock
<1>3. ASSUME NEW m \in new, NEW e \in ledger, e.source = StocktakeEntry(w, m).source
      PROVE  FALSE
  <2>1. StocktakeEntry(w, m).source = Posting3(request[w].task, m)
    BY DEF StocktakeEntry, Posting3
  <2>2. e \in seen[w].prior
    BY <1>2, <1>3, <2>1 DEF PostingInv, PriorComplete
  <2>3. e = StocktakeEntry(w, e.mat)
    BY <1>1, <2>2
  <2>4. e.source = Posting3(request[w].task, e.mat)
    BY <2>3 DEF StocktakeEntry, Posting3
  <2>5. e.mat = m
    BY <1>3, <2>1, <2>4 DEF Posting3
  <2> QED
    BY <2>2, <2>3, <2>5
<1> HIDE DEF new
<1> QED
  BY <1>1, <1>2, <1>3

LEMMA ConfirmKeepsPosting ==
    ASSUME PostingInv, NEW w \in Workers, CommitConfirm(w)
    PROVE  PostingInv'
<1>1. PICK new \in SUBSET DOMAIN view[w] :
             /\ ledger' = ledger \cup {StocktakeEntry(w, m) : m \in new}
             /\ \A m \in new : \A e \in ledger : e.source # StocktakeEntry(w, m).source
             /\ \A m \in Materials : m \notin new => bal'[m] = bal[m]
  BY ConfirmEntries
<1>2. EndCall(w)
  BY DEF CommitConfirm
<1>3. LocksInv'
  <2>1. bal' = [m \in Materials |-> bal'[m]] /\ ReleaseRows(w)
    BY DEF CommitConfirm, EndCall
  <2>2. \A m \in Materials : m \notin DOMAIN view[w] => bal'[m] = bal[m]
    BY <1>1
  <2> QED
    BY <2>1, <2>2, ReleaseKeeps DEF PostingInv
<1>4. \A m \in new : StocktakeEntry(w, m).source = Posting3(request[w].task, m)
  BY DEF StocktakeEntry, Posting3
<1>5. OneEntryPerRow'
  <2> SUFFICES ASSUME NEW e \in ledger', NEW f \in ledger', e.source = f.source
               PROVE  e = f
    BY DEF OneEntryPerRow
  <2>1. CASE e \in ledger /\ f \in ledger
    BY <2>1 DEF PostingInv, OneEntryPerRow
  <2>2. CASE \E m \in new : e = StocktakeEntry(w, m)
    <3>1. PICK m \in new : e = StocktakeEntry(w, m)
      BY <2>2
    <3>2. f \notin ledger
      BY <1>1, <3>1
    <3>3. PICK n \in new : f = StocktakeEntry(w, n)
      BY <1>1, <3>2
    <3>4. Posting3(request[w].task, m) = Posting3(request[w].task, n)
      BY <1>4, <3>1, <3>3
    <3> QED
      BY <3>1, <3>3, <3>4 DEF Posting3
  <2>3. CASE \E m \in new : f = StocktakeEntry(w, m)
    <3>1. e \notin ledger
      BY <1>1, <2>3
    <3> QED
      BY <1>1, <2>2, <3>1
  <2> QED
    BY <1>1, <2>1, <2>2, <2>3
<1>6. PriorComplete'
  <2> SUFFICES ASSUME NEW x \in Workers, NEW n \in DOMAIN view'[x]
               PROVE  /\ pc'[x] = "post"
                      /\ \A e \in ledger' : e.source = Posting3(request'[x].task, n)
                                               => e \in seen'[x].prior
    BY DEF PriorComplete
  <2>1. /\ x # w /\ n \in DOMAIN view[x] /\ pc'[x] = pc[x]
        /\ request'[x] = request[x] /\ seen'[x] = seen[x]
    BY <1>2, FinishEffect
  <2>2. n \notin DOMAIN view[w]
    BY <2>1 DEF PostingInv, LocksInv, ExclusiveRows
  <2>3. ASSUME NEW m \in new PROVE Posting3(request[w].task, m) # Posting3(request[x].task, n)
    <3>1. m # n
      BY <2>2
    <3> QED
      BY <3>1 DEF Posting3
  <2> QED
    BY <1>1, <1>4, <2>1, <2>3 DEF PostingInv, PriorComplete
<1> QED
  BY <1>2, <1>3, <1>5, <1>6, FinishEffect DEF PostingInv

LEMMA MoveStockKeepsPosting ==
    ASSUME PostingInv, NEW v \in Movements, MoveStock(v)
    PROVE  PostingInv'
<1>1. /\ v.mat \in Materials /\ \A w \in Workers : v.mat \notin DOMAIN view[w]
      /\ \A e \in ledger : e.source # MovementEntry(v).source
      /\ ledger' = ledger \cup {MovementEntry(v)}
      /\ UNCHANGED <<view, request, pc, seen>>
  BY StocktakeAssumption DEF MoveStock, Unlocked, sessionVars
<1>2. /\ bal' = [m \in Materials |-> bal'[m]]
      /\ \A m \in Materials \ {v.mat} : bal'[m] = bal[m]
  BY DEF MoveStock, PostingInv, LocksInv
<1>3. LocksInv'
  BY ZenonT(30), <1>1, <1>2 DEF PostingInv, LocksInv, ExclusiveRows, NoStaleView
<1>4. MovementEntry(v).source = <<"request", v.key>>
  BY DEF MovementEntry
<1>5. \A t, m : <<"request", v.key>> # Posting3(t, m)
  BY DEF Posting3
<1>6. PriorComplete'
  BY <1>1, <1>4, <1>5 DEF PostingInv, PriorComplete
<1>7. OneEntryPerRow'
  BY <1>1 DEF PostingInv, OneEntryPerRow
<1> QED
  BY <1>1, <1>3, <1>6, <1>7 DEF PostingInv

LEMMA PostingStep == PostingInv /\ [StocktakeNext]_stocktakeVars => PostingInv'
<1> SUFFICES ASSUME PostingInv, [StocktakeNext]_stocktakeVars PROVE PostingInv'
  OBVIOUS
<1>1. CASE UNCHANGED <<bal, ledger, view, request, pc, seen>>
  BY <1>1 DEF PostingInv, LocksInv, ExclusiveRows, NoStaleView, PriorComplete, OneEntryPerRow
<1>2. ASSUME NEW w \in Workers, StartCall(w) PROVE PostingInv'
  <2>1. \A s, rs : SeenForm(Seen(s, rs))
    BY DEF SeenForm, Seen
  <2>2. \E asked, label, s, rs : BeginCall(w, asked, label, Seen(s, rs))
    BY <1>2 DEF StartCall, StartCreateTask, StartConfirm, StartCancel, StartSave, TaskRead
  <2> QED
    BY <2>1, <2>2, BeginKeepsPosting
<1>3. ASSUME NEW w \in Workers, StepCall(w) PROVE PostingInv'
  <2>1. CASE \/ CommitCreateTask(w) \/ CommitSave(w) \/ CommitCancel(w)
             \/ RefuseBooks(w) \/ RefuseContradiction(w)
    <3>1. EndCall(w) /\ UNCHANGED <<bal, ledger>>
      BY <2>1 DEF CommitCreateTask, CommitSave, CommitCancel, RefuseBooks, RefuseContradiction
    <3> QED
      BY <3>1, QuietFinishKeepsPosting
  <2> QED
    BY <1>3, <2>1, CheckKeepsPosting, LockKeepsPosting, ConfirmKeepsPosting DEF StepCall
<1>4. ASSUME NEW w \in Workers, CrashCall(w) PROVE PostingInv'
  BY <1>4, QuietFinishKeepsPosting DEF CrashCall
<1>5. ASSUME NEW d \in Documents, ImportDocument(d) PROVE PostingInv'
  BY <1>1, <1>5 DEF ImportDocument, ledgerVars, sessionVars
<1> QED
  BY <1>1, <1>2, <1>3, <1>4, <1>5, MoveStockKeepsPosting DEF StocktakeNext, stocktakeVars

LEMMA PostingInit == StocktakeInit => PostingInv
<1> SUFFICES ASSUME StocktakeInit PROVE PostingInv
  OBVIOUS
<1>1. LocksInv
  BY DEF StocktakeInit, LedgerInit, NothingHeld, LocksInv, ExclusiveRows, NoStaleView
<1>2. PriorComplete /\ OneEntryPerRow
  BY DEF StocktakeInit, LedgerInit, NothingHeld, PriorComplete, OneEntryPerRow
<1>3. SeenForm(NoSeen)
  BY DEF SeenForm, NoSeen, Seen
<1> QED
  BY <1>1, <1>2, <1>3 DEF StocktakeInit, PostingInv

(* The postings of a confirmation work from counters nobody has changed    *)
(* since they were read.                                                   *)
THEOREM PostingsAreFresh == StocktakeSpec => []NoStaleView
<1>1. PostingInv => NoStaleView
  BY DEF PostingInv, LocksInv
<1> QED
  BY <1>1, PostingInit, PostingStep, PTL DEF StocktakeSpec

-----------------------------------------------------------------------------
(* No wait cycle                                                           *)
(*                                                                         *)
(* A session locks the consumables of its rows in the order of their       *)
(* codes, so what it holds sorts before what it still waits for.  In a     *)
(* circle of sessions the consumables asked for would sort ever later, and *)
(* there are finitely many: the one that asks for the last waits for none. *)

HoldsLowest ==
    \A w \in Workers : \A m \in DOMAIN view[w] : \A n \in ToLock(w) : Code[m] <= Code[n]

OrderInv == PostingInv /\ HoldsLowest

LEMMA LockEffect ==
    ASSUME PostingInv, NEW w \in Workers, NEW m \in Materials, LockForPosting(w, m)
    PROVE  /\ \A x \in Workers \ {w} : view'[x] = view[x] /\ seen'[x] = seen[x]
           /\ DOMAIN view'[w] = DOMAIN view[w] \cup {m}
           /\ seen'[w].rows = seen[w].rows /\ seen'[w].status = seen[w].status
<1>1. LockRow(w, m) /\ seen' = [seen EXCEPT ![w].prior = @ \cup PostedBefore(w, m)]
  BY DEF LockForPosting
<1>2. /\ \A x \in Workers \ {w} : view'[x] = view[x]
      /\ DOMAIN view'[w] = DOMAIN view[w] \cup {m}
  BY <1>1 DEF LockRow, PostingInv, LocksInv
<1>3. seen[w] = [status |-> seen[w].status, rows |-> seen[w].rows, prior |-> seen[w].prior]
  BY DEF PostingInv, SeenForm
<1>4. /\ [seen[w] EXCEPT !.prior = @ \cup PostedBefore(w, m)].rows = seen[w].rows
      /\ [seen[w] EXCEPT !.prior = @ \cup PostedBefore(w, m)].status = seen[w].status
  <2> DEFINE a == seen[w].status  b == seen[w].rows  c == seen[w].prior  p == c \cup PostedBefore(w, m)
  <2> HIDE DEF a, b, c, p
  <2>1. seen[w] = [status |-> a, rows |-> b, prior |-> c]
    BY <1>3 DEF a, b, c
  <2>2. [seen[w] EXCEPT !.prior = p] = [status |-> a, rows |-> b, prior |-> p]
    BY <2>1, PriorUpdate
  <2>3. [seen[w] EXCEPT !.prior = p].rows = b /\ [seen[w] EXCEPT !.prior = p].status = a
    BY <2>2
  <2> QED
    BY <2>3 DEF a, b, c, p
<1>5. seen'[w] = [seen[w] EXCEPT !.prior = @ \cup PostedBefore(w, m)]
  BY <1>1 DEF PostingInv
<1> QED
  BY <1>1, <1>2, <1>4, <1>5 DEF PostingInv

LEMMA LockKeepsOrder ==
    ASSUME OrderInv, NEW w \in Workers, NEW m \in Materials, LockForPosting(w, m)
    PROVE  HoldsLowest'
<1>1. /\ m \in ToLock(w)
      /\ \A n \in ToLock(w) : Code[m] <= Code[n]
      /\ \A x \in Workers \ {w} : view'[x] = view[x] /\ seen'[x] = seen[x]
      /\ DOMAIN view'[w] = DOMAIN view[w] \cup {m}
      /\ seen'[w].rows = seen[w].rows
  BY LockEffect DEF LockForPosting, OrderInv
<1>2. ToLock(w)' \subseteq ToLock(w)
  BY <1>1 DEF ToLock, ToPost
<1>3. \A x \in Workers \ {w} : ToLock(x)' = ToLock(x)
  BY <1>1 DEF ToLock, ToPost
<1> QED
  BY <1>1, <1>2, <1>3 DEF OrderInv, HoldsLowest

(* A session that holds nothing has nothing out of order.                  *)
LEMMA OtherViewsKeepOrder ==
    ASSUME OrderInv, NEW w \in Workers, DOMAIN view'[w] = {},
           \A x \in Workers \ {w} : view'[x] = view[x] /\ seen'[x] = seen[x]
    PROVE  HoldsLowest'
<1>1. \A x \in Workers \ {w} : ToLock(x)' = ToLock(x)
  BY DEF ToLock, ToPost
<1> QED
  BY <1>1 DEF OrderInv, HoldsLowest

LEMMA OrderStep == OrderInv /\ [StocktakeNext]_stocktakeVars => OrderInv'
<1> SUFFICES ASSUME OrderInv, [StocktakeNext]_stocktakeVars PROVE HoldsLowest'
  BY PostingStep DEF OrderInv
<1>1. CASE UNCHANGED <<view, seen>>
  BY <1>1 DEF OrderInv, HoldsLowest, ToLock, ToPost
<1>2. ASSUME NEW w \in Workers, EndCall(w) PROVE HoldsLowest'
  BY <1>2, FinishEffect, OtherViewsKeepOrder DEF OrderInv
<1>3. ASSUME NEW w \in Workers, StartCall(w) PROVE HoldsLowest'
  <2>1. \E asked, label, read : BeginCall(w, asked, label, read)
    BY <1>3 DEF StartCall, StartCreateTask, StartConfirm, StartCancel, StartSave
  <2>2. /\ \A x \in Workers \ {w} : view'[x] = view[x] /\ seen'[x] = seen[x]
        /\ DOMAIN view'[w] = {}
    BY <2>1 DEF BeginCall, ledgerVars, OrderInv, PostingInv, PriorComplete
  <2> QED
    BY <2>2, OtherViewsKeepOrder
<1>4. ASSUME NEW w \in Workers, StepCall(w) PROVE HoldsLowest'
  <2>1. CASE \/ CommitCreateTask(w) \/ CommitSave(w) \/ CommitCancel(w) \/ CommitConfirm(w)
             \/ RefuseBooks(w) \/ RefuseContradiction(w)
    <3>1. EndCall(w)
      BY <2>1 DEF CommitCreateTask, CommitSave, CommitCancel, CommitConfirm, RefuseBooks,
                  RefuseContradiction
    <3> QED
      BY <3>1, <1>2
  <2>2. CASE CheckBooks(w)
    BY <1>1, <2>2 DEF CheckBooks, ledgerVars
  <2> QED
    BY <1>4, <2>1, <2>2, LockKeepsOrder DEF StepCall
<1>5. ASSUME NEW w \in Workers, CrashCall(w) PROVE HoldsLowest'
  BY <1>2, <1>5 DEF CrashCall
<1>6. ASSUME NEW v \in Movements, MoveStock(v) PROVE HoldsLowest'
  BY <1>1, <1>6 DEF MoveStock, sessionVars
<1>7. ASSUME NEW d \in Documents, ImportDocument(d) PROVE HoldsLowest'
  BY <1>1, <1>7 DEF ImportDocument, ledgerVars, sessionVars
<1> QED
  BY <1>1, <1>3, <1>4, <1>5, <1>6, <1>7 DEF StocktakeNext, stocktakeVars

LEMMA OrderInit == StocktakeInit => OrderInv
<1>1. StocktakeInit => HoldsLowest
  BY DEF StocktakeInit, LedgerInit, NothingHeld, HoldsLowest
<1> QED
  BY <1>1, PostingInit DEF OrderInv

(* The consumables that sort no earlier than m.                            *)
From(m) == {n \in Materials : Code[n] >= Code[m]}

LEMMA FewerFromLater ==
    ASSUME NEW m \in Materials, NEW n \in Materials, Code[m] < Code[n]
    PROVE  /\ Cardinality(From(m)) \in Nat /\ Cardinality(From(n)) \in Nat
           /\ Cardinality(From(n)) < Cardinality(From(m))
<1>1. \A k \in Materials : Code[k] \in Nat
  BY StocktakeAssumption
<1>2. From(n) \subseteq From(m) /\ m \in From(m) /\ m \notin From(n)
  BY <1>1 DEF From
<1>3. IsFiniteSet(From(m)) /\ IsFiniteSet(From(n))
  BY LedgerAssumption, FS_Subset DEF From
<1>4. Cardinality(From(m)) \in Nat /\ Cardinality(From(n)) \in Nat
  BY <1>3, FS_CardinalityType
<1>5. Cardinality(From(n)) <= Cardinality(From(m)) /\ Cardinality(From(n)) # Cardinality(From(m))
  BY <1>2, <1>3, FS_Subset
<1> QED
  BY <1>4, <1>5

(* What a session asks for next.                                           *)
Asked(v, m) == m \in ToLock(v) /\ \A n \in ToLock(v) : Code[m] <= Code[n]

(* Whoever holds what another asks for asks for something later.           *)
LEMMA HoldersAskLater ==
    ASSUME OrderInv, NEW w \in Workers, NEW m \in DOMAIN view[w], NEW n \in ToLock(w)
    PROVE  m \in Materials /\ n \in Materials /\ Code[m] < Code[n]
<1>1. m \in Materials /\ n \in Materials /\ n # m
  BY DEF OrderInv, PostingInv, LocksInv, ToLock, ToPost
<1>2. Code[m] <= Code[n]
  BY DEF OrderInv, HoldsLowest
<1> QED
  BY <1>1, <1>2, StocktakeAssumption

LEMMA OrderRulesOutCycles == OrderInv => NoWaitCycle
<1> SUFFICES ASSUME OrderInv, NEW S \in SUBSET Workers, PostingsDeadlocked(S) PROVE FALSE
  BY DEF NoWaitCycle
<1> DEFINE asked == {m \in Materials : \E v \in S : Asked(v, m)}
<1> DEFINE ranks == {Cardinality(From(m)) : m \in asked}
<1>1. \A v \in S : \E w \in S : \E m \in DOMAIN view[w] : Asked(v, m)
  BY DEF PostingsDeadlocked, WaitsToPost, Asked
<1>2. \A w \in Workers : ToLock(w) \subseteq Materials
  BY DEF ToLock, ToPost
<1>3. asked # {}
  BY <1>1, <1>2 DEF PostingsDeadlocked, Asked
<1>4. ranks \subseteq Nat
  <2> SUFFICES ASSUME NEW m \in Materials PROVE Cardinality(From(m)) \in Nat
    OBVIOUS
  <2>1. IsFiniteSet(From(m))
    BY LedgerAssumption, FS_Subset DEF From
  <2> QED
    BY <2>1, FS_CardinalityType
<1>5. PICK m \in asked : \A n \in asked : Cardinality(From(m)) <= Cardinality(From(n))
  <2>1. ranks # {}
    BY <1>3
  <2> HIDE DEF asked
  <2>2. \E r \in ranks : \A s \in ranks : r <= s
    BY <1>4, <2>1, Least
  <2> QED
    BY <2>2
<1>6. PICK v \in S : Asked(v, m)
  OBVIOUS
<1>7. PICK w \in S : m \in DOMAIN view[w]
  <2>1. PICK w \in S : \E n \in DOMAIN view[w] : Asked(v, n)
    BY <1>1
  <2>2. PICK n \in DOMAIN view[w] : Asked(v, n)
    BY <2>1
  <2>3. m \in Materials /\ n \in Materials /\ Code[m] <= Code[n] /\ Code[n] <= Code[m]
    BY <1>2, <1>6, <2>2 DEF Asked
  <2>4. m = n
    BY <2>3, StocktakeAssumption
  <2> QED
    BY <2>2, <2>4
<1>8. PICK n : Asked(w, n)
  BY <1>1
<1>9. n \in asked /\ m \in Materials /\ n \in Materials /\ Code[m] < Code[n]
  BY <1>2, <1>7, <1>8, HoldersAskLater DEF Asked
<1> QED
  BY <1>5, <1>9, FewerFromLater

(* Confirmations post their rows in the order of the item codes, whatever  *)
(* tasks they confirm and however far they have come: no number of them    *)
(* ever waits for each other's consumables in a circle.                    *)
THEOREM ConfirmationsNeverDeadlock == StocktakeSpec => []NoWaitCycle
  BY OrderInit, OrderStep, OrderRulesOutCycles, PTL DEF StocktakeSpec

-----------------------------------------------------------------------------
(* Types                                                                   *)
(*                                                                         *)
(* The book quantity of a good adds up what the completed tasks found, so  *)
(* the rows of a task have to have a shape before a type can be claimed: a *)
(* task that exists has a row for every item of its scope, and every       *)
(* session at work on a task has read such rows.                           *)

Statuses == OpenStatuses \cup {"absent", "completed", "cancelled"}

RowsFit(t, rs) ==
    /\ rs = [i \in Scope[t] |-> rs[i]]
    /\ \A i \in Scope[t] : rs[i] \in StocktakeRow

Completed == {t \in Tasks : task[t] = "completed"}

BooksTyped ==
    /\ bal \in [Materials -> Balance]
    /\ imported \subseteq Documents /\ IsFiniteSet(imported)
    /\ task \in [Tasks -> Statuses]
    /\ IsFiniteSet(Completed)

RowsTyped ==
    /\ rows = [t \in Tasks |-> rows[t]]
    /\ \A t \in Tasks : IF task[t] = "absent" THEN rows[t] = NoRows ELSE RowsFit(t, rows[t])

Submission(row) == row.actual \in ActualQty /\ row.reason \in Reasons

Submitted(w) ==
    /\ DOMAIN request[w].rows \subseteq Scope[request[w].task]
    /\ \A i \in DOMAIN request[w].rows : Submission(request[w].rows[i])

CallTyped(w) ==
    /\ request[w].task \in Tasks
    /\ seen[w].status \in Statuses
    /\ RowsFit(request[w].task, seen[w].rows)
    /\ request[w].kind # "create" => task[request[w].task] # "absent"
    /\ request[w].kind = "save" => Submitted(w)

CallsTyped ==
    /\ pc \in [Workers -> {"idle", "write", "check", "post"}]
    /\ \A w \in Workers : pc[w] # "idle" => CallTyped(w)

TypeInv == PostingInv /\ BooksTyped /\ RowsTyped /\ CallsTyped

(* Counters stay integers whatever is posted to them.                      *)
LEMMA PostedBalance ==
    ASSUME NEW cur \in Balance, NEW old \in Balance, NEW type, NEW loc \in Locations,
           NEW qty \in Int
    PROVE  Posted(cur, old, type, loc, qty) \in Balance
<1> DEFINE d == Delta(type, loc, qty)
<1>1. DOMAIN d \subseteq Accounts /\ \A a \in DOMAIN d : d[a] \in Int
  <2>1. CASE type = "purchase"
    BY <2>1 DEF Delta, Accounts
  <2>2. CASE type = "send_factory"
    BY <2>2 DEF Delta, Accounts, Locations
  <2>3. CASE type = "factory_receive"
    BY <2>3 DEF Delta, Accounts, Locations
  <2>4. CASE type = "consume"
    BY <2>4 DEF Delta, Accounts
  <2>5. CASE type = "loss"
    BY <2>5 DEF Delta, Accounts
  <2>6. CASE type \notin {"purchase", "send_factory", "factory_receive", "consume", "loss"}
    BY <2>6 DEF Delta, Accounts
  <2> QED
    BY <2>1, <2>2, <2>3, <2>4, <2>5, <2>6
<1> HIDE DEF d
<1>2. \A a \in Accounts : (IF a \in DOMAIN d THEN old[a] + d[a] ELSE cur[a]) \in Int
  BY <1>1 DEF Balance
<1> QED
  BY <1>2 DEF Posted, d, Balance

LEMMA DifferenceInt ==
    ASSUME NEW row \in StocktakeRow
    PROVE  Difference(row) \in Int
  BY DEF StocktakeRow, ActualQty, NotCounted, Difference

(* A book quantity is an integer.                                          *)
LEMMA BookInt ==
    ASSUME BooksTyped, RowsTyped, NEW i \in Items
    PROVE  BookQty(i) \in Int
<1>1. CASE i \in Materials
  BY <1>1, StocktakeAssumption DEF BooksTyped, BookQty, Balance, Accounts
<1>2. CASE i \notin Materials
  <2> DEFINE imports == {d \in imported : d.sku = i}
  <2> DEFINE done == {t \in Tasks : task[t] = "completed" /\ i \in DOMAIN rows[t]
                                      /\ rows[t][i].actual # NotCounted}
  <2>1. IsFiniteSet(imports) /\ IsFiniteSet(done)
    BY FS_Subset DEF BooksTyped, Completed
  <2>2. [d \in imports |-> d.qty] \in [imports -> Int]
    BY StocktakeAssumption DEF BooksTyped
  <2>3. [t \in done |-> Difference(rows[t][i])] \in [done -> Int]
    <3> SUFFICES ASSUME NEW t \in done PROVE Difference(rows[t][i]) \in Int
      OBVIOUS
    <3>1. rows[t][i] \in StocktakeRow
      BY DEF RowsTyped, RowsFit
    <3> QED
      BY <3>1, DifferenceInt
  <2>4. Net([d \in imports |-> d.qty]) \in Int
    BY <2>1, <2>2, NetInt
  <2>5. CompletedDifference(i) \in Int
    BY <2>1, <2>3, NetInt DEF CompletedDifference
  <2>6. GoodsOpening[i] \in Int
    BY <1>2, StocktakeAssumption DEF Items
  <2> QED
    BY <1>2, <2>4, <2>5, <2>6 DEF BookQty, GoodsPosition
<1> QED
  BY <1>1, <1>2

(* A step that sets the status of one task.                                *)
LEMMA StatusTyped ==
    ASSUME BooksTyped, NEW t \in Tasks, NEW s \in Statuses, task' = [task EXCEPT ![t] = s]
    PROVE  /\ task' \in [Tasks -> Statuses]
           /\ IsFiniteSet(Completed')
           /\ \A u \in Tasks : task'[u] = IF u = t THEN s ELSE task[u]
<1>1. /\ task' \in [Tasks -> Statuses]
      /\ \A u \in Tasks : task'[u] = IF u = t THEN s ELSE task[u]
  BY DEF BooksTyped
<1>2. Completed' \subseteq Completed \cup {t}
  BY <1>1 DEF Completed
<1>3. IsFiniteSet(Completed \cup {t})
  BY FS_AddElement DEF BooksTyped
<1> QED
  BY <1>1, <1>2, <1>3, FS_Subset

(* A session that begins has read a task as it stands.                     *)
LEMMA BeginKeepsTypes ==
    ASSUME TypeInv, NEW w \in Workers, NEW asked, NEW label \in {"write", "check"},
           NEW read, BeginCall(w, asked, label, read),
           asked.task \in Tasks, read.status \in Statuses, RowsFit(asked.task, read.rows),
           asked.kind # "create" => task[asked.task] # "absent",
           asked.kind = "save" => /\ DOMAIN asked.rows \subseteq Scope[asked.task]
                                    /\ \A i \in DOMAIN asked.rows : Submission(asked.rows[i])
    PROVE  BooksTyped' /\ RowsTyped' /\ CallsTyped'
<1>1. /\ request' = [x \in Workers |-> IF x = w THEN asked ELSE request[x]]
      /\ pc' = [x \in Workers |-> IF x = w THEN label ELSE pc[x]]
      /\ seen' = [x \in Workers |-> IF x = w THEN read ELSE seen[x]]
      /\ UNCHANGED <<bal, task, rows, imported>>
  BY DEF BeginCall, ledgerVars, taskVars, TypeInv, PostingInv
<1>2. BooksTyped' /\ RowsTyped'
  BY <1>1 DEF TypeInv, BooksTyped, Completed, RowsTyped, RowsFit
<1>3. \A x \in Workers : pc'[x] # "idle" => CallTyped(x)'
  <2> SUFFICES ASSUME NEW x \in Workers, pc'[x] # "idle" PROVE CallTyped(x)'
    OBVIOUS
  <2>1. CASE x = w
    BY <2>1, <1>1 DEF CallTyped, RowsFit, Submitted
  <2>2. CASE x # w
    BY <2>2, <1>1 DEF TypeInv, CallsTyped, CallTyped, RowsFit, Submitted
  <2> QED
    BY <2>1, <2>2
<1> QED
  BY <1>1, <1>2, <1>3 DEF TypeInv, CallsTyped

(* A session that ends leaves the other calls as they are.                 *)
LEMMA FinishKeepsCalls ==
    ASSUME TypeInv, NEW w \in Workers, EndCall(w),
           \A t \in Tasks : task[t] # "absent" => task'[t] # "absent"
    PROVE  CallsTyped'
<1>1. /\ request' = [x \in Workers |-> IF x = w THEN NoRequest ELSE request[x]]
      /\ pc' = [x \in Workers |-> IF x = w THEN "idle" ELSE pc[x]]
      /\ seen' = [x \in Workers |-> IF x = w THEN NoSeen ELSE seen[x]]
  BY FinishEffect DEF TypeInv
<1>2. ASSUME NEW x \in Workers, pc'[x] # "idle" PROVE CallTyped(x)'
  <2>1. x # w /\ CallTyped(x) /\ request'[x] = request[x] /\ seen'[x] = seen[x]
    BY <1>1, <1>2 DEF TypeInv, CallsTyped
  <2> QED
    BY <2>1 DEF CallTyped, RowsFit, Submitted
<1> QED
  BY <1>1, <1>2 DEF TypeInv, CallsTyped

(* A call that is refused, or whose process dies, changes nothing.         *)
LEMMA QuietFinishKeepsTypes ==
    ASSUME TypeInv, NEW w \in Workers, EndCall(w), UNCHANGED <<bal, task, rows, imported>>
    PROVE  BooksTyped' /\ RowsTyped' /\ CallsTyped'
<1>1. BooksTyped' /\ RowsTyped'
  BY DEF TypeInv, BooksTyped, Completed, RowsTyped, RowsFit
<1> QED
  BY <1>1, FinishKeepsCalls

LEMMA StartKeepsTypes ==
    ASSUME TypeInv, NEW w \in Workers, StartCall(w)
    PROVE  BooksTyped' /\ RowsTyped' /\ CallsTyped'
<1>0. ASSUME NEW t \in Tasks, task[t] # "absent"
      PROVE  TaskRead(t).status \in Statuses /\ RowsFit(t, TaskRead(t).rows)
  BY <1>0 DEF TypeInv, BooksTyped, RowsTyped, TaskRead, Seen
<1>1. ASSUME NEW t \in Tasks, StartCreateTask(w, t)
      PROVE  BooksTyped' /\ RowsTyped' /\ CallsTyped'
  <2> DEFINE asked == [kind |-> "create", task |-> t]
             fresh == [i \in Scope[t] |-> FreshRow(i)]
  <2>1. BeginCall(w, asked, "write", Seen("absent", fresh))
    BY <1>1 DEF StartCreateTask
  <2>2. ASSUME NEW i \in Scope[t] PROVE FreshRow(i) \in StocktakeRow
    <3>1. BookQty(i) \in Int
      BY StocktakeAssumption, BookInt DEF TypeInv
    <3> QED
      BY <3>1 DEF FreshRow, StocktakeRow, ActualQty, Reasons
  <2>3. RowsFit(t, fresh)
    BY <2>2 DEF RowsFit
  <2>4. /\ Seen("absent", fresh).status \in Statuses
        /\ Seen("absent", fresh).rows = fresh
    BY DEF Seen, Statuses
  <2>5. asked.task = t /\ asked.kind = "create"
    OBVIOUS
  <2> HIDE DEF asked, fresh
  <2> QED
    BY <2>1, <2>3, <2>4, <2>5, BeginKeepsTypes
<1>2. ASSUME NEW t \in Tasks, StartConfirm(w, t)
      PROVE  BooksTyped' /\ RowsTyped' /\ CallsTyped'
  <2> DEFINE asked == [kind |-> "confirm", task |-> t]
  <2>1. BeginCall(w, asked, "check", TaskRead(t)) /\ task[t] # "absent"
    BY <1>2 DEF StartConfirm, OpenStatuses
  <2>2. asked.task = t /\ asked.kind = "confirm"
    OBVIOUS
  <2> HIDE DEF asked
  <2> QED
    BY <2>1, <2>2, <1>0, BeginKeepsTypes
<1>3. ASSUME NEW t \in Tasks, StartCancel(w, t)
      PROVE  BooksTyped' /\ RowsTyped' /\ CallsTyped'
  <2> DEFINE asked == [kind |-> "cancel", task |-> t]
  <2>1. BeginCall(w, asked, "write", TaskRead(t)) /\ task[t] # "absent"
    BY <1>3 DEF StartCancel
  <2>2. asked.task = t /\ asked.kind = "cancel"
    OBVIOUS
  <2> HIDE DEF asked
  <2> QED
    BY <2>1, <2>2, <1>0, BeginKeepsTypes
<1>4. ASSUME NEW c \in Counts, StartSave(w, c)
      PROVE  BooksTyped' /\ RowsTyped' /\ CallsTyped'
  <2> DEFINE asked == [kind |-> "save", task |-> c.task, rows |-> c.rows]
  <2>1. BeginCall(w, asked, "write", TaskRead(c.task)) /\ task[c.task] # "absent"
    BY <1>4 DEF StartSave, OpenStatuses
  <2>2. asked.task = c.task /\ asked.kind = "save" /\ asked.rows = c.rows
    OBVIOUS
  <2>3. /\ c.task \in Tasks /\ DOMAIN c.rows \subseteq Scope[c.task]
        /\ \A i \in DOMAIN c.rows : Submission(c.rows[i])
    <3>1. ASSUME NEW i \in DOMAIN c.rows PROVE c.rows[i].reason \in Reasons
      <4> DEFINE given(d) == {d.rows[j].reason : j \in DOMAIN d.rows}
      <4>1. c.rows[i].reason \in given(c)
        OBVIOUS
      <4>2. c.rows[i].reason \in UNION {given(d) : d \in Counts}
        <5> HIDE DEF given
        <5> QED
          BY <4>1
      <4> QED
        BY <4>2 DEF Reasons
    <3> QED
      BY <3>1, StocktakeAssumption DEF Submission
  <2> HIDE DEF asked
  <2> QED
    BY <2>1, <2>2, <2>3, <1>0, BeginKeepsTypes
<1> QED
  BY <1>1, <1>2, <1>3, <1>4 DEF StartCall

(* What a save writes into a row keeps the row's shape.                    *)
Recounted(row, a, r) == [row EXCEPT !.actual = a, !.reason = r]

LEMMA SavedRowTyped ==
    ASSUME NEW row \in StocktakeRow, NEW a \in ActualQty, NEW r \in Reasons
    PROVE  /\ Recounted(row, a, r) \in StocktakeRow
           /\ Recounted(row, a, r).actual = a /\ Recounted(row, a, r).reason = r
<1>1. Recounted(row, a, r) = [book |-> row.book, actual |-> a, reason |-> r]
  <2> DEFINE b == row.book  c == row.actual  d == row.reason
  <2>1. row = [book |-> b, actual |-> c, reason |-> d]
    BY DEF StocktakeRow
  <2> HIDE DEF b, c, d
  <2> DEFINE half == [book |-> b, actual |-> a, reason |-> d]
  <2>2. [row EXCEPT !.actual = a] = half
    BY <2>1
  <2>3. [half EXCEPT !.reason = r] = [book |-> b, actual |-> a, reason |-> r]
    OBVIOUS
  <2> QED
    BY <2>2, <2>3 DEF b, Recounted
<1>2. row.book \in Int
  BY DEF StocktakeRow
<1> QED
  BY <1>1, <1>2 DEF StocktakeRow

LEMMA CreateKeepsTypes ==
    ASSUME TypeInv, NEW w \in Workers, CommitCreateTask(w)
    PROVE  BooksTyped' /\ RowsTyped' /\ CallsTyped'
<1> DEFINE t == request[w].task
<1>1. t \in Tasks /\ RowsFit(t, seen[w].rows) /\ "pending" \in Statuses
  BY DEF CommitCreateTask, ServesAt, TypeInv, CallsTyped, CallTyped, Statuses, OpenStatuses
<1>2. /\ EndCall(w) /\ UNCHANGED <<bal, imported>>
      /\ task' = [task EXCEPT ![t] = "pending"]
      /\ rows' = [rows EXCEPT ![t] = seen[w].rows]
  BY DEF CommitCreateTask
<1> HIDE DEF t
<1>3. /\ task' \in [Tasks -> Statuses] /\ IsFiniteSet(Completed')
      /\ \A u \in Tasks : task'[u] = IF u = t THEN "pending" ELSE task[u]
  BY <1>1, <1>2, StatusTyped DEF TypeInv
<1>4. BooksTyped'
  BY <1>2, <1>3 DEF TypeInv, BooksTyped
<1>5. RowsTyped'
  BY <1>1, <1>2, <1>3 DEF TypeInv, RowsTyped, RowsFit
<1>6. CallsTyped'
  BY <1>2, <1>3, FinishKeepsCalls
<1> QED
  BY <1>4, <1>5, <1>6

LEMMA SaveKeepsTypes ==
    ASSUME TypeInv, NEW w \in Workers, CommitSave(w)
    PROVE  BooksTyped' /\ RowsTyped' /\ CallsTyped'
<1> DEFINE t == request[w].task  new == SavedRows(w)  read == seen[w].rows
           status == Written(task[t], seen[w].status, StatusByCounts(new))
           row(i) == [rows[t][i] EXCEPT
                        !.actual = Written(rows[t][i].actual, read[i].actual, new[i].actual),
                        !.reason = Written(rows[t][i].reason, read[i].reason, new[i].reason)]
<1>1. /\ t \in Tasks /\ RowsFit(t, read) /\ task[t] # "absent" /\ Submitted(w)
      /\ RowsFit(t, rows[t]) /\ task[t] \in Statuses
  BY DEF CommitSave, ServesAt, TypeInv, CallsTyped, CallTyped, RowsTyped, BooksTyped
<1>2. EndCall(w) /\ UNCHANGED <<bal, imported>>
  BY DEF CommitSave
<1>3. task' = [task EXCEPT ![t] = status]
  BY DEF CommitSave
<1>4. rows' = [rows EXCEPT ![t] = [i \in DOMAIN rows[t] |-> row(i)]]
  BY DEF CommitSave
<1>5. StatusByCounts(new) \in Statuses \ {"absent"}
  BY DEF StatusByCounts, Statuses, OpenStatuses
<1>6. status \in Statuses \ {"absent"}
  BY <1>1, <1>5 DEF Written
<1>7. ASSUME NEW i \in Scope[t]
      PROVE  /\ rows[t][i] \in StocktakeRow
             /\ new[i].actual \in ActualQty /\ new[i].reason \in Reasons
  <2>1. rows[t][i] \in StocktakeRow /\ read[i] \in StocktakeRow /\ i \in DOMAIN read
    BY <1>1 DEF RowsFit
  <2>2. read[i].actual \in ActualQty /\ read[i].reason \in Reasons
    BY <2>1 DEF StocktakeRow
  <2>3. CASE i \notin DOMAIN request[w].rows
    <3>1. new[i] = read[i]
      BY <2>1, <2>3 DEF SavedRows
    <3> QED
      BY <2>1, <2>2, <3>1
  <2>4. CASE i \in DOMAIN request[w].rows
    <3> DEFINE a == request[w].rows[i].actual  r == request[w].rows[i].reason
    <3>1. a \in ActualQty /\ r \in Reasons
      BY <1>1, <2>4 DEF Submitted, Submission
    <3>2. new[i] = Recounted(read[i], a, r)
      BY <2>1, <2>4 DEF SavedRows, Counted, Recounted
    <3> HIDE DEF a, r, new, read
    <3> QED
      BY <2>1, <3>1, <3>2, SavedRowTyped
  <2> QED
    BY <2>3, <2>4
<1>8. ASSUME NEW i \in Scope[t] PROVE row(i) \in StocktakeRow
  <2> DEFINE a == Written(rows[t][i].actual, read[i].actual, new[i].actual)
             r == Written(rows[t][i].reason, read[i].reason, new[i].reason)
  <2>1. rows[t][i].actual \in ActualQty /\ rows[t][i].reason \in Reasons
    BY <1>7 DEF StocktakeRow
  <2>2. a \in ActualQty /\ r \in Reasons
    BY <1>7, <2>1 DEF Written
  <2>3. row(i) = Recounted(rows[t][i], a, r)
    BY DEF Recounted
  <2> HIDE DEF a, r, row
  <2> QED
    BY <1>7, <2>2, <2>3, SavedRowTyped
<1> HIDE DEF row, status, new, read, t
<1>9. /\ task' \in [Tasks -> Statuses] /\ IsFiniteSet(Completed')
      /\ \A u \in Tasks : task'[u] = IF u = t THEN status ELSE task[u]
  BY <1>1, <1>3, <1>6, StatusTyped DEF TypeInv
<1>10. BooksTyped'
  BY <1>2, <1>9 DEF TypeInv, BooksTyped
<1>11. RowsFit(t, [i \in DOMAIN rows[t] |-> row(i)])
  BY <1>1, <1>8 DEF RowsFit
<1>12. RowsTyped'
  BY <1>1, <1>4, <1>6, <1>9, <1>11 DEF TypeInv, RowsTyped, RowsFit
<1>13. CallsTyped'
  BY <1>2, <1>6, <1>9, FinishKeepsCalls
<1> QED
  BY <1>10, <1>12, <1>13

LEMMA CancelKeepsTypes ==
    ASSUME TypeInv, NEW w \in Workers, CommitCancel(w)
    PROVE  BooksTyped' /\ RowsTyped' /\ CallsTyped'
<1> DEFINE t == request[w].task  status == Written(task[t], seen[w].status, "cancelled")
<1>1. t \in Tasks /\ task[t] \in Statuses \ {"absent"}
  BY DEF CommitCancel, ServesAt, TypeInv, CallsTyped, CallTyped, BooksTyped
<1>2. status \in Statuses \ {"absent"}
  BY <1>1 DEF Written, Statuses, OpenStatuses
<1>3. /\ EndCall(w) /\ UNCHANGED <<bal, rows, imported>>
      /\ task' = [task EXCEPT ![t] = status]
  BY DEF CommitCancel
<1> HIDE DEF t, status
<1>4. /\ task' \in [Tasks -> Statuses] /\ IsFiniteSet(Completed')
      /\ \A u \in Tasks : task'[u] = IF u = t THEN status ELSE task[u]
  BY <1>1, <1>2, <1>3, StatusTyped DEF TypeInv
<1>5. BooksTyped'
  BY <1>3, <1>4 DEF TypeInv, BooksTyped
<1>6. RowsTyped'
  BY <1>1, <1>2, <1>3, <1>4 DEF TypeInv, RowsTyped, RowsFit
<1>7. CallsTyped'
  BY <1>2, <1>3, <1>4, FinishKeepsCalls
<1> QED
  BY <1>5, <1>6, <1>7

LEMMA ConfirmKeepsTypes ==
    ASSUME TypeInv, NEW w \in Workers, CommitConfirm(w)
    PROVE  BooksTyped' /\ RowsTyped' /\ CallsTyped'
<1> DEFINE t == request[w].task
           new == {m \in ToPost(w) : StocktakeEntry(w, m) \notin seen[w].prior}
           corrected(m) == Posted(bal[m], view[w][m], "stocktake", Place,
                                  Difference(seen[w].rows[m]))
<1>1. /\ t \in Tasks /\ task[t] # "absent" /\ RowsFit(t, seen[w].rows)
      /\ "completed" \in Statuses
  BY DEF CommitConfirm, ServesAt, TypeInv, CallsTyped, CallTyped, Statuses
<1>2. /\ EndCall(w) /\ UNCHANGED <<rows, imported>> /\ ToLock(w) = {}
      /\ task' = [task EXCEPT ![t] = "completed"]
  BY DEF CommitConfirm
<1>3. bal' = [m \in Materials |-> IF m \in new THEN corrected(m) ELSE bal[m]]
  BY DEF CommitConfirm
<1>4. ASSUME NEW m \in new PROVE corrected(m) \in Balance
  <2>1. m \in Materials /\ m \in DOMAIN view[w] /\ m \in Scope[t]
    BY <1>1, <1>2 DEF ToPost, ToLock, RowsFit
  <2>2. bal[m] \in Balance /\ view[w][m] = bal[m]
    BY <2>1 DEF TypeInv, BooksTyped, PostingInv, LocksInv, NoStaleView
  <2>3. Difference(seen[w].rows[m]) \in Int
    BY <1>1, <2>1, DifferenceInt DEF RowsFit
  <2> QED
    BY <2>2, <2>3, StocktakeAssumption, PostedBalance
<1> HIDE DEF t, new, corrected
<1>5. bal' \in [Materials -> Balance]
  BY <1>3, <1>4 DEF TypeInv, BooksTyped
<1>6. /\ task' \in [Tasks -> Statuses] /\ IsFiniteSet(Completed')
      /\ \A u \in Tasks : task'[u] = IF u = t THEN "completed" ELSE task[u]
  BY <1>1, <1>2, StatusTyped DEF TypeInv
<1>7. BooksTyped'
  BY <1>2, <1>5, <1>6 DEF TypeInv, BooksTyped
<1>8. RowsTyped'
  BY <1>1, <1>2, <1>6 DEF TypeInv, RowsTyped, RowsFit
<1>9. CallsTyped'
  BY <1>2, <1>6, FinishKeepsCalls
<1> QED
  BY <1>7, <1>8, <1>9

(* Steps that touch no call, no task and no row.                           *)
LEMMA OutsideKeepsTypes ==
    ASSUME TypeInv, UNCHANGED <<task, rows, request, pc, seen>>
    PROVE  /\ RowsTyped' /\ CallsTyped'
           /\ (bal' \in [Materials -> Balance] /\ imported' \subseteq Documents
                 /\ IsFiniteSet(imported')) => BooksTyped'
<1>1. RowsTyped'
  BY DEF TypeInv, RowsTyped, RowsFit
<1>2. CallsTyped'
  BY DEF TypeInv, CallsTyped, CallTyped, RowsFit, Submitted
<1> QED
  BY <1>1, <1>2 DEF TypeInv, BooksTyped, Completed

LEMMA TypeStep == TypeInv /\ [StocktakeNext]_stocktakeVars => TypeInv'
<1> SUFFICES ASSUME TypeInv, [StocktakeNext]_stocktakeVars PROVE BooksTyped' /\ RowsTyped' /\ CallsTyped'
  BY PostingStep DEF TypeInv
<1> DEFINE Kept == BooksTyped' /\ RowsTyped' /\ CallsTyped'
<1>1. CASE UNCHANGED stocktakeVars
  BY <1>1, OutsideKeepsTypes DEF stocktakeVars, TypeInv, BooksTyped
<1>2. ASSUME NEW w \in Workers, StepCall(w) PROVE Kept
  <2>1. CASE RefuseBooks(w) \/ RefuseContradiction(w)
    BY <2>1, QuietFinishKeepsTypes DEF RefuseBooks, RefuseContradiction, taskVars
  <2>2. CASE CheckBooks(w)
    <3>1. /\ UNCHANGED <<bal, task, rows, imported, request, seen>>
          /\ pc[w] = "check" /\ pc' = [pc EXCEPT ![w] = "post"]
      BY <2>2 DEF CheckBooks, ServesAt, ledgerVars, taskVars
    <3>2. BooksTyped' /\ RowsTyped'
      BY <3>1 DEF TypeInv, BooksTyped, Completed, RowsTyped, RowsFit
    <3>3. CallsTyped'
      BY <3>1 DEF TypeInv, CallsTyped, CallTyped, RowsFit, Submitted
    <3> QED
      BY <3>2, <3>3
  <2>3. ASSUME NEW m \in Materials, LockForPosting(w, m) PROVE Kept
    <3>1. /\ UNCHANGED <<bal, task, rows, imported, request, pc>>
          /\ seen' = [seen EXCEPT ![w].prior = @ \cup PostedBefore(w, m)]
      BY <2>3 DEF LockForPosting, taskVars
    <3>2. BooksTyped' /\ RowsTyped'
      BY <3>1 DEF TypeInv, BooksTyped, Completed, RowsTyped, RowsFit
    <3>3. \A x \in Workers : seen'[x].rows = seen[x].rows /\ seen'[x].status = seen[x].status
      BY <2>3, LockEffect DEF TypeInv
    <3>4. CallsTyped'
      BY <3>1, <3>3 DEF TypeInv, CallsTyped, CallTyped, RowsFit, Submitted
    <3> QED
      BY <3>2, <3>4
  <2> QED
    BY <1>2, <2>1, <2>2, <2>3, CreateKeepsTypes, SaveKeepsTypes, CancelKeepsTypes,
       ConfirmKeepsTypes DEF StepCall
<1>3. ASSUME NEW w \in Workers, CrashCall(w) PROVE Kept
  BY <1>3, QuietFinishKeepsTypes DEF CrashCall, taskVars
<1>4. ASSUME NEW v \in Movements, MoveStock(v) PROVE Kept
  <2>1. /\ v.mat \in Materials /\ v.loc \in Locations /\ v.qty \in Int
        /\ bal' = [bal EXCEPT ![v.mat] = Posted(@, @, v.type, v.loc, v.qty)]
        /\ UNCHANGED <<task, rows, imported, request, pc, seen>>
    BY <1>4, StocktakeAssumption DEF MoveStock, taskVars, sessionVars
  <2>2. Posted(bal[v.mat], bal[v.mat], v.type, v.loc, v.qty) \in Balance
    BY <2>1, PostedBalance DEF TypeInv, BooksTyped
  <2>3. bal' \in [Materials -> Balance]
    BY <2>1, <2>2 DEF TypeInv, BooksTyped
  <2> QED
    BY <2>1, <2>3, OutsideKeepsTypes DEF TypeInv, BooksTyped
<1>5. ASSUME NEW d \in Documents, ImportDocument(d) PROVE Kept
  <2>1. /\ imported' = imported \cup {d}
        /\ UNCHANGED <<bal, task, rows, request, pc, seen>>
    BY <1>5 DEF ImportDocument, ledgerVars, taskVars, sessionVars
  <2>2. imported' \subseteq Documents /\ IsFiniteSet(imported')
    BY <2>1, FS_AddElement DEF TypeInv, BooksTyped
  <2> QED
    BY <2>1, <2>2, OutsideKeepsTypes DEF TypeInv, BooksTyped
<1> QED
  BY <1>1, <1>2, <1>3, <1>4, <1>5, StartKeepsTypes DEF StocktakeNext

LEMMA TypeInit == StocktakeInit => TypeInv
<1> SUFFICES ASSUME StocktakeInit PROVE BooksTyped /\ RowsTyped /\ CallsTyped
  BY PostingInit DEF TypeInv
<1>1. bal \in [Materials -> Balance]
  BY LedgerAssumption DEF StocktakeInit, LedgerInit, OpeningBalance, Balance, Accounts
<1>2. Completed = {} /\ imported = {} /\ task \in [Tasks -> Statuses]
  BY DEF StocktakeInit, Completed, Statuses
<1>3. BooksTyped
  BY <1>1, <1>2, FS_EmptySet DEF BooksTyped
<1>4. RowsTyped /\ CallsTyped
  BY DEF StocktakeInit, RowsTyped, CallsTyped
<1> QED
  BY <1>3, <1>4

(* The counters stay integers, tasks and sessions stay in their states,    *)
(* and the rows of a task belong to its scope, whatever calls run.         *)
THEOREM StocktakeTypes == StocktakeSpec => []StocktakeTypeOK
<1>1. TypeInv => StocktakeTypeOK
  <2> SUFFICES ASSUME TypeInv PROVE StocktakeTypeOK
    OBVIOUS
  <2>1. ASSUME NEW t \in Tasks, NEW i \in DOMAIN rows[t]
        PROVE  i \in Scope[t] /\ rows[t][i] \in StocktakeRow
    <3>1. task[t] # "absent"
      BY DEF TypeInv, RowsTyped, NoRows
    <3> QED
      BY <3>1 DEF TypeInv, RowsTyped, RowsFit
  <2> QED
    BY <2>1 DEF TypeInv, BooksTyped, CallsTyped, PostingInv, LocksInv, StocktakeTypeOK, Statuses
<1> QED
  BY <1>1, TypeInit, TypeStep, PTL DEF StocktakeSpec

-----------------------------------------------------------------------------
(* Sessions, their documents and the rows they hold *)

Kinds == {"none", "create", "receive", "delete", "use", "remove", "deleteInbound"}

DocumentsOf(w) == {call[w].on[k] : k \in DOMAIN call[w].on}

RowsNeeded(w) == UNION {RowsOf(w, d) : d \in docs[w]}

(* What a session works on, by the kind of its request.                    *)
CallOK(w) ==
    /\ call[w].kind \in Kinds
    /\ Serves(w, "none") => DocumentsOf(w) = {}
    /\ Serves(w, "create") => call[w].of \in Purchases /\ DocumentsOf(w) = {}
    /\ Serves(w, "receive") =>
          call[w].delivery \in Deliveries /\ DocumentsOf(w) = {call[w].delivery.of}
    /\ Serves(w, "delete") => call[w].of \in Purchases /\ DocumentsOf(w) = {call[w].of}
    /\ Serves(w, "use") => call[w].new \in Usages /\ DocumentsOf(w) = {call[w].new.link}
    /\ Serves(w, "remove") => \E l \in Links : DocumentsOf(w) = {l}
    /\ Serves(w, "deleteInbound") => DocumentsOf(w) \subseteq Links

(* What it found when it locked its document still holds.                  *)
StillAccepted(w) ==
    /\ Serves(w, "receive") /\ docs[w] # {} => Deliverable(call[w].delivery)
    /\ Serves(w, "delete") /\ docs[w] # {} => order[call[w].of].status # "absent"

(* Unless it deletes, what it holds comes before what it has yet to lock.  *)
Ascends(w) ==
    \/ Serves(w, "delete") \/ Serves(w, "deleteInbound")
    \/ \A m \in DOMAIN view[w] : \A n \in RowsLeft(w) : m <= n

SessionOK(w) ==
    /\ CallOK(w)
    /\ docs[w] \subseteq DocumentsOf(w)
    /\ DOMAIN view[w] \subseteq RowsNeeded(w)
    /\ StillAccepted(w)
    /\ Ascends(w)

ExclusiveDocs ==
    \A v, w \in Workers : \A d \in Docs : d \in docs[v] /\ d \in docs[w] => v = w

RowsFresh == FreshCopies(Workers, Materials, bal, view)

SessionsInv ==
    /\ call = [w \in Workers |-> call[w]]
    /\ docs = [w \in Workers |-> docs[w]]
    /\ order = [s \in Purchases |-> order[s]]
    /\ usage = [l \in Links |-> usage[l]]
    /\ RowsFresh
    /\ ExclusiveDocs
    /\ \A w \in Workers : SessionOK(w)

(* Document d is as it was. *)
DocSame(d) ==
    /\ d \in Purchases => order'[d] = order[d] /\ ReceiptsOf(d)' = ReceiptsOf(d)
    /\ d \in Links => usage'[d] = usage[d]

LEMMA DocumentsTyped ==
    ASSUME NEW w \in Workers, CallOK(w)
    PROVE  /\ DocumentsOf(w) \subseteq Docs
           /\ Serves(w, "receive") \/ Serves(w, "delete") => DocumentsOf(w) \subseteq Purchases
           /\ Serves(w, "use") \/ Serves(w, "remove") \/ Serves(w, "deleteInbound")
                 => DocumentsOf(w) \subseteq Links
  BY PurchaseAssumption DEF CallOK, Docs, Kinds, Serves

(* A session whose documents nobody touches goes on as before.             *)
LEMMA Undisturbed ==
    ASSUME NEW x \in Workers, SessionOK(x),
           call'[x] = call[x], docs'[x] = docs[x], view'[x] = view[x],
           \A d \in docs[x] : DocSame(d),
           \A r \in receipts' \ receipts :
              Serves(x, "receive") => r.delivery.of \notin docs[x]
    PROVE  SessionOK(x)'
<1>1. CallOK(x)' /\ DocumentsOf(x)' = DocumentsOf(x)
  BY DEF SessionOK, CallOK, Serves, DocumentsOf
<1>2. \A k : Serves(x, k)' <=> Serves(x, k)
  BY DEF Serves
<1>3. ASSUME NEW d \in docs[x] PROVE RowsOf(x, d)' = RowsOf(x, d)
  <2>1. d \in DocumentsOf(x)
    BY DEF SessionOK
  <2>2. CASE Serves(x, "receive")
    BY <2>2 DEF RowsOf, Serves
  <2>3. CASE Serves(x, "delete")
    <3>1. ReceiptsOf(d)' = ReceiptsOf(d)
      BY <2>1, <2>3, DocumentsTyped DEF SessionOK, DocSame
    <3>2. Received(ReceiptsOf(d))' = Received(ReceiptsOf(d))
      BY <3>1 DEF Received
    <3> QED
      BY <2>3, <3>2 DEF RowsOf, Serves
  <2>4. CASE ~Serves(x, "receive") /\ ~Serves(x, "delete")
    <3>1. d \in Links
      BY <2>1, <2>4, DocumentsTyped DEF SessionOK, CallOK, Kinds, Serves
    <3>2. usage'[d] = usage[d]
      BY <3>1 DEF DocSame
    <3> QED
      BY <2>4, <3>2 DEF RowsOf, Serves
  <2> QED
    BY <2>2, <2>3, <2>4
<1>4. RowsNeeded(x)' = RowsNeeded(x)
  BY <1>3 DEF RowsNeeded
<1>5. ASSUME Serves(x, "receive"), docs[x] # {} PROVE Deliverable(call[x].delivery)'
  <2> DEFINE d == call[x].delivery
  <2>1. d.of \in docs[x] /\ d.of \in Purchases
    BY <1>5, DocumentsTyped DEF SessionOK, CallOK
  <2>2. order'[d.of] = order[d.of]
    BY <2>1 DEF DocSame
  <2>3. Deliverable(d)
    BY <1>5 DEF SessionOK, StillAccepted
  <2>4. \A r \in receipts' : r.delivery # d
    BY <1>5, <2>1, <2>3 DEF Deliverable
  <2> QED
    BY <2>2, <2>3, <2>4 DEF Deliverable
<1>6. ASSUME Serves(x, "delete"), docs[x] # {} PROVE order'[call[x].of].status # "absent"
  <2>1. call[x].of \in docs[x] /\ call[x].of \in Purchases
    BY <1>6 DEF SessionOK, CallOK
  <2>2. order'[call[x].of] = order[call[x].of]
    BY <2>1 DEF DocSame
  <2> QED
    BY <1>6, <2>2 DEF SessionOK, StillAccepted
<1>7. StillAccepted(x)'
  BY <1>2, <1>5, <1>6 DEF StillAccepted
<1>8. RowsLeft(x)' = RowsLeft(x)
  BY <1>4 DEF RowsLeft, RowsNeeded
<1>9. Ascends(x)'
  BY <1>8 DEF SessionOK, Ascends, Serves
<1> QED
  BY <1>1, <1>4, <1>7, <1>9 DEF SessionOK

(* What the end of a call does to the sessions.                            *)
LEMMA CallEnds ==
    ASSUME SessionsInv, NEW w \in Workers, Finish(w)
    PROVE  /\ call' = [x \in Workers |-> IF x = w THEN NoCall ELSE call[x]]
           /\ docs' = [x \in Workers |-> IF x = w THEN {} ELSE docs[x]]
           /\ view' = [x \in Workers |-> IF x = w THEN NothingHeld ELSE view[x]]
           /\ DOMAIN NothingHeld = {}
  BY DEF Finish, ReleaseRows, SessionsInv, RowsFresh, FreshCopies, NothingHeld

LEMMA IdleOK ==
    ASSUME NEW w \in Workers, call'[w] = NoCall, docs'[w] = {}, view'[w] = NothingHeld
    PROVE  SessionOK(w)'
<1>1. call'[w].kind = "none" /\ DocumentsOf(w)' = {}
  BY DEF NoCall, DocumentsOf
<1>2. CallOK(w)'
  BY <1>1 DEF CallOK, Kinds, Serves
<1>3. DOMAIN view'[w] = {}
  BY DEF NothingHeld
<1>4. StillAccepted(w)'
  BY DEF StillAccepted
<1>5. Ascends(w)'
  BY <1>3 DEF Ascends
<1> QED
  BY <1>2, <1>3, <1>4, <1>5 DEF SessionOK

(* A call that ends has touched its own documents and rows only.           *)
LEMMA EndKeepsSessions ==
    ASSUME SessionsInv, NEW w \in Workers, Finish(w),
           order' = [s \in Purchases |-> order'[s]],
           usage' = [l \in Links |-> usage'[l]],
           bal' = [m \in Materials |-> bal'[m]],
           \A m \in Materials : m \notin DOMAIN view[w] => bal'[m] = bal[m],
           \A x \in Workers \ {w} : \A d \in docs[x] : DocSame(d),
           \A r \in receipts' \ receipts : r.delivery.of \in docs[w] \cap Docs
    PROVE  SessionsInv'
<1>1. /\ call' = [x \in Workers |-> IF x = w THEN NoCall ELSE call[x]]
      /\ docs' = [x \in Workers |-> IF x = w THEN {} ELSE docs[x]]
      /\ view' = [x \in Workers |-> IF x = w THEN NothingHeld ELSE view[x]]
      /\ DOMAIN NothingHeld = {}
  BY CallEnds
<1>2. RowsFresh'
  <2>1. /\ view' = [x \in Workers |-> view'[x]] /\ DOMAIN view'[w] = {}
        /\ \A x \in Workers \ {w} : view'[x] = view[x]
    BY <1>1
  <2>2. FreshCopies(Workers, Materials, bal, view)
    BY DEF SessionsInv, RowsFresh
  <2>3. FreshCopies(Workers, Materials, bal', view')
    BY <2>1, <2>2, LeavingKeepsFresh
  <2> QED
    BY <2>3 DEF RowsFresh
<1>3. ExclusiveDocs'
  BY <1>1 DEF SessionsInv, ExclusiveDocs
<1>4. ASSUME NEW x \in Workers PROVE SessionOK(x)'
  <2>1. CASE x = w
    BY <1>1, <2>1, IdleOK
  <2>2. CASE x # w
    <3>1. call'[x] = call[x] /\ docs'[x] = docs[x] /\ view'[x] = view[x]
      BY <1>1, <2>2
    <3>2. \A r \in receipts' \ receipts : r.delivery.of \notin docs[x]
      BY <2>2 DEF SessionsInv, ExclusiveDocs
    <3>3. \A d \in docs[x] : DocSame(d)
      BY <2>2
    <3> QED
      BY <3>1, <3>2, <3>3, Undisturbed DEF SessionsInv
  <2> QED
    BY <2>1, <2>2
<1>5. call' = [x \in Workers |-> call'[x]] /\ docs' = [x \in Workers |-> docs'[x]]
  BY <1>1
<1> QED
  BY <1>2, <1>3, <1>4, <1>5 DEF SessionsInv

LEMMA QuietEndKeepsSessions ==
    ASSUME SessionsInv, NEW w \in Workers, Finish(w), UNCHANGED <<bal, tables>>
    PROVE  SessionsInv'
<1>1. /\ order' = order /\ usage' = usage /\ receipts' = receipts /\ bal' = bal
      /\ \A d : DocSame(d)
  BY DEF tables, DocSame, ReceiptsOf
<1>2. bal = [m \in Materials |-> bal[m]]
  BY DEF SessionsInv, RowsFresh, FreshCopies
<1> QED
  BY <1>1, <1>2, EndKeepsSessions DEF SessionsInv

(* A step outside every call touches a document nobody holds.              *)
LEMMA OutsideKeepsSessions ==
    ASSUME SessionsInv, UNCHANGED <<bal, view, receipts, call, docs>>,
           order' = [s \in Purchases |-> order'[s]],
           usage' = [l \in Links |-> usage'[l]],
           \A x \in Workers : \A d \in docs[x] : DocSame(d)
    PROVE  SessionsInv'
<1>1. \A x \in Workers : SessionOK(x)'
  BY Undisturbed DEF SessionsInv
<1>2. RowsFresh' /\ ExclusiveDocs'
  BY DEF SessionsInv, RowsFresh, ExclusiveDocs
<1> QED
  BY <1>1, <1>2 DEF SessionsInv

LEMMA BeginKeepsSessions ==
    ASSUME SessionsInv, NEW w \in Workers, NEW req, Begin(w, req),
           CallOK(w)'
    PROVE  SessionsInv'
<1>1. /\ call' = [x \in Workers |-> IF x = w THEN req ELSE call[x]]
      /\ UNCHANGED <<bal, view, order, receipts, usage, docs>>
      /\ Serves(w, "none")
  BY DEF Begin, SessionsInv, ledgerVars, tables
<1>2. docs[w] = {} /\ DOMAIN view[w] = {}
  <2>1. docs[w] = {}
    BY <1>1 DEF SessionsInv, SessionOK, CallOK
  <2> QED
    BY <2>1 DEF SessionsInv, SessionOK, RowsNeeded
<1>3. SessionOK(w)'
  BY <1>1, <1>2 DEF SessionOK, StillAccepted, Ascends
<1>4. ASSUME NEW x \in Workers \ {w} PROVE SessionOK(x)'
  <2>1. call'[x] = call[x] /\ \A d : DocSame(d)
    BY <1>1 DEF DocSame, ReceiptsOf
  <2> QED
    BY <1>1, <2>1, Undisturbed DEF SessionsInv
<1>5. RowsFresh' /\ ExclusiveDocs'
  BY <1>1 DEF SessionsInv, RowsFresh, ExclusiveDocs
<1> QED
  BY <1>1, <1>3, <1>4, <1>5 DEF SessionsInv

LEMMA StartKeepsSessions ==
    ASSUME SessionsInv, NEW w \in Workers, Start(w)
    PROVE  SessionsInv'
<1>1. ASSUME NEW req, Begin(w, req)
      PROVE  call'[w] = req
  BY <1>1 DEF Begin, SessionsInv
<1>2. ASSUME NEW s \in Purchases, StartCreate(w, s) PROVE SessionsInv'
  <2> DEFINE req == [kind |-> "create", of |-> s, on |-> <<>>]
  <2>1. Begin(w, req)
    BY <1>2 DEF StartCreate
  <2>2. CallOK(w)'
    BY <1>1, <2>1 DEF CallOK, Kinds, Serves, DocumentsOf
  <2> QED
    BY <2>1, <2>2, BeginKeepsSessions
<1>3. ASSUME NEW s \in Purchases, StartDelete(w, s) PROVE SessionsInv'
  <2> DEFINE req == [kind |-> "delete", of |-> s, on |-> <<s>>]
  <2>1. Begin(w, req)
    BY <1>3 DEF StartDelete
  <2>2. CallOK(w)'
    BY <1>1, <2>1 DEF CallOK, Kinds, Serves, DocumentsOf
  <2> QED
    BY <2>1, <2>2, BeginKeepsSessions
<1>4. ASSUME NEW d \in Deliveries, StartReceive(w, d) PROVE SessionsInv'
  <2> DEFINE req == [kind |-> "receive", delivery |-> d, on |-> <<d.of>>]
  <2>1. Begin(w, req)
    BY <1>4 DEF StartReceive
  <2>2. CallOK(w)'
    BY <1>1, <2>1 DEF CallOK, Kinds, Serves, DocumentsOf
  <2> QED
    BY <2>1, <2>2, BeginKeepsSessions
<1>5. ASSUME NEW u \in Usages, StartUse(w, u) PROVE SessionsInv'
  <2> DEFINE req == [kind |-> "use", new |-> u, on |-> <<u.link>>]
  <2>1. Begin(w, req)
    BY <1>5 DEF StartUse
  <2>2. CallOK(w)'
    BY <1>1, <2>1 DEF CallOK, Kinds, Serves, DocumentsOf
  <2> QED
    BY <2>1, <2>2, BeginKeepsSessions
<1>6. ASSUME NEW l \in Links, StartRemove(w, l) PROVE SessionsInv'
  <2> DEFINE req == [kind |-> "remove", on |-> <<l>>]
  <2>1. Begin(w, req)
    BY <1>6 DEF StartRemove
  <2>2. CallOK(w)'
    BY <1>1, <2>1 DEF CallOK, Kinds, Serves, DocumentsOf
  <2> QED
    BY <2>1, <2>2, BeginKeepsSessions
<1>7. ASSUME NEW i \in Inbounds, StartDeleteInbound(w, i) PROVE SessionsInv'
  <2> DEFINE req == [kind |-> "deleteInbound", on |-> i]
  <2>1. Begin(w, req)
    BY <1>7 DEF StartDeleteInbound
  <2>2. i \in Seq(Links)
    BY PurchaseAssumption
  <2>3. CallOK(w)'
    BY <1>1, <2>1, <2>2 DEF CallOK, Kinds, Serves, DocumentsOf
  <2> QED
    BY <2>1, <2>3, BeginKeepsSessions
<1> QED
  BY <1>2, <1>3, <1>4, <1>5, <1>6, <1>7 DEF Start

LEMMA DocumentLockKeepsSessions ==
    ASSUME SessionsInv, NEW w \in Workers, LockDocument(w)
    PROVE  SessionsInv'
<1>1. PICK d \in Docs : /\ NextDocument(w, d) /\ Free(d) /\ Accepts(w, d)
                        /\ docs' = [docs EXCEPT ![w] = @ \cup {d}]
                        /\ UNCHANGED <<ledgerVars, tables, call>>
  BY DEF LockDocument
<1>2. /\ docs' = [x \in Workers |-> IF x = w THEN docs[w] \cup {d} ELSE docs[x]]
      /\ UNCHANGED <<bal, view, order, receipts, usage, call>>
      /\ d \in DocumentsOf(w)
  BY <1>1 DEF SessionsInv, ledgerVars, tables, NextDocument, DocumentsOf
<1>3. SessionOK(w)'
  <2>1. \A x, y : RowsOf(x, y)' = RowsOf(x, y)
    BY <1>2 DEF RowsOf, Serves, Received, ReceiptsOf
  <2>2. RowsNeeded(w) \subseteq RowsNeeded(w)'
    BY <1>2, <2>1 DEF RowsNeeded
  <2>0. CallOK(w)
    BY DEF SessionsInv, SessionOK
  <2>3. CallOK(w)' /\ DocumentsOf(w)' = DocumentsOf(w)
    BY <1>2, <2>0 DEF CallOK, Serves, DocumentsOf
  <2>4. StillAccepted(w)'
    <3>1. ASSUME Serves(w, "receive") PROVE Deliverable(call[w].delivery)
      BY <1>1, <3>1 DEF Accepts, Serves
    <3>2. ASSUME Serves(w, "delete") PROVE order[call[w].of].status # "absent"
      <4>1. order[d].status # "absent"
        BY <1>1, <3>2 DEF Accepts, Serves
      <4>2. d = call[w].of
        BY <1>2, <3>2 DEF SessionsInv, SessionOK, CallOK
      <4> QED
        BY <4>1, <4>2
    <3> QED
      BY <1>2, <3>1, <3>2 DEF StillAccepted, Serves, Deliverable
  <2>5. docs'[w] \subseteq DocumentsOf(w)
    BY <1>2 DEF SessionsInv, SessionOK
  <2>6. DOMAIN view'[w] \subseteq RowsNeeded(w)'
    BY <1>2, <2>2 DEF SessionsInv, SessionOK
  <2>7. Ascends(w)'
    <3>1. SessionOK(w) /\ d \notin docs[w]
      BY <1>1 DEF SessionsInv, NextDocument
    <3>2. CASE Serves(w, "delete") \/ Serves(w, "deleteInbound")
      BY <1>2, <3>2 DEF Ascends, Serves
    <3>3. CASE ~Serves(w, "delete") /\ ~Serves(w, "deleteInbound")
      <4>1. docs[w] = {}
        BY <1>2, <3>1, <3>3 DEF SessionOK, CallOK, Kinds, Serves
      <4>2. DOMAIN view'[w] = {}
        BY <1>2, <3>1, <4>1 DEF SessionOK, RowsNeeded
      <4> QED
        BY <4>2 DEF Ascends
    <3> QED
      BY <3>2, <3>3
  <2> QED
    BY <2>3, <2>4, <2>5, <2>6, <2>7 DEF SessionOK
<1>4. ASSUME NEW x \in Workers \ {w} PROVE SessionOK(x)'
  <2>1. \A e : DocSame(e)
    BY <1>2 DEF DocSame, ReceiptsOf
  <2>2. SessionOK(x) /\ call'[x] = call[x] /\ docs'[x] = docs[x] /\ view'[x] = view[x]
    BY <1>2 DEF SessionsInv
  <2> QED
    BY <1>2, <2>1, <2>2, Undisturbed
<1>5. ExclusiveDocs'
  BY <1>1, <1>2 DEF SessionsInv, ExclusiveDocs, Free
<1>6. RowsFresh'
  BY <1>2 DEF SessionsInv, RowsFresh
<1>7. docs' = [x \in Workers |-> docs'[x]]
  BY <1>2
<1> QED
  BY <1>2, <1>3, <1>4, <1>5, <1>6, <1>7 DEF SessionsInv

LEMMA RowLockKeepsSessions ==
    ASSUME SessionsInv, NEW w \in Workers, LockConsumable(w)
    PROVE  SessionsInv'
<1>1. PICK m \in Materials : /\ NextRow(w, m) /\ LockRow(w, m)
                             /\ UNCHANGED <<bal, ledger, tables, call, docs>>
  BY DEF LockConsumable
<1>2. UNCHANGED <<bal, order, receipts, usage, call, docs>>
  BY <1>1 DEF tables
<1>3. FreshCopies(Workers, Materials, bal, view)
  BY DEF SessionsInv, RowsFresh
<1>4. FreshCopies(Workers, Materials, bal, view')
  BY <1>1, <1>3, TakingKeepsFresh DEF LockRow, Unlocked
<1>5. /\ \A x \in Workers \ {w} : view'[x] = view[x]
      /\ DOMAIN view'[w] = DOMAIN view[w] \cup {m}
  BY <1>1, <1>3 DEF LockRow, FreshCopies
<1>6. SessionOK(w)'
  <2>1. \A x, y : RowsOf(x, y)' = RowsOf(x, y)
    BY <1>2 DEF RowsOf, Serves, Received, ReceiptsOf
  <2>2. RowsNeeded(w)' = RowsNeeded(w)
    BY <1>2, <2>1 DEF RowsNeeded
  <2>3. m \in RowsNeeded(w)
    BY <1>1 DEF NextRow, RowsLeft, RowsNeeded
  <2>0. CallOK(w)
    BY DEF SessionsInv, SessionOK
  <2>4. CallOK(w)' /\ DocumentsOf(w)' = DocumentsOf(w)
    BY <1>2, <2>0 DEF CallOK, Serves, DocumentsOf
  <2>5. StillAccepted(w)'
    BY <1>2 DEF SessionsInv, SessionOK, StillAccepted, Serves, Deliverable
  <2>6. DOMAIN view'[w] \subseteq RowsNeeded(w)'
    BY <1>5, <2>2, <2>3 DEF SessionsInv, SessionOK
  <2>7. Ascends(w)'
    <3>1. RowsLeft(w)' = RowsNeeded(w) \ DOMAIN view'[w] /\ RowsLeft(w) = RowsNeeded(w) \ DOMAIN view[w]
      BY <2>2 DEF RowsLeft, RowsNeeded
    <3>2. RowsLeft(w)' \subseteq RowsLeft(w)
      BY <1>5, <3>1
    <3>3. \/ Serves(w, "delete")
          \/ \A n \in RowsLeft(w) : m <= n
      BY <1>1 DEF NextRow
    <3>4. Ascends(w)
      BY DEF SessionsInv, SessionOK
    <3> QED
      BY <1>2, <1>5, <3>2, <3>3, <3>4 DEF Ascends, Serves
  <2> QED
    BY <1>2, <2>4, <2>5, <2>6, <2>7 DEF SessionsInv, SessionOK
<1>7. ASSUME NEW x \in Workers \ {w} PROVE SessionOK(x)'
  <2>1. \A e : DocSame(e)
    BY <1>2 DEF DocSame, ReceiptsOf
  <2>2. SessionOK(x) /\ call'[x] = call[x] /\ docs'[x] = docs[x] /\ view'[x] = view[x]
    BY <1>2, <1>5 DEF SessionsInv
  <2> QED
    BY <1>2, <2>1, <2>2, Undisturbed
<1> QED
  BY <1>2, <1>4, <1>6, <1>7 DEF SessionsInv, RowsFresh, ExclusiveDocs

-----------------------------------------------------------------------------
(* Commits *)

(* A session ready to commit holds its documents and all it moves.         *)
LEMMA HoldsAll ==
    ASSUME SessionsInv, NEW w \in Workers, AllLocked(w)
    PROVE  docs[w] = DocumentsOf(w) /\ DOMAIN view[w] = RowsNeeded(w)
<1>1. DocumentsOf(w) \subseteq docs[w]
  BY DEF AllLocked, DocumentsOf
<1>2. RowsNeeded(w) \subseteq DOMAIN view[w]
  <2>1. RowsLeft(w) = RowsNeeded(w) \ DOMAIN view[w]
    BY DEF RowsLeft, RowsNeeded
  <2>2. RowsLeft(w) = {}
    BY DEF AllLocked
  <2> QED
    BY <2>1, <2>2
<1> QED
  BY <1>1, <1>2 DEF SessionsInv, SessionOK

LEMMA HeldPurchasePresent ==
    ASSUME SessionsInv, NEW x \in Workers, NEW s \in Purchases, s \in docs[x]
    PROVE  order[s].status # "absent"
<1>1. SessionOK(x) /\ s \in DocumentsOf(x) /\ s \notin Links
  BY PurchaseAssumption DEF SessionsInv, SessionOK
<1>2. CASE Serves(x, "receive")
  <2>1. s = call[x].delivery.of /\ Deliverable(call[x].delivery)
    BY <1>1, <1>2 DEF SessionOK, CallOK, StillAccepted
  <2> QED
    BY <2>1 DEF Deliverable
<1>3. CASE Serves(x, "delete")
  BY <1>1, <1>3 DEF SessionOK, CallOK, StillAccepted
<1>4. CASE ~Serves(x, "receive") /\ ~Serves(x, "delete")
  BY <1>1, <1>4, DocumentsTyped DEF SessionOK, CallOK, Kinds, Serves
<1> QED
  BY <1>2, <1>3, <1>4

(* Documents that one session holds are untouched by another one's change  *)
(* of purchase s or of the usages of links it holds.                       *)
LEMMA OthersElsewhere ==
    ASSUME SessionsInv, NEW w \in Workers, NEW x \in Workers \ {w}, NEW d \in docs[x],
           \A s \in Purchases : s \notin docs[w] => order'[s] = order[s] \/ order[s].status = "absent",
           \A s \in Purchases : s \notin docs[w] => ReceiptsOf(s)' = ReceiptsOf(s),
           \A l \in Links : l \notin docs[w] => usage'[l] = usage[l]
    PROVE  DocSame(d)
<1>1. d \in Docs
  BY DocumentsTyped DEF SessionsInv, SessionOK
<1>2. d \notin docs[w]
  BY <1>1 DEF SessionsInv, ExclusiveDocs
<1> QED
  BY <1>2, HeldPurchasePresent DEF DocSame

(* What the calls that commit hold.                                        *)
LEMMA ReceiveHolds ==
    ASSUME SessionsInv, NEW w \in Workers, CommitReceive(w)
    PROVE  LET d == call[w].delivery IN
           /\ Serves(w, "receive") /\ d \in Deliveries /\ docs[w] = {d.of} /\ d.of \in Purchases
           /\ DOMAIN view[w] = DOMAIN d.qty
<1> DEFINE d == call[w].delivery
<1>1. Serves(w, "receive") /\ AllLocked(w)
  BY DEF CommitReceive
<1>2. d \in Deliveries /\ docs[w] = {d.of} /\ d.of \in Purchases
  BY <1>1, HoldsAll, PurchaseAssumption DEF SessionsInv, SessionOK, CallOK
<1>3. RowsNeeded(w) = DOMAIN d.qty
  BY <1>1, <1>2 DEF RowsNeeded, RowsOf, Serves
<1> QED
  BY <1>1, <1>2, <1>3, HoldsAll

LEMMA DeleteHolds ==
    ASSUME SessionsInv, NEW w \in Workers, CommitDelete(w)
    PROVE  LET s == call[w].of IN
           /\ s \in Purchases /\ docs[w] = {s} /\ order[s].status # "absent"
           /\ DOMAIN view[w] = Received(ReceiptsOf(s))
<1> DEFINE s == call[w].of
<1>1. Serves(w, "delete") /\ AllLocked(w)
  BY DEF CommitDelete
<1>2. s \in Purchases /\ docs[w] = {s}
  BY <1>1, HoldsAll DEF SessionsInv, SessionOK, CallOK
<1>3. RowsNeeded(w) = Received(ReceiptsOf(s))
  BY <1>1, <1>2 DEF RowsNeeded, RowsOf, Serves
<1>4. order[s].status # "absent"
  BY <1>1, <1>2 DEF SessionsInv, SessionOK, StillAccepted
<1> QED
  BY <1>2, <1>3, <1>4, HoldsAll, <1>1

LEMMA UseHolds ==
    ASSUME SessionsInv, NEW w \in Workers, CommitUse(w)
    PROVE  LET u == call[w].new IN
           /\ u \in Usages /\ u.link \in Links /\ docs[w] = {u.link}
           /\ DOMAIN view[w] = DOMAIN usage[u.link].rows \cup DOMAIN u.qty
<1> DEFINE u == call[w].new
<1>1. Serves(w, "use") /\ AllLocked(w)
  BY DEF CommitUse
<1>2. u \in Usages /\ u.link \in Links /\ docs[w] = {u.link}
  BY <1>1, HoldsAll, PurchaseAssumption DEF SessionsInv, SessionOK, CallOK
<1>3. RowsNeeded(w) = DOMAIN usage[u.link].rows \cup DOMAIN u.qty
  BY <1>1, <1>2 DEF RowsNeeded, RowsOf, Serves
<1> QED
  BY <1>1, <1>2, <1>3, HoldsAll

LEMMA RemoveHolds ==
    ASSUME SessionsInv, NEW w \in Workers, CommitRemove(w)
    PROVE  /\ docs[w] = DocumentsOf(w) /\ DocumentsOf(w) \subseteq Links
           /\ DOMAIN view[w] = UNION {DOMAIN usage[l].rows : l \in DocumentsOf(w)}
<1>1. (Serves(w, "remove") \/ Serves(w, "deleteInbound")) /\ AllLocked(w)
  BY DEF CommitRemove
<1>2. docs[w] = DocumentsOf(w) /\ DOMAIN view[w] = RowsNeeded(w) /\ DocumentsOf(w) \subseteq Links
  BY <1>1, HoldsAll, DocumentsTyped DEF SessionsInv, SessionOK
<1>3. \A l : RowsOf(w, l) = DOMAIN usage[l].rows
  BY <1>1 DEF RowsOf, Serves
<1> QED
  BY <1>2, <1>3 DEF RowsNeeded

LEMMA CreateKeepsSessions ==
    ASSUME SessionsInv, NEW w \in Workers, CommitCreate(w)
    PROVE  SessionsInv'
<1> DEFINE s == call[w].of
<1>1. s \in Purchases /\ order[s].status = "absent"
  BY DEF CommitCreate, SessionsInv, SessionOK, CallOK, KeyTaken
<1>2. /\ Finish(w) /\ UNCHANGED <<bal, receipts, usage>>
      /\ order' = [t \in Purchases |-> order'[t]]
      /\ \A t \in Purchases \ {s} : order'[t] = order[t]
  BY DEF CommitCreate, SessionsInv
<1>3. \A x \in Workers \ {w} : \A d \in docs[x] : DocSame(d)
  BY <1>1, <1>2, OthersElsewhere DEF ReceiptsOf
<1>4. bal = [m \in Materials |-> bal[m]] /\ usage = [l \in Links |-> usage[l]]
  BY DEF SessionsInv, RowsFresh, FreshCopies
<1> QED
  BY <1>2, <1>3, <1>4, EndKeepsSessions

LEMMA ReceiveKeepsSessions ==
    ASSUME SessionsInv, NEW w \in Workers, CommitReceive(w)
    PROVE  SessionsInv'
<1> DEFINE d == call[w].delivery
<1> DEFINE r == [id |-> issued + 1, delivery |-> d]
<1>1. /\ Serves(w, "receive") /\ d \in Deliveries /\ docs[w] = {d.of} /\ d.of \in Purchases
      /\ DOMAIN view[w] = DOMAIN d.qty
  BY ReceiveHolds
<1>2. /\ Finish(w) /\ receipts' = receipts \cup {r} /\ usage' = usage
      /\ bal' = [m \in Materials |-> bal'[m]]
      /\ \A m \in Materials : m \notin DOMAIN d.qty => bal'[m] = bal[m]
      /\ order' = [t \in Purchases |-> order'[t]]
      /\ \A t \in Purchases \ {d.of} : order'[t] = order[t]
  BY DEF CommitReceive, SessionsInv
<1>3. \A s \in Purchases \ {d.of} : ReceiptsOf(s)' = ReceiptsOf(s)
  BY <1>2 DEF ReceiptsOf
<1>4. \A x \in Workers \ {w} : \A e \in docs[x] : DocSame(e)
  BY <1>1, <1>2, <1>3, OthersElsewhere
<1>5. \A q \in receipts' \ receipts : q.delivery.of \in docs[w] \cap Docs
  BY <1>1, <1>2 DEF Docs
<1>6. usage' = [l \in Links |-> usage'[l]]
  BY <1>2 DEF SessionsInv
<1> QED
  BY <1>1, <1>2, <1>4, <1>5, <1>6, EndKeepsSessions

LEMMA DeleteKeepsSessions ==
    ASSUME SessionsInv, NEW w \in Workers, CommitDelete(w)
    PROVE  SessionsInv'
<1> DEFINE s == call[w].of
<1>1. s \in Purchases /\ docs[w] = {s} /\ DOMAIN view[w] = Received(ReceiptsOf(s))
  BY DeleteHolds
<1>2. /\ Finish(w) /\ receipts' = receipts \ ReceiptsOf(s) /\ usage' = usage
      /\ bal' = [m \in Materials |-> bal'[m]]
      /\ \A m \in Materials : m \notin Received(ReceiptsOf(s)) => bal'[m] = bal[m]
      /\ order' = [t \in Purchases |-> order'[t]]
      /\ \A t \in Purchases \ {s} : order'[t] = order[t]
  BY DEF CommitDelete, SessionsInv
<1>3. \A t \in Purchases \ {s} : ReceiptsOf(t)' = ReceiptsOf(t)
  BY <1>2 DEF ReceiptsOf
<1>4. \A x \in Workers \ {w} : \A e \in docs[x] : DocSame(e)
  BY <1>1, <1>2, <1>3, OthersElsewhere
<1>5. usage' = [l \in Links |-> usage'[l]] /\ receipts' \ receipts = {}
  BY <1>2 DEF SessionsInv
<1> QED
  BY <1>1, <1>2, <1>4, <1>5, EndKeepsSessions

LEMMA UseKeepsSessions ==
    ASSUME SessionsInv, NEW w \in Workers, CommitUse(w)
    PROVE  SessionsInv'
<1> DEFINE u == call[w].new
<1>1. /\ u \in Usages /\ u.link \in Links /\ docs[w] = {u.link}
      /\ DOMAIN view[w] = DOMAIN usage[u.link].rows \cup DOMAIN u.qty
  BY UseHolds
<1>2. /\ Finish(w) /\ receipts' = receipts /\ order' = order
      /\ bal' = [m \in Materials |-> bal'[m]]
      /\ \A m \in Materials : m \notin DOMAIN usage[u.link].rows \cup DOMAIN u.qty => bal'[m] = bal[m]
      /\ usage' = [l \in Links |-> usage'[l]]
      /\ \A l \in Links \ {u.link} : usage'[l] = usage[l]
  BY DEF CommitUse, SessionsInv
<1>3. \A x \in Workers \ {w} : \A e \in docs[x] : DocSame(e)
  BY <1>1, <1>2, OthersElsewhere DEF ReceiptsOf
<1>4. order' = [t \in Purchases |-> order'[t]] /\ receipts' \ receipts = {}
  BY <1>2 DEF SessionsInv
<1> QED
  BY <1>1, <1>2, <1>3, <1>4, EndKeepsSessions

LEMMA RemoveKeepsSessions ==
    ASSUME SessionsInv, NEW w \in Workers, CommitRemove(w)
    PROVE  SessionsInv'
<1>1. docs[w] = DocumentsOf(w)
  BY RemoveHolds
<1>2. /\ Finish(w) /\ receipts' = receipts /\ order' = order
      /\ bal' = [m \in Materials |-> bal'[m]]
      /\ \A m \in Materials : m \notin DOMAIN view[w] => bal'[m] = bal[m]
      /\ usage' = [l \in Links |-> usage'[l]]
      /\ \A l \in Links : l \notin DocumentsOf(w) => usage'[l] = usage[l]
  BY DEF CommitRemove, DocumentsOf
<1>3. \A x \in Workers \ {w} : \A e \in docs[x] : DocSame(e)
  BY <1>1, <1>2, OthersElsewhere DEF ReceiptsOf
<1>4. order' = [t \in Purchases |-> order'[t]] /\ receipts' \ receipts = {}
  BY <1>2 DEF SessionsInv
<1> QED
  BY <1>1, <1>2, <1>3, <1>4, EndKeepsSessions

LEMMA OutsideStepKeepsSessions ==
    ASSUME SessionsInv, NEW s \in Purchases, Free(s),
           UNCHANGED <<bal, view, receipts, usage, call, docs>>,
           order' = [t \in Purchases |-> order'[t]],
           \A t \in Purchases \ {s} : order'[t] = order[t]
    PROVE  SessionsInv'
<1>1. ASSUME NEW x \in Workers, NEW d \in docs[x] PROVE DocSame(d)
  BY <1>1 DEF DocSame, Free, ReceiptsOf
<1>2. usage' = [l \in Links |-> usage'[l]]
  BY DEF SessionsInv
<1> QED
  BY <1>1, <1>2, OutsideKeepsSessions

LEMMA SessionsStep == SessionsInv /\ [Next]_vars => SessionsInv'
<1> SUFFICES ASSUME SessionsInv, [Next]_vars PROVE SessionsInv'
  OBVIOUS
<1>1. CASE UNCHANGED <<bal, view, order, receipts, usage, call, docs>>
  <2>1. \A x \in Workers : \A d \in docs[x] : DocSame(d)
    BY <1>1 DEF DocSame, ReceiptsOf
  <2>2. order' = [s \in Purchases |-> order'[s]] /\ usage' = [l \in Links |-> usage'[l]]
    BY <1>1 DEF SessionsInv
  <2> QED
    BY <1>1, <2>1, <2>2, OutsideKeepsSessions
<1>2. ASSUME NEW w \in Workers, Step(w) PROVE SessionsInv'
  <2>1. CASE \/ Refuse(w) \/ AbortVictim(w) \/ RefuseCreate(w) \/ RefuseUse(w)
    <3>1. Finish(w) /\ UNCHANGED <<bal, tables>>
      BY <2>1 DEF Refuse, AbortVictim, RefuseCreate, RefuseUse
    <3> QED
      BY <3>1, QuietEndKeepsSessions
  <2> QED
    BY <1>2, <2>1, DocumentLockKeepsSessions, RowLockKeepsSessions, CreateKeepsSessions,
       ReceiveKeepsSessions, DeleteKeepsSessions, UseKeepsSessions, RemoveKeepsSessions DEF Step
<1>3. ASSUME NEW w \in Workers, Crash(w) PROVE SessionsInv'
  BY <1>3, QuietEndKeepsSessions DEF Crash
<1>4. ASSUME NEW s \in Purchases, Cancel(s) \/ Reopen(s) PROVE SessionsInv'
  <2>1. /\ Free(s) /\ UNCHANGED <<bal, view, receipts, usage, call, docs>>
        /\ order' = [t \in Purchases |-> order'[t]]
        /\ \A t \in Purchases \ {s} : order'[t] = order[t]
    BY <1>4 DEF Cancel, Reopen, ledgerVars, SessionsInv
  <2> QED
    BY <2>1, OutsideStepKeepsSessions
<1>5. ASSUME NEW e \in Edits, Update(e) PROVE SessionsInv'
  <2>1. /\ e.of \in Purchases /\ Free(e.of)
        /\ UNCHANGED <<bal, view, receipts, usage, call, docs>>
        /\ order' = [t \in Purchases |-> order'[t]]
        /\ \A t \in Purchases \ {e.of} : order'[t] = order[t]
    BY <1>5, PurchaseAssumption DEF Update, ledgerVars, SessionsInv
  <2> QED
    BY <2>1, OutsideStepKeepsSessions
<1>6. CASE ChangePlace
  BY <1>1, <1>6 DEF ChangePlace, ledgerVars
<1> QED
  BY <1>1, <1>2, <1>3, <1>4, <1>5, <1>6, StartKeepsSessions DEF Next, vars

LEMMA SessionsInit == Init => SessionsInv
<1> SUFFICES ASSUME Init PROVE SessionsInv
  OBVIOUS
<1>1. RowsFresh
  BY DEF Init, LedgerInit, NothingHeld, RowsFresh, FreshCopies
<1>2. ASSUME NEW w \in Workers PROVE SessionOK(w)
  <2>1. call[w] = NoCall /\ docs[w] = {} /\ view[w] = NothingHeld
    BY DEF Init, LedgerInit
  <2>2. call[w].kind = "none" /\ DocumentsOf(w) = {}
    BY <2>1 DEF NoCall, DocumentsOf
  <2>3. DOMAIN view[w] = {}
    BY <2>1 DEF NothingHeld
  <2> QED
    BY <2>1, <2>2, <2>3 DEF SessionOK, CallOK, StillAccepted, Ascends, Kinds, Serves
<1>3. ExclusiveDocs
  BY DEF Init, ExclusiveDocs
<1> QED
  BY <1>1, <1>2, <1>3 DEF Init, SessionsInv

-----------------------------------------------------------------------------
(* Purchases, receipts and usages *)

PurchaseStatuses == {"absent", "ordered", "partial", "received", "cancelled"}
UsageStatuses == {"open", "with", "without", "gone"}

(* A purchase has lines for what was received, and each line has got what  *)
(* the receipts brought.                                                   *)
OrderOK(s) ==
    LET lines == order[s].lines IN
    /\ order[s] = [status |-> order[s].status, lines |-> lines]
    /\ order[s].status \in PurchaseStatuses
    /\ DOMAIN lines \subseteq Materials
    /\ \A m \in DOMAIN lines :
          /\ lines[m].ordered \in Nat /\ lines[m].got \in Nat
          /\ lines[m].got <= lines[m].ordered
          /\ lines[m].got = QtyIn(ReceiptsOf(s), m)
    /\ \A r \in ReceiptsOf(s) : DOMAIN r.delivery.qty \subseteq DOMAIN lines
    /\ (order[s].status \in {"partial", "received"}) <=> (ReceiptsOf(s) # {})

ReceiptsOK ==
    /\ IsFiniteSet(receipts)
    /\ \A r \in receipts : r.id \in 1..issued /\ r.delivery \in Deliveries
    /\ \A q, r \in receipts : q.id = r.id => q = r
    /\ DeliveredOnce

UsageOK(l) ==
    LET uses == usage[l].rows IN
    /\ usage[l].status \in UsageStatuses
    /\ DOMAIN uses \subseteq Materials
    /\ \A m \in DOMAIN uses :
          uses[m].id \in 1..issued /\ uses[m].qty \in Nat \ {0} /\ uses[m].warehouse \in BOOLEAN

(* Usages of different links were registered by different calls.           *)
UsageIds ==
    \A k, l \in Links : \A m \in DOMAIN usage[k].rows : \A n \in DOMAIN usage[l].rows :
        usage[k].rows[m].id = usage[l].rows[n].id => k = l

DocumentsInv ==
    /\ place \in Places /\ issued \in Nat
    /\ ReceiptsOK
    /\ \A s \in Purchases : OrderOK(s)
    /\ \A l \in Links : UsageOK(l)
    /\ UsageIds

(* Sums of what receipts brought.                                          *)
LEMMA QtyNat ==
    ASSUME NEW d \in Deliveries, NEW m
    PROVE  /\ QtyOf(d, m) \in Nat
           /\ m \in DOMAIN d.qty => m \in Materials /\ d.qty[m] \in Nat \ {0} /\ QtyOf(d, m) > 0
           /\ m \notin DOMAIN d.qty => QtyOf(d, m) = 0
  BY PurchaseAssumption DEF Lines, QtyOf

LEMMA TotalZero ==
    ASSUME NEW f, \A x \in DOMAIN f : f[x] = 0
    PROVE  Total(f) = 0
<1>1. Units(f) = {}
  <2> SUFFICES ASSUME NEW x \in DOMAIN f, NEW i \in 1..f[x] PROVE FALSE
    BY DEF Units
  <2> QED
    OBVIOUS
<1> QED
  BY <1>1, FS_EmptySet DEF Total

LEMMA ReceivedSums ==
    ASSUME NEW rs, IsFiniteSet(rs), \A r \in rs : r.delivery \in Deliveries, NEW m
    PROVE  /\ QtyIn(rs, m) \in Nat
           /\ [r \in rs |-> QtyOf(r.delivery, m)] \in [rs -> Nat]
           /\ (\E r \in rs : m \in DOMAIN r.delivery.qty) <=> QtyIn(rs, m) > 0
<1> DEFINE f == [r \in rs |-> QtyOf(r.delivery, m)]
<1>1. f \in [rs -> Nat]
  BY QtyNat
<1>2. QtyIn(rs, m) = Total(f)
  BY DEF QtyIn
<1> HIDE DEF f
<1>3. Total(f) \in Nat
  BY <1>1, TotalNat
<1>4. ASSUME NEW r \in rs, m \in DOMAIN r.delivery.qty PROVE Total(f) > 0
  <2>1. f[r] > 0 /\ f[r] \in Nat
    BY <1>4, QtyNat DEF f
  <2>2. f[r] <= Total(f)
    BY <1>1, PartOfTotal
  <2> QED
    BY <1>3, <2>1, <2>2
<1>5. ASSUME \A r \in rs : m \notin DOMAIN r.delivery.qty PROVE Total(f) = 0
  <2>1. \A r \in DOMAIN f : f[r] = 0
    BY <1>5, QtyNat DEF f
  <2> QED
    BY <2>1, TotalZero
<1> QED
  BY <1>1, <1>2, <1>3, <1>4, <1>5 DEF f

LEMMA OneMoreReceipt ==
    ASSUME NEW D, IsFiniteSet(D), \A q \in D : q.delivery \in Deliveries,
           NEW r, r \notin D, r.delivery \in Deliveries, NEW m
    PROVE  QtyIn(D \cup {r}, m) = QtyIn(D, m) + QtyOf(r.delivery, m)
<1> DEFINE f == [q \in D \cup {r} |-> QtyOf(q.delivery, m)]
<1>1. f[r] = QtyOf(r.delivery, m) /\ QtyOf(r.delivery, m) \in Nat
      /\ \A q \in D : f[q] = QtyOf(q.delivery, m) /\ QtyOf(q.delivery, m) \in Nat
  BY QtyNat
<1>2. f \in [D \cup {r} -> Nat]
  BY <1>1
<1>3. [q \in D |-> f[q]] = [q \in D |-> QtyOf(q.delivery, m)]
  BY <1>1
<1> HIDE DEF f
<1>4. Total(f) = Total([q \in D |-> f[q]]) + f[r]
  BY <1>2, TotalAdded
<1> QED
  BY <1>1, <1>3, <1>4 DEF QtyIn, f

(* The receipts that are taken away, and those that stay.                  *)
LEMMA FewerReceipts ==
    ASSUME NEW D, IsFiniteSet(D), \A q \in D : q.delivery \in Deliveries, NEW rs \in SUBSET D, NEW m
    PROVE  QtyIn(D, m) = QtyIn(D \ rs, m) + QtyIn(rs, m)
<1> DEFINE f == [q \in D |-> QtyOf(q.delivery, m)]
<1>1. f \in [D -> Nat] /\ \A q \in D : f[q] = QtyOf(q.delivery, m)
  BY QtyNat
<1> HIDE DEF f
<1>3. PICK left : left = D \ rs
  OBVIOUS
<1>4. IsFiniteSet(left) /\ IsFiniteSet(rs) /\ left \cap rs = {} /\ left \cup rs = D
  BY <1>3, FS_Subset
<1> DEFINE g == [q \in left |-> QtyOf(q.delivery, m)]
<1> DEFINE h == [q \in rs |-> QtyOf(q.delivery, m)]
<1>5. Joins(f, left, g, rs, h)
  BY <1>1, <1>4, QtyNat DEF Joins
<1> HIDE DEF g, h
<1>6. Total(f) = Total(g) + Total(h)
  BY <1>5, TotalJoined
<1> QED
  BY <1>3, <1>6 DEF QtyIn, f, g, h

LEMMA ReceiptsSum ==
    ASSUME DocumentsInv, NEW rs \in SUBSET receipts, NEW m
    PROVE  /\ IsFiniteSet(rs)
           /\ QtyIn(rs, m) \in Nat
           /\ [r \in rs |-> QtyOf(r.delivery, m)] \in [rs -> Nat]
           /\ (\E r \in rs : m \in DOMAIN r.delivery.qty) <=> QtyIn(rs, m) > 0
<1>1. IsFiniteSet(rs) /\ \A r \in rs : r.delivery \in Deliveries
  BY FS_Subset DEF DocumentsInv, ReceiptsOK
<1> QED
  BY <1>1, ReceivedSums

(* Something was received exactly when some line has got something.        *)
LEMMA BegunByReceipts ==
    ASSUME DocumentsInv, NEW s \in Purchases
    PROVE  Begun(order[s].lines) <=> (ReceiptsOf(s) # {})
<1> DEFINE lines == order[s].lines
<1>0. OrderOK(s) /\ ReceiptsOf(s) \subseteq receipts
  BY DEF DocumentsInv, ReceiptsOf
<1>1. ASSUME NEW m \in DOMAIN lines, lines[m].got > 0 PROVE ReceiptsOf(s) # {}
  <2>1. QtyIn(ReceiptsOf(s), m) > 0
    BY <1>0, <1>1 DEF OrderOK
  <2> QED
    BY <1>0, <2>1, ReceiptsSum
<1>2. ASSUME NEW r \in ReceiptsOf(s) PROVE \E m \in DOMAIN lines : lines[m].got > 0
  <2>1. r.delivery \in Deliveries
    BY <1>0 DEF DocumentsInv, ReceiptsOK
  <2>2. PICK m \in DOMAIN r.delivery.qty : TRUE
    BY <2>1, PurchaseAssumption
  <2>3. m \in DOMAIN lines
    BY <1>0 DEF OrderOK
  <2>4. QtyIn(ReceiptsOf(s), m) > 0
    BY <1>0, ReceiptsSum
  <2> QED
    BY <1>0, <2>3, <2>4 DEF OrderOK
<1> QED
  BY <1>1, <1>2 DEF Begun

LEMMA SameOrder ==
    ASSUME NEW s, OrderOK(s), order'[s] = order[s], ReceiptsOf(s)' = ReceiptsOf(s)
    PROVE  OrderOK(s)'
  BY DEF OrderOK, QtyIn

LEMMA SameUsages ==
    ASSUME DocumentsInv, usage' = usage, issued' \in Nat, issued' >= issued
    PROVE  /\ \A l \in Links : UsageOK(l)'
           /\ UsageIds'
<1>1. 1..issued \subseteq 1..issued'
  BY DEF DocumentsInv
<1> QED
  BY <1>1 DEF DocumentsInv, UsageOK, UsageIds

LEMMA SameReceipts ==
    ASSUME DocumentsInv, NEW rs \in SUBSET receipts, receipts' = rs,
           issued' \in Nat, issued' >= issued
    PROVE  ReceiptsOK'
<1>1. 1..issued \subseteq 1..issued'
  BY DEF DocumentsInv
<1> QED
  BY <1>1, FS_Subset DEF DocumentsInv, ReceiptsOK, DeliveredOnce

LEMMA StatusChange ==
    ASSUME NEW o, NEW a, NEW b, NEW s, o = [status |-> a, lines |-> b]
    PROVE  [o EXCEPT !.status = s] = [status |-> s, lines |-> b]
  OBVIOUS

(* A purchase without receipts whose lines have got nothing.               *)
LEMMA FreshOrder ==
    ASSUME NEW s, NEW status \in PurchaseStatuses \ {"partial", "received"}, NEW lines,
           order'[s] = [status |-> status, lines |-> lines],
           ReceiptsOf(s)' = {},
           DOMAIN lines \subseteq Materials,
           \A m \in DOMAIN lines : lines[m].ordered \in Nat /\ lines[m].got = 0
    PROVE  OrderOK(s)'
<1>1. ASSUME NEW m PROVE QtyIn(ReceiptsOf(s), m)' = 0
  <2> DEFINE f == [r \in {} |-> QtyOf(r.delivery, m)]
  <2>1. Total(f) = 0
    <3>1. \A x \in DOMAIN f : f[x] = 0
      OBVIOUS
    <3> HIDE DEF f
    <3> QED
      BY <3>1, TotalZero
  <2>2. QtyIn(ReceiptsOf(s), m)' = Total(f)
    BY DEF QtyIn
  <2> QED
    BY <2>1, <2>2
<1>2. order'[s].status = status /\ order'[s].lines = lines
  OBVIOUS
<1> QED
  BY <1>1, <1>2 DEF OrderOK

(* Purchases that nobody touches keep their lines and receipts.            *)
LEMMA OthersKeepOrder ==
    ASSUME DocumentsInv, NEW s \in Purchases, OrderOK(s)',
           \A t \in Purchases \ {s} : order'[t] = order[t] /\ ReceiptsOf(t)' = ReceiptsOf(t)
    PROVE  \A t \in Purchases : OrderOK(t)'
<1> SUFFICES ASSUME NEW t \in Purchases PROVE OrderOK(t)'
  OBVIOUS
<1>1. CASE t = s
  BY <1>1
<1>2. CASE t # s
  <2>1. OrderOK(t) /\ order'[t] = order[t] /\ ReceiptsOf(t)' = ReceiptsOf(t)
    BY <1>2 DEF DocumentsInv
  <2> QED
    BY <2>1, SameOrder
<1> QED
  BY <1>1, <1>2

LEMMA CreateKeepsDocuments ==
    ASSUME SessionsInv, DocumentsInv, NEW w \in Workers, CommitCreate(w)
    PROVE  DocumentsInv'
<1>0. PICK s \in Purchases : s = call[w].of
  BY DEF CommitCreate, SessionsInv, SessionOK, CallOK
<1> DEFINE lines == [m \in DOMAIN Ordered[s] |-> [ordered |-> Ordered[s][m], got |-> 0]]
<1>1. order[s].status = "absent"
  BY <1>0 DEF CommitCreate, KeyTaken
<1>2. /\ UNCHANGED <<receipts, usage, place, issued>>
      /\ order'[s] = [status |-> "ordered", lines |-> lines]
      /\ \A t \in Purchases \ {s} : order'[t] = order[t]
  BY <1>0 DEF CommitCreate, SessionsInv
<1>3. ASSUME NEW t PROVE ReceiptsOf(t)' = ReceiptsOf(t)
  BY <1>2 DEF ReceiptsOf
<1>4. OrderOK(s)'
  <2>0. OrderOK(s)
    BY <1>1 DEF DocumentsInv
  <2>1. ReceiptsOf(s)' = {}
    BY <1>1, <1>3, <2>0 DEF OrderOK
  <2>2. /\ DOMAIN lines \subseteq Materials
        /\ \A m \in DOMAIN lines : lines[m].ordered \in Nat /\ lines[m].got = 0
    BY <1>1, PurchaseAssumption DEF Lines
  <2>3. "ordered" \in PurchaseStatuses \ {"partial", "received"}
    BY DEF PurchaseStatuses
  <2> HIDE DEF lines
  <2> QED
    BY <1>2, <2>1, <2>2, <2>3, FreshOrder
<1>5. \A t \in Purchases : OrderOK(t)'
  BY <1>1, <1>2, <1>3, <1>4, OthersKeepOrder
<1>6. ReceiptsOK' /\ UsageIds' /\ \A l \in Links : UsageOK(l)'
  BY <1>2 DEF DocumentsInv, ReceiptsOK, DeliveredOnce, UsageIds, UsageOK
<1> QED
  BY <1>2, <1>5, <1>6 DEF DocumentsInv

LEMMA DeleteKeepsDocuments ==
    ASSUME SessionsInv, DocumentsInv, NEW w \in Workers, CommitDelete(w)
    PROVE  DocumentsInv'
<1>1. PICK s \in Purchases : s = call[w].of
  BY DEF CommitDelete, SessionsInv, SessionOK, CallOK
<1>2. /\ UNCHANGED <<usage, place, issued>> /\ receipts' = receipts \ ReceiptsOf(s)
      /\ order'[s] = [status |-> "absent", lines |-> NoLines]
      /\ \A t \in Purchases \ {s} : order'[t] = order[t]
  BY <1>1 DEF CommitDelete, SessionsInv, NoPurchase
<1>3. /\ ReceiptsOf(s)' = {}
      /\ \A t \in Purchases \ {s} : ReceiptsOf(t)' = ReceiptsOf(t)
  <2>1. ReceiptsOf(s)' = {}
    BY <1>2 DEF ReceiptsOf
  <2>2. ASSUME NEW t \in Purchases \ {s} PROVE ReceiptsOf(t)' = ReceiptsOf(t)
    BY <1>2 DEF ReceiptsOf
  <2> QED
    BY <2>1, <2>2
<1>4. OrderOK(s)'
  <2>1. DOMAIN NoLines = {}
    BY DEF NoLines
  <2>2. "absent" \in PurchaseStatuses \ {"partial", "received"}
    BY DEF PurchaseStatuses
  <2> QED
    BY <1>2, <1>3, <2>1, <2>2, FreshOrder
<1>5. \A t \in Purchases : OrderOK(t)'
  BY <1>1, <1>2, <1>3, <1>4, OthersKeepOrder
<1>6. UsageIds' /\ \A l \in Links : UsageOK(l)'
  BY <1>2 DEF DocumentsInv, UsageIds, UsageOK
<1>7. ReceiptsOK'
  BY <1>2, SameReceipts DEF DocumentsInv
<1> QED
  BY <1>2, <1>5, <1>6, <1>7 DEF DocumentsInv

LEMMA ReceiveKeepsDocuments ==
    ASSUME SessionsInv, DocumentsInv, NEW w \in Workers, CommitReceive(w)
    PROVE  DocumentsInv'
<1>0. PICK d \in Deliveries : d = call[w].delivery
  BY DEF CommitReceive, SessionsInv, SessionOK, CallOK
<1>s. PICK s \in Purchases : s = d.of
  BY PurchaseAssumption
<1>r. PICK r : r = [id |-> issued + 1, delivery |-> d]
  OBVIOUS
<1> DEFINE old == order[s].lines
<1>l. PICK lines : lines = [m \in DOMAIN old |->
                       [ordered |-> old[m].ordered, got |-> old[m].got + QtyOf(d, m)]]
  OBVIOUS
<1>t. PICK status \in {"partial", "received"} :
          status = IF Complete(lines) THEN "received" ELSE "partial"
  OBVIOUS
<1>1. Deliverable(d)
  <2>1. Serves(w, "receive") /\ AllLocked(w)
    BY DEF CommitReceive
  <2>2. docs[w] = {s}
    BY <1>0, <1>s, <2>1, HoldsAll DEF SessionsInv, SessionOK, CallOK
  <2> QED
    BY <1>0, <2>1, <2>2 DEF SessionsInv, SessionOK, StillAccepted
<1>2. /\ UNCHANGED <<usage, place>> /\ receipts' = receipts \cup {r} /\ issued' = issued + 1
      /\ order'[s] = [status |-> status, lines |-> lines]
      /\ \A t \in Purchases \ {s} : order'[t] = order[t]
  BY <1>0, <1>s, <1>r, <1>l, <1>t DEF CommitReceive, SessionsInv
<1>3. issued \in Nat /\ issued' \in Nat /\ issued' >= issued /\ 1..issued \subseteq 1..issued'
      /\ issued' \in 1..issued' /\ issued' \notin 1..issued
  BY <1>2 DEF DocumentsInv
<1>4. r.id = issued' /\ r.delivery = d
  BY <1>2, <1>r
<1>5. r \notin receipts
  BY <1>3, <1>4 DEF DocumentsInv, ReceiptsOK
<1>6. /\ ReceiptsOf(s)' = ReceiptsOf(s) \cup {r} /\ r \notin ReceiptsOf(s)
      /\ \A t \in Purchases \ {s} : ReceiptsOf(t)' = ReceiptsOf(t)
  <2>1. ReceiptsOf(s)' = ReceiptsOf(s) \cup {r} /\ r \notin ReceiptsOf(s)
    BY <1>2, <1>4, <1>5, <1>s DEF ReceiptsOf
  <2>2. ASSUME NEW t \in Purchases \ {s} PROVE ReceiptsOf(t)' = ReceiptsOf(t)
    BY <1>2, <1>4, <1>s DEF ReceiptsOf
  <2> QED
    BY <2>1, <2>2
<1>7. ReceiptsOK'
  <2>1. IsFiniteSet(receipts')
    BY <1>2, FS_AddElement DEF DocumentsInv, ReceiptsOK
  <2>2. \A q \in receipts' : q.id \in 1..issued' /\ q.delivery \in Deliveries
    BY <1>1, <1>2, <1>3, <1>4 DEF DocumentsInv, ReceiptsOK
  <2>3. \A p, q \in receipts' : p.id = q.id => p = q
    BY <1>2, <1>3, <1>4 DEF DocumentsInv, ReceiptsOK
  <2>4. DeliveredOnce'
    BY <1>1, <1>2, <1>4 DEF DocumentsInv, ReceiptsOK, DeliveredOnce, Deliverable
  <2> QED
    BY <2>1, <2>2, <2>3, <2>4 DEF ReceiptsOK
<1>8. OrderOK(s)'
  <2>0. OrderOK(s) /\ ReceiptsOf(s) \subseteq receipts
    BY DEF DocumentsInv, ReceiptsOf
  <2>1. ASSUME NEW m PROVE QtyIn(ReceiptsOf(s) \cup {r}, m) = QtyIn(ReceiptsOf(s), m) + QtyOf(d, m)
    <3>1. IsFiniteSet(ReceiptsOf(s)) /\ \A q \in ReceiptsOf(s) : q.delivery \in Deliveries
      BY <2>0, FS_Subset DEF DocumentsInv, ReceiptsOK
    <3> QED
      BY <1>4, <1>6, <3>1, OneMoreReceipt
  <2>2. \A m \in DOMAIN old :
          /\ lines[m].ordered = old[m].ordered /\ lines[m].got = old[m].got + QtyOf(d, m)
          /\ QtyOf(d, m) \in Nat
    BY <1>l, QtyNat
  <2>3. DOMAIN lines = DOMAIN old
    BY <1>l
  <2>5. ASSUME NEW m \in DOMAIN old PROVE old[m].got + QtyOf(d, m) <= old[m].ordered
    <3>1. old[m].got \in Nat /\ old[m].ordered \in Nat /\ old[m].got <= old[m].ordered
      BY <2>0 DEF OrderOK
    <3>2. m \in DOMAIN d.qty => old[m].got + d.qty[m] <= old[m].ordered
      BY <1>1, <1>s DEF Deliverable
    <3> QED
      BY <3>1, <3>2 DEF QtyOf
  <2>6. \A m : QtyIn(ReceiptsOf(s), m)' = QtyIn(ReceiptsOf(s), m) + QtyOf(d, m)
    BY <1>6, <2>1 DEF QtyIn
  <2>7. \A q \in ReceiptsOf(s)' : DOMAIN q.delivery.qty \subseteq DOMAIN lines
    BY <1>1, <1>4, <1>6, <1>s, <2>0, <2>3 DEF OrderOK, Deliverable
  <2>8. order'[s].lines = lines /\ order'[s].status = status
    BY <1>2
  <2>9. /\ DOMAIN lines \subseteq Materials
        /\ \A m \in DOMAIN lines :
          /\ lines[m].ordered \in Nat /\ lines[m].got \in Nat
          /\ lines[m].got <= lines[m].ordered
          /\ lines[m].got = QtyIn(ReceiptsOf(s), m)'
    BY <2>0, <2>2, <2>3, <2>5, <2>6 DEF OrderOK
  <2>10. ReceiptsOf(s)' # {}
    BY <1>6
  <2> QED
    BY <1>2, <2>7, <2>8, <2>9, <2>10 DEF OrderOK, PurchaseStatuses
<1>9. \A t \in Purchases : OrderOK(t)'
  BY <1>2, <1>6, <1>8, OthersKeepOrder
<1> QED
  BY <1>2, <1>3, <1>7, <1>9, SameUsages DEF DocumentsInv


(* What the registration of a usage leaves on the link.                    *)
LEMMA UseRegisters ==
    ASSUME SessionsInv, NEW w \in Workers, CommitUse(w),
           NEW u, u = call[w].new, NEW l \in Links, l = u.link
    PROVE  /\ usage'[l].status \in UsageStatuses
           /\ DOMAIN usage'[l].rows = DOMAIN u.qty
           /\ \A m \in DOMAIN u.qty : /\ usage'[l].rows[m].id = issued + 1
                                      /\ usage'[l].rows[m].qty = u.qty[m]
                                      /\ usage'[l].rows[m].warehouse \in BOOLEAN
           /\ \A k \in Links \ {l} : usage'[k] = usage[k]
<1> DEFINE FromStock(m) == FromWarehouse(Reversed(view[w][m], l, m), m)
<1> DEFINE uses == [m \in DOMAIN u.qty |->
                      [id |-> issued + 1, qty |-> u.qty[m], warehouse |-> FromStock(m)]]
<1> DEFINE status == IF u.qty = NoLines THEN "without" ELSE "with"
<1>1. \A m : FromStock(m) \in BOOLEAN
  BY DEF FromWarehouse
<1>2. usage' = [usage EXCEPT ![l] = [status |-> status, rows |-> uses]]
  BY DEF CommitUse
<1> HIDE DEF FromStock
<1>3. /\ usage'[l] = [status |-> status, rows |-> uses]
      /\ \A k \in Links \ {l} : usage'[k] = usage[k]
  BY <1>2 DEF SessionsInv
<1>4. usage'[l].status = status /\ usage'[l].rows = uses
  BY <1>3
<1>5. \A m \in DOMAIN u.qty : uses[m] = [id |-> issued + 1, qty |-> u.qty[m], warehouse |-> FromStock(m)]
  OBVIOUS
<1>6. DOMAIN uses = DOMAIN u.qty
  OBVIOUS
<1> HIDE DEF uses
<1>7. ASSUME NEW m \in DOMAIN u.qty
      PROVE  uses[m].id = issued + 1 /\ uses[m].qty = u.qty[m] /\ uses[m].warehouse \in BOOLEAN
  <2>1. PICK b \in BOOLEAN : uses[m] = [id |-> issued + 1, qty |-> u.qty[m], warehouse |-> b]
    <3>1. PICK b \in BOOLEAN : b = FromStock(m)
      BY <1>1
    <3>2. uses[m] = [id |-> issued + 1, qty |-> u.qty[m], warehouse |-> FromStock(m)]
      BY <1>5
    <3> QED
      BY <3>1, <3>2
  <2> QED
    BY <2>1
<1> QED
  BY <1>3, <1>4, <1>6, <1>7 DEF UsageStatuses

LEMMA UseKeepsDocuments ==
    ASSUME SessionsInv, DocumentsInv, NEW w \in Workers, CommitUse(w)
    PROVE  DocumentsInv'
<1>0. PICK u \in Usages : u = call[w].new
  BY DEF CommitUse, SessionsInv, SessionOK, CallOK
<1>l. PICK l \in Links : l = u.link
  BY PurchaseAssumption
<1>1. UNCHANGED <<order, receipts, place>> /\ issued' = issued + 1
  BY DEF CommitUse
<1>2. /\ usage'[l].status \in UsageStatuses
      /\ DOMAIN usage'[l].rows = DOMAIN u.qty
      /\ \A m \in DOMAIN u.qty : /\ usage'[l].rows[m].id = issued + 1
                                 /\ usage'[l].rows[m].qty = u.qty[m]
                                 /\ usage'[l].rows[m].warehouse \in BOOLEAN
      /\ \A k \in Links \ {l} : usage'[k] = usage[k]
  BY <1>0, <1>l, UseRegisters
<1>3. issued \in Nat /\ issued' \in Nat /\ issued' >= issued /\ 1..issued \subseteq 1..issued'
      /\ issued + 1 \in 1..issued' /\ issued + 1 \notin 1..issued
  BY <1>1 DEF DocumentsInv
<1>4. ASSUME NEW k \in Links PROVE UsageOK(k)'
  <2>1. CASE k = l
    <3>1. Lines(u.qty)
      BY PurchaseAssumption
    <3> QED
      BY <1>2, <1>3, <2>1, <3>1 DEF UsageOK, Lines
  <2>2. CASE k # l
    BY <1>2, <1>3, <2>2 DEF DocumentsInv, UsageOK
  <2> QED
    BY <2>1, <2>2
<1>5. UsageIds'
  <2> SUFFICES ASSUME NEW j \in Links, NEW k \in Links,
                      NEW m \in DOMAIN usage'[j].rows, NEW n \in DOMAIN usage'[k].rows,
                      usage'[j].rows[m].id = usage'[k].rows[n].id
               PROVE  j = k
    BY DEF UsageIds
  <2>1. ASSUME NEW i \in Links, i # l, NEW x \in DOMAIN usage'[i].rows
        PROVE  usage'[i].rows[x].id # issued + 1
    BY <1>2, <1>3, <2>1 DEF DocumentsInv, UsageOK
  <2>2. ASSUME NEW x \in DOMAIN usage'[l].rows PROVE usage'[l].rows[x].id = issued + 1
    BY <1>2
  <2>3. CASE j # l /\ k # l
    BY <1>2, <2>3 DEF DocumentsInv, UsageIds
  <2> QED
    BY <2>1, <2>2, <2>3
<1>6. ASSUME NEW s \in Purchases PROVE OrderOK(s)'
  <2>1. OrderOK(s) /\ ReceiptsOf(s)' = ReceiptsOf(s)
    BY <1>1 DEF DocumentsInv, ReceiptsOf
  <2> QED
    BY <1>1, <2>1, SameOrder
<1>7. ReceiptsOK'
  BY <1>1, <1>3, SameReceipts
<1> QED
  BY <1>1, <1>3, <1>4, <1>5, <1>6, <1>7 DEF DocumentsInv

(* A removed usage leaves an open link, or one that is gone, without rows. *)
LEMMA RemovedUsage ==
    /\ Gone.status \in UsageStatuses /\ DOMAIN Gone.rows = {}
    /\ NoUsage.status \in UsageStatuses /\ DOMAIN NoUsage.rows = {}
  BY DEF Gone, NoUsage, NoLines, UsageStatuses

LEMMA RemoveKeepsDocuments ==
    ASSUME SessionsInv, DocumentsInv, NEW w \in Workers, CommitRemove(w)
    PROVE  DocumentsInv'
<1>1. UNCHANGED <<order, receipts, place, issued>>
  BY DEF CommitRemove
<1>2. ASSUME NEW l \in Links
      PROVE  usage'[l] = usage[l] \/ (usage'[l].status \in UsageStatuses /\ DOMAIN usage'[l].rows = {})
  <2>1. usage'[l] \in {usage[l], Gone, NoUsage}
    BY DEF CommitRemove
  <2> QED
    BY <2>1, RemovedUsage
<1>3. ASSUME NEW l \in Links PROVE UsageOK(l)'
  <2>1. UsageOK(l)
    BY DEF DocumentsInv
  <2> QED
    BY <1>1, <1>2, <2>1 DEF UsageOK
<1>4. UsageIds'
  BY <1>2 DEF DocumentsInv, UsageIds
<1>5. ASSUME NEW s \in Purchases PROVE OrderOK(s)'
  <2>1. OrderOK(s) /\ ReceiptsOf(s)' = ReceiptsOf(s)
    BY <1>1 DEF DocumentsInv, ReceiptsOf
  <2> QED
    BY <1>1, <2>1, SameOrder
<1>6. ReceiptsOK'
  BY <1>1 DEF DocumentsInv, ReceiptsOK, DeliveredOnce
<1> QED
  BY <1>1, <1>3, <1>4, <1>5, <1>6 DEF DocumentsInv

(* A purchase that keeps its lines and receipts and changes its status.    *)
LEMMA StatusOrder ==
    ASSUME NEW s, OrderOK(s), ReceiptsOf(s)' = ReceiptsOf(s), NEW status \in PurchaseStatuses,
           order'[s] = [status |-> status, lines |-> order[s].lines],
           status \in {"partial", "received"} <=> ReceiptsOf(s) # {}
    PROVE  OrderOK(s)'
<1>1. order'[s].status = status /\ order'[s].lines = order[s].lines
  OBVIOUS
<1> QED
  BY <1>1 DEF OrderOK, QtyIn

(* One purchase changed while no session held it.                          *)
LEMMA OutsideKeepsDocuments ==
    ASSUME SessionsInv, DocumentsInv, NEW s \in Purchases,
           UNCHANGED <<receipts, usage, place, issued>>,
           \A t \in Purchases \ {s} : order'[t] = order[t],
           ReceiptsOf(s)' = ReceiptsOf(s) => OrderOK(s)'
    PROVE  DocumentsInv'
<1>1. ASSUME NEW t \in Purchases PROVE ReceiptsOf(t)' = ReceiptsOf(t)
  BY DEF ReceiptsOf
<1>2. \A t \in Purchases : OrderOK(t)'
  BY <1>1, OthersKeepOrder
<1>3. ReceiptsOK' /\ UsageIds' /\ \A l \in Links : UsageOK(l)'
  BY DEF DocumentsInv, ReceiptsOK, DeliveredOnce, UsageIds, UsageOK
<1> QED
  BY <1>2, <1>3 DEF DocumentsInv

LEMMA StatusKeepsDocuments ==
    ASSUME SessionsInv, DocumentsInv, NEW s \in Purchases, Cancel(s) \/ Reopen(s)
    PROVE  DocumentsInv'
<1>1. /\ UNCHANGED <<receipts, usage, place, issued>>
      /\ \A t \in Purchases \ {s} : order'[t] = order[t]
  BY DEF Cancel, Reopen, SessionsInv
<1>2. OrderOK(s)
  BY DEF DocumentsInv
<1>3. order[s].status \in {"ordered", "cancelled"}
  BY DEF Cancel, Reopen
<1>4. PICK status \in {"ordered", "cancelled"} : order'[s] = [order[s] EXCEPT !.status = status]
  BY DEF Cancel, Reopen, SessionsInv
<1>5. order'[s] = [status |-> status, lines |-> order[s].lines]
  <2>1. order[s] = [status |-> order[s].status, lines |-> order[s].lines]
    BY <1>2 DEF OrderOK
  <2> QED
    BY <1>4, <2>1, StatusChange
<1>6. status \in PurchaseStatuses /\ (status \in {"partial", "received"} <=> ReceiptsOf(s) # {})
  BY <1>2, <1>3 DEF OrderOK, PurchaseStatuses
<1>7. ReceiptsOf(s)' = ReceiptsOf(s) => OrderOK(s)'
  BY <1>2, <1>5, <1>6, StatusOrder
<1> QED
  BY <1>1, <1>7, OutsideKeepsDocuments

LEMMA UpdateKeepsDocuments ==
    ASSUME SessionsInv, DocumentsInv, NEW e \in Edits, Update(e)
    PROVE  DocumentsInv'
<1>0. PICK s \in Purchases : s = e.of
  BY PurchaseAssumption
<1>e. Lines(e.qty) /\ Editable(e)
  BY PurchaseAssumption DEF Update
<1> DEFINE old == order[s].lines
<1>l. PICK lines : lines = [m \in DOMAIN e.qty |->
                              [ordered |-> e.qty[m],
                               got |-> IF m \in DOMAIN old THEN old[m].got ELSE 0]]
  OBVIOUS
<1>1. OrderOK(s) /\ ReceiptsOf(s) \subseteq receipts
  BY DEF DocumentsInv, ReceiptsOf
<1>2. /\ UNCHANGED <<receipts, usage, place, issued>>
      /\ \A t \in Purchases \ {s} : order'[t] = order[t]
  BY <1>0 DEF Update, SessionsInv
<1>3. PICK status : /\ status = (IF ~Begun(LinesBeforeFlush(e)) THEN "ordered"
                                 ELSE IF Complete(LinesBeforeFlush(e)) THEN "received" ELSE "partial")
                    /\ order'[s] = [status |-> status, lines |-> lines]
  BY <1>0, <1>l DEF Update, SessionsInv
<1>4. Begun(LinesBeforeFlush(e)) <=> Begun(old)
  <2>0. PICK read : read = LinesBeforeFlush(e)
    OBVIOUS
  <2>1. DOMAIN read = DOMAIN old /\ \A m \in DOMAIN old : read[m].got = old[m].got
    BY <1>0, <2>0 DEF LinesBeforeFlush
  <2> QED
    BY <2>0, <2>1 DEF Begun
<1>5. status \in PurchaseStatuses /\ (status \in {"partial", "received"} <=> ReceiptsOf(s) # {})
  BY <1>3, <1>4, BegunByReceipts DEF PurchaseStatuses
<1>6. /\ DOMAIN lines = DOMAIN e.qty
      /\ \A m \in DOMAIN lines : /\ lines[m].ordered = e.qty[m]
                                 /\ lines[m].got = IF m \in DOMAIN old THEN old[m].got ELSE 0
  BY <1>l
<1>7. ASSUME NEW m \in DOMAIN lines
      PROVE  /\ lines[m].ordered \in Nat /\ lines[m].got \in Nat
             /\ lines[m].got <= lines[m].ordered
             /\ lines[m].got = QtyIn(ReceiptsOf(s), m)
  <2>1. lines[m].ordered = e.qty[m] /\ e.qty[m] \in Nat
    BY <1>6, <1>e DEF Lines
  <2>2. CASE m \in DOMAIN old
    <3>1. lines[m].got = old[m].got
      BY <1>6, <2>2
    <3>2. old[m].got \in Nat /\ old[m].got = QtyIn(ReceiptsOf(s), m)
      BY <1>1, <2>2 DEF OrderOK
    <3>3. e.qty[m] >= old[m].got
      BY <1>0, <1>e, <1>6, <2>2 DEF Editable
    <3> QED
      BY <2>1, <3>1, <3>2, <3>3
  <2>3. CASE m \notin DOMAIN old
    <3>1. lines[m].got = 0
      BY <1>6, <2>3
    <3>2. ~\E r \in ReceiptsOf(s) : m \in DOMAIN r.delivery.qty
      BY <1>1, <2>3 DEF OrderOK
    <3>3. QtyIn(ReceiptsOf(s), m) \in Nat /\ ~(QtyIn(ReceiptsOf(s), m) > 0)
      BY <1>1, <3>2, ReceiptsSum
    <3> QED
      BY <2>1, <3>1, <3>3
  <2> QED
    BY <2>2, <2>3
<1>8. ASSUME NEW r \in ReceiptsOf(s), NEW m \in DOMAIN r.delivery.qty PROVE m \in DOMAIN lines
  <2>1. m \in DOMAIN old /\ old[m].got = QtyIn(ReceiptsOf(s), m)
    BY <1>1 DEF OrderOK
  <2>2. QtyIn(ReceiptsOf(s), m) > 0
    BY <1>1, ReceiptsSum
  <2>3. m \in DOMAIN e.qty
    BY <1>0, <1>e, <2>1, <2>2 DEF Editable
  <2> QED
    BY <1>6, <2>3
<1>9. ASSUME ReceiptsOf(s)' = ReceiptsOf(s) PROVE OrderOK(s)'
  <2>1. order'[s].status = status /\ order'[s].lines = lines
    BY <1>3
  <2>2. DOMAIN lines \subseteq Materials
    BY <1>6, <1>e DEF Lines
  <2>3. \A m : QtyIn(ReceiptsOf(s), m)' = QtyIn(ReceiptsOf(s), m)
    BY <1>9 DEF QtyIn
  <2> QED
    BY <1>3, <1>5, <1>7, <1>8, <1>9, <2>1, <2>2, <2>3 DEF OrderOK
<1> QED
  BY <1>2, <1>9, OutsideKeepsDocuments

LEMMA DocumentsSame ==
    ASSUME DocumentsInv, UNCHANGED <<order, receipts, usage, issued>>, place' \in Places
    PROVE  DocumentsInv'
<1>1. ASSUME NEW s \in Purchases PROVE OrderOK(s)'
  <2>1. OrderOK(s) /\ ReceiptsOf(s)' = ReceiptsOf(s)
    BY DEF DocumentsInv, ReceiptsOf
  <2> QED
    BY <2>1, SameOrder
<1> QED
  BY <1>1 DEF DocumentsInv, ReceiptsOK, DeliveredOnce, UsageIds, UsageOK

LEMMA DocumentsStep == SessionsInv /\ DocumentsInv /\ [Next]_vars => DocumentsInv'
<1> SUFFICES ASSUME SessionsInv, DocumentsInv, [Next]_vars PROVE DocumentsInv'
  OBVIOUS
<1>1. CASE UNCHANGED tables
  BY <1>1, DocumentsSame DEF tables, DocumentsInv
<1>2. ASSUME NEW w \in Workers, Step(w) PROVE DocumentsInv'
  <2>1. CASE \/ LockDocument(w) \/ Refuse(w) \/ LockConsumable(w) \/ AbortVictim(w)
             \/ RefuseCreate(w) \/ RefuseUse(w)
    BY <1>1, <2>1 DEF LockDocument, Refuse, LockConsumable, AbortVictim, RefuseCreate, RefuseUse
  <2> QED
    BY <1>2, <2>1, CreateKeepsDocuments, ReceiveKeepsDocuments, DeleteKeepsDocuments,
       UseKeepsDocuments, RemoveKeepsDocuments DEF Step
<1>3. ASSUME NEW w \in Workers, Start(w) PROVE DocumentsInv'
  BY <1>1, <1>3 DEF Start, StartCreate, StartReceive, StartDelete, StartUse, StartRemove,
     StartDeleteInbound, Begin
<1>4. ASSUME NEW w \in Workers, Crash(w) PROVE DocumentsInv'
  BY <1>1, <1>4 DEF Crash
<1>5. CASE ChangePlace
  BY <1>5, DocumentsSame DEF ChangePlace
<1> QED
  BY <1>1, <1>2, <1>3, <1>4, <1>5, StatusKeepsDocuments, UpdateKeepsDocuments DEF Next, vars, tables

LEMMA DocumentsInit == Init => DocumentsInv
<1> SUFFICES ASSUME Init PROVE DocumentsInv
  OBVIOUS
<1>1. ReceiptsOK
  BY FS_EmptySet DEF Init, ReceiptsOK, DeliveredOnce
<1>2. ASSUME NEW s \in Purchases PROVE OrderOK(s)
  <2>1. order[s].status = "absent" /\ order[s].lines = NoLines /\ DOMAIN NoLines = {}
        /\ order[s] = [status |-> "absent", lines |-> NoLines]
    BY DEF Init, NoPurchase, NoLines
  <2>2. ReceiptsOf(s) = {}
    BY DEF Init, ReceiptsOf
  <2> QED
    BY <2>1, <2>2 DEF OrderOK, PurchaseStatuses
<1>3. ASSUME NEW l \in Links PROVE usage[l].status = "open" /\ DOMAIN usage[l].rows = {}
  BY DEF Init, NoUsage, NoLines
<1> QED
  BY <1>1, <1>2, <1>3 DEF Init, DocumentsInv, UsageOK, UsageIds, UsageStatuses

-----------------------------------------------------------------------------
(* Ids: as many are given or asked for as the bound allows *)

Issuing == {w \in Workers : Serves(w, "receive") \/ Serves(w, "use")}

IssuedInv == IsFiniteSet(Issuing) /\ issued + Cardinality(Issuing) <= MaxIssued

LEMMA BeginKeepsIssued ==
    ASSUME SessionsInv, DocumentsInv, IssuedInv, NEW w \in Workers, NEW req, Begin(w, req),
           req.kind \in {"receive", "use"} => MayIssue
    PROVE  IssuedInv'
<1>1. /\ issued' = issued /\ issued \in Nat /\ call'[w] = req
      /\ \A x \in Workers \ {w} : call'[x] = call[x]
      /\ Serves(w, "none")
  BY DEF Begin, tables, SessionsInv, DocumentsInv
<1>2. w \notin Issuing
  BY <1>1 DEF Issuing, Serves
<1>3. IsFiniteSet(Issuing) /\ Cardinality(Issuing) \in Nat /\ MaxIssued \in Nat
  BY FS_CardinalityType, PurchaseAssumption DEF IssuedInv
<1>4. CASE req.kind \in {"receive", "use"}
  <2>1. Issuing' = Issuing \cup {w}
    BY <1>1, <1>4 DEF Issuing, Serves
  <2>2. IsFiniteSet(Issuing \cup {w}) /\ Cardinality(Issuing \cup {w}) = Cardinality(Issuing) + 1
    BY <1>2, <1>3, FS_AddElement
  <2>3. issued + Cardinality(Issuing) < MaxIssued
    BY <1>4 DEF MayIssue, Issuing
  <2>4. Cardinality(Issuing') = Cardinality(Issuing) + 1
    BY <2>1, <2>2
  <2> QED
    BY <1>1, <1>3, <2>1, <2>2, <2>3, <2>4 DEF IssuedInv
<1>5. CASE req.kind \notin {"receive", "use"}
  <2>1. Issuing' = Issuing
    BY <1>1, <1>2, <1>5 DEF Issuing, Serves
  <2> QED
    BY <1>1, <2>1 DEF IssuedInv
<1> QED
  BY <1>4, <1>5

LEMMA StartKeepsIssued ==
    ASSUME SessionsInv, DocumentsInv, IssuedInv, NEW w \in Workers, Start(w)
    PROVE  IssuedInv'
<1>1. ASSUME NEW s \in Purchases, StartCreate(w, s) \/ StartDelete(w, s) PROVE IssuedInv'
  <2>1. CASE StartCreate(w, s)
    BY <2>1, BeginKeepsIssued DEF StartCreate
  <2>2. CASE StartDelete(w, s)
    BY <2>2, BeginKeepsIssued DEF StartDelete
  <2> QED
    BY <1>1, <2>1, <2>2
<1>2. ASSUME NEW d \in Deliveries, StartReceive(w, d) PROVE IssuedInv'
  BY <1>2, BeginKeepsIssued DEF StartReceive
<1>3. ASSUME NEW u \in Usages, StartUse(w, u) PROVE IssuedInv'
  BY <1>3, BeginKeepsIssued DEF StartUse
<1>4. ASSUME NEW l \in Links, StartRemove(w, l) PROVE IssuedInv'
  BY <1>4, BeginKeepsIssued DEF StartRemove
<1>5. ASSUME NEW i \in Inbounds, StartDeleteInbound(w, i) PROVE IssuedInv'
  BY <1>5, BeginKeepsIssued DEF StartDeleteInbound
<1> QED
  BY <1>1, <1>2, <1>3, <1>4, <1>5 DEF Start

(* A call that ends gives an id if it asked for one.                       *)
LEMMA EndKeepsIssued ==
    ASSUME SessionsInv, DocumentsInv, IssuedInv, NEW w \in Workers, Finish(w),
           issued' = issued \/ (w \in Issuing /\ issued' = issued + 1)
    PROVE  IssuedInv'
<1>1. issued \in Nat /\ \A x \in Workers : call'[x] = IF x = w THEN NoCall ELSE call[x]
  BY CallEnds DEF DocumentsInv
<1>2. Issuing' = Issuing \ {w}
  BY <1>1 DEF Issuing, Serves, NoCall
<1>3. IsFiniteSet(Issuing) /\ Cardinality(Issuing) \in Nat /\ MaxIssued \in Nat
  BY FS_CardinalityType, PurchaseAssumption DEF IssuedInv
<1>4. /\ IsFiniteSet(Issuing \ {w})
      /\ Cardinality(Issuing \ {w}) = IF w \in Issuing THEN Cardinality(Issuing) - 1 ELSE Cardinality(Issuing)
  BY <1>3, FS_RemoveElement
<1>5. Cardinality(Issuing') = Cardinality(Issuing \ {w})
  BY <1>2
<1> QED
  BY <1>1, <1>2, <1>3, <1>4, <1>5 DEF IssuedInv

LEMMA IssuedStep == SessionsInv /\ DocumentsInv /\ IssuedInv /\ [Next]_vars => IssuedInv'
<1> SUFFICES ASSUME SessionsInv, DocumentsInv, IssuedInv, [Next]_vars PROVE IssuedInv'
  OBVIOUS
<1>1. CASE UNCHANGED <<issued, call>>
  BY <1>1 DEF IssuedInv, Issuing, Serves
<1>2. ASSUME NEW w \in Workers, Step(w) PROVE IssuedInv'
  <2>1. CASE LockDocument(w) \/ LockConsumable(w)
    BY <1>1, <2>1 DEF LockDocument, LockConsumable, tables
  <2>2. CASE \/ Refuse(w) \/ AbortVictim(w) \/ RefuseCreate(w) \/ RefuseUse(w)
             \/ CommitCreate(w) \/ CommitDelete(w) \/ CommitRemove(w)
    <3>1. Finish(w) /\ issued' = issued
      BY <2>2 DEF Refuse, AbortVictim, RefuseCreate, RefuseUse, CommitCreate, CommitDelete,
         CommitRemove, tables
    <3> QED
      BY <3>1, EndKeepsIssued
  <2>3. CASE CommitReceive(w) \/ CommitUse(w)
    <3>1. Finish(w) /\ issued' = issued + 1 /\ w \in Issuing
      BY <2>3 DEF CommitReceive, CommitUse, Issuing
    <3> QED
      BY <3>1, EndKeepsIssued
  <2> QED
    BY <1>2, <2>1, <2>2, <2>3 DEF Step
<1>3. ASSUME NEW w \in Workers, Crash(w) PROVE IssuedInv'
  BY <1>3, EndKeepsIssued DEF Crash, tables
<1>4. ASSUME NEW s \in Purchases, Cancel(s) \/ Reopen(s) PROVE IssuedInv'
  BY <1>1, <1>4 DEF Cancel, Reopen
<1>5. ASSUME NEW e \in Edits, Update(e) PROVE IssuedInv'
  BY <1>1, <1>5 DEF Update
<1>6. CASE ChangePlace
  BY <1>1, <1>6 DEF ChangePlace
<1> QED
  BY <1>1, <1>2, <1>3, <1>4, <1>5, <1>6, StartKeepsIssued DEF Next, vars

LEMMA IssuedInit == Init => IssuedInv
<1> SUFFICES ASSUME Init PROVE IssuedInv
  OBVIOUS
<1>1. Issuing = {}
  BY DEF Init, Issuing, Serves, NoCall
<1>2. issued = 0 /\ MaxIssued \in Nat
  BY PurchaseAssumption DEF Init
<1> QED
  BY <1>1, <1>2, FS_EmptySet DEF IssuedInv

-----------------------------------------------------------------------------
(* What a set of ledger entries does to a counter *)

EntryTyped(e) == e.type \in TxTypes /\ e.loc \in Locations /\ e.qty \in Int

NetOf(es, a) == Total([e \in es |-> Added(e, a)]) - Total([e \in es |-> Taken(e, a)])

LEMMA PostingTyped ==
    ASSUME NEW e, EntryTyped(e), NEW a
    PROVE  /\ Posting(e, a) \in Int
           /\ Added(e, a) \in Nat /\ Taken(e, a) \in Nat
           /\ Added(e, a) - Taken(e, a) = Posting(e, a)
<1>1. \A b \in DOMAIN Delta(e.type, e.loc, e.qty) : Delta(e.type, e.loc, e.qty)[b] \in Int
  BY DEF EntryTyped, Delta, TxTypes, Locations
<1>2. Posting(e, a) \in Int
  BY <1>1 DEF Posting
<1> QED
  BY <1>2 DEF Added, Taken

LEMMA EntriesTotals ==
    ASSUME NEW es, IsFiniteSet(es), \A e \in es : EntryTyped(e), NEW a
    PROVE  /\ [e \in es |-> Added(e, a)] \in [es -> Nat]
           /\ [e \in es |-> Taken(e, a)] \in [es -> Nat]
           /\ Total([e \in es |-> Added(e, a)]) \in Nat
           /\ Total([e \in es |-> Taken(e, a)]) \in Nat
           /\ NetOf(es, a) \in Int
<1>1. /\ [e \in es |-> Added(e, a)] \in [es -> Nat]
      /\ [e \in es |-> Taken(e, a)] \in [es -> Nat]
  BY PostingTyped
<1>2. Total([e \in es |-> Added(e, a)]) \in Nat /\ Total([e \in es |-> Taken(e, a)]) \in Nat
  BY <1>1, TotalNat
<1> QED
  BY <1>1, <1>2 DEF NetOf

LEMMA NoEntries ==
    ASSUME NEW a
    PROVE  NetOf({}, a) = 0
<1> DEFINE f == [e \in {} |-> Added(e, a)]
<1> DEFINE g == [e \in {} |-> Taken(e, a)]
<1>1. (\A x \in DOMAIN f : f[x] = 0) /\ (\A x \in DOMAIN g : g[x] = 0)
  OBVIOUS
<1>2. NetOf({}, a) = Total(f) - Total(g)
  BY DEF NetOf
<1> HIDE DEF f, g
<1>3. Total(f) = 0 /\ Total(g) = 0
  BY <1>1, TotalZero
<1> QED
  BY <1>2, <1>3

(* Entries that have nothing in common add up.                             *)
LEMMA EntriesJoined ==
    ASSUME NEW D, NEW E, IsFiniteSet(D), IsFiniteSet(E), D \cap E = {},
           \A e \in D \cup E : EntryTyped(e), NEW a
    PROVE  NetOf(D \cup E, a) = NetOf(D, a) + NetOf(E, a)
<1> DEFINE up(es) == [e \in es |-> Added(e, a)]
<1> DEFINE down(es) == [e \in es |-> Taken(e, a)]
<1>1. \A es \in SUBSET (D \cup E) : up(es) \in [es -> Nat] /\ down(es) \in [es -> Nat]
  BY PostingTyped
<1>2. /\ \A e \in D : up(D)[e] = up(D \cup E)[e] /\ down(D)[e] = down(D \cup E)[e]
      /\ \A e \in E : up(E)[e] = up(D \cup E)[e] /\ down(E)[e] = down(D \cup E)[e]
  OBVIOUS
<1>3. \A es : NetOf(es, a) = Total(up(es)) - Total(down(es))
  BY DEF NetOf
<1> HIDE DEF up, down
<1>4. /\ Joins(up(D \cup E), D, up(D), E, up(E))
      /\ Joins(down(D \cup E), D, down(D), E, down(E))
  BY <1>1, <1>2 DEF Joins
<1>5. /\ Total(up(D \cup E)) = Total(up(D)) + Total(up(E))
      /\ Total(down(D \cup E)) = Total(down(D)) + Total(down(E))
  BY <1>4, TotalJoined
<1>6. Total(up(D)) \in Nat /\ Total(up(E)) \in Nat /\ Total(down(D)) \in Nat /\ Total(down(E)) \in Nat
  BY <1>1, TotalNat
<1> QED
  BY <1>3, <1>5, <1>6

LEMMA OneEntry ==
    ASSUME NEW e, EntryTyped(e), NEW a
    PROVE  NetOf({e}, a) = Posting(e, a)
<1> DEFINE up == [x \in {e} |-> Added(x, a)]
<1> DEFINE down == [x \in {e} |-> Taken(x, a)]
<1>1. up \in [{e} -> Nat] /\ down \in [{e} -> Nat]
  BY PostingTyped
<1>2. up[e] = Added(e, a) /\ down[e] = Taken(e, a)
  OBVIOUS
<1>3. NetOf({e}, a) = Total(up) - Total(down)
  BY DEF NetOf
<1> HIDE DEF up, down
<1>4. ASSUME NEW f \in [{e} -> Nat] PROVE Total(f) = f[e]
  <2>1. IsFiniteSet({}) /\ e \notin {} /\ {} \cup {e} = {e}
    BY FS_EmptySet
  <2>2. f \in [{} \cup {e} -> Nat]
    BY <2>1
  <2>3. Total(f) = Total([y \in {} |-> f[y]]) + f[e]
    BY <2>1, <2>2, TotalAdded
  <2>4. Total([y \in {} |-> f[y]]) = 0
    <3> DEFINE z == [y \in {} |-> f[y]]
    <3>1. \A x \in DOMAIN z : z[x] = 0
      OBVIOUS
    <3> HIDE DEF z
    <3> QED
      BY <3>1, TotalZero DEF z
  <2> QED
    BY <2>3, <2>4
<1> QED
  BY <1>1, <1>2, <1>3, <1>4, PostingTyped

LEMMA NoPosting ==
    ASSUME NEW es, \A e \in es : EntryTyped(e), NEW a, \A e \in es : Posting(e, a) = 0
    PROVE  NetOf(es, a) = 0
<1> DEFINE up == [e \in es |-> Added(e, a)]
<1> DEFINE down == [e \in es |-> Taken(e, a)]
<1>1. (\A e \in DOMAIN up : up[e] = 0) /\ (\A e \in DOMAIN down : down[e] = 0)
  BY DEF Added, Taken
<1>2. NetOf(es, a) = Total(up) - Total(down)
  BY DEF NetOf
<1> HIDE DEF up, down
<1>3. Total(up) = 0 /\ Total(down) = 0
  BY <1>1, TotalZero
<1> QED
  BY <1>2, <1>3

(* One entry for each document x of D, which adds f[x].                    *)
EntryEach(h, D, es, f) ==
    /\ IsFiniteSet(D) /\ h \in Bijection(D, es) /\ f \in [D -> Nat]
    /\ \A e \in es : EntryTyped(e)

LEMMA EntriesAdd ==
    ASSUME NEW h, NEW D, NEW es, NEW f, EntryEach(h, D, es, f),
           NEW a, \A x \in D : Posting(h[x], a) = f[x]
    PROVE  NetOf(es, a) = Total(f)
<1> DEFINE up == [e \in es |-> Added(e, a)]
<1> DEFINE down == [e \in es |-> Taken(e, a)]
<1>1. \A e \in es : \E x \in D : h[x] = e
  BY DEF EntryEach, Bijection, Surjection
<1>2. \A x \in D : h[x] \in es /\ f[x] \in Nat
  BY DEF EntryEach, Bijection, Surjection
<1>3. up \in [es -> Nat] /\ \A x \in D : up[h[x]] = f[x]
  BY <1>2, PostingTyped DEF Added, EntryEach
<1>4. \A e \in DOMAIN down : down[e] = 0
  <2> SUFFICES ASSUME NEW e \in es PROVE Taken(e, a) = 0
    OBVIOUS
  <2>1. PICK x \in D : h[x] = e
    BY <1>1
  <2> QED
    BY <1>2, <2>1 DEF Taken
<1>5. NetOf(es, a) = Total(up) - Total(down)
  BY DEF NetOf
<1> HIDE DEF up, down
<1>6. Reindexes(h, D, f, es, up)
  BY <1>3 DEF Reindexes, EntryEach
<1>7. Total(f) = Total(up) /\ Total(down) = 0 /\ Total(f) \in Nat
  BY <1>4, <1>6, TotalReindexed, TotalZero, TotalNat DEF EntryEach
<1> QED
  BY <1>5, <1>7

LEMMA EntriesTake ==
    ASSUME NEW h, NEW D, NEW es, NEW f, EntryEach(h, D, es, f),
           NEW a, \A x \in D : Posting(h[x], a) = -f[x]
    PROVE  NetOf(es, a) = -Total(f)
<1> DEFINE up == [e \in es |-> Added(e, a)]
<1> DEFINE down == [e \in es |-> Taken(e, a)]
<1>1. \A e \in es : \E x \in D : h[x] = e
  BY DEF EntryEach, Bijection, Surjection
<1>2. \A x \in D : h[x] \in es /\ f[x] \in Nat
  BY DEF EntryEach, Bijection, Surjection
<1>3. down \in [es -> Nat] /\ \A x \in D : down[h[x]] = f[x]
  BY <1>2, PostingTyped DEF Taken, EntryEach
<1>4. \A e \in DOMAIN up : up[e] = 0
  <2> SUFFICES ASSUME NEW e \in es PROVE Added(e, a) = 0
    OBVIOUS
  <2>1. PICK x \in D : h[x] = e
    BY <1>1
  <2> QED
    BY <1>2, <2>1 DEF Added
<1>5. NetOf(es, a) = Total(up) - Total(down)
  BY DEF NetOf
<1> HIDE DEF up, down
<1>6. Reindexes(h, D, f, es, down)
  BY <1>3 DEF Reindexes, EntryEach
<1>7. Total(f) = Total(down) /\ Total(up) = 0 /\ Total(f) \in Nat
  BY <1>4, <1>6, TotalReindexed, TotalZero, TotalNat DEF EntryEach
<1> QED
  BY <1>5, <1>7

(* A counter is explained when it is the opening balance and the net of    *)
(* the entries.                                                            *)
LEMMA ExplainedByNet ==
    ASSUME NEW m, NEW a, IsFiniteSet(EntriesOf(m)), \A e \in EntriesOf(m) : EntryTyped(e),
           OpeningBalance(m)[a] \in Int
    PROVE  Explained(m, a) <=> bal[m][a] = OpeningBalance(m)[a] + NetOf(EntriesOf(m), a)
<1>1. Credits(m, a) \in Nat /\ Debits(m, a) \in Nat
  BY EntriesTotals DEF Credits, Debits
<1> QED
  BY <1>1 DEF Explained, NetOf, Credits, Debits

(* New entries of m, and counters that have changed by what they say.      *)
LEMMA MoreEntries ==
    ASSUME NEW m, NEW a, OpeningBalance(m)[a] \in Int, bal[m][a] \in Int,
           IsFiniteSet(EntriesOf(m)), \A e \in EntriesOf(m) : EntryTyped(e),
           NEW new, IsFiniteSet(new), \A e \in new : EntryTyped(e), EntriesOf(m) \cap new = {},
           EntriesOf(m)' = EntriesOf(m) \cup new,
           Explained(m, a), bal'[m][a] = bal[m][a] + NetOf(new, a)
    PROVE  Explained(m, a)'
<1> DEFINE D == EntriesOf(m)
<1>1. bal[m][a] = OpeningBalance(m)[a] + NetOf(D, a)
  BY ExplainedByNet
<1>2. NetOf(D, a) \in Int /\ NetOf(new, a) \in Int
  BY EntriesTotals
<1>3. NetOf(D \cup new, a) = NetOf(D, a) + NetOf(new, a)
  BY EntriesJoined
<1>4. bal'[m][a] = OpeningBalance(m)[a] + NetOf(D \cup new, a)
  BY <1>1, <1>2, <1>3
<1>5. IsFiniteSet(D \cup new) /\ \A e \in D \cup new : EntryTyped(e)
  BY FS_Union
<1> DEFINE up == Total([e \in D \cup new |-> Added(e, a)])
<1> DEFINE down == Total([e \in D \cup new |-> Taken(e, a)])
<1>6. up \in Nat /\ down \in Nat /\ NetOf(D \cup new, a) = up - down
  BY <1>5, EntriesTotals DEF NetOf
<1>7. Credits(m, a)' = up /\ Debits(m, a)' = down
  BY DEF Credits, Debits
<1> HIDE DEF up, down
<1>8. bal'[m][a] = OpeningBalance(m)[a] + Credits(m, a)' - Debits(m, a)'
  BY <1>4, <1>6, <1>7
<1> QED
  BY <1>8 DEF Explained

LEMMA EntryFields ==
    ASSUME NEW source, NEW m, NEW type, NEW loc, NEW q
    PROVE  LET e == Entry(source, m, type, loc, q) IN
           e.source = source /\ e.mat = m /\ e.type = type /\ e.loc = loc /\ e.qty = q
  BY DEF Entry

LEMMA PurchaseEntry ==
    ASSUME NEW e, e.type = "purchase", e.loc \in Locations, e.qty \in Int, NEW a
    PROVE  /\ EntryTyped(e)
           /\ Posting(e, a) = IF a \in {e.loc, "purchased"} THEN e.qty ELSE 0
  BY DEF EntryTyped, TxTypes, Posting, Delta

LEMMA ManualEntry ==
    ASSUME NEW e, e.type = "manual", e.loc \in Locations, e.qty \in Int, NEW a
    PROVE  /\ EntryTyped(e)
           /\ Posting(e, a) = IF a = e.loc THEN e.qty ELSE 0
  BY DEF EntryTyped, TxTypes, Posting, Delta

LEMMA ConsumeEntry ==
    ASSUME NEW e, e.type = "consume", e.loc \in Locations, e.qty \in Int, NEW a
    PROVE  /\ EntryTyped(e)
           /\ Posting(e, a) = IF a = e.loc THEN -e.qty ELSE IF a = "used" THEN e.qty ELSE 0
<1>1. e.loc # "used"
  BY DEF Locations
<1> QED
  BY <1>1 DEF EntryTyped, TxTypes, Posting, Delta

LEMMA AccountsApart ==
    /\ Locations \subseteq Accounts /\ {"transit", "purchased", "used"} \subseteq Accounts
    /\ "own" \in Locations /\ "factory" \in Locations
    /\ "transit" \notin Locations /\ "purchased" \notin Locations /\ "used" \notin Locations
    /\ \A a \in Accounts : a \in Locations \/ a \in {"transit", "purchased", "used"}
    /\ \A a \in Locations : a = "own" \/ a = "factory"
    /\ Places \subseteq Locations
  BY PurchaseAssumption DEF Accounts, Locations

(* A session that posts one entry to counters as they are.                 *)
LEMMA PostedAsSaid ==
    ASSUME NEW cur \in Balance, NEW e, EntryTyped(e)
    PROVE  /\ Posted(cur, cur, e.type, e.loc, e.qty) \in Balance
           /\ \A a \in Accounts :
                 Posted(cur, cur, e.type, e.loc, e.qty)[a] = cur[a] + Posting(e, a)
<1>1. \A a \in Accounts : Posted(cur, cur, e.type, e.loc, e.qty)[a] = cur[a] + Posting(e, a)
  BY DEF Posted, Posting, Balance
<1>2. \A a \in Accounts : cur[a] \in Int /\ Posting(e, a) \in Int
  BY PostingTyped DEF Balance
<1>3. Posted(cur, cur, e.type, e.loc, e.qty) =
        [a \in Accounts |-> Posted(cur, cur, e.type, e.loc, e.qty)[a]]
  BY DEF Posted
<1> QED
  BY <1>1, <1>2, <1>3 DEF Balance

-----------------------------------------------------------------------------
(* What a confirmation does to the books                                   *)
(*                                                                         *)
(* A row that was posted before leaves the counters alone; one that was    *)
(* not moves them by the entry it adds.  So the counters of a consumable   *)
(* are at every time its opening balance and its entries, one per row.     *)

PostingsExplained ==
    /\ IsFiniteSet(ledger)
    /\ \A e \in ledger : EntryTyped(e)
    /\ LedgerExplainsBalance

ExplainedInv == TypeInv /\ PostingsExplained

(* One entry at most for a consumable, and counters that moved by it.      *)
LEMMA EntryKeepsExplained ==
    ASSUME ExplainedInv, NEW m \in Materials, NEW a \in Accounts,
           \/ EntriesOf(m)' = EntriesOf(m) /\ bal'[m] = bal[m]
           \/ \E e : /\ EntryTyped(e) /\ e \notin ledger
                     /\ EntriesOf(m)' = EntriesOf(m) \cup {e}
                     /\ bal'[m] = Posted(bal[m], bal[m], e.type, e.loc, e.qty)
    PROVE  Explained(m, a)'
<1>1. /\ bal[m] \in Balance /\ bal[m][a] \in Int
      /\ OpeningBalance(m)[a] \in Int /\ Explained(m, a)
  BY LedgerAssumption DEF ExplainedInv, TypeInv, BooksTyped, PostingsExplained,
     LedgerExplainsBalance, OpeningBalance, Balance
<1>2. /\ EntriesOf(m) \subseteq ledger /\ IsFiniteSet(EntriesOf(m))
      /\ \A e \in EntriesOf(m) : EntryTyped(e)
  BY FS_Subset DEF ExplainedInv, PostingsExplained, EntriesOf
<1>3. CASE EntriesOf(m)' = EntriesOf(m) /\ bal'[m] = bal[m]
  <2>1. Credits(m, a)' = Credits(m, a) /\ Debits(m, a)' = Debits(m, a)
    BY <1>3 DEF Credits, Debits
  <2> QED
    BY <1>1, <1>3, <2>1 DEF Explained
<1>4. ASSUME NEW e, EntryTyped(e), e \notin ledger,
             EntriesOf(m)' = EntriesOf(m) \cup {e},
             bal'[m] = Posted(bal[m], bal[m], e.type, e.loc, e.qty)
      PROVE  Explained(m, a)'
  <2>1. bal'[m][a] = bal[m][a] + Posting(e, a)
    BY <1>1, <1>4, PostedAsSaid
  <2>2. IsFiniteSet({e}) /\ EntriesOf(m) \cap {e} = {} /\ \A x \in {e} : EntryTyped(x)
    BY <1>2, <1>4, FS_Singleton
  <2>3. NetOf({e}, a) = Posting(e, a)
    BY <1>4, OneEntry
  <2> QED
    BY <1>1, <1>2, <1>4, <2>1, <2>2, <2>3, MoreEntries
<1> QED
  BY <1>3, <1>4

LEMMA ConfirmKeepsExplained ==
    ASSUME ExplainedInv, NEW w \in Workers, CommitConfirm(w)
    PROVE  PostingsExplained'
<1> DEFINE new == {m \in ToPost(w) : StocktakeEntry(w, m) \notin seen[w].prior}
           entry(m) == StocktakeEntry(w, m)
<1>1. /\ ledger' = ledger \cup {entry(m) : m \in new}
      /\ bal' = [m \in Materials |->
            IF m \in new
            THEN Posted(bal[m], view[w][m], "stocktake", Place, Difference(seen[w].rows[m]))
            ELSE bal[m]]
      /\ new \subseteq Materials
  BY DEF CommitConfirm, ToPost
<1>2. ASSUME NEW m \in new
      PROVE  /\ EntryTyped(entry(m)) /\ entry(m) \notin ledger /\ entry(m).mat = m
             /\ view[w][m] = bal[m]
             /\ entry(m).type = "stocktake" /\ entry(m).loc = Place
             /\ entry(m).qty = Difference(seen[w].rows[m])
  <2>1. m \in Materials /\ m \in DOMAIN view[w] /\ m \in DOMAIN seen[w].rows
    BY DEF CommitConfirm, ToPost, ToLock
  <2>2. view[w][m] = bal[m]
    BY <2>1 DEF ExplainedInv, TypeInv, PostingInv, LocksInv, NoStaleView
  <2>3. Difference(seen[w].rows[m]) \in Int
    <3>1. RowsFit(request[w].task, seen[w].rows)
      BY DEF CommitConfirm, ServesAt, ExplainedInv, TypeInv, CallsTyped, CallTyped
    <3> QED
      BY <2>1, <3>1, DifferenceInt DEF RowsFit
  <2>4. /\ entry(m).mat = m /\ entry(m).type = "stocktake" /\ entry(m).loc = Place
        /\ entry(m).qty = Difference(seen[w].rows[m])
        /\ entry(m).source = Posting3(request[w].task, m)
    BY DEF StocktakeEntry, Posting3
  <2>5. EntryTyped(entry(m))
    BY <2>3, <2>4, StocktakeAssumption DEF EntryTyped, TxTypes
  <2>6. entry(m) \notin ledger
    BY <2>1, <2>4 DEF ExplainedInv, TypeInv, PostingInv, PriorComplete
  <2> QED
    BY <2>2, <2>4, <2>5, <2>6
<1>3. IsFiniteSet(ledger')
  <2>1. IsFiniteSet(new)
    BY <1>1, LedgerAssumption, FS_Subset
  <2> HIDE DEF new, entry
  <2> DEFINE each == [m \in new |-> entry(m)]
  <2>2. IsFiniteSet({entry(m) : m \in new})
    <3>1. each \in Surjection(new, {entry(m) : m \in new})
      BY DEF Surjection
    <3> HIDE DEF each
    <3> QED
      BY <2>1, <3>1, FS_Surjection
  <2> QED
    BY <1>1, <2>2, FS_Union DEF ExplainedInv, PostingsExplained
<1>4. \A e \in ledger' : EntryTyped(e)
  BY <1>1, <1>2 DEF ExplainedInv, PostingsExplained
<1>5. ASSUME NEW m \in Materials, NEW a \in Accounts PROVE Explained(m, a)'
  <2>1. CASE m \in new
    <3>1. EntriesOf(m)' = EntriesOf(m) \cup {entry(m)}
      <4> HIDE DEF new, entry
      <4> QED
        BY <1>1, <1>2, <2>1 DEF EntriesOf
    <3>2. bal'[m] = Posted(bal[m], bal[m], entry(m).type, entry(m).loc, entry(m).qty)
      BY <1>1, <1>2, <2>1
    <3> HIDE DEF new, entry
    <3> QED
      BY <1>2, <2>1, <3>1, <3>2, EntryKeepsExplained
  <2>2. CASE m \notin new
    <3> HIDE DEF new, entry
    <3>1. EntriesOf(m)' = EntriesOf(m)
      BY <1>1, <1>2, <2>2 DEF EntriesOf
    <3>2. bal'[m] = bal[m]
      BY <1>1, <2>2
    <3> QED
      BY <3>1, <3>2, EntryKeepsExplained
  <2> QED
    BY <2>1, <2>2
<1> QED
  BY <1>3, <1>4, <1>5 DEF PostingsExplained, LedgerExplainsBalance

LEMMA MoveStockKeepsExplained ==
    ASSUME ExplainedInv, NEW v \in Movements, MoveStock(v)
    PROVE  PostingsExplained'
<1> DEFINE e == MovementEntry(v)
<1>1. /\ v.mat \in Materials /\ v.type \in TxTypes /\ v.loc \in Locations /\ v.qty \in Int
      /\ \A f \in ledger : f.source # e.source
      /\ ledger' = ledger \cup {e}
      /\ bal' = [bal EXCEPT ![v.mat] = Posted(@, @, v.type, v.loc, v.qty)]
  BY StocktakeAssumption DEF MoveStock
<1>2. e.mat = v.mat /\ e.type = v.type /\ e.loc = v.loc /\ e.qty = v.qty
  BY DEF MovementEntry
<1> HIDE DEF e
<1>3. EntryTyped(e) /\ e \notin ledger
  BY <1>1, <1>2 DEF EntryTyped
<1>4. IsFiniteSet(ledger') /\ \A f \in ledger' : EntryTyped(f)
  BY <1>1, <1>3, FS_AddElement DEF ExplainedInv, PostingsExplained
<1>5. bal = [m \in Materials |-> bal[m]]
  BY DEF ExplainedInv, TypeInv, PostingInv, LocksInv
<1>6. ASSUME NEW m \in Materials, NEW a \in Accounts PROVE Explained(m, a)'
  <2>1. CASE m = v.mat
    <3>1. EntriesOf(m)' = EntriesOf(m) \cup {e}
      BY <1>1, <1>2, <2>1 DEF EntriesOf
    <3>2. bal'[m] = Posted(bal[m], bal[m], e.type, e.loc, e.qty)
      BY <1>1, <1>2, <1>5, <2>1
    <3> QED
      BY <1>3, <3>1, <3>2, EntryKeepsExplained
  <2>2. CASE m # v.mat
    <3>1. EntriesOf(m)' = EntriesOf(m)
      BY <1>1, <1>2, <2>2 DEF EntriesOf
    <3>2. bal'[m] = bal[m]
      BY <1>1, <1>5, <2>2
    <3> QED
      BY <3>1, <3>2, EntryKeepsExplained
  <2> QED
    BY <2>1, <2>2
<1> QED
  BY <1>4, <1>6 DEF PostingsExplained, LedgerExplainsBalance

LEMMA ExplainedStep == ExplainedInv /\ [StocktakeNext]_stocktakeVars => ExplainedInv'
<1> SUFFICES ASSUME ExplainedInv, [StocktakeNext]_stocktakeVars PROVE PostingsExplained'
  BY TypeStep DEF ExplainedInv
<1>1. CASE UNCHANGED <<bal, ledger>>
  BY <1>1 DEF ExplainedInv, PostingsExplained, LedgerExplainsBalance, Explained, Credits, Debits,
     EntriesOf
<1>2. ASSUME NEW w \in Workers, StartCall(w) PROVE UNCHANGED <<bal, ledger>>
  BY <1>2 DEF StartCall, StartCreateTask, StartConfirm, StartCancel, StartSave, BeginCall, ledgerVars
<1>3. ASSUME NEW w \in Workers, StepCall(w) PROVE UNCHANGED <<bal, ledger>> \/ CommitConfirm(w)
  BY <1>3 DEF StepCall, CommitCreateTask, CommitSave, CommitCancel, CheckBooks, RefuseBooks,
     LockForPosting, RefuseContradiction, ledgerVars
<1>4. ASSUME NEW w \in Workers, CrashCall(w) PROVE UNCHANGED <<bal, ledger>>
  BY <1>4 DEF CrashCall
<1>5. ASSUME NEW d \in Documents, ImportDocument(d) PROVE UNCHANGED <<bal, ledger>>
  BY <1>5 DEF ImportDocument, ledgerVars
<1> QED
  BY <1>1, <1>2, <1>3, <1>4, <1>5, ConfirmKeepsExplained, MoveStockKeepsExplained
     DEF StocktakeNext, stocktakeVars

LEMMA ExplainedInit == StocktakeInit => ExplainedInv
<1> SUFFICES ASSUME StocktakeInit PROVE PostingsExplained
  BY TypeInit DEF ExplainedInv
<1>1. bal = [m \in Materials |-> OpeningBalance(m)] /\ ledger = {}
  BY DEF StocktakeInit, LedgerInit
<1>2. ASSUME NEW m \in Materials, NEW a \in Accounts PROVE Explained(m, a)
  <2>1. EntriesOf(m) = {} /\ OpeningBalance(m)[a] \in Int
    BY <1>1, LedgerAssumption DEF EntriesOf, OpeningBalance
  <2>2. bal[m][a] = OpeningBalance(m)[a] + NetOf(EntriesOf(m), a)
    BY <1>1, <2>1, NoEntries
  <2> QED
    BY <2>1, <2>2, ExplainedByNet, FS_EmptySet
<1> QED
  BY <1>1, <1>2, FS_EmptySet DEF PostingsExplained, LedgerExplainsBalance

(* However often a task is confirmed, re-opened by a late save, recounted  *)
(* and confirmed again, by whatever sessions, a row of it has moved the    *)
(* stock once at most: it has one entry at most, and the counters are what *)
(* was there before and what the entries say.                              *)
THEOREM RowsPostOnce == StocktakeSpec => []OnePostingPerRow
<1>1. ExplainedInv => OnePostingPerRow
  BY DEF ExplainedInv, TypeInv, PostingInv, PostingsExplained, OnePostingPerRow
<1> QED
  BY <1>1, ExplainedInit, ExplainedStep, PTL DEF StocktakeSpec

-----------------------------------------------------------------------------
(* The books *)

(* An entry was made for a receipt or usage that exists or existed; one    *)
(* that takes it back was made when it ceased to exist.                    *)
EntryOnRecord(e) ==
    /\ e.source[2] \in 1..issued
    /\ e.source[1] = "consumable_receipt_reversal" => \A r \in receipts : r.id # e.source[2]
    /\ e.source[1] = "inbound_usage_reversal" =>
          \A l \in Links : \A m \in DOMAIN usage[l].rows : usage[l].rows[m].id # e.source[2]

SumsHold(m) ==
    /\ bal[m].own + bal[m].factory + bal[m].transit
          = Opening[m] + QtyIn(receipts, m) - UsedBy(Links, m)
    /\ bal[m].purchased = QtyIn(receipts, m)

BooksInv ==
    /\ bal \in [Materials -> Balance]
    /\ IsFiniteSet(ledger)
    /\ \A e \in ledger : EntryTyped(e) /\ EntryOnRecord(e)
    /\ \A m \in Materials : SumsHold(m)
    /\ \A m \in Materials : \A a \in Locations : Explained(m, a)

(* Old entries stay on record when new ids are given to what is new.       *)
LEMMA OldEntriesStay ==
    ASSUME DocumentsInv, BooksInv, issued' \in Nat, issued' >= issued,
           \A r \in receipts' : r \in receipts \/ r.id \notin 1..issued,
           \A l \in Links : \A m \in DOMAIN usage'[l].rows :
              \/ m \in DOMAIN usage[l].rows /\ usage'[l].rows[m] = usage[l].rows[m]
              \/ usage'[l].rows[m].id \notin 1..issued
    PROVE  \A e \in ledger : EntryOnRecord(e)'
<1>1. 1..issued \subseteq 1..issued'
  BY DEF DocumentsInv
<1> QED
  BY <1>1 DEF BooksInv, EntryOnRecord

EntriesFor(es, m) == {e \in es : e.mat = m}

(* New entries, and books that have changed by what they say.              *)
LEMMA BooksKept ==
    ASSUME BooksInv, NEW new, IsFiniteSet(new), ledger' = ledger \cup new,
           bal' \in [Materials -> Balance],
           \A e \in ledger : EntryOnRecord(e)',
           \A e \in new : EntryTyped(e) /\ e \notin ledger /\ EntryOnRecord(e)',
           \A m \in Materials : SumsHold(m)',
           \A m \in Materials : \A a \in Locations :
              bal'[m][a] = bal[m][a] + NetOf(EntriesFor(new, m), a)
    PROVE  BooksInv'
<1>1. ASSUME NEW m \in Materials, NEW a \in Locations PROVE Explained(m, a)'
  <2>1. EntriesOf(m)' = EntriesOf(m) \cup EntriesFor(new, m)
    BY DEF EntriesOf, EntriesFor
  <2>2. EntriesOf(m) \subseteq ledger /\ EntriesFor(new, m) \subseteq new
    BY DEF EntriesOf, EntriesFor
  <2>3. IsFiniteSet(EntriesOf(m)) /\ IsFiniteSet(EntriesFor(new, m))
    BY <2>2, FS_Subset DEF BooksInv
  <2>4. /\ \A e \in EntriesOf(m) : EntryTyped(e)
        /\ \A e \in EntriesFor(new, m) : EntryTyped(e)
        /\ EntriesOf(m) \cap EntriesFor(new, m) = {}
    BY <2>2 DEF BooksInv
  <2>5. OpeningBalance(m)[a] \in Int /\ bal[m][a] \in Int
    BY LedgerAssumption, AccountsApart DEF OpeningBalance, BooksInv, Balance
  <2>6. Explained(m, a) /\ bal'[m][a] = bal[m][a] + NetOf(EntriesFor(new, m), a)
    BY DEF BooksInv
  <2> QED
    BY <2>1, <2>3, <2>4, <2>5, <2>6, MoreEntries
<1>2. IsFiniteSet(ledger')
  BY FS_Union DEF BooksInv
<1>3. \A e \in ledger' : EntryTyped(e) /\ EntryOnRecord(e)'
  BY DEF BooksInv
<1> QED
  BY <1>1, <1>2, <1>3 DEF BooksInv

LEMMA UsedSums ==
    ASSUME DocumentsInv, NEW ls \in SUBSET Links, NEW m
    PROVE  /\ IsFiniteSet(ls)
           /\ \A l \in ls : UsedQty(l, m) \in Nat
           /\ [l \in ls |-> UsedQty(l, m)] \in [ls -> Nat]
           /\ UsedBy(ls, m) \in Nat
<1>1. IsFiniteSet(ls)
  BY PurchaseAssumption, FS_Subset
<1>2. \A l \in ls : UsedQty(l, m) \in Nat
  BY DEF DocumentsInv, UsageOK, UsedQty
<1>3. [l \in ls |-> UsedQty(l, m)] \in [ls -> Nat]
  BY <1>2
<1> QED
  BY <1>1, <1>2, <1>3, TotalNat DEF UsedBy

(* One entry for m at location loc, which changes the stock by q.          *)
LEMMA StockMoved ==
    ASSUME NEW v \in Balance, NEW u \in Balance, NEW loc \in Locations, NEW q \in Int,
           \A a \in Locations : u[a] = v[a] + (IF a = loc THEN q ELSE 0),
           u.transit = v.transit
    PROVE  u.own + u.factory + u.transit = v.own + v.factory + v.transit + q
<1>1. v.own \in Int /\ v.factory \in Int /\ v.transit \in Int
  BY AccountsApart DEF Balance
<1>2. loc = "own" \/ loc = "factory"
  BY AccountsApart
<1>3. CASE loc = "own"
  <2>1. u.own = v.own + q /\ u.factory = v.factory + 0
    BY <1>3, AccountsApart
  <2> QED
    BY <1>1, <2>1
<1>4. CASE loc = "factory"
  <2>1. u.own = v.own + 0 /\ u.factory = v.factory + q
    BY <1>4, AccountsApart
  <2> QED
    BY <1>1, <2>1
<1> QED
  BY <1>2, <1>3, <1>4

LEMMA NothingNew ==
    ASSUME NEW new, NEW m, \A e \in new : e.mat # m, NEW a
    PROVE  NetOf(EntriesFor(new, m), a) = 0
<1>1. EntriesFor(new, m) = {}
  BY DEF EntriesFor
<1> QED
  BY <1>1, NoEntries

LEMMA FreshCopy ==
    ASSUME SessionsInv, NEW w \in Workers, NEW m \in DOMAIN view[w]
    PROVE  m \in Materials /\ view[w][m] = bal[m]
  BY DEF SessionsInv, RowsFresh, FreshCopies

LEMMA ReceiveKeepsBooks ==
    ASSUME SessionsInv, DocumentsInv, BooksInv, NEW w \in Workers, CommitReceive(w)
    PROVE  BooksInv'
<1>0. PICK d \in Deliveries : d = call[w].delivery
  BY DEF CommitReceive, SessionsInv, SessionOK, CallOK
<1>r. PICK r : r = [id |-> issued + 1, delivery |-> d]
  OBVIOUS
<1>e. PICK E : E = [m \in DOMAIN d.qty |-> ReceiptEntry(r, m)]
  OBVIOUS
<1> DEFINE new == {E[m] : m \in DOMAIN d.qty}
<1>1. /\ receipts' = receipts \cup {r} /\ issued' = issued + 1 /\ UNCHANGED <<usage, place>>
      /\ ledger' = ledger \cup new
  BY <1>0, <1>r, <1>e DEF CommitReceive
<1>2. r.id = issued + 1 /\ r.delivery = d
  BY <1>r
<1>3. issued \in Nat /\ issued' \in Nat /\ issued' >= issued /\ issued + 1 \notin 1..issued
      /\ issued + 1 \in 1..issued' /\ place \in Locations
  BY <1>1, AccountsApart DEF DocumentsInv
<1>4. DOMAIN d.qty \subseteq Materials /\ \A m \in DOMAIN d.qty : d.qty[m] \in Nat
  BY QtyNat
<1>5. ASSUME NEW m \in DOMAIN d.qty
      PROVE  /\ E[m].source = <<"receipt", issued + 1>> /\ E[m].mat = m
             /\ E[m].type = "purchase" /\ E[m].loc = place /\ E[m].qty = d.qty[m]
  <2>1. E[m] = ReceiptEntry(r, m)
    BY <1>e
  <2> QED
    BY <1>2, <2>1, EntryFields DEF ReceiptEntry
<1>6. ASSUME NEW m \in DOMAIN d.qty, NEW a
      PROVE  /\ EntryTyped(E[m])
             /\ Posting(E[m], a) = IF a \in {place, "purchased"} THEN d.qty[m] ELSE 0
  <2>1. d.qty[m] \in Int
    BY <1>4
  <2> QED
    BY <1>3, <1>5, <2>1, PurchaseEntry
<1>7. ASSUME NEW m \in Materials
      PROVE  bal'[m] = IF m \in DOMAIN d.qty THEN Posted(bal[m], bal[m], "purchase", place, d.qty[m])
                       ELSE bal[m]
  <2>1. DOMAIN view[w] = DOMAIN d.qty
    BY <1>0, ReceiveHolds
  <2>2. m \in DOMAIN d.qty => view[w][m] = bal[m]
    BY <2>1, FreshCopy
  <2> QED
    BY <1>0, <2>2 DEF CommitReceive
<1>8. bal' = [m \in Materials |-> bal'[m]]
  BY DEF CommitReceive
<1>9. IsFiniteSet(new)
  <2>1. DOMAIN E = DOMAIN d.qty /\ IsFiniteSet(DOMAIN d.qty)
    BY <1>4, <1>e, LedgerAssumption, FS_Subset
  <2> QED
    BY <2>1, ImageFinite
<1>10. \A e \in new : EntryTyped(e) /\ e \notin ledger /\ EntryOnRecord(e)'
  <2> SUFFICES ASSUME NEW m \in DOMAIN d.qty
               PROVE  EntryTyped(E[m]) /\ E[m] \notin ledger /\ EntryOnRecord(E[m])'
    OBVIOUS
  <2>1. E[m].source[1] = "receipt" /\ E[m].source[2] = issued + 1
    BY <1>5
  <2>2. E[m] \notin ledger
    BY <1>3, <2>1 DEF BooksInv, EntryOnRecord
  <2>3. EntryOnRecord(E[m])'
    BY <1>3, <2>1 DEF EntryOnRecord
  <2> QED
    BY <1>6, <2>2, <2>3
<1>11. \A e \in ledger : EntryOnRecord(e)'
  BY <1>1, <1>2, <1>3, OldEntriesStay
<1>12. ASSUME NEW m \in Materials
       PROVE  /\ bal'[m] \in Balance
              /\ SumsHold(m)'
              /\ \A a \in Locations : bal'[m][a] = bal[m][a] + NetOf(EntriesFor(new, m), a)
  <2>0. bal[m] \in Balance /\ SumsHold(m)
    BY DEF BooksInv
  <2>1. QtyIn(receipts, m)' = QtyIn(receipts, m) + QtyOf(d, m)
    <3>1. r \notin receipts /\ IsFiniteSet(receipts) /\ \A q \in receipts : q.delivery \in Deliveries
      BY <1>2, <1>3 DEF DocumentsInv, ReceiptsOK
    <3>2. QtyIn(receipts \cup {r}, m) = QtyIn(receipts, m) + QtyOf(r.delivery, m)
      BY <1>2, <3>1, OneMoreReceipt
    <3> QED
      BY <1>1, <1>2, <3>2
  <2>2. UsedBy(Links, m)' = UsedBy(Links, m)
    BY <1>1 DEF UsedBy, UsedQty
  <2>3. QtyIn(receipts, m) \in Nat /\ UsedBy(Links, m) \in Nat /\ Opening[m] \in Int
    BY ReceiptsSum, UsedSums, LedgerAssumption
  <2>4. CASE m \in DOMAIN d.qty
    <3>1. EntriesFor(new, m) = {E[m]}
      BY <1>5, <2>4 DEF EntriesFor
    <3>2. \A a : NetOf(EntriesFor(new, m), a) = Posting(E[m], a)
      BY <1>6, <2>4, <3>1, OneEntry
    <3>3. /\ bal'[m] \in Balance
          /\ \A a \in Accounts : bal'[m][a] = bal[m][a] + Posting(E[m], a)
      BY <1>5, <1>6, <1>7, <2>0, <2>4, PostedAsSaid
    <3>4. \A a \in Locations : bal'[m][a] = bal[m][a] + (IF a = place THEN d.qty[m] ELSE 0)
      BY <1>6, <2>4, <3>3, AccountsApart
    <3>5. /\ bal'[m].transit = bal[m].transit + 0
          /\ bal'[m].purchased = bal[m].purchased + d.qty[m]
      BY <1>3, <1>6, <2>4, <3>3, AccountsApart
    <3>6. bal[m].transit \in Int /\ bal[m].own \in Int /\ bal[m].factory \in Int /\ bal[m].purchased \in Int
      BY <2>0, AccountsApart DEF Balance
    <3>7. bal'[m].own + bal'[m].factory + bal'[m].transit
            = bal[m].own + bal[m].factory + bal[m].transit + d.qty[m]
      <4>1. d.qty[m] \in Int /\ bal'[m].transit = bal[m].transit
        BY <1>4, <2>4, <3>5, <3>6
      <4> QED
        BY <1>3, <2>0, <3>3, <3>4, <4>1, StockMoved
    <3>8. QtyOf(d, m) = d.qty[m] /\ d.qty[m] \in Nat
      BY <1>4, <2>4 DEF QtyOf
    <3>9. SumsHold(m)'
      BY <2>0, <2>1, <2>2, <2>3, <3>5, <3>7, <3>8 DEF SumsHold
    <3> QED
      BY <3>2, <3>3, <3>9, AccountsApart
  <2>5. CASE m \notin DOMAIN d.qty
    <3>1. bal'[m] = bal[m] /\ QtyOf(d, m) = 0
      BY <1>7, <2>5 DEF QtyOf
    <3>2. \A a : NetOf(EntriesFor(new, m), a) = 0
      BY <1>5, <2>5, NothingNew
    <3>3. \A a \in Locations : bal[m][a] \in Int
      BY <2>0, AccountsApart DEF Balance
    <3> QED
      BY <2>0, <2>1, <2>2, <2>3, <3>1, <3>2, <3>3 DEF SumsHold
  <2> QED
    BY <2>4, <2>5
<1>13. bal' \in [Materials -> Balance]
  BY <1>8, <1>12
<1> HIDE DEF new
<1> QED
  BY <1>1, <1>9, <1>10, <1>11, <1>12, <1>13, BooksKept

(* What some documents say of m is what those that mention m say.          *)
LEMMA ReceivedOf ==
    ASSUME DocumentsInv, NEW rs \in SUBSET receipts, NEW m
    PROVE  LET rm == {r \in rs : m \in DOMAIN r.delivery.qty} IN
           /\ [r \in rm |-> r.delivery.qty[m]] \in [rm -> Nat]
           /\ Total([r \in rm |-> r.delivery.qty[m]]) = QtyIn(rs, m)
<1> DEFINE rm == {r \in rs : m \in DOMAIN r.delivery.qty}
<1> DEFINE f == [r \in rm |-> r.delivery.qty[m]]
<1> DEFINE z == [r \in rs |-> QtyOf(r.delivery, m)]
<1>1. \A r \in rs : r.delivery \in Deliveries
  BY DEF DocumentsInv, ReceiptsOK
<1>2. f \in [rm -> Nat]
  BY <1>1, QtyNat
<1>3. z \in [rs -> Nat] /\ \A r \in rs : z[r] = IF r \in rm THEN f[r] ELSE 0
  BY <1>1, QtyNat DEF QtyOf
<1>4. QtyIn(rs, m) = Total(z)
  BY DEF QtyIn
<1>5. rm \in SUBSET rs
  OBVIOUS
<1> HIDE DEF f, z, rm
<1>6. Total(z) = Total(f)
  BY <1>2, <1>3, <1>5, TotalPadded
<1> QED
  BY <1>2, <1>4, <1>6 DEF f, rm

LEMMA DeleteKeepsBooks ==
    ASSUME SessionsInv, DocumentsInv, BooksInv, NEW w \in Workers, CommitDelete(w)
    PROVE  BooksInv'
<1>0. PICK s \in Purchases : s = call[w].of
  BY DEF CommitDelete, SessionsInv, SessionOK, CallOK
<1>r. PICK rs \in SUBSET receipts : rs = ReceiptsOf(s)
  BY DEF ReceiptsOf
<1>p. PICK p \in Locations : p = place
  BY AccountsApart DEF DocumentsInv
<1> DEFINE E(r, m) == Entry(<<"consumable_receipt_reversal", r.id>>, m, "manual", p, -r.delivery.qty[m])
<1> DEFINE new == UNION {{E(r, m) : m \in DOMAIN r.delivery.qty} : r \in rs}
<1>1. /\ receipts' = receipts \ rs /\ UNCHANGED <<usage, place, issued>>
      /\ ledger' = ledger \cup new
  BY <1>0, <1>r, <1>p DEF CommitDelete, ReversalOfReceipt
<1>2. /\ issued \in Nat /\ IsFiniteSet(receipts) /\ IsFiniteSet(rs)
      /\ \A r \in rs : /\ r.id \in 1..issued /\ r.delivery \in Deliveries
                       /\ DOMAIN r.delivery.qty \subseteq Materials
                       /\ \A m \in DOMAIN r.delivery.qty : r.delivery.qty[m] \in Nat
  BY QtyNat, FS_Subset DEF DocumentsInv, ReceiptsOK
<1>3. ASSUME NEW r \in rs, NEW m \in DOMAIN r.delivery.qty
      PROVE  /\ E(r, m).source[1] = "consumable_receipt_reversal" /\ E(r, m).source[2] = r.id
             /\ E(r, m).mat = m /\ EntryTyped(E(r, m))
             /\ \A a : Posting(E(r, m), a) = IF a = p THEN -r.delivery.qty[m] ELSE 0
  <2>1. PICK e : e = E(r, m)
    OBVIOUS
  <2>2. /\ e.source = <<"consumable_receipt_reversal", r.id>> /\ e.mat = m
        /\ e.type = "manual" /\ e.loc = p /\ e.qty = -r.delivery.qty[m]
    BY <2>1, EntryFields
  <2>3. e.qty \in Int
    BY <1>2, <2>2
  <2>4. EntryTyped(e) /\ \A a : Posting(e, a) = IF a = e.loc THEN e.qty ELSE 0
    BY <2>2, <2>3, ManualEntry
  <2> QED
    BY <2>1, <2>2, <2>4
<1>4. ASSUME NEW m \in Materials
      PROVE  /\ m \in Received(rs) =>
                  bal'[m] = [Posted(bal[m], bal[m], "manual", p, -QtyIn(rs, m))
                               EXCEPT !.purchased = bal[m].purchased - order[s].lines[m].got]
             /\ m \notin Received(rs) => bal'[m] = bal[m]
  <2>1. DOMAIN view[w] = Received(rs)
    BY <1>0, <1>r, DeleteHolds
  <2>2. m \in Received(rs) => view[w][m] = bal[m]
    BY <2>1, FreshCopy
  <2> QED
    BY <1>0, <1>r, <1>p, <2>2 DEF CommitDelete
<1>5. bal' = [m \in Materials |-> bal'[m]]
  BY DEF CommitDelete
<1>6. IsFiniteSet(new)
  <2> DEFINE X == {x \in rs \X Materials : x[2] \in DOMAIN x[1].delivery.qty}
  <2> DEFINE g == [x \in X |-> E(x[1], x[2])]
  <2>1. IsFiniteSet(X)
    BY <1>2, LedgerAssumption, FS_Product, FS_Subset
  <2>2. ASSUME NEW e \in new PROVE \E x \in X : e = g[x]
    <3>1. PICK r \in rs : \E m \in DOMAIN r.delivery.qty : e = E(r, m)
      OBVIOUS
    <3>2. PICK m \in DOMAIN r.delivery.qty : e = E(r, m)
      BY <3>1
    <3>3. <<r, m>> \in X /\ g[<<r, m>>] = E(r, m)
      BY <1>2
    <3> HIDE DEF X, g, E
    <3> QED
      BY <3>2, <3>3
  <2>3. DOMAIN g = X
    OBVIOUS
  <2> HIDE DEF g, X, new
  <2>4. IsFiniteSet({g[x] : x \in DOMAIN g})
    BY <2>1, <2>3, ImageFinite
  <2>5. new \subseteq {g[x] : x \in DOMAIN g}
    BY <2>2, <2>3
  <2> QED
    BY <2>4, <2>5, FS_Subset
<1> HIDE DEF E
<1>7. ASSUME NEW e \in new PROVE EntryTyped(e) /\ e \notin ledger /\ EntryOnRecord(e)'
  <2>1. PICK r \in rs : \E m \in DOMAIN r.delivery.qty : e = E(r, m)
    OBVIOUS
  <2>2. PICK m \in DOMAIN r.delivery.qty : e = E(r, m)
    BY <2>1
  <2>3. e.source[1] = "consumable_receipt_reversal" /\ e.source[2] = r.id /\ EntryTyped(e)
    BY <1>3, <2>2
  <2>4. e \notin ledger
    BY <2>3 DEF BooksInv, EntryOnRecord
  <2>5. \A q \in receipts' : q.id # r.id
    BY <1>1 DEF DocumentsInv, ReceiptsOK
  <2> QED
    BY <1>1, <1>2, <2>3, <2>4, <2>5 DEF EntryOnRecord
<1>8. \A e \in ledger : EntryOnRecord(e)'
  BY <1>1, <1>2, OldEntriesStay
<1>9. ASSUME NEW m \in Materials
      PROVE  /\ bal'[m] \in Balance
             /\ SumsHold(m)'
             /\ \A a \in Locations : bal'[m][a] = bal[m][a] + NetOf(EntriesFor(new, m), a)
  <2>0. bal[m] \in Balance /\ SumsHold(m)
    BY DEF BooksInv
  <2>1. QtyIn(receipts, m) = QtyIn(receipts, m)' + QtyIn(rs, m)
    <3>1. \A q \in receipts : q.delivery \in Deliveries
      BY DEF DocumentsInv, ReceiptsOK
    <3>2. QtyIn(receipts, m) = QtyIn(receipts \ rs, m) + QtyIn(rs, m)
      BY <1>2, <3>1, FewerReceipts
    <3> QED
      BY <1>1, <3>2
  <2>2. UsedBy(Links, m)' = UsedBy(Links, m)
    BY <1>1 DEF UsedBy, UsedQty
  <2>3. /\ QtyIn(rs, m) \in Nat /\ QtyIn(receipts, m) \in Nat /\ QtyIn(receipts \ rs, m) \in Nat
        /\ QtyIn(receipts, m)' = QtyIn(receipts \ rs, m)
        /\ UsedBy(Links, m) \in Nat /\ Opening[m] \in Int
    <3>1. receipts \in SUBSET receipts /\ receipts \ rs \in SUBSET receipts
      OBVIOUS
    <3>2. QtyIn(rs, m) \in Nat /\ QtyIn(receipts, m) \in Nat
      BY <3>1, ReceiptsSum
    <3>3. QtyIn(receipts \ rs, m) \in Nat
      BY <3>1, ReceiptsSum
    <3> QED
      BY <1>1, <3>2, <3>3, UsedSums, LedgerAssumption
  <2>4. CASE m \in Received(rs)
    <3> DEFINE Q == QtyIn(rs, m)
    <3>1. order[s].lines[m].got = Q
      <4>1. OrderOK(s)
        BY DEF DocumentsInv
      <4>2. PICK r \in rs : m \in DOMAIN r.delivery.qty
        BY <2>4 DEF Received
      <4>3. m \in DOMAIN order[s].lines
        BY <1>r, <4>1, <4>2 DEF OrderOK
      <4> QED
        BY <1>r, <4>1, <4>3 DEF OrderOK
    <3>2. PICK x : x = Posted(bal[m], bal[m], "manual", p, -Q)
      OBVIOUS
    <3>3. x \in Balance /\ \A a \in Accounts : x[a] = bal[m][a] + (IF a = p THEN -Q ELSE 0)
      <4>1. PICK e : e = Entry(<<>>, m, "manual", p, -Q)
        OBVIOUS
      <4>2. e.type = "manual" /\ e.loc = p /\ e.qty = -Q /\ e.qty \in Int
        BY <2>3, <4>1, EntryFields
      <4>3. EntryTyped(e) /\ \A a : Posting(e, a) = IF a = p THEN -Q ELSE 0
        BY <4>2, ManualEntry
      <4> QED
        BY <2>0, <3>2, <4>2, <4>3, PostedAsSaid
    <3>4. bal'[m] = [x EXCEPT !.purchased = bal[m].purchased - Q]
      BY <1>4, <2>4, <3>1, <3>2
    <3>5. bal[m].purchased \in Int /\ bal[m].transit \in Int /\ Q \in Int
      BY <2>0, <2>3, AccountsApart DEF Balance
    <3> HIDE DEF Q
    <3>6. /\ bal'[m] \in Balance
          /\ bal'[m].purchased = bal[m].purchased - Q
          /\ \A a \in Accounts : a # "purchased" => bal'[m][a] = x[a]
      BY <3>3, <3>4, <3>5, AccountsApart DEF Balance
    <3>7. \A a \in Locations : bal'[m][a] = bal[m][a] + (IF a = p THEN -Q ELSE 0)
      BY <3>3, <3>6, AccountsApart
    <3>8. bal'[m].transit = bal[m].transit
      <4>1. bal'[m].transit = bal[m].transit + 0
        BY <3>3, <3>6, AccountsApart
      <4> QED
        BY <3>5, <4>1
    <3>9. bal'[m].own + bal'[m].factory + bal'[m].transit
            = bal[m].own + bal[m].factory + bal[m].transit + (-Q)
      <4>1. -Q \in Int
        BY <3>5
      <4> QED
        BY <2>0, <3>6, <3>7, <3>8, <4>1, StockMoved
    <3>10. SumsHold(m)'
      <4>1. bal[m].own \in Int /\ bal[m].factory \in Int
        BY <2>0, AccountsApart DEF Balance
      <4>2. /\ bal[m].own + bal[m].factory + bal[m].transit
                 = Opening[m] + QtyIn(receipts, m) - UsedBy(Links, m)
            /\ bal[m].purchased = QtyIn(receipts, m)
        BY <2>0 DEF SumsHold
      <4>3. QtyIn(receipts, m) = QtyIn(receipts \ rs, m) + Q /\ Q \in Nat
        BY <2>1, <2>3 DEF Q
      <4>4. bal'[m].own + bal'[m].factory + bal'[m].transit
              = Opening[m] + QtyIn(receipts \ rs, m) - UsedBy(Links, m)
        BY <2>3, <3>5, <3>9, <4>1, <4>2, <4>3
      <4>5. bal'[m].purchased = QtyIn(receipts \ rs, m)
        BY <2>3, <3>6, <4>2, <4>3
      <4> QED
        BY <2>2, <2>3, <4>4, <4>5 DEF SumsHold
    <3>11. ASSUME NEW a \in Locations PROVE NetOf(EntriesFor(new, m), a) = IF a = p THEN -Q ELSE 0
      <4> DEFINE rm == {r \in rs : m \in DOMAIN r.delivery.qty}
      <4> DEFINE es == EntriesFor(new, m)
      <4>1. es = {E(r, m) : r \in rm}
        <5>1. ASSUME NEW e \in es PROVE \E r \in rm : e = E(r, m)
          BY <1>3 DEF EntriesFor
        <5>2. ASSUME NEW r \in rm PROVE E(r, m) \in es
          BY <1>3 DEF EntriesFor
        <5> HIDE DEF es, rm
        <5> QED
          BY <5>1, <5>2
      <4>2. \A e \in es : EntryTyped(e)
        BY <1>7 DEF EntriesFor
      <4>3. CASE a # p
        <5>1. \A e \in es : Posting(e, a) = 0
          BY <1>3, <4>1, <4>3
        <5> HIDE DEF es
        <5> QED
          BY <4>2, <4>3, <5>1, NoPosting DEF es
      <4>4. CASE a = p
        <5> DEFINE h == [r \in rm |-> E(r, m)]
        <5> DEFINE f == [r \in rm |-> r.delivery.qty[m]]
        <5>1. f \in [rm -> Nat] /\ Total(f) = Q
          BY ReceivedOf DEF Q
        <5>2. IsFiniteSet(rm)
          BY <1>2, FS_Subset
        <5>3. \A q, r \in rm : E(q, m) = E(r, m) => q = r
          <6> SUFFICES ASSUME NEW q \in rm, NEW r \in rm, E(q, m) = E(r, m) PROVE q = r
            OBVIOUS
          <6>1. q.id = r.id
            BY <1>3
          <6> QED
            BY <6>1 DEF DocumentsInv, ReceiptsOK
        <5> HIDE DEF es
        <5>4. h \in Bijection(rm, es)
          BY <4>1, <5>3 DEF Bijection, Injection, Surjection, IsInjective
        <5>5. \A r \in rm : Posting(h[r], a) = -f[r]
          BY <1>3, <4>4
        <5> HIDE DEF h, f, rm
        <5>6. EntryEach(h, rm, es, f)
          BY <4>2, <5>1, <5>2, <5>4 DEF EntryEach
        <5>7. NetOf(es, a) = -Total(f)
          BY <5>5, <5>6, EntriesTake
        <5> QED
          BY <4>4, <5>1, <5>7 DEF es
      <4> QED
        BY <4>3, <4>4
    <3> QED
      BY <3>6, <3>7, <3>10, <3>11
  <2>5. CASE m \notin Received(rs)
    <3>1. bal'[m] = bal[m]
      BY <1>4, <2>5
    <3>2. QtyIn(rs, m) = 0
      <4>1. ~\E r \in rs : m \in DOMAIN r.delivery.qty
        BY <2>5 DEF Received
      <4>2. ~(QtyIn(rs, m) > 0)
        BY <4>1, ReceiptsSum
      <4> QED
        BY <2>3, <4>2
    <3>3. \A e \in new : e.mat # m
      BY <1>3, <2>5 DEF Received
    <3>4. \A a : NetOf(EntriesFor(new, m), a) = 0
      BY <3>3, NothingNew
    <3>5. \A a \in Locations : bal[m][a] \in Int
      BY <2>0, AccountsApart DEF Balance
    <3>6. QtyIn(receipts, m)' = QtyIn(receipts, m)
      BY <2>1, <2>3, <3>2
    <3> QED
      BY <2>0, <2>2, <3>1, <3>4, <3>5, <3>6 DEF SumsHold
  <2> QED
    BY <2>4, <2>5
<1>10. bal' \in [Materials -> Balance]
  BY <1>5, <1>9
<1> HIDE DEF new
<1> QED
  BY <1>1, <1>6, <1>7, <1>8, <1>9, <1>10, BooksKept

(* The entry that takes back a usage row of a link.                        *)
LEMMA UsageTakenBack ==
    ASSUME DocumentsInv, NEW l \in Links, NEW m \in DOMAIN usage[l].rows
    PROVE  LET e == UsageReversal(l, m)  row == usage[l].rows[m] IN
           /\ ReversalPlace(row) \in Locations /\ row.qty \in Nat /\ row.id \in 1..issued
           /\ e.source[1] = "inbound_usage_reversal" /\ e.source[2] = row.id
           /\ e.type = "manual" /\ e.loc = ReversalPlace(row) /\ e.qty = row.qty
           /\ e.mat = m /\ EntryTyped(e)
           /\ \A a : Posting(e, a) = IF a = ReversalPlace(row) THEN row.qty ELSE 0
<1> DEFINE row == usage[l].rows[m]
<1>1. PICK e : e = UsageReversal(l, m)
  OBVIOUS
<1>2. row.qty \in Nat /\ row.id \in 1..issued
  BY DEF DocumentsInv, UsageOK
<1>3. ReversalPlace(row) \in Locations
  BY AccountsApart DEF ReversalPlace, DocumentsInv
<1>4. /\ e.source = <<"inbound_usage_reversal", row.id>> /\ e.mat = m
      /\ e.type = "manual" /\ e.loc = ReversalPlace(row) /\ e.qty = row.qty
  BY <1>1, EntryFields DEF UsageReversal
<1>5. EntryTyped(e) /\ \A a : Posting(e, a) = IF a = e.loc THEN e.qty ELSE 0
  BY <1>2, <1>3, <1>4, ManualEntry
<1> QED
  BY <1>1, <1>2, <1>3, <1>4, <1>5

LEMMA ReversedRow ==
    ASSUME DocumentsInv, NEW l \in Links, NEW m, NEW v \in Balance
    PROVE  /\ Reversed(v, l, m) \in Balance
           /\ m \notin DOMAIN usage[l].rows => Reversed(v, l, m) = v
           /\ m \in DOMAIN usage[l].rows =>
                 \A a \in Accounts : a # "used" =>
                    Reversed(v, l, m)[a] = v[a] + Posting(UsageReversal(l, m), a)
<1>1. CASE m \notin DOMAIN usage[l].rows
  BY <1>1 DEF Reversed
<1>2. CASE m \in DOMAIN usage[l].rows
  <2> DEFINE old == usage[l].rows[m]
  <2>1. PICK e : e = UsageReversal(l, m)
    OBVIOUS
  <2>2. e.type = "manual" /\ e.loc = ReversalPlace(old) /\ e.qty = old.qty /\ EntryTyped(e)
        /\ old.qty \in Nat
    BY <1>2, <2>1, UsageTakenBack
  <2>3. PICK x : x = Posted(v, v, "manual", ReversalPlace(old), old.qty)
    OBVIOUS
  <2>4. x \in Balance /\ \A a \in Accounts : x[a] = v[a] + Posting(e, a)
    BY <2>2, <2>3, PostedAsSaid
  <2>5. Reversed(v, l, m) = [x EXCEPT !.used = NotBelowZero(@ - old.qty)]
    BY <1>2, <2>3 DEF Reversed
  <2>6. NotBelowZero(x.used - old.qty) \in Int
    BY <2>2, <2>4, AccountsApart DEF NotBelowZero, Balance
  <2>7. PICK n \in Int : n = NotBelowZero(x.used - old.qty)
    BY <2>6
  <2>8. Reversed(v, l, m) = [x EXCEPT !.used = n]
    BY <2>5, <2>7
  <2>9. Reversed(v, l, m) \in Balance /\ \A a \in Accounts : a # "used" => Reversed(v, l, m)[a] = x[a]
    BY <2>4, <2>8 DEF Balance
  <2> QED
    BY <1>2, <2>1, <2>4, <2>9
<1> QED
  BY <1>1, <1>2

(* What a commit of a usage writes: the row of m with the old usage taken  *)
(* back, and the new one posted to it.                                     *)
LEMMA UseRows ==
    ASSUME SessionsInv, DocumentsInv, BooksInv, NEW w \in Workers, CommitUse(w),
           NEW u \in Usages, u = call[w].new, NEW l \in Links, l = u.link, NEW m \in Materials
    PROVE  LET x == Reversed(bal[m], l, m)
               p == UsagePlace(x, m)
           IN
           /\ x \in Balance /\ p \in Locations
           /\ m \in DOMAIN u.qty => /\ bal'[m] = Posted(x, x, "consume", p, u.qty[m])
                                    /\ view[w][m] = bal[m]
           /\ m \notin DOMAIN u.qty => bal'[m] = x
<1> DEFINE x == Reversed(bal[m], l, m)
<1>1. DOMAIN view[w] = DOMAIN usage[l].rows \cup DOMAIN u.qty
  BY UseHolds
<1>2. m \in DOMAIN usage[l].rows \cup DOMAIN u.qty => view[w][m] = bal[m]
  BY <1>1, FreshCopy
<1>3. bal[m] \in Balance
  BY DEF BooksInv
<1>4. x \in Balance /\ (m \notin DOMAIN usage[l].rows => x = bal[m])
  BY <1>3, ReversedRow
<1>5. UsagePlace(x, m) \in Locations
  BY AccountsApart DEF UsagePlace, DocumentsInv
<1>6. m \in DOMAIN u.qty => bal'[m] = Posted(x, x, "consume", UsagePlace(x, m), u.qty[m])
  BY <1>2 DEF CommitUse
<1>7. m \in DOMAIN usage[l].rows \ DOMAIN u.qty => bal'[m] = x
  BY <1>2 DEF CommitUse
<1>8. m \notin DOMAIN usage[l].rows \cup DOMAIN u.qty => bal'[m] = bal[m]
  BY DEF CommitUse
<1> HIDE DEF x
<1> QED
  BY <1>2, <1>4, <1>5, <1>6, <1>7, <1>8 DEF x

(* The links' usage of m changes by that of the link that was changed.     *)
LEMMA UsedChange ==
    ASSUME DocumentsInv, DocumentsInv', NEW l \in Links,
           \A k \in Links \ {l} : usage'[k] = usage[k], NEW m
    PROVE  UsedBy(Links, m)' = UsedBy(Links, m) + (UsedQty(l, m)' - UsedQty(l, m))
<1>1. PICK f : f = [k \in Links |-> UsedQty(k, m)]
  OBVIOUS
<1>2. PICK g : g = [k \in Links |-> UsedQty(k, m)']
  OBVIOUS
<1>3. \A k \in Links : UsedQty(k, m) \in Nat /\ UsedQty(k, m)' \in Nat
  <2>1. \A k \in Links : UsedQty(k, m) \in Nat
    BY DEF DocumentsInv, UsageOK, UsedQty
  <2>2. \A k \in Links : UsedQty(k, m)' \in Nat
    BY DEF DocumentsInv, UsageOK, UsedQty
  <2> QED
    BY <2>1, <2>2
<1>4. f \in [Links -> Nat] /\ g \in [Links -> Nat] /\ \A k \in Links \ {l} : g[k] = f[k]
  BY <1>1, <1>2, <1>3 DEF UsedQty
<1>5. UsedBy(Links, m) = Total(f) /\ UsedBy(Links, m)' = Total(g)
  BY <1>1, <1>2 DEF UsedBy
<1>6. IsFiniteSet(Links)
  BY PurchaseAssumption
<1>7. Total(g) = Total(f) + (g[l] - f[l])
  BY <1>4, <1>6, TotalChange
<1> QED
  BY <1>1, <1>2, <1>5, <1>7

LEMMA UseKeepsBooks ==
    ASSUME SessionsInv, DocumentsInv, BooksInv, NEW w \in Workers, CommitUse(w)
    PROVE  BooksInv'
<1>0. PICK u \in Usages : u = call[w].new
  BY DEF CommitUse, SessionsInv, SessionOK, CallOK
<1>l. PICK l \in Links : l = u.link
  BY PurchaseAssumption
<1> DEFINE x(m) == Reversed(bal[m], l, m)
<1>a. PICK R : R = [m \in DOMAIN usage[l].rows |-> UsageReversal(l, m)]
  OBVIOUS
<1>b. PICK C : C = [m \in DOMAIN u.qty |->
                      Entry(<<"inbound_usage", issued + 1>>, m, "consume", UsagePlace(x(m), m), u.qty[m])]
  OBVIOUS
<1> DEFINE back == {R[m] : m \in DOMAIN R}
<1> DEFINE out == {C[m] : m \in DOMAIN C}
<1> DEFINE new == back \cup out
<1>u. /\ DOMAIN u.qty \subseteq Materials /\ \A m \in DOMAIN u.qty : u.qty[m] \in Nat
      /\ DOMAIN usage[l].rows \subseteq Materials
  BY PurchaseAssumption DEF Lines, DocumentsInv, UsageOK
<1>1. UNCHANGED <<order, receipts, place>> /\ issued' = issued + 1
  BY DEF CommitUse
<1>2. ledger' = ledger \cup new
  <2>1. \A m \in DOMAIN u.qty : view[w][m] = bal[m]
    BY <1>0, <1>l, <1>u, UseRows
  <2>2. out = {Entry(<<"inbound_usage", issued + 1>>, m, "consume",
                     UsagePlace(Reversed(view[w][m], l, m), m), u.qty[m]) : m \in DOMAIN u.qty}
    BY <1>b, <2>1
  <2>3. back = {UsageReversal(l, m) : m \in DOMAIN usage[l].rows}
    BY <1>a
  <2>4. ledger' = ledger
          \cup {UsageReversal(l, m) : m \in DOMAIN usage[l].rows}
          \cup {Entry(<<"inbound_usage", issued + 1>>, m, "consume",
                      UsagePlace(Reversed(view[w][m], l, m), m), u.qty[m]) : m \in DOMAIN u.qty}
    BY <1>0, <1>l DEF CommitUse
  <2> HIDE DEF back, out
  <2> QED
    BY <2>2, <2>3, <2>4
<1>3. issued \in Nat /\ issued' \in Nat /\ issued' >= issued /\ issued + 1 \notin 1..issued
      /\ issued + 1 \in 1..issued' /\ 1..issued \subseteq 1..issued'
  BY <1>1 DEF DocumentsInv
<1>4. /\ DOMAIN usage'[l].rows = DOMAIN u.qty
      /\ \A m \in DOMAIN u.qty : usage'[l].rows[m].id = issued + 1 /\ usage'[l].rows[m].qty = u.qty[m]
      /\ \A k \in Links \ {l} : usage'[k] = usage[k]
  BY <1>0, <1>l, UseRegisters
<1>5. ASSUME NEW m \in DOMAIN R
      PROVE  /\ m \in DOMAIN usage[l].rows /\ R[m] = UsageReversal(l, m)
             /\ R[m].source[1] = "inbound_usage_reversal"
             /\ R[m].source[2] = usage[l].rows[m].id /\ usage[l].rows[m].id \in 1..issued
             /\ R[m].mat = m /\ EntryTyped(R[m])
  BY <1>a, UsageTakenBack
<1>6. ASSUME NEW m \in DOMAIN C
      PROVE  /\ m \in DOMAIN u.qty
             /\ C[m].source[1] = "inbound_usage" /\ C[m].source[2] = issued + 1
             /\ C[m].type = "consume" /\ C[m].loc = UsagePlace(x(m), m) /\ C[m].qty = u.qty[m]
             /\ UsagePlace(x(m), m) \in Locations
             /\ C[m].mat = m /\ EntryTyped(C[m])
             /\ \A a \in Accounts : Posting(C[m], a) =
                   IF a = UsagePlace(x(m), m) THEN -u.qty[m] ELSE IF a = "used" THEN u.qty[m] ELSE 0
  <2>1. m \in DOMAIN u.qty /\ m \in Materials
    BY <1>b, <1>u
  <2>2. UsagePlace(x(m), m) \in Locations
    BY <1>0, <1>l, <2>1, UseRows
  <2> HIDE DEF x
  <2>3. C[m] = Entry(<<"inbound_usage", issued + 1>>, m, "consume", UsagePlace(x(m), m), u.qty[m])
    BY <1>b, <2>1
  <2>4. /\ C[m].source = <<"inbound_usage", issued + 1>> /\ C[m].mat = m
        /\ C[m].type = "consume" /\ C[m].loc = UsagePlace(x(m), m) /\ C[m].qty = u.qty[m]
    BY <2>3, EntryFields
  <2>5. C[m].qty \in Int /\ C[m].loc \in Locations
    BY <1>u, <2>1, <2>2, <2>4
  <2>6. /\ EntryTyped(C[m])
        /\ \A a : Posting(C[m], a) = IF a = C[m].loc THEN -C[m].qty
                                     ELSE IF a = "used" THEN C[m].qty ELSE 0
    BY <2>4, <2>5, ConsumeEntry
  <2> QED
    BY <2>1, <2>2, <2>4, <2>6
<1> HIDE DEF x
<1>7. IsFiniteSet(back) /\ IsFiniteSet(out)
  <2>1. IsFiniteSet(DOMAIN R) /\ IsFiniteSet(DOMAIN C)
    BY <1>a, <1>b, <1>u, LedgerAssumption, FS_Subset
  <2> QED
    BY <2>1, ImageFinite
<1>8. ASSUME NEW e \in back PROVE EntryTyped(e) /\ e \notin ledger /\ EntryOnRecord(e)'
  <2>1. PICK m \in DOMAIN R : e = R[m]
    OBVIOUS
  <2>2. /\ e.source[1] = "inbound_usage_reversal" /\ EntryTyped(e)
        /\ e.source[2] = usage[l].rows[m].id /\ usage[l].rows[m].id \in 1..issued
        /\ m \in DOMAIN usage[l].rows
    BY <1>5, <2>1
  <2>3. e \notin ledger
    BY <2>2 DEF BooksInv, EntryOnRecord
  <2>4. ASSUME NEW k \in Links, NEW n \in DOMAIN usage'[k].rows
        PROVE  usage'[k].rows[n].id # usage[l].rows[m].id
    <3>1. CASE k = l
      BY <1>3, <1>4, <2>2, <3>1
    <3>2. CASE k # l
      BY <1>4, <2>2, <3>2 DEF DocumentsInv, UsageIds
    <3> QED
      BY <3>1, <3>2
  <2>5. EntryOnRecord(e)'
    BY <1>3, <2>2, <2>4 DEF EntryOnRecord
  <2> QED
    BY <2>2, <2>3, <2>5
<1>9. ASSUME NEW e \in out PROVE EntryTyped(e) /\ e \notin ledger /\ EntryOnRecord(e)' /\ e \notin back
  <2>1. PICK m \in DOMAIN C : e = C[m]
    OBVIOUS
  <2>2. e.source[1] = "inbound_usage" /\ e.source[2] = issued + 1 /\ EntryTyped(e)
    BY <1>6, <2>1
  <2>3. e \notin ledger
    BY <1>3, <2>2 DEF BooksInv, EntryOnRecord
  <2>4. EntryOnRecord(e)'
    BY <1>3, <2>2 DEF EntryOnRecord
  <2>5. e \notin back
    BY <1>5, <2>2
  <2> QED
    BY <2>2, <2>3, <2>4, <2>5
<1>10. \A e \in ledger : EntryOnRecord(e)'
  <2>1. ASSUME NEW k \in Links, NEW m \in DOMAIN usage'[k].rows
        PROVE  \/ m \in DOMAIN usage[k].rows /\ usage'[k].rows[m] = usage[k].rows[m]
               \/ usage'[k].rows[m].id \notin 1..issued
    BY <1>3, <1>4
  <2> QED
    BY <1>1, <1>3, <2>1, OldEntriesStay
<1>11. ASSUME NEW m \in Materials
       PROVE  /\ bal'[m] \in Balance
              /\ SumsHold(m)'
              /\ \A a \in Locations : bal'[m][a] = bal[m][a] + NetOf(EntriesFor(new, m), a)
  <2>0. bal[m] \in Balance /\ SumsHold(m)
    BY DEF BooksInv
  <2> DEFINE A == EntriesFor(back, m)
  <2> DEFINE B == EntriesFor(out, m)
  <2>1. ASSUME NEW a \in Accounts PROVE NetOf(EntriesFor(new, m), a) = NetOf(A, a) + NetOf(B, a)
    <3>1. EntriesFor(new, m) = A \cup B /\ A \subseteq back /\ B \subseteq out
      BY DEF EntriesFor
    <3> HIDE DEF A, B, back, out
    <3>2. /\ IsFiniteSet(A) /\ IsFiniteSet(B) /\ A \cap B = {}
          /\ \A e \in A \cup B : EntryTyped(e)
      BY <1>7, <1>8, <1>9, <3>1, FS_Subset
    <3> QED
      BY <3>1, <3>2, EntriesJoined
  <2>2. /\ m \in DOMAIN R => A = {R[m]}
        /\ m \notin DOMAIN R => A = {}
    BY <1>5 DEF EntriesFor
  <2>3. /\ m \in DOMAIN C => B = {C[m]}
        /\ m \notin DOMAIN C => B = {}
    BY <1>6 DEF EntriesFor
  <2>r. ASSUME m \in DOMAIN R, NEW a PROVE NetOf(A, a) = Posting(R[m], a)
    <3>1. NetOf({R[m]}, a) = Posting(R[m], a)
      BY <1>5, <2>r, OneEntry
    <3> QED
      BY <2>2, <2>r, <3>1
  <2>s. ASSUME m \notin DOMAIN R, NEW a PROVE NetOf(A, a) = 0
    BY <2>2, <2>s, NoEntries
  <2>c. ASSUME m \in DOMAIN C, NEW a PROVE NetOf(B, a) = Posting(C[m], a)
    <3>1. NetOf({C[m]}, a) = Posting(C[m], a)
      BY <1>6, <2>c, OneEntry
    <3> QED
      BY <2>3, <2>c, <3>1
  <2>d. ASSUME m \notin DOMAIN C, NEW a PROVE NetOf(B, a) = 0
    BY <2>3, <2>d, NoEntries
  <2> HIDE DEF A, B
  <2>i. \A a \in Accounts : bal[m][a] \in Int
    BY <2>0 DEF Balance
  <2>5. /\ x(m) \in Balance
        /\ \A a \in Accounts : a # "used" => x(m)[a] = bal[m][a] + NetOf(A, a)
    <3>1. DOMAIN R = DOMAIN usage[l].rows
      BY <1>a
    <3>2. x(m) \in Balance
      BY <2>0, ReversedRow DEF x
    <3>3. CASE m \in DOMAIN R
      <4>1. \A a \in Accounts : a # "used" => x(m)[a] = bal[m][a] + Posting(UsageReversal(l, m), a)
        BY <2>0, <3>1, <3>3, ReversedRow DEF x
      <4>2. R[m] = UsageReversal(l, m)
        BY <1>5, <3>3
      <4> QED
        BY <2>r, <3>2, <3>3, <4>1, <4>2
    <3>4. CASE m \notin DOMAIN R
      <4>1. x(m) = bal[m]
        BY <2>0, <3>1, <3>4, ReversedRow DEF x
      <4> QED
        BY <2>i, <2>s, <3>2, <3>4, <4>1
    <3> QED
      BY <3>3, <3>4
  <2>j. \A a \in Accounts : x(m)[a] \in Int
    BY <2>5 DEF Balance
  <2>6. /\ bal'[m] \in Balance
        /\ \A a \in Accounts : bal'[m][a] = x(m)[a] + NetOf(B, a)
    <3>1. DOMAIN C = DOMAIN u.qty
      BY <1>b
    <3>3. CASE m \in DOMAIN u.qty
      <4>1. bal'[m] = Posted(x(m), x(m), "consume", UsagePlace(x(m), m), u.qty[m])
        BY <1>0, <1>l, <3>3, UseRows DEF x
      <4>2. bal'[m] = Posted(x(m), x(m), C[m].type, C[m].loc, C[m].qty) /\ EntryTyped(C[m])
        BY <1>6, <3>1, <3>3, <4>1
      <4>3. /\ bal'[m] \in Balance
            /\ \A a \in Accounts : bal'[m][a] = x(m)[a] + Posting(C[m], a)
        BY <2>5, <4>2, PostedAsSaid
      <4> QED
        BY <2>c, <3>1, <3>3, <4>3
    <3>4. CASE m \notin DOMAIN u.qty
      <4>1. bal'[m] = x(m)
        BY <1>0, <1>l, <3>4, UseRows DEF x
      <4> QED
        BY <2>d, <2>j, <2>5, <3>1, <3>4, <4>1
    <3> QED
      BY <3>3, <3>4
  <2>7. UsedBy(Links, m)' = UsedBy(Links, m) + (UsedQty(l, m)' - UsedQty(l, m))
    BY <1>4, UseKeepsDocuments, UsedChange
  <2>8. /\ UsedQty(l, m)' = IF m \in DOMAIN C THEN u.qty[m] ELSE 0
        /\ UsedQty(l, m) = IF m \in DOMAIN R THEN usage[l].rows[m].qty ELSE 0
    BY <1>a, <1>b, <1>4 DEF UsedQty
  <2>9. /\ x(m).own + x(m).factory + x(m).transit
              = bal[m].own + bal[m].factory + bal[m].transit + UsedQty(l, m)
        /\ x(m).purchased = bal[m].purchased
    <3>1. CASE m \in DOMAIN R
      <4>1. PICK p \in Locations : p = ReversalPlace(usage[l].rows[m])
        BY <1>5, <3>1, UsageTakenBack
      <4>2. PICK q \in Nat : q = usage[l].rows[m].qty
        BY <1>5, <3>1, UsageTakenBack
      <4>3. \A a : Posting(R[m], a) = IF a = p THEN q ELSE 0
        BY <1>5, <3>1, <4>1, <4>2, UsageTakenBack
      <4>4. \A a \in Accounts : a # "used" => x(m)[a] = bal[m][a] + (IF a = p THEN q ELSE 0)
        BY <2>r, <2>5, <3>1, <4>3
      <4>5. /\ \A a \in Locations : x(m)[a] = bal[m][a] + (IF a = p THEN q ELSE 0)
            /\ x(m).transit = bal[m].transit /\ x(m).purchased = bal[m].purchased
        BY <2>i, <4>4, AccountsApart
      <4>6. UsedQty(l, m) = q
        BY <2>8, <3>1, <4>2
      <4> QED
        BY <2>0, <2>5, <4>5, <4>6, StockMoved
    <3>2. CASE m \notin DOMAIN R
      <4>1. \A a \in Accounts : a # "used" => x(m)[a] = bal[m][a]
        BY <2>i, <2>s, <2>5, <3>2
      <4> QED
        BY <2>i, <2>8, <3>2, <4>1, AccountsApart
    <3> QED
      BY <3>1, <3>2
  <2>10. /\ bal'[m].own + bal'[m].factory + bal'[m].transit
               = x(m).own + x(m).factory + x(m).transit + (-UsedQty(l, m)')
         /\ bal'[m].purchased = x(m).purchased
    <3>1. CASE m \in DOMAIN C
      <4>1. PICK p \in Locations : p = UsagePlace(x(m), m)
        BY <1>6, <3>1
      <4>2. PICK q \in Nat : q = u.qty[m]
        BY <1>6, <1>u, <3>1
      <4>3. \A a \in Accounts : Posting(C[m], a) = IF a = p THEN -q ELSE IF a = "used" THEN q ELSE 0
        BY <1>6, <3>1, <4>1, <4>2
      <4>4. \A a \in Accounts : a # "used" => bal'[m][a] = x(m)[a] + (IF a = p THEN -q ELSE 0)
        BY <2>c, <2>6, <3>1, <4>3
      <4>5. /\ \A a \in Locations : bal'[m][a] = x(m)[a] + (IF a = p THEN -q ELSE 0)
            /\ bal'[m].transit = x(m).transit /\ bal'[m].purchased = x(m).purchased
        BY <2>j, <4>4, AccountsApart
      <4>6. UsedQty(l, m)' = q
        BY <2>8, <3>1, <4>2
      <4>7. -q \in Int
        OBVIOUS
      <4> QED
        BY <2>5, <2>6, <4>5, <4>6, <4>7, StockMoved
    <3>2. CASE m \notin DOMAIN C
      <4>1. \A a \in Accounts : a # "used" => bal'[m][a] = x(m)[a]
        BY <2>j, <2>d, <2>6, <3>2
      <4> QED
        BY <2>j, <2>8, <3>2, <4>1, AccountsApart
    <3> QED
      BY <3>1, <3>2
  <2>11. SumsHold(m)'
    <3>1. QtyIn(receipts, m)' = QtyIn(receipts, m)
      BY <1>1 DEF QtyIn
    <3>2. /\ UsedBy(Links, m) \in Nat /\ UsedQty(l, m) \in Nat
          /\ QtyIn(receipts, m) \in Nat /\ Opening[m] \in Nat
      BY UsedSums, ReceiptsSum, LedgerAssumption
    <3>3. UsedQty(l, m)' \in Nat
      BY <1>6, <1>u, <2>8
    <3>4. bal[m].own \in Int /\ bal[m].factory \in Int /\ bal[m].transit \in Int
      BY <2>i, AccountsApart
    <3> QED
      BY <2>0, <2>7, <2>9, <2>10, <3>1, <3>2, <3>3, <3>4 DEF SumsHold
  <2>12. ASSUME NEW a \in Locations PROVE bal'[m][a] = bal[m][a] + NetOf(EntriesFor(new, m), a)
    <3>1. a \in Accounts /\ a # "used"
      BY AccountsApart
    <3>2. NetOf(A, a) \in Int /\ NetOf(B, a) \in Int
      <4>1. A \subseteq back /\ B \subseteq out
        BY DEF A, B, EntriesFor
      <4> HIDE DEF back, out
      <4>2. IsFiniteSet(A) /\ IsFiniteSet(B) /\ (\A e \in A \cup B : EntryTyped(e))
        BY <1>7, <1>8, <1>9, <4>1, FS_Subset
      <4> QED
        BY <4>2, EntriesTotals
    <3>3. x(m)[a] = bal[m][a] + NetOf(A, a) /\ bal'[m][a] = x(m)[a] + NetOf(B, a)
      BY <2>5, <2>6, <3>1
    <3>4. NetOf(EntriesFor(new, m), a) = NetOf(A, a) + NetOf(B, a)
      BY <2>1, <3>1
    <3>5. bal[m][a] \in Int
      BY <2>i, <3>1
    <3> HIDE DEF new
    <3> QED
      BY <3>2, <3>3, <3>4, <3>5
  <2> QED
    BY <2>6, <2>11, <2>12
<1>12. bal' = [m \in Materials |-> bal'[m]]
  BY DEF CommitUse
<1>13. bal' \in [Materials -> Balance]
  BY <1>11, <1>12
<1>14. \A e \in new : EntryTyped(e) /\ e \notin ledger /\ EntryOnRecord(e)'
  BY <1>8, <1>9
<1>15. IsFiniteSet(new)
  BY <1>7, FS_Union
<1> HIDE DEF new
<1> QED
  BY <1>2, <1>10, <1>11, <1>13, <1>14, <1>15, BooksKept

(* What a set of links uses up, in parts.                                  *)
LEMMA UsedApart ==
    ASSUME DocumentsInv, NEW ks \in SUBSET Links, NEW js \in SUBSET Links, ks \cap js = {}, NEW m
    PROVE  UsedBy(ks \cup js, m) = UsedBy(ks, m) + UsedBy(js, m)
<1> DEFINE f(ls) == [l \in ls |-> UsedQty(l, m)]
<1>1. /\ IsFiniteSet(ks) /\ IsFiniteSet(js)
      /\ f(ks \cup js) \in [ks \cup js -> Nat] /\ f(ks) \in [ks -> Nat] /\ f(js) \in [js -> Nat]
  <2>1. ks \cup js \in SUBSET Links
    OBVIOUS
  <2> QED
    BY <2>1, UsedSums
<1>2. /\ \A l \in ks : f(ks)[l] = f(ks \cup js)[l]
      /\ \A l \in js : f(js)[l] = f(ks \cup js)[l]
  OBVIOUS
<1>3. \A ls : UsedBy(ls, m) = Total(f(ls))
  BY DEF UsedBy
<1> HIDE DEF f
<1>4. Joins(f(ks \cup js), ks, f(ks), js, f(js))
  BY <1>1, <1>2 DEF Joins
<1> QED
  BY <1>3, <1>4, TotalJoined

LEMMA UsedPart ==
    ASSUME DocumentsInv, NEW ls \in SUBSET Links, NEW ks \in SUBSET ls, NEW m,
           \A l \in ls \ ks : UsedQty(l, m) = 0
    PROVE  UsedBy(ls, m) = UsedBy(ks, m)
<1>1. PICK f : f = [l \in ks |-> UsedQty(l, m)]
  OBVIOUS
<1>2. PICK z : z = [l \in ls |-> UsedQty(l, m)]
  OBVIOUS
<1>3. f \in [ks -> Nat] /\ z \in [ls -> Nat]
  BY <1>1, <1>2, UsedSums
<1>4. \A l \in ls : z[l] = IF l \in ks THEN f[l] ELSE 0
  BY <1>1, <1>2
<1>5. Total(z) = Total(f)
  BY <1>3, <1>4, TotalPadded
<1> QED
  BY <1>1, <1>2, <1>5 DEF UsedBy

(* The links' usage of m when some of them are removed.                    *)
LEMMA UsedLeft ==
    ASSUME DocumentsInv, NEW ls \in SUBSET Links, NEW m,
           \A l \in ls : UsedQty(l, m)' = 0, \A l \in Links \ ls : usage'[l] = usage[l]
    PROVE  /\ UsedBy(Links, m) = UsedBy(Links, m)' + UsedBy(ls, m)
           /\ UsedBy(Links, m)' \in Nat
<1>1. PICK rest : rest = Links \ ls
  OBVIOUS
<1>2. rest \in SUBSET Links /\ rest \cap ls = {} /\ rest \cup ls = Links
  BY <1>1
<1>3. UsedBy(Links, m) = UsedBy(rest, m) + UsedBy(ls, m)
  BY <1>2, UsedApart
<1>4. PICK f : f = [l \in rest |-> UsedQty(l, m)]
  OBVIOUS
<1>5. PICK z : z = [l \in Links |-> UsedQty(l, m)']
  OBVIOUS
<1>6. f \in [rest -> Nat] /\ \A l \in rest : UsedQty(l, m) \in Nat
  BY <1>2, <1>4, UsedSums
<1>7. \A l \in rest : UsedQty(l, m)' = UsedQty(l, m)
  BY <1>1 DEF UsedQty
<1>8. z \in [Links -> Nat] /\ \A l \in Links : z[l] = IF l \in rest THEN f[l] ELSE 0
  BY <1>1, <1>4, <1>5, <1>6, <1>7
<1>9. Total(z) = Total(f)
  BY <1>2, <1>6, <1>8, TotalPadded
<1>10. UsedBy(Links, m)' = Total(z) /\ UsedBy(rest, m) = Total(f)
  BY <1>4, <1>5 DEF UsedBy
<1>11. Total(z) \in Nat
  BY <1>8, PurchaseAssumption, TotalNat
<1> QED
  BY <1>3, <1>9, <1>10, <1>11

LEMMA LoweredNat ==
    ASSUME DocumentsInv, NEW on, IsFiniteSet(DOMAIN on), \A k \in DOMAIN on : on[k] \in Links, NEW m
    PROVE  Lowered(on, m) \in Nat
<1>1. PICK D : D = {p \in Reversals(on) : p[2] = m /\ ~Repeated(on, p)}
  OBVIOUS
<1>2. D \subseteq (DOMAIN on) \X Materials
  BY <1>1 DEF Reversals
<1>3. IsFiniteSet(D)
  BY <1>2, FS_Product, FS_Subset, LedgerAssumption
<1>4. PICK f : f = [p \in D |-> UsedQty(on[p[1]], m)]
  OBVIOUS
<1>5. \A l \in Links : UsedQty(l, m) \in Nat
  BY UsedSums
<1>6. f \in [D -> Nat]
  BY <1>2, <1>4, <1>5
<1>7. Total(f) \in Nat
  BY <1>3, <1>6, TotalNat
<1> QED
  BY <1>1, <1>4, <1>7 DEF Lowered

(* The entries that take back the usages of m in the links ls.             *)
LEMMA UsagesReturned ==
    ASSUME DocumentsInv, NEW ls \in SUBSET Links, NEW m, NEW es,
           es = {UsageReversal(l, m) : l \in {l \in ls : m \in DOMAIN usage[l].rows}}
    PROVE  /\ \A a : NetOf(es, a) = Returned(ls, m, a)
           /\ Returned(ls, m, "own") \in Nat /\ Returned(ls, m, "factory") \in Nat
           /\ UsedBy(ls, m) = Returned(ls, m, "own") + Returned(ls, m, "factory")
<1>1. PICK D : D = {l \in ls : m \in DOMAIN usage[l].rows}
  OBVIOUS
<1>2. D \in SUBSET Links /\ IsFiniteSet(D) /\ \A l \in D : m \in DOMAIN usage[l].rows
  BY <1>1, UsedSums
<1>3. ASSUME NEW l \in D
      PROVE  /\ UsageReversal(l, m).source[2] = usage[l].rows[m].id
             /\ EntryTyped(UsageReversal(l, m))
             /\ ReversalPlace(usage[l].rows[m]) \in Locations
             /\ UsedQty(l, m) = usage[l].rows[m].qty /\ UsedQty(l, m) \in Nat
             /\ \A a : Posting(UsageReversal(l, m), a) =
                          IF a = ReversalPlace(usage[l].rows[m]) THEN UsedQty(l, m) ELSE 0
  <2>1. m \in DOMAIN usage[l].rows /\ l \in Links
    BY <1>2
  <2>2. UsedQty(l, m) = usage[l].rows[m].qty
    BY <2>1 DEF UsedQty
  <2> QED
    BY <2>1, <2>2, UsageTakenBack
<1>4. PICK h : h = [l \in D |-> UsageReversal(l, m)]
  OBVIOUS
<1>5. h \in Bijection(D, es)
  <2>1. \A l \in D : h[l] \in es
    BY <1>1, <1>4
  <2>2. \A e \in es : \E l \in D : h[l] = e
    BY <1>1, <1>4
  <2>3. ASSUME NEW k \in D, NEW l \in D, h[k] = h[l] PROVE k = l
    <3>1. usage[k].rows[m].id = usage[l].rows[m].id
      BY <1>3, <1>4, <2>3
    <3> QED
      BY <1>2, <3>1 DEF DocumentsInv, UsageIds
  <2>4. h \in [D -> es]
    BY <1>4, <2>1
  <2> QED
    BY <2>2, <2>3, <2>4 DEF Bijection, Injection, Surjection, IsInjective
<1> DEFINE at(a) == {l \in D : ReversalPlace(usage[l].rows[m]) = a}
<1> DEFINE f(a) == [l \in D |-> IF ReversalPlace(usage[l].rows[m]) = a THEN UsedQty(l, m) ELSE 0]
<1>6. \A a : Returned(ls, m, a) = UsedBy(at(a), m)
  <2>1. \A a : at(a) = {l \in ls : m \in DOMAIN usage[l].rows /\ ReversalPlace(usage[l].rows[m]) = a}
    BY <1>1
  <2> HIDE DEF at
  <2> QED
    BY <2>1 DEF Returned
<1>7. \A e \in es : EntryTyped(e)
  BY <1>1, <1>3
<1>8. ASSUME NEW a PROVE NetOf(es, a) = UsedBy(at(a), m)
  <2>1. f(a) \in [D -> Nat]
    BY <1>3
  <2>2. \A l \in D : Posting(h[l], a) = f(a)[l]
    BY <1>3, <1>4
  <2>3. at(a) \in SUBSET D /\ at(a) \in SUBSET Links
    BY <1>2
  <2>4. PICK g : g = [l \in at(a) |-> UsedQty(l, m)]
    OBVIOUS
  <2>5. \A l \in D : f(a)[l] = IF l \in at(a) THEN g[l] ELSE 0
    BY <2>4
  <2> HIDE DEF f, at
  <2>6. EntryEach(h, D, es, f(a))
    BY <1>2, <1>5, <1>7, <2>1 DEF EntryEach
  <2>7. NetOf(es, a) = Total(f(a))
    BY <2>2, <2>6, EntriesAdd
  <2>8. g \in [at(a) -> Nat] /\ UsedBy(at(a), m) = Total(g)
    BY <2>3, <2>4, UsedSums DEF UsedBy
  <2>9. Total(f(a)) = Total(g)
    BY <2>1, <2>3, <2>5, <2>8, TotalPadded
  <2> QED
    BY <2>7, <2>8, <2>9
<1>9. /\ at("own") \in SUBSET Links /\ at("factory") \in SUBSET Links
      /\ at("own") \cap at("factory") = {} /\ at("own") \cup at("factory") = D
  BY <1>2, <1>3, AccountsApart
<1> HIDE DEF at, f
<1>10. UsedBy(D, m) = UsedBy(at("own"), m) + UsedBy(at("factory"), m)
  BY <1>9, UsedApart
<1>11. UsedBy(ls, m) = UsedBy(D, m)
  <2>1. D \in SUBSET ls /\ \A l \in ls \ D : UsedQty(l, m) = 0
    BY <1>1 DEF UsedQty
  <2> QED
    BY <2>1, UsedPart
<1>12. UsedBy(at("own"), m) \in Nat /\ UsedBy(at("factory"), m) \in Nat
  BY <1>9, UsedSums
<1> QED
  BY <1>6, <1>8, <1>10, <1>11, <1>12

LEMMA RemoveKeepsBooks ==
    ASSUME SessionsInv, DocumentsInv, BooksInv, NEW w \in Workers, IsFiniteSet(DOMAIN call[w].on),
           CommitRemove(w)
    PROVE  BooksInv'
<1>0. PICK on : on = call[w].on
  OBVIOUS
<1>l. PICK ls : ls = {on[k] : k \in DOMAIN on}
  OBVIOUS
<1>h. /\ ls = DocumentsOf(w) /\ ls \in SUBSET Links /\ IsFiniteSet(DOMAIN on)
      /\ \A k \in DOMAIN on : on[k] \in Links
      /\ DOMAIN view[w] = UNION {DOMAIN usage[l].rows : l \in ls}
  <2>1. ls = DocumentsOf(w)
    BY <1>0, <1>l DEF DocumentsOf
  <2> QED
    BY <1>0, <1>l, <2>1, RemoveHolds
<1> DEFINE new == UNION {{UsageReversal(l, m) : m \in DOMAIN usage[l].rows} : l \in ls}
<1>1. /\ UNCHANGED <<order, receipts, place, issued>>
      /\ ledger' = ledger \cup new
  BY <1>0, <1>l DEF CommitRemove
<1>2. ASSUME NEW l \in Links
      PROVE  /\ l \notin ls => usage'[l] = usage[l]
             /\ l \in ls => DOMAIN usage'[l].rows = {}
  <2>1. usage'[l] = IF l \notin ls THEN usage[l]
                    ELSE IF Serves(w, "deleteInbound") THEN Gone ELSE NoUsage
    BY <1>0, <1>l DEF CommitRemove
  <2> QED
    BY <2>1, RemovedUsage
<1>3. issued \in Nat /\ \A l \in Links : DOMAIN usage[l].rows \subseteq Materials
  BY DEF DocumentsInv, UsageOK
<1>4. ASSUME NEW e \in new
      PROVE  \E l \in ls : \E m \in DOMAIN usage[l].rows :
                /\ e = UsageReversal(l, m) /\ e.mat = m
                /\ e.source[1] = "inbound_usage_reversal" /\ e.source[2] = usage[l].rows[m].id
                /\ usage[l].rows[m].id \in 1..issued /\ EntryTyped(e)
  <2>1. PICK l \in ls : \E m \in DOMAIN usage[l].rows : e = UsageReversal(l, m)
    OBVIOUS
  <2>2. PICK m \in DOMAIN usage[l].rows : e = UsageReversal(l, m)
    BY <2>1
  <2> QED
    BY <1>h, <2>2, UsageTakenBack
<1>5. IsFiniteSet(new)
  <2> DEFINE X == {x \in ls \X Materials : x[2] \in DOMAIN usage[x[1]].rows}
  <2> DEFINE g == [x \in X |-> UsageReversal(x[1], x[2])]
  <2>1. IsFiniteSet(X)
    <3>1. IsFiniteSet(ls) /\ IsFiniteSet(Materials)
      BY <1>h, PurchaseAssumption, LedgerAssumption, FS_Subset
    <3>2. IsFiniteSet(ls \X Materials)
      BY <3>1, FS_Product
    <3>3. X \subseteq ls \X Materials
      OBVIOUS
    <3> HIDE DEF X
    <3> QED
      BY <3>2, <3>3, FS_Subset
  <2>2. ASSUME NEW e \in new PROVE \E x \in X : e = g[x]
    <3>1. PICK l \in ls : \E m \in DOMAIN usage[l].rows : e = UsageReversal(l, m)
      BY <1>4
    <3>2. PICK m \in DOMAIN usage[l].rows : e = UsageReversal(l, m)
      BY <3>1
    <3>3. <<l, m>> \in X /\ g[<<l, m>>] = UsageReversal(l, m)
      BY <1>h, <1>3
    <3> HIDE DEF X, g
    <3> QED
      BY <3>2, <3>3
  <2>3. DOMAIN g = X
    OBVIOUS
  <2> HIDE DEF g, X, new
  <2>4. IsFiniteSet({g[x] : x \in DOMAIN g})
    BY <2>1, <2>3, ImageFinite
  <2>5. new \subseteq {g[x] : x \in DOMAIN g}
    BY <2>2, <2>3
  <2> QED
    BY <2>4, <2>5, FS_Subset
<1>6. ASSUME NEW m
      PROVE  EntriesFor(new, m) = {UsageReversal(l, m) : l \in {l \in ls : m \in DOMAIN usage[l].rows}}
  <2>1. ASSUME NEW e \in EntriesFor(new, m)
        PROVE  e \in {UsageReversal(l, m) : l \in {l \in ls : m \in DOMAIN usage[l].rows}}
    BY <1>4 DEF EntriesFor
  <2>2. ASSUME NEW l \in ls, m \in DOMAIN usage[l].rows
        PROVE  UsageReversal(l, m) \in EntriesFor(new, m)
    <3>1. UsageReversal(l, m).mat = m
      BY <1>h, <2>2, UsageTakenBack
    <3> QED
      BY <2>2, <3>1 DEF EntriesFor
  <2> QED
    BY <2>1, <2>2
<1> HIDE DEF new
<1>7. ASSUME NEW e \in new PROVE EntryTyped(e) /\ e \notin ledger /\ EntryOnRecord(e)'
  <2>1. PICK l \in ls : \E m \in DOMAIN usage[l].rows :
                /\ e.source[1] = "inbound_usage_reversal" /\ e.source[2] = usage[l].rows[m].id
                /\ usage[l].rows[m].id \in 1..issued /\ EntryTyped(e)
    BY <1>4
  <2>2. PICK m \in DOMAIN usage[l].rows :
                /\ e.source[1] = "inbound_usage_reversal" /\ e.source[2] = usage[l].rows[m].id
                /\ usage[l].rows[m].id \in 1..issued /\ EntryTyped(e)
    BY <2>1
  <2>3. e \notin ledger
    BY <1>h, <2>2 DEF BooksInv, EntryOnRecord
  <2>4. ASSUME NEW k \in Links, NEW n \in DOMAIN usage'[k].rows
        PROVE  usage'[k].rows[n].id # e.source[2]
    <3>1. k \notin ls /\ usage'[k] = usage[k] /\ l \in Links
      BY <1>h, <1>2
    <3> QED
      BY <2>2, <3>1 DEF DocumentsInv, UsageIds
  <2> QED
    BY <1>1, <2>2, <2>3, <2>4 DEF EntryOnRecord
<1>8. \A e \in ledger : EntryOnRecord(e)'
  BY <1>1, <1>2, <1>3, OldEntriesStay
<1>9. ASSUME NEW m \in Materials
      PROVE  /\ bal'[m] \in Balance
             /\ SumsHold(m)'
             /\ \A a \in Locations : bal'[m][a] = bal[m][a] + NetOf(EntriesFor(new, m), a)
  <2>0. bal[m] \in Balance /\ SumsHold(m)
    BY DEF BooksInv
  <2>1. \A a \in Accounts : bal[m][a] \in Int
    BY <2>0 DEF Balance
  <2>2. PICK back : back = [a \in Locations |-> Returned(ls, m, a)]
    OBVIOUS
  <2>3. /\ \A a \in Locations : back[a] \in Nat /\ NetOf(EntriesFor(new, m), a) = back[a]
        /\ UsedBy(ls, m) = back["own"] + back["factory"]
    <3>1. EntriesFor(new, m) = {UsageReversal(l, m) : l \in {l \in ls : m \in DOMAIN usage[l].rows}}
      BY <1>6
    <3>2. /\ \A a : NetOf(EntriesFor(new, m), a) = Returned(ls, m, a)
          /\ Returned(ls, m, "own") \in Nat /\ Returned(ls, m, "factory") \in Nat
          /\ UsedBy(ls, m) = Returned(ls, m, "own") + Returned(ls, m, "factory")
      BY <1>h, <3>1, UsagesReturned
    <3> QED
      BY <2>2, <3>2, AccountsApart
  <2>4. /\ bal'[m] \in Balance
        /\ \A a \in Locations : bal'[m][a] = bal[m][a] + back[a]
        /\ bal'[m].transit = bal[m].transit /\ bal'[m].purchased = bal[m].purchased
    <3>1. CASE m \in DOMAIN view[w]
      <4>1. bal[m] = view[w][m]
        BY <3>1, FreshCopy
      <4>2. PICK used : used = NotBelowZero(bal[m].used - Lowered(on, m))
        OBVIOUS
      <4>3. used \in Int
        BY <1>h, <2>1, <4>2, LoweredNat, AccountsApart DEF NotBelowZero
      <4>4. bal'[m] = [a \in Accounts |->
                  CASE a \in Locations -> bal[m][a] + Returned(ls, m, a)
                    [] a = "used"      -> NotBelowZero(bal[m][a] - Lowered(on, m))
                    [] OTHER           -> bal[m][a]]
        BY <1>0, <1>l, <3>1, <4>1 DEF CommitRemove
      <4>5. bal'[m] = [a \in Accounts |-> bal'[m][a]]
        BY <4>4
      <4>6. ASSUME NEW a \in Locations PROVE bal'[m][a] = bal[m][a] + back[a]
        <5>1. a \in Accounts
          BY AccountsApart
        <5>2. bal'[m][a] = CASE a \in Locations -> bal[m][a] + Returned(ls, m, a)
                             [] a = "used"      -> NotBelowZero(bal[m][a] - Lowered(on, m))
                             [] OTHER           -> bal[m][a]
          BY <4>4, <5>1
        <5>3. a # "used"
          BY AccountsApart
        <5>4. bal'[m][a] = bal[m][a] + Returned(ls, m, a)
          BY <5>2, <5>3
        <5> QED
          BY <2>2, <5>4
      <4>7. bal'[m]["used"] = used
        BY <4>2, <4>4, AccountsApart
      <4>8. \A a \in {"transit", "purchased"} : bal'[m][a] = bal[m][a]
        BY <4>4, AccountsApart
      <4>9. \A a \in Accounts : bal'[m][a] \in Int
        BY <2>1, <2>3, <4>3, <4>6, <4>7, <4>8, AccountsApart
      <4> QED
        BY <4>5, <4>6, <4>8, <4>9 DEF Balance
    <3>2. CASE m \notin DOMAIN view[w]
      <4>1. bal'[m] = bal[m]
        BY <3>2 DEF CommitRemove
      <4>2. EntriesFor(new, m) = {}
        BY <1>h, <1>6, <3>2
      <4>3. \A a \in Locations : back[a] = 0
        BY <2>3, <4>2, NoEntries
      <4> QED
        BY <2>0, <2>1, <4>1, <4>3, AccountsApart
    <3> QED
      BY <3>1, <3>2
  <2>5. SumsHold(m)'
    <3>1. QtyIn(receipts, m)' = QtyIn(receipts, m)
      BY <1>1 DEF QtyIn
    <3>2. /\ UsedBy(Links, m) = UsedBy(Links, m)' + UsedBy(ls, m)
          /\ UsedBy(Links, m)' \in Nat
      <4>1. \A l \in ls : UsedQty(l, m)' = 0
        BY <1>h, <1>2 DEF UsedQty
      <4> QED
        BY <1>h, <1>2, <4>1, UsedLeft
    <3>3. /\ UsedBy(Links, m) \in Nat /\ QtyIn(receipts, m) \in Nat /\ Opening[m] \in Nat
      BY UsedSums, ReceiptsSum, LedgerAssumption
    <3>4. /\ bal[m].own \in Int /\ bal[m].factory \in Int /\ bal[m].transit \in Int
          /\ back["own"] \in Nat /\ back["factory"] \in Nat
          /\ bal'[m].own = bal[m].own + back["own"]
          /\ bal'[m].factory = bal[m].factory + back["factory"]
      BY <2>1, <2>3, <2>4, AccountsApart
    <3> QED
      BY <2>0, <2>3, <2>4, <3>1, <3>2, <3>3, <3>4 DEF SumsHold
  <2> QED
    BY <2>3, <2>4, <2>5
<1>10. bal' = [m \in Materials |-> bal'[m]]
  BY DEF CommitRemove
<1>11. bal' \in [Materials -> Balance]
  BY <1>9, <1>10
<1> QED
  BY <1>1, <1>5, <1>7, <1>8, <1>9, <1>11, BooksKept

(* The documents of a call are finitely many.                              *)
CallsFinite == \A w \in Workers : IsFiniteSet(DOMAIN call[w].on)

LEMMA BeginKeepsFinite ==
    ASSUME SessionsInv, CallsFinite, NEW w \in Workers, NEW req, Begin(w, req),
           IsFiniteSet(DOMAIN req.on)
    PROVE  CallsFinite'
<1>1. \A x \in Workers : call'[x] = IF x = w THEN req ELSE call[x]
  BY DEF Begin, SessionsInv
<1> QED
  BY <1>1 DEF CallsFinite

LEMMA EndKeepsFinite ==
    ASSUME SessionsInv, CallsFinite, NEW w \in Workers, Finish(w)
    PROVE  CallsFinite'
<1>1. \A x \in Workers : call'[x] = IF x = w THEN NoCall ELSE call[x]
  BY CallEnds
<1>2. IsFiniteSet(DOMAIN NoCall.on)
  <2>1. DOMAIN NoCall.on = {}
    BY DEF NoCall
  <2> QED
    BY <2>1, FS_EmptySet
<1> QED
  BY <1>1, <1>2 DEF CallsFinite

LEMMA StartKeepsFinite ==
    ASSUME SessionsInv, CallsFinite, NEW w \in Workers, Start(w)
    PROVE  CallsFinite'
<1>1. IsFiniteSet(DOMAIN <<>>) /\ \A x : IsFiniteSet(DOMAIN <<x>>)
  <2>1. IsFiniteSet({}) /\ IsFiniteSet({1})
    BY FS_EmptySet, FS_Singleton
  <2>2. DOMAIN <<>> = {}
    OBVIOUS
  <2>3. ASSUME NEW x PROVE DOMAIN <<x>> = {1}
    OBVIOUS
  <2> QED
    BY <2>1, <2>2, <2>3, Zenon
<1>2. \A i \in Inbounds : IsFiniteSet(DOMAIN i)
  <2> SUFFICES ASSUME NEW i \in Inbounds PROVE IsFiniteSet(DOMAIN i)
    OBVIOUS
  <2>1. i \in Seq(Links)
    BY PurchaseAssumption
  <2>2. Len(i) \in Nat /\ DOMAIN i = 1..Len(i)
    BY <2>1
  <2>3. IsFiniteSet(1..Len(i))
    BY <2>2, FS_Interval
  <2> QED
    BY <2>2, <2>3
<1>3. ASSUME NEW s \in Purchases, StartCreate(w, s) \/ StartDelete(w, s) PROVE CallsFinite'
  <2>1. PICK kind \in {"create", "delete"}, on \in {<<>>, <<s>>} :
           Begin(w, [kind |-> kind, of |-> s, on |-> on])
    BY <1>3 DEF StartCreate, StartDelete
  <2>2. IsFiniteSet(DOMAIN on)
    BY <1>1, <2>1
  <2> QED
    BY <2>1, <2>2, BeginKeepsFinite
<1>4. ASSUME NEW d \in Deliveries, StartReceive(w, d) PROVE CallsFinite'
  BY <1>1, <1>4, BeginKeepsFinite DEF StartReceive
<1>5. ASSUME NEW u \in Usages, StartUse(w, u) PROVE CallsFinite'
  BY <1>1, <1>5, BeginKeepsFinite DEF StartUse
<1>6. ASSUME NEW l \in Links, StartRemove(w, l) PROVE CallsFinite'
  BY <1>1, <1>6, BeginKeepsFinite DEF StartRemove
<1>7. ASSUME NEW i \in Inbounds, StartDeleteInbound(w, i) PROVE CallsFinite'
  BY <1>2, <1>7, BeginKeepsFinite DEF StartDeleteInbound
<1> QED
  BY <1>3, <1>4, <1>5, <1>6, <1>7 DEF Start

LEMMA FiniteStep == SessionsInv /\ CallsFinite /\ [Next]_vars => CallsFinite'
<1> SUFFICES ASSUME SessionsInv, CallsFinite, [Next]_vars PROVE CallsFinite'
  OBVIOUS
<1>1. CASE UNCHANGED call
  BY <1>1 DEF CallsFinite
<1>2. ASSUME NEW w \in Workers, Step(w) PROVE CallsFinite'
  <2>1. CASE LockDocument(w) \/ LockConsumable(w)
    BY <1>1, <2>1 DEF LockDocument, LockConsumable
  <2>2. CASE ~(LockDocument(w) \/ LockConsumable(w))
    <3>1. Finish(w)
      BY <1>2, <2>2 DEF Step, Refuse, AbortVictim, RefuseCreate, RefuseUse, CommitCreate,
         CommitReceive, CommitDelete, CommitUse, CommitRemove
    <3> QED
      BY <3>1, EndKeepsFinite
  <2> QED
    BY <2>1, <2>2
<1>3. ASSUME NEW w \in Workers, Crash(w) PROVE CallsFinite'
  BY <1>3, EndKeepsFinite DEF Crash
<1>4. ASSUME NEW s \in Purchases, Cancel(s) \/ Reopen(s) PROVE CallsFinite'
  BY <1>1, <1>4 DEF Cancel, Reopen
<1>5. ASSUME NEW e \in Edits, Update(e) PROVE CallsFinite'
  BY <1>1, <1>5 DEF Update
<1>6. CASE ChangePlace
  BY <1>1, <1>6 DEF ChangePlace
<1> QED
  BY <1>1, <1>2, <1>3, <1>4, <1>5, <1>6, StartKeepsFinite DEF Next, vars

LEMMA FiniteInit == Init => CallsFinite
<1> SUFFICES ASSUME Init PROVE CallsFinite
  OBVIOUS
<1>1. DOMAIN NoCall.on = {} /\ \A w \in Workers : call[w] = NoCall
  BY DEF NoCall, Init
<1> QED
  BY <1>1, FS_EmptySet DEF CallsFinite

(* Steps that move nothing leave the books as they are.                    *)
LEMMA BooksSame ==
    ASSUME BooksInv, UNCHANGED <<bal, ledger, receipts, usage, issued>>
    PROVE  BooksInv'
<1>1. ASSUME NEW m PROVE /\ QtyIn(receipts, m)' = QtyIn(receipts, m)
                         /\ UsedBy(Links, m)' = UsedBy(Links, m)
  BY DEF QtyIn, UsedBy, UsedQty
<1>2. ASSUME NEW m \in Materials PROVE SumsHold(m)'
  <2>1. SumsHold(m)
    BY DEF BooksInv
  <2> QED
    BY <1>1, <2>1 DEF SumsHold
<1>3. ASSUME NEW m \in Materials, NEW a \in Locations PROVE Explained(m, a)'
  <2>1. Explained(m, a)
    BY DEF BooksInv
  <2> QED
    BY <2>1 DEF Explained, Credits, Debits, EntriesOf
<1>4. ASSUME NEW e \in ledger PROVE EntryTyped(e) /\ EntryOnRecord(e)'
  <2>1. EntryTyped(e) /\ EntryOnRecord(e)
    BY DEF BooksInv
  <2> QED
    BY <2>1 DEF EntryOnRecord
<1> QED
  BY <1>2, <1>3, <1>4 DEF BooksInv

LEMMA BooksStep ==
    SessionsInv /\ DocumentsInv /\ CallsFinite /\ BooksInv /\ [Next]_vars => BooksInv'
<1> SUFFICES ASSUME SessionsInv, DocumentsInv, CallsFinite, BooksInv, [Next]_vars PROVE BooksInv'
  OBVIOUS
<1>1. CASE UNCHANGED <<bal, ledger, receipts, usage, issued>>
  BY <1>1, BooksSame
<1>2. ASSUME NEW w \in Workers, Step(w) PROVE BooksInv'
  <2>1. CASE \/ LockDocument(w) \/ Refuse(w) \/ LockConsumable(w) \/ AbortVictim(w)
             \/ CommitCreate(w) \/ RefuseCreate(w) \/ RefuseUse(w)
    BY <1>1, <2>1 DEF LockDocument, Refuse, LockConsumable, AbortVictim, CommitCreate,
       RefuseCreate, RefuseUse, tables, ledgerVars
  <2>2. IsFiniteSet(DOMAIN call[w].on)
    BY DEF CallsFinite
  <2> QED
    BY <1>2, <2>1, <2>2, ReceiveKeepsBooks, DeleteKeepsBooks, UseKeepsBooks, RemoveKeepsBooks DEF Step
<1>3. ASSUME NEW w \in Workers, Start(w) PROVE BooksInv'
  BY <1>1, <1>3 DEF Start, StartCreate, StartReceive, StartDelete, StartUse, StartRemove,
     StartDeleteInbound, Begin, tables, ledgerVars
<1>4. ASSUME NEW w \in Workers, Crash(w) PROVE BooksInv'
  BY <1>1, <1>4 DEF Crash, tables
<1>5. ASSUME NEW s \in Purchases, Cancel(s) \/ Reopen(s) PROVE BooksInv'
  BY <1>1, <1>5 DEF Cancel, Reopen, ledgerVars
<1>6. ASSUME NEW e \in Edits, Update(e) PROVE BooksInv'
  BY <1>1, <1>6 DEF Update, ledgerVars
<1>7. CASE ChangePlace
  BY <1>1, <1>7 DEF ChangePlace, ledgerVars
<1> QED
  BY <1>1, <1>2, <1>3, <1>4, <1>5, <1>6, <1>7 DEF Next, vars, tables

LEMMA BooksInit == Init => BooksInv
<1> SUFFICES ASSUME Init PROVE BooksInv
  OBVIOUS
<1>1. ledger = {} /\ receipts = {} /\ bal = [m \in Materials |-> OpeningBalance(m)]
  BY DEF Init, LedgerInit
<1>2. ASSUME NEW m \in Materials
      PROVE  /\ OpeningBalance(m) \in Balance /\ OpeningBalance(m).own = Opening[m]
             /\ OpeningBalance(m).factory = 0 /\ OpeningBalance(m).transit = 0
             /\ OpeningBalance(m).purchased = 0 /\ Opening[m] \in Nat
  BY LedgerAssumption, AccountsApart DEF OpeningBalance, Balance
<1>3. ASSUME NEW m PROVE QtyIn(receipts, m) = 0
  <2>1. PICK f : f = [r \in receipts |-> QtyOf(r.delivery, m)]
    OBVIOUS
  <2>2. \A r \in DOMAIN f : f[r] = 0
    BY <1>1, <2>1
  <2> QED
    BY <2>1, <2>2, TotalZero DEF QtyIn
<1>4. ASSUME NEW m PROVE UsedBy(Links, m) = 0
  <2>1. PICK f : f = [l \in Links |-> UsedQty(l, m)]
    OBVIOUS
  <2>2. \A l \in Links : DOMAIN usage[l].rows = {}
    BY DEF Init, NoUsage, NoLines
  <2>3. \A l \in DOMAIN f : f[l] = 0
    BY <2>1, <2>2 DEF UsedQty
  <2> QED
    BY <2>1, <2>3, TotalZero DEF UsedBy
<1>5. ASSUME NEW m \in Materials, NEW a \in Locations PROVE Explained(m, a)
  <2>1. EntriesOf(m) = {}
    BY <1>1 DEF EntriesOf
  <2>2. OpeningBalance(m)[a] \in Int
    BY <1>2, AccountsApart DEF Balance
  <2>3. bal[m][a] = OpeningBalance(m)[a] + NetOf(EntriesOf(m), a)
    BY <1>1, <2>1, <2>2, NoEntries
  <2> QED
    BY <2>1, <2>2, <2>3, ExplainedByNet, FS_EmptySet
<1>6. ASSUME NEW m \in Materials PROVE SumsHold(m)
  BY <1>1, <1>2, <1>3, <1>4 DEF SumsHold
<1>7. bal \in [Materials -> Balance]
  BY <1>1, <1>2
<1> QED
  BY <1>1, <1>5, <1>6, <1>7, FS_EmptySet DEF BooksInv

-----------------------------------------------------------------------------
(* Waiting for each other *)

(* A call that deletes nothing locks one document.                         *)
Deletes(w) == Serves(w, "delete") \/ Serves(w, "deleteInbound")

LEMMA AsksForOne ==
    ASSUME SessionsInv, DocumentsInv, NEW w \in Workers, ~Deletes(w)
    PROVE  /\ \A d : NextDocument(w, d) => d \in Docs /\ docs[w] = {} /\ DOMAIN view[w] = {}
           /\ \A n : NextRow(w, n) =>
                 n \in Materials /\ n \in RowsLeft(w) /\ \A m \in DOMAIN view[w] : m < n
<1>0. SessionOK(w) /\ DOMAIN view[w] \subseteq Materials
  BY DEF SessionsInv, RowsFresh, FreshCopies
<1>1. ASSUME NEW d, NextDocument(w, d) PROVE d \in Docs /\ docs[w] = {} /\ DOMAIN view[w] = {}
  <2>1. d \in DocumentsOf(w) /\ d \notin docs[w]
    BY <1>1 DEF NextDocument, DocumentsOf
  <2>2. \E x : DocumentsOf(w) = {x}
    BY <1>0, <2>1 DEF SessionOK, CallOK, Kinds, Serves, Deletes
  <2>3. docs[w] = {}
    BY <1>0, <2>1, <2>2 DEF SessionOK
  <2>4. DOMAIN view[w] = {}
    BY <1>0, <2>3 DEF SessionOK, RowsNeeded
  <2>5. DocumentsOf(w) \subseteq Docs
    BY <1>0, DocumentsTyped DEF SessionOK
  <2> QED
    BY <2>1, <2>3, <2>4, <2>5
<1>2. ASSUME NEW n, NextRow(w, n)
      PROVE  n \in Materials /\ n \in RowsLeft(w) /\ \A m \in DOMAIN view[w] : m < n
  <2>1. n \in RowsLeft(w) /\ n \notin DOMAIN view[w]
    BY <1>2 DEF NextRow, RowsLeft
  <2>2. PICK d \in docs[w] : n \in RowsOf(w, d)
    BY <2>1 DEF RowsLeft
  <2>3. d \in DocumentsOf(w)
    BY <1>0, <2>2 DEF SessionOK
  <2>4. n \in Materials
    <3>1. CASE Serves(w, "receive")
      <4>1. PICK e \in Deliveries : e = call[w].delivery
        BY <1>0, <3>1 DEF SessionOK, CallOK
      <4>2. n \in DOMAIN e.qty
        BY <2>2, <3>1, <4>1 DEF RowsOf, Serves
      <4> QED
        BY <4>2, QtyNat
    <3>2. CASE Serves(w, "use") \/ Serves(w, "remove")
      <4>1. d \in Links
        BY <1>0, <2>3, <3>2, PurchaseAssumption DEF SessionOK, CallOK
      <4>2. DOMAIN usage[d].rows \subseteq Materials
        BY <4>1 DEF DocumentsInv, UsageOK
      <4>3. CASE Serves(w, "use")
        <5>1. PICK u \in Usages : u = call[w].new
          BY <1>0, <4>3 DEF SessionOK, CallOK
        <5>2. n \in DOMAIN usage[d].rows \cup DOMAIN u.qty
          BY <2>2, <4>3, <5>1 DEF RowsOf, Serves
        <5>3. DOMAIN u.qty \subseteq Materials
          BY <5>1, PurchaseAssumption DEF Lines
        <5> QED
          BY <4>2, <5>2, <5>3
      <4>4. CASE Serves(w, "remove")
        BY <2>2, <4>2, <4>4 DEF RowsOf, Serves
      <4> QED
        BY <3>2, <4>3, <4>4
    <3>3. CASE Serves(w, "none") \/ Serves(w, "create")
      BY <1>0, <2>3, <3>3 DEF SessionOK, CallOK
    <3> QED
      BY <1>0, <3>1, <3>2, <3>3 DEF SessionOK, CallOK, Kinds, Serves, Deletes
  <2>5. \A m \in DOMAIN view[w] : m <= n
    BY <1>0, <2>1 DEF SessionOK, Ascends, Deletes
  <2>6. ASSUME NEW m \in DOMAIN view[w] PROVE m < n
    <3>1. m \in Nat /\ n \in Nat
      BY <1>0, <2>4, LedgerAssumption
    <3>2. m <= n /\ m # n
      BY <2>1, <2>5
    <3> QED
      BY <3>1, <3>2
  <2> QED
    BY <2>1, <2>4, <2>6
<1> QED
  BY <1>1, <1>2

(* What the calls of a circle ask for climbs without end, unless one of    *)
(* them deletes.                                                           *)
LEMMA DocumentsRuleOutCycles == SessionsInv /\ DocumentsInv => OnlyDeletionsDeadlock
<1> SUFFICES ASSUME SessionsInv, DocumentsInv,
                    NEW S \in SUBSET Workers, Deadlocked(S), \A w \in S : ~Deletes(w)
             PROVE  FALSE
  BY DEF OnlyDeletionsDeadlock, Deletes
<1> DEFINE asked == {n \in Materials : \E v \in S : NextRow(v, n)}
<1>1. ASSUME NEW v \in S
      PROVE  \E w \in S : \E x \in docs[w] \cup DOMAIN view[w] : Asks(v, x)
  BY DEF Deadlocked, WaitsFor
<1>2. ASSUME NEW w \in S, NEW x \in docs[w] \cup DOMAIN view[w]
      PROVE  \E n \in asked : NextRow(w, n)
  <2>1. PICK y : Asks(w, y)
    BY <1>1
  <2>2. ~NextDocument(w, y)
    BY <1>2, AsksForOne
  <2>3. NextRow(w, y)
    BY <2>1, <2>2 DEF Asks
  <2> QED
    BY <2>3, AsksForOne
<1>3. asked # {}
  <2>1. PICK v \in S : TRUE
    BY DEF Deadlocked
  <2>2. PICK w \in S : \E x \in docs[w] \cup DOMAIN view[w] : Asks(v, x)
    BY <1>1
  <2> QED
    BY <1>2, <2>2
<1>4. IsFiniteSet(asked) /\ asked \subseteq Nat
  BY LedgerAssumption, FS_Subset
<1>5. PICK n \in asked : \A k \in asked : k <= n
  <2> HIDE DEF asked
  <2> QED
    BY <1>3, <1>4, Largest
<1>6. PICK v \in S : NextRow(v, n)
  OBVIOUS
<1>7. PICK w \in S : \E x \in docs[w] \cup DOMAIN view[w] : Asks(v, x)
  BY <1>1
<1>8. PICK x \in docs[w] \cup DOMAIN view[w] : Asks(v, x)
  BY <1>7
<1>9. x = n
  <2>1. ~NextDocument(v, x)
    BY <1>6 DEF NextRow, NextDocument
  <2>2. NextRow(v, x) /\ ~Serves(v, "delete")
    BY <1>8, <2>1 DEF Asks, Deletes
  <2>3. x \in Materials /\ n \in Materials /\ n <= x /\ x <= n
    BY <1>6, <2>2, AsksForOne DEF NextRow
  <2> QED
    BY <2>3, LedgerAssumption
<1>10. n \in DOMAIN view[w]
  <2>1. docs[w] \subseteq Docs
    <3>1. SessionOK(w)
      BY DEF SessionsInv
    <3> QED
      BY <3>1, DocumentsTyped DEF SessionOK
  <2> QED
    BY <1>8, <1>9, <2>1, PurchaseAssumption
<1>11. PICK k \in asked : NextRow(w, k)
  BY <1>2, <1>10
<1>12. n < k
  BY <1>10, <1>11, AsksForOne
<1> QED
  BY <1>4, <1>5, <1>12

-----------------------------------------------------------------------------
(* Purchases: the invariant and the theorems *)

PurchaseInv == SessionsInv /\ DocumentsInv /\ CallsFinite /\ IssuedInv /\ BooksInv

LEMMA PurchaseInit == Init => PurchaseInv
  BY SessionsInit, DocumentsInit, FiniteInit, IssuedInit, BooksInit DEF PurchaseInv

LEMMA PurchaseStep == PurchaseInv /\ [Next]_vars => PurchaseInv'
<1> SUFFICES ASSUME PurchaseInv, [Next]_vars PROVE PurchaseInv'
  OBVIOUS
<1>1. SessionsInv /\ DocumentsInv /\ CallsFinite /\ IssuedInv /\ BooksInv
  BY DEF PurchaseInv
<1>2. SessionsInv'
  BY <1>1, SessionsStep
<1>3. DocumentsInv'
  BY <1>1, DocumentsStep
<1>4. CallsFinite'
  BY <1>1, FiniteStep
<1>5. IssuedInv'
  BY <1>1, IssuedStep
<1>6. BooksInv'
  BY <1>1, BooksStep
<1> QED
  BY <1>2, <1>3, <1>4, <1>5, <1>6 DEF PurchaseInv

LEMMA PurchaseAlways == Spec => []PurchaseInv
  BY PurchaseInit, PurchaseStep, PTL DEF Spec

LEMMA PurchaseTyped == PurchaseInv => TypeOK
<1> SUFFICES ASSUME PurchaseInv PROVE TypeOK
  OBVIOUS
<1>1. SessionsInv /\ DocumentsInv /\ IssuedInv /\ BooksInv
  BY DEF PurchaseInv
<1>2. bal \in [Materials -> Balance]
  BY <1>1 DEF BooksInv
<1>3. \A w \in Workers : DOMAIN view[w] \subseteq Materials /\ docs[w] \subseteq Docs
  <2> TAKE w \in Workers
  <2>1. SessionOK(w) /\ RowsFresh
    BY <1>1 DEF SessionsInv
  <2>2. docs[w] \subseteq Docs
    BY <2>1, DocumentsTyped DEF SessionOK
  <2>3. DOMAIN view[w] \subseteq Materials
    BY <2>1 DEF RowsFresh, FreshCopies
  <2> QED
    BY <2>2, <2>3
<1>4. \A s \in Purchases :
        /\ order[s].status \in {"absent", "ordered", "partial", "received", "cancelled"}
        /\ DOMAIN order[s].lines \subseteq Materials
  BY <1>1 DEF DocumentsInv, OrderOK, PurchaseStatuses
<1>5. \A r \in receipts : r.id \in 1..issued /\ r.delivery \in Deliveries
  BY <1>1 DEF DocumentsInv, ReceiptsOK
<1>6. \A l \in Links : usage[l].status \in {"open", "with", "without", "gone"}
  BY <1>1 DEF DocumentsInv, UsageOK, UsageStatuses
<1>7. place \in Places /\ issued \in 0..MaxIssued
  <2>1. Cardinality(Issuing) \in Nat /\ issued + Cardinality(Issuing) <= MaxIssued
    BY <1>1, FS_CardinalityType DEF IssuedInv
  <2>2. issued \in Nat /\ place \in Places /\ MaxIssued \in Nat
    BY <1>1, PurchaseAssumption DEF DocumentsInv
  <2> QED
    BY <2>1, <2>2
<1> QED
  BY <1>2, <1>3, <1>4, <1>5, <1>6, <1>7 DEF TypeOK

(* Every variable has its type; no more ids are given out than the bound   *)
(* allows, whatever is submitted, taken back or lost in a crash.           *)
THEOREM PurchaseTypes == Spec => []TypeOK
  BY PurchaseAlways, PurchaseTyped, PTL

(* The stock is that of the documents on record and each location is what  *)
(* the ledger says: the reversals of delete_consumable_purchase and of the *)
(* inbound usage take back exactly what was posted.                        *)
THEOREM StockIsLiveDocuments == Spec => []BooksAreLiveDocuments
<1>1. PurchaseInv => BooksAreLiveDocuments
  BY DEF PurchaseInv, BooksInv, SumsHold, BooksAreLiveDocuments
<1> QED
  BY <1>1, PurchaseAlways, PTL

(* No line is received beyond its order, no delivery twice, and lines,     *)
(* status and receipts of a purchase agree after any sequence of receipts, *)
(* edits, cancellations and deletions.                                     *)
THEOREM ReceiptsNeverExceedOrders == Spec => []ReceiptsFitOrders
<1>1. PurchaseInv => ReceiptsFitOrders
  BY DEF PurchaseInv, DocumentsInv, OrderOK, ReceiptsOK, ReceiptsFitOrders, WithinOrdered
<1> QED
  BY <1>1, PurchaseAlways, PTL

(* Sessions that wait for each other in a circle have a deletion among     *)
(* them: the id order in which the other calls lock rows is enough.        *)
THEOREM OnlyDeletionsBlock == Spec => []OnlyDeletionsDeadlock
<1>1. PurchaseInv => OnlyDeletionsDeadlock
  BY DocumentsRuleOutCycles DEF PurchaseInv
<1> QED
  BY <1>1, PurchaseAlways, PTL

=============================================================================
