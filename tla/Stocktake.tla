----------------------------- MODULE Stocktake -----------------------------
(***************************************************************************)
(* Stocktaking tasks (services/inventory_stocktake_service.py): a task     *)
(* notes the book quantity of every item it lists, the counted quantities  *)
(* are saved in one or more calls, and a confirmation posts the            *)
(* differences of the consumables to the ledger.  The differences of the   *)
(* goods are never posted: the position of a good adds up the imported     *)
(* documents and the differences of the completed tasks.                   *)
(*                                                                         *)
(* The calls take no lock on the task.  Each one reads the task and its    *)
(* rows, decides, and writes later; calls of other sessions may commit in  *)
(* between.  Only the consumable rows are locked, when they are posted.    *)
(***************************************************************************)
EXTENDS ConsumableLedger

CONSTANTS
    Goods,        \* product SKUs that are counted
    GoodsOpening, \* their positions before the modelled calls
    Tasks,        \* tasks that may be created
    Scope,        \* the items each task lists
    Place,        \* stock location the warehouse stands for: own or factory
    Code,         \* place of a consumable in the order of item codes
    Counts,       \* submissions of counted quantities
    Movements,    \* other stock transactions, registered once each
    Documents     \* goods documents that may be imported: sku and quantity

Items == Materials \cup Goods

NotCounted == -1
ActualQty == Nat \cup {NotCounted}

ASSUME StocktakeAssumption ==
    /\ Materials \cap Goods = {}
    /\ GoodsOpening \in [Goods -> Int]
    /\ \A t \in Tasks : Scope[t] \subseteq Items /\ Scope[t] # {}
    /\ Place \in Locations
    /\ \A m, n \in Materials : Code[m] \in Nat /\ (Code[m] = Code[n] => m = n)
    /\ \A c \in Counts : /\ c.task \in Tasks /\ DOMAIN c.rows \subseteq Scope[c.task]
                         /\ \A i \in DOMAIN c.rows : c.rows[i].actual \in ActualQty
    /\ \A v \in Movements : /\ v.mat \in Materials /\ v.type \in TxTypes
                            /\ v.loc \in Locations /\ v.qty \in Int
    /\ \A d \in Documents : d.qty \in Int

VARIABLES
    task,      \* status of every task, "absent" before it is created
    rows,      \* rows of every task: book and counted quantity, reason
    imported,  \* goods documents imported so far
    request,   \* per session, the request it serves
    pc,        \* per session, the next step
    seen       \* per session, what it has read: the task, its rows, and the
               \* ledger entries found for the rows posted so far

taskVars == <<task, rows>>
sessionVars == <<request, pc, seen>>
stocktakeVars == <<bal, ledger, view, task, rows, imported, request, pc, seen>>

OpenStatuses == {"pending", "counting", "review"}
NoRows == [i \in {} |-> 0]
NoRequest == [kind |-> "none"]
Seen(status, rs) == [status |-> status, rows |-> rs, prior |-> {}]
NoSeen == Seen("absent", NoRows)

StocktakeInit ==
    /\ LedgerInit
    /\ task = [t \in Tasks |-> "absent"]
    /\ rows = [t \in Tasks |-> NoRows]
    /\ imported = {}
    /\ request = [w \in Workers |-> NoRequest]
    /\ pc = [w \in Workers |-> "idle"]
    /\ seen = [w \in Workers |-> NoSeen]

-----------------------------------------------------------------------------
(* Book quantities *)

Difference(row) == row.actual - row.book

(* current_positions: documents plus the differences of completed tasks.   *)
CompletedDifference(g) ==
    Net([t \in {t \in Tasks : task[t] = "completed" /\ g \in DOMAIN rows[t]
                              /\ rows[t][g].actual # NotCounted} |-> Difference(rows[t][g])])

GoodsPosition(g) ==
    GoodsOpening[g] + Net([d \in {d \in imported : d.sku = g} |-> d.qty]) + CompletedDifference(g)

BookQty(i) == IF i \in Materials THEN bal[i][Place] ELSE GoodsPosition(i)

-----------------------------------------------------------------------------
(* Sessions *)

EndCall(w) ==
    /\ request' = [request EXCEPT ![w] = NoRequest]
    /\ pc' = [pc EXCEPT ![w] = "idle"]
    /\ seen' = [seen EXCEPT ![w] = NoSeen]
    /\ ReleaseRows(w)

BeginCall(w, asked, label, read) ==
    /\ pc[w] = "idle"
    /\ request' = [request EXCEPT ![w] = asked]
    /\ pc' = [pc EXCEPT ![w] = label]
    /\ seen' = [seen EXCEPT ![w] = read]
    /\ UNCHANGED <<ledgerVars, taskVars, imported>>

ServesAt(w, kind, label) == pc[w] = label /\ request[w].kind = kind

TaskRead(t) == Seen(task[t], rows[t])

-----------------------------------------------------------------------------
(* create_task: the books are read first, the task and its rows are        *)
(* inserted later.                                                         *)
FreshRow(i) == [book |-> BookQty(i), actual |-> NotCounted, reason |-> ""]

StartCreateTask(w, t) ==
    /\ task[t] = "absent"
    /\ \A x \in Workers : request[x].kind = "create" => request[x].task # t
    /\ BeginCall(w, [kind |-> "create", task |-> t], "write",
             Seen("absent", [i \in Scope[t] |-> FreshRow(i)]))

CommitCreateTask(w) ==
    /\ ServesAt(w, "create", "write")
    /\ task' = [task EXCEPT ![request[w].task] = "pending"]
    /\ rows' = [rows EXCEPT ![request[w].task] = seen[w].rows]
    /\ EndCall(w)
    /\ UNCHANGED <<bal, ledger, imported>>

-----------------------------------------------------------------------------
(* save_counts *)

StartSave(w, c) ==
    /\ task[c.task] \in OpenStatuses
    /\ BeginCall(w, [kind |-> "save", task |-> c.task, rows |-> c.rows], "write", TaskRead(c.task))

Counted(row, submitted) ==
    [row EXCEPT !.actual = submitted.actual, !.reason = submitted.reason]

SavedRows(w) ==
    [i \in DOMAIN seen[w].rows |->
        IF i \in DOMAIN request[w].rows THEN Counted(seen[w].rows[i], request[w].rows[i])
        ELSE seen[w].rows[i]]

(* Mutant: a misspelt status. *)
StatusMisspelt(rs) == IF \E i \in DOMAIN rs : rs[i].actual # NotCounted THEN "counted" ELSE "pending"

StatusByCounts(rs) ==
    LET counted == {i \in DOMAIN rs : rs[i].actual # NotCounted} IN
    CASE counted = {}        -> "pending"
      [] counted = DOMAIN rs -> "review"
      [] OTHER               -> "counting"

(* The session writes the attributes whose value differs from the one it   *)
(* read, and no others.                                                    *)
Written(current, read, new) == IF new = read THEN current ELSE new

CommitSave(w) ==
    LET t == request[w].task  new == SavedRows(w)  read == seen[w].rows IN
    /\ ServesAt(w, "save", "write")
    /\ rows' = [rows EXCEPT ![t] = [i \in DOMAIN rows[t] |->
          [rows[t][i] EXCEPT
              !.actual = Written(@, read[i].actual, new[i].actual),
              !.reason = Written(@, read[i].reason, new[i].reason)]]]
    /\ task' = [task EXCEPT ![t] = Written(@, seen[w].status, StatusByCounts(new))]
    /\ EndCall(w)
    /\ UNCHANGED <<bal, ledger, imported>>

-----------------------------------------------------------------------------
(* confirm_task *)

Confirmable(rs) ==
    \A i \in DOMAIN rs :
        /\ rs[i].actual # NotCounted
        /\ Difference(rs[i]) # 0 => rs[i].reason # ""

StartConfirm(w, t) ==
    /\ task[t] \in OpenStatuses
    /\ Confirmable(rows[t])
    /\ BeginCall(w, [kind |-> "confirm", task |-> t], "check", TaskRead(t))

BooksUnchanged(w) == \A i \in DOMAIN seen[w].rows : BookQty(i) = seen[w].rows[i].book

CheckBooks(w) ==
    /\ ServesAt(w, "confirm", "check")
    /\ BooksUnchanged(w)
    /\ pc' = [pc EXCEPT ![w] = "post"]
    /\ UNCHANGED <<ledgerVars, taskVars, imported, request, seen>>

RefuseBooks(w) ==
    /\ ServesAt(w, "confirm", "check")
    /\ ~BooksUnchanged(w)
    /\ EndCall(w)
    /\ UNCHANGED <<bal, ledger, taskVars, imported>>

ToPost(w) == {i \in DOMAIN seen[w].rows \cap Materials : Difference(seen[w].rows[i]) # 0}
ToLock(w) == ToPost(w) \ DOMAIN view[w]

StocktakeEntry(w, m) ==
    [source |-> <<"stocktake", request[w].task, m>>, mat |-> m, type |-> "stocktake",
     loc |-> Place, qty |-> Difference(seen[w].rows[m]), note |-> seen[w].rows[m].reason]

(* Mutant: the ledger is not asked whether the row was posted before. *)
NeverPosted(w, m) == {e \in ledger : e.source = <<"nowhere", w, m>>}

(* record_transaction looks for an entry of the same source when it has    *)
(* the lock of the consumable: an equal one is the answer, a different one *)
(* is an error.                                                            *)
PostedBefore(w, m) == {e \in ledger : e.source = StocktakeEntry(w, m).source}

Contradicted(w) == \E e \in seen[w].prior : e # StocktakeEntry(w, e.mat)

(* Mutant: the rows are posted in any order. *)
LockRowAnyOrder(w, m) ==
    /\ ServesAt(w, "confirm", "post") /\ ~Contradicted(w)
    /\ m \in ToLock(w)
    /\ LockRow(w, m)
    /\ seen' = [seen EXCEPT ![w].prior = @ \cup PostedBefore(w, m)]
    /\ UNCHANGED <<bal, ledger, taskVars, imported, request, pc>>

(* The rows are posted in the order of their codes; each posting locks its *)
(* consumable until the commit.                                            *)
LockForPosting(w, m) ==
    /\ ServesAt(w, "confirm", "post") /\ ~Contradicted(w)
    /\ m \in ToLock(w)
    /\ \A n \in ToLock(w) : Code[m] <= Code[n]
    /\ LockRow(w, m)
    /\ seen' = [seen EXCEPT ![w].prior = @ \cup PostedBefore(w, m)]
    /\ UNCHANGED <<bal, ledger, taskVars, imported, request, pc>>

CommitConfirm(w) ==
    LET new == {m \in ToPost(w) : StocktakeEntry(w, m) \notin seen[w].prior} IN
    /\ ServesAt(w, "confirm", "post") /\ ~Contradicted(w)
    /\ ToLock(w) = {}
    /\ ledger' = ledger \cup {StocktakeEntry(w, m) : m \in new}
    /\ bal' = [m \in Materials |->
          IF m \in new
          THEN Posted(bal[m], view[w][m], "stocktake", Place, Difference(seen[w].rows[m]))
          ELSE bal[m]]
    /\ task' = [task EXCEPT ![request[w].task] = "completed"]
    /\ EndCall(w)
    /\ UNCHANGED <<rows, imported>>

RefuseContradiction(w) ==
    /\ ServesAt(w, "confirm", "post") /\ Contradicted(w)
    /\ EndCall(w)
    /\ UNCHANGED <<bal, ledger, taskVars, imported>>

-----------------------------------------------------------------------------
(* cancel_task *)

StartCancel(w, t) ==
    /\ task[t] \notin {"absent", "completed"}
    /\ BeginCall(w, [kind |-> "cancel", task |-> t], "write", TaskRead(t))

CommitCancel(w) ==
    /\ ServesAt(w, "cancel", "write")
    /\ task' = [task EXCEPT ![request[w].task] = Written(@, seen[w].status, "cancelled")]
    /\ EndCall(w)
    /\ UNCHANGED <<bal, ledger, rows, imported>>

-----------------------------------------------------------------------------
(* Everything else that changes the books *)

MovementEntry(v) ==
    [source |-> <<"request", v.key>>, mat |-> v.mat, type |-> v.type,
     loc |-> v.loc, qty |-> v.qty, note |-> ""]

(* record_transaction for another caller: it waits for the consumable and  *)
(* commits; it holds nothing else while it waits.                          *)
MoveStock(v) ==
    /\ Unlocked(v.mat)
    /\ \A e \in ledger : e.source # MovementEntry(v).source
    /\ Affordable(bal[v.mat], v.type, v.loc, v.qty)
    /\ ledger' = ledger \cup {MovementEntry(v)}
    /\ bal' = [bal EXCEPT ![v.mat] = Posted(@, @, v.type, v.loc, v.qty)]
    /\ UNCHANGED <<view, taskVars, imported, sessionVars>>

ImportDocument(d) ==
    /\ d \notin imported
    /\ imported' = imported \cup {d}
    /\ UNCHANGED <<ledgerVars, taskVars, sessionVars>>

(* The session's process or connection dies and is rolled back.            *)
CrashCall(w) ==
    /\ pc[w] # "idle"
    /\ EndCall(w)
    /\ UNCHANGED <<bal, ledger, taskVars, imported>>

StartCall(w) ==
    \/ \E t \in Tasks : StartCreateTask(w, t) \/ StartConfirm(w, t) \/ StartCancel(w, t)
    \/ \E c \in Counts : StartSave(w, c)

StepCall(w) ==
    \/ CommitCreateTask(w) \/ CommitSave(w) \/ CommitCancel(w)
    \/ CheckBooks(w) \/ RefuseBooks(w)
    \/ \E m \in Materials : LockForPosting(w, m)
    \/ CommitConfirm(w) \/ RefuseContradiction(w)

StocktakeNext ==
    \/ \E w \in Workers : StartCall(w) \/ StepCall(w) \/ CrashCall(w)
    \/ \E v \in Movements : MoveStock(v)
    \/ \E d \in Documents : ImportDocument(d)

StocktakeSpec == StocktakeInit /\ [][StocktakeNext]_stocktakeVars

-----------------------------------------------------------------------------
Reasons == {""} \cup UNION {{c.rows[i].reason : i \in DOMAIN c.rows} : c \in Counts}
StocktakeRow == [book : Int, actual : ActualQty, reason : Reasons]

(* Every variable has its type. *)
StocktakeTypeOK ==
    /\ bal \in [Materials -> Balance]
    /\ \A w \in Workers : DOMAIN view[w] \subseteq Materials
    /\ task \in [Tasks -> OpenStatuses \cup {"absent", "completed", "cancelled"}]
    /\ \A t \in Tasks : \A i \in DOMAIN rows[t] : i \in Scope[t] /\ rows[t][i] \in StocktakeRow
    /\ imported \subseteq Documents
    /\ pc \in [Workers -> {"idle", "write", "check", "post"}]

(* All entries of one source are one entry. *)
OneEntryPerRow == \A e, f \in ledger : e.source = f.source => e = f

(* A row of a task moves the stock once at most, however often the task is *)
(* confirmed, re-opened by a late save, recounted and confirmed again: it  *)
(* has one entry at most, and the counters have moved by what the entries  *)
(* say.  A difference posted twice moves a counter twice and leaves one    *)
(* entry, as the ledger is a set.                                          *)
OnePostingPerRow == OneEntryPerRow /\ LedgerExplainsBalance

(* Sessions that wait for each other: each one asks for a consumable that  *)
(* another one of them holds.                                              *)
WaitsToPost(v, w) ==
    /\ pc[v] = "post"
    /\ \E m \in ToLock(v) : (\A n \in ToLock(v) : Code[m] <= Code[n]) /\ m \in DOMAIN view[w]

PostingsDeadlocked(S) == S # {} /\ \A v \in S : \E w \in S : WaitsToPost(v, w)

(* Confirmations never wait for each other's consumables in a circle,      *)
(* however many of them and whatever tasks they confirm.                   *)
NoWaitCycle == \A S \in SUBSET Workers : ~PostingsDeadlocked(S)

=============================================================================
