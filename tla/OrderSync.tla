------------------------------ MODULE OrderSync ------------------------------
(***************************************************************************)
(* The synchronisation of sales orders with Jackyun over three channels    *)
(* (services/jky_order_sync_service.py), run by Celery workers             *)
(* (tasks/sync.py, celery_app.py).                                         *)
(*                                                                         *)
(* A run claims a job, reads the window that follows the last success,     *)
(* asks one channel after the other for the orders of the window, and      *)
(* writes what the first usable answer holds in one transaction with the   *)
(* cursor and the verdict on the job.  A worker may be killed at any point *)
(* and is killed at the time limit of the task; its job then stays         *)
(* "running" until another run finds it stale.                             *)
(*                                                                         *)
(* Time is a counter.  Health rows and logs of the channels are left out:  *)
(* nothing is decided by them.                                             *)
(***************************************************************************)
EXTENDS Integers, FiniteSets

CONSTANTS
    Workers,       \* Celery processes that serve the task
    Jobs,          \* ids of the jobs, in the order they are given out (bound)
    Orders,        \* sales orders of the shops
    Channels,      \* how many channels are configured, best first
    Limit,         \* hard time limit of a task
    Stale,         \* JKY_ORDER_STALE_RUN_MINUTES
    Overlap,       \* JKY_ORDER_SYNC_OVERLAP_MINUTES
    Lookback,      \* JKY_ORDER_INITIAL_LOOKBACK_DAYS
    Stamp,         \* per order, its time
    Lateness,      \* how long after its time an order may show up in a channel
    MinPrevious,   \* how large a success must be to judge the next by it
    RatioNum, RatioDen,   \* JKY_ORDER_LOW_COUNT_RATIO
    MaxNow         \* bound: the end of time

ASSUME SyncAssumption ==
    /\ Jobs \subseteq Nat \ {0} /\ IsFiniteSet(Orders) /\ Stamp \in [Orders -> Nat]
    /\ Channels \in Nat /\ MaxNow \in Nat
    /\ {Limit, Stale, Overlap, Lookback, Lateness} \subseteq Nat
    /\ {MinPrevious, RatioNum} \subseteq Nat /\ RatioDen \in Nat \ {0}

(* 35 minutes against 180, and an order shows up within the overlap.       *)
ASSUME TimingAssumption == Limit <= Stale /\ Lateness <= Overlap

VARIABLES
    now,
    status, started, found,   \* sync_jobs: verdict, begin, orders written
    cursor,        \* sync_checkpoints: the end of the last window written
    since,         \* the start of the first window written (history)
    record,        \* sales_orders
    shown,         \* the orders the channels show
    run            \* per worker, the run of the task it executes

jobTable == <<status, started, found>>
vars == <<now, status, started, found, cursor, since, record, shown, run>>

Never == -1
Steps == {"idle", "reclaim", "insert", "window", "channel", "write", "resolve"}

NoRun ==
    [at |-> "idle",
     begun |-> 0,              \* when the task began
     job |-> 0,                \* the job it looks at or works for
     from |-> 0, till |-> 0,   \* its window
     prev |-> 0,               \* the size of the last success
     channel |-> 1,            \* the channel to ask next
     answer |-> {},            \* the orders to write
     done |-> FALSE]           \* its job was reported successful

Init ==
    /\ now = 0
    /\ status = [j \in Jobs |-> "unused"]
    /\ started = [j \in Jobs |-> 0] /\ found = [j \in Jobs |-> 0]
    /\ cursor = Never /\ since = Never
    /\ record = {} /\ shown = {}
    /\ run = [w \in Workers |-> NoRun]

At(w, step) == run[w].at = step
Return(w) == run' = [run EXCEPT ![w] = NoRun]
-----------------------------------------------------------------------------
(* _start_job *)

RunningJobs == {j \in Jobs : status[j] = "running"}
UnusedJobs == {j \in Jobs : status[j] = "unused"}

AnyAge(j) == now > started[j]   \* mutant: a job is stale at once
IsStale(j) == now - started[j] > Stale

(* Mutant: a task that finds a running job always ends there. *)
LookYoungOnly(w) ==
    /\ At(w, "idle")
    /\ RunningJobs = {} /\ UnusedJobs # {}
    /\ run' = [run EXCEPT ![w] = [NoRun EXCEPT !.at = "insert", !.begun = now]]
    /\ UNCHANGED <<now, jobTable, cursor, since, record, shown>>

(* A task, sent by beat, by a page or again after its worker was lost,     *)
(* looks for a running job; when that one is young, the task ends there.   *)
Look(w) ==
    /\ At(w, "idle")
    /\ \/ /\ RunningJobs = {} /\ UnusedJobs # {}
          /\ run' = [run EXCEPT ![w] = [NoRun EXCEPT !.at = "insert", !.begun = now]]
       \/ \E j \in RunningJobs :
             /\ IsStale(j)
             /\ run' = [run EXCEPT ![w] = [NoRun EXCEPT !.at = "reclaim", !.begun = now, !.job = j]]
    /\ UNCHANGED <<now, jobTable, cursor, since, record, shown>>

Reclaim(w) ==
    /\ At(w, "reclaim")
    /\ status' = [status EXCEPT ![run[w].job] = "failed"]
    /\ run' = [run EXCEPT ![w].at = "insert"]
    /\ UNCHANGED <<now, started, found, cursor, since, record, shown>>

(* The unique index admits one running job.                                *)
Insert(w) ==
    /\ At(w, "insert")
    /\ \/ \E j \in UnusedJobs :
             /\ RunningJobs = {} /\ \A i \in UnusedJobs : j <= i
             /\ status' = [status EXCEPT ![j] = "running"]
             /\ started' = [started EXCEPT ![j] = run[w].begun]
             /\ run' = [run EXCEPT ![w].at = "window", ![w].job = j]
       \/ /\ RunningJobs # {} \/ UnusedJobs = {}
          /\ Return(w)
          /\ UNCHANGED <<status, started>>
    /\ UNCHANGED <<now, found, cursor, since, record, shown>>

-----------------------------------------------------------------------------
(* sync_orders *)

Successes == {j \in Jobs : status[j] = "success"}
LastSuccess == {j \in Successes : \A i \in Successes : i <= j}
PreviousCounts == IF LastSuccess = {} THEN {0} ELSE {found[j] : j \in LastSuccess}

WindowStartNoOverlap == IF cursor = Never THEN now - Lookback ELSE cursor   \* mutant
WindowStart == IF cursor = Never THEN now - Lookback ELSE cursor - Overlap

ReadWindow(w) ==
    /\ At(w, "window")
    /\ \E p \in PreviousCounts :
          run' = [run EXCEPT ![w].at = "channel", ![w].from = WindowStart, ![w].till = now, ![w].prev = p]
    /\ UNCHANGED <<now, jobTable, cursor, since, record, shown>>

NextChannel(w) ==
    run' = [run EXCEPT ![w].at = "channel", ![w].channel = @ + 1, ![w].answer = {}]

(* Mutant: the loop does not stop behind the last channel.                 *)
ChannelFailsForever(w) ==
    /\ At(w, "channel") /\ NextChannel(w)
    /\ UNCHANGED <<now, jobTable, cursor, since, record, shown>>

(* Not configured, not healthy, no answer, rows that name no order or      *)
(* fit two rows on record; what the attempt wrote is rolled back.          *)
ChannelFails(w) ==
    /\ At(w, "channel") /\ run[w].channel <= Channels
    /\ NextChannel(w)
    /\ UNCHANGED <<now, jobTable, cursor, since, record, shown>>

LowCount(p, n) == p >= MinPrevious /\ n \in 1 .. ((p * RatioNum) \div RatioDen) - 1

InWindow(w) == {o \in shown : run[w].from <= Stamp[o] /\ Stamp[o] <= run[w].till}

(* An answer lacks orders only when it is so small that it shows.          *)
Answers(w) ==
    {a \in SUBSET InWindow(w) : a = InWindow(w) \/ LowCount(run[w].prev, Cardinality(a))}

(* The channel's rows are counted and grouped by order.                    *)
ChannelAnswers(w) ==
    /\ At(w, "channel") /\ run[w].channel <= Channels
    /\ \E a \in Answers(w) :
          IF LowCount(run[w].prev, Cardinality(a)) THEN NextChannel(w)
          ELSE run' = [run EXCEPT ![w].at = "write", ![w].answer = a]
    /\ UNCHANGED <<now, jobTable, cursor, since, record, shown>>

(* Every order of the answer is found by its keys or gets a row.           *)
Upserted(w) == record \cup run[w].answer

(* Orders, cursor and verdict are one transaction.                         *)
Write(w) ==
    /\ At(w, "write")
    /\ record' = Upserted(w)
    /\ cursor' = run[w].till
    /\ since' = IF cursor = Never THEN run[w].from ELSE since
    /\ status' = [status EXCEPT ![run[w].job] = "success"]
    /\ found' = [found EXCEPT ![run[w].job] = Cardinality(run[w].answer)]
    /\ run' = [run EXCEPT ![w].at = "resolve", ![w].done = TRUE, ![w].answer = {}]
    /\ UNCHANGED <<now, started, shown>>

(* The alerts are closed in a transaction of their own.                    *)
Resolve(w) ==
    /\ At(w, "resolve")
    /\ Return(w)
    /\ UNCHANGED <<now, jobTable, cursor, since, record, shown>>

(* Whatever raises in there, the soft time limit included, is taken for a  *)
(* failure of the channel, even behind the commit.                         *)
Raise(w) ==
    /\ run[w].at \in {"write", "resolve"}
    /\ NextChannel(w)
    /\ UNCHANGED <<now, jobTable, cursor, since, record, shown>>

(* No channel is left; or the handler itself raises.                       *)
Finish(w) ==
    /\ At(w, "channel")
    /\ \/ /\ run[w].channel > Channels
          /\ status' = [status EXCEPT ![run[w].job] = "failed"]
       \/ status' = [status EXCEPT ![run[w].job] = IF @ = "running" THEN "failed" ELSE @]
    /\ Return(w)
    /\ UNCHANGED <<now, started, found, cursor, since, record, shown>>

(* The worker is killed, or reading the window raises.                     *)
Crash(w) ==
    /\ ~At(w, "idle")
    /\ Return(w)
    /\ UNCHANGED <<now, jobTable, cursor, since, record, shown>>

-----------------------------------------------------------------------------
(* The world *)

Show(o) ==
    /\ o \notin shown /\ Stamp[o] <= now
    /\ shown' = shown \cup {o}
    /\ UNCHANGED <<now, jobTable, cursor, since, record, run>>

(* No task outlives its limit, and no order hides beyond the lateness.     *)
Tick ==
    /\ now < MaxNow
    /\ \A w \in Workers : ~At(w, "idle") => now < run[w].begun + Limit
    /\ \A o \in Orders \ shown : now < Stamp[o] + Lateness
    /\ now' = now + 1
    /\ UNCHANGED <<jobTable, cursor, since, record, shown, run>>

Step(w) ==
    \/ Look(w) \/ Reclaim(w) \/ Insert(w) \/ ReadWindow(w) \/ ChannelFails(w) \/ ChannelAnswers(w)
    \/ Write(w) \/ Resolve(w) \/ Raise(w) \/ Finish(w)

Next ==
    \/ \E w \in Workers : Step(w) \/ Crash(w)
    \/ \E o \in Orders : Show(o)
    \/ Tick

Spec == Init /\ [][Next]_vars

(* Beat or a page sends tasks again and again, what runs goes on, and a    *)
(* worker is not killed each time it is about to reclaim a job.            *)
FairSpec ==
    /\ Spec
    /\ \A w \in Workers : WF_vars(Step(w)) /\ SF_vars(Reclaim(w))
    /\ \A o \in Orders : WF_vars(Show(o))
    /\ WF_vars(Tick)

-----------------------------------------------------------------------------
Verdicts == {"unused", "running", "success", "failed"}

Runs ==
    [at : Steps, begun : Nat, job : Jobs \cup {0}, from : Int, till : Nat, prev : Nat,
     channel : 1 .. Channels + 1, answer : SUBSET Orders, done : BOOLEAN]

(* Every variable has its type. *)
TypeOK ==
    /\ now \in Nat
    /\ status \in [Jobs -> Verdicts] /\ started \in [Jobs -> Nat] /\ found \in [Jobs -> Nat]
    /\ cursor \in Nat \cup {Never} /\ since \in Int
    /\ record \subseteq Orders /\ shown \subseteq Orders
    /\ run \in [Workers -> Runs]

(* An order whose time the cursor has passed by the lateness is on record: *)
(* whatever fails, dies, comes late or answers short, no window leaves an  *)
(* order out.                                                              *)
NothingSkipped ==
    \A o \in Orders : since <= Stamp[o] /\ Stamp[o] + Lateness < cursor => o \in record

AtWork(w) == run[w].at \in {"window", "channel", "write", "resolve"}

(* Two runs work at the same time only when one has reported its success.  *)
OneRun ==
    \A v, w \in Workers : v # w /\ AtWork(v) /\ AtWork(w) => run[v].done \/ run[w].done

(* A job does not stay "running" for ever, although its worker may die.    *)
JobsSettle ==
    \A j \in Jobs :
        status[j] = "running" /\ started[j] + Stale < MaxNow ~> status[j] # "running"

=============================================================================
