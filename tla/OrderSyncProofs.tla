-------------------------- MODULE OrderSyncProofs --------------------------
(***************************************************************************)
(* Theorems of OrderSync: types, one run at a time, and no order left out  *)
(* between two windows, for any workers, orders, channels and settings     *)
(* that satisfy SyncAssumption and TimingAssumption.                       *)
(***************************************************************************)
EXTENDS OrderSync, FiniteSetTheorems, TLAPS

Asking(w) == run[w].at \in {"channel", "write", "resolve"}

(* No task is older than its limit, and windows end in the past.           *)
InTime ==
    \A w \in Workers :
        /\ ~At(w, "idle") => run[w].begun <= now /\ now <= run[w].begun + Limit
        /\ Asking(w) => run[w].till <= now
        /\ run[w].at \in {"write", "resolve"} => run[w].channel <= Channels

(* A run works for a job of its own, begun with it.                        *)
OwnJobs ==
    \A w \in Workers :
        /\ AtWork(w) =>
              run[w].job \in Jobs /\ status[run[w].job] # "unused" /\ started[run[w].job] = run[w].begun
        /\ At(w, "reclaim") =>
              run[w].job \in Jobs /\ status[run[w].job] # "unused"
              /\ started[run[w].job] + Stale < run[w].begun

JobsApart ==
    \A v, w \in Workers : v # w /\ AtWork(v) /\ AtWork(w) => run[v].job # run[w].job

(* Until it has reported its success, a run's job is "running".            *)
JobsHeld ==
    \A w \in Workers : AtWork(w) /\ ~run[w].done => status[run[w].job] = "running"

OneRunning ==
    \A i, j \in Jobs : status[i] = "running" /\ status[j] = "running" => i = j

(* Who has reported a success has set the cursor.                          *)
DoneMoved == \A w \in Workers : run[w].done => cursor # Never

(* An order that the channels do not show is still within the lateness.    *)
HiddenAreYoung == \A o \in Orders \ shown : now <= Stamp[o] + Lateness

(* What lies before a run's window is on record.                           *)
RecordedBefore ==
    cursor # Never =>
        \A w \in Workers : Asking(w) =>
            \A o \in Orders : since <= Stamp[o] /\ Stamp[o] < run[w].from => o \in record

(* A run about to write has every order of its window that had to show.    *)
Answered ==
    \A w \in Workers : At(w, "write") =>
        \A o \in Orders :
            run[w].from <= Stamp[o] /\ Stamp[o] + Lateness < run[w].till => o \in run[w].answer

SyncInv ==
    /\ TypeOK /\ InTime /\ OwnJobs /\ JobsApart /\ JobsHeld /\ OneRunning
    /\ DoneMoved /\ HiddenAreYoung /\ RecordedBefore /\ Answered /\ NothingSkipped

(* Two runs that have not reported a success would share the running job.  *)
LEMMA OneRunFollows == SyncInv => OneRun
<1> SUFFICES ASSUME SyncInv, NEW v \in Workers, NEW w \in Workers,
                    v # w, AtWork(v), AtWork(w), ~run[v].done, ~run[w].done
             PROVE  FALSE
  BY DEF OneRun
<1>1. status[run[v].job] = "running" /\ status[run[w].job] = "running"
  BY DEF SyncInv, JobsHeld
<1>2. run[v].job \in Jobs /\ run[w].job \in Jobs
  BY DEF SyncInv, OwnJobs
<1>3. run[v].job = run[w].job
  BY <1>1, <1>2 DEF SyncInv, OneRunning
<1> QED
  BY <1>3 DEF SyncInv, JobsApart

LEMMA SyncInitially == Init => SyncInv
<1> SUFFICES ASSUME Init PROVE SyncInv
  OBVIOUS
<1>1. TypeOK
  <2>1. NoRun \in Runs
    BY SyncAssumption DEF NoRun, Runs, Steps
  <2> QED
    BY <2>1, SyncAssumption DEF Init, TypeOK, Verdicts, Never
<1>2. \A w \in Workers : run[w] = NoRun
  BY DEF Init
<1>3. \A w \in Workers : At(w, "idle") /\ ~AtWork(w) /\ ~Asking(w)
  BY <1>2 DEF NoRun, At, AtWork, Asking
<1>4. InTime /\ OwnJobs /\ JobsApart /\ JobsHeld /\ DoneMoved /\ Answered
  BY <1>2, <1>3 DEF InTime, OwnJobs, JobsApart, JobsHeld, DoneMoved, Answered, At, AtWork, Asking, NoRun
<1>5. OneRunning
  BY DEF Init, OneRunning
<1>6. HiddenAreYoung
  BY SyncAssumption DEF Init, HiddenAreYoung
<1>7. RecordedBefore /\ NothingSkipped
  BY SyncAssumption DEF Init, RecordedBefore, NothingSkipped, Never
<1> QED
  BY <1>1, <1>4, <1>5, <1>6, <1>7 DEF SyncInv

-----------------------------------------------------------------------------
(* Types *)

LEMMA TypeStep == TypeOK /\ InTime /\ OwnJobs /\ [Next]_vars => TypeOK'
<1> SUFFICES ASSUME TypeOK, InTime, OwnJobs, [Next]_vars PROVE TypeOK'
  OBVIOUS
<1>0. /\ \A w \in Workers : run[w] \in Runs
      /\ status \in [Jobs -> Verdicts] /\ started \in [Jobs -> Nat] /\ found \in [Jobs -> Nat]
      /\ now \in Nat /\ cursor \in Nat \cup {Never} /\ since \in Int
      /\ record \subseteq Orders /\ shown \subseteq Orders /\ NoRun \in Runs
  BY SyncAssumption DEF TypeOK, Runs, NoRun, Steps
<1>1. ASSUME NEW w \in Workers, NEW r \in Runs, run' = [run EXCEPT ![w] = r]
      PROVE  run' \in [Workers -> Runs]
  BY <1>1 DEF TypeOK
<1>2. ASSUME NEW w \in Workers, NextChannel(w), run[w].channel <= Channels
      PROVE  run' \in [Workers -> Runs]
  <2>1. [run[w] EXCEPT !.at = "channel", !.channel = @ + 1, !.answer = {}] \in Runs
    <3>1. run[w] \in Runs
      BY <1>0
    <3>2. Channels \in Nat
      BY SyncAssumption
    <3>3. run[w].channel + 1 \in 1 .. Channels + 1
      BY <3>1, <3>2, <1>2 DEF Runs
    <3> QED
      BY <3>1, <3>3 DEF Runs, Steps
  <2>2. run' = [run EXCEPT ![w] = [run[w] EXCEPT !.at = "channel", !.channel = @ + 1, !.answer = {}]]
    BY <1>2 DEF NextChannel
  <2> QED
    BY <2>1, <2>2, <1>1
<1>3. ASSUME NEW w \in Workers, Look(w) PROVE TypeOK'
  <2>1. CASE run' = [run EXCEPT ![w] = [NoRun EXCEPT !.at = "insert", !.begun = now]]
    <3>1. [NoRun EXCEPT !.at = "insert", !.begun = now] \in Runs
      BY <1>0 DEF Runs, Steps
    <3> QED
      BY <1>1, <2>1, <3>1, <1>0, <1>3 DEF Look, TypeOK, jobTable
  <2>2. ASSUME NEW j \in RunningJobs,
               run' = [run EXCEPT ![w] = [NoRun EXCEPT !.at = "reclaim", !.begun = now, !.job = j]]
        PROVE  TypeOK'
    <3>1. [NoRun EXCEPT !.at = "reclaim", !.begun = now, !.job = j] \in Runs
      BY <1>0, <2>2 DEF Runs, Steps, RunningJobs
    <3> QED
      BY <1>1, <2>2, <3>1, <1>0, <1>3 DEF Look, TypeOK, jobTable
  <2> QED
    BY <2>1, <2>2, <1>3 DEF Look
<1>4. ASSUME NEW w \in Workers, Reclaim(w) PROVE TypeOK'
  <2>1. [run[w] EXCEPT !.at = "insert"] \in Runs
    BY <1>0 DEF Runs, Steps
  <2>2. status' \in [Jobs -> Verdicts]
    BY <1>4, <1>0 DEF Reclaim, Verdicts
  <2> QED
    BY <1>1, <2>1, <2>2, <1>0, <1>4 DEF Reclaim, TypeOK
<1>5. ASSUME NEW w \in Workers, Insert(w) PROVE TypeOK'
  <2>1. ASSUME NEW j \in UnusedJobs, status' = [status EXCEPT ![j] = "running"],
               started' = [started EXCEPT ![j] = run[w].begun],
               run' = [run EXCEPT ![w].at = "window", ![w].job = j]
        PROVE  TypeOK'
    <3>1. [run[w] EXCEPT !.at = "window", !.job = j] \in Runs
      BY <1>0, <2>1 DEF Runs, Steps, UnusedJobs
    <3>2. run' = [run EXCEPT ![w] = [run[w] EXCEPT !.at = "window", !.job = j]]
      BY <2>1
    <3>3. run' \in [Workers -> Runs]
      BY <3>1, <3>2, <1>1
    <3>4. status' \in [Jobs -> Verdicts]
      BY <2>1, <1>0 DEF Verdicts
    <3>5. started' \in [Jobs -> Nat]
      BY <2>1, <1>0 DEF Runs
    <3> QED
      BY <3>3, <3>4, <3>5, <1>0, <1>5 DEF Insert, TypeOK
  <2>2. CASE Return(w) /\ UNCHANGED <<status, started>>
    BY <1>1, <2>2, <1>0, <1>5 DEF Insert, Return, TypeOK
  <2> QED
    BY <2>1, <2>2, <1>5 DEF Insert
<1>6. ASSUME NEW w \in Workers, ReadWindow(w) PROVE TypeOK'
  <2>1. PICK p \in PreviousCounts :
          run' = [run EXCEPT ![w].at = "channel", ![w].from = WindowStart, ![w].till = now, ![w].prev = p]
    BY <1>6 DEF ReadWindow
  <2>2. p \in Nat
    BY <1>0 DEF PreviousCounts, LastSuccess, Successes
  <2>3. WindowStart \in Int
    BY <1>0, SyncAssumption DEF WindowStart, Never
  <2>4. [run[w] EXCEPT !.at = "channel", !.from = WindowStart, !.till = now, !.prev = p] \in Runs
    BY <1>0, <2>2, <2>3 DEF Runs, Steps
  <2>5. run' = [run EXCEPT ![w] =
                  [run[w] EXCEPT !.at = "channel", !.from = WindowStart, !.till = now, !.prev = p]]
    BY <2>1
  <2> QED
    BY <1>1, <2>4, <2>5, <1>0, <1>6 DEF ReadWindow, TypeOK, jobTable
<1>7. ASSUME NEW w \in Workers, ChannelFails(w) PROVE TypeOK'
  BY <1>2, <1>7, <1>0 DEF ChannelFails, TypeOK, jobTable
<1>8. ASSUME NEW w \in Workers, ChannelAnswers(w) PROVE TypeOK'
  <2>1. PICK a \in Answers(w) :
          \/ NextChannel(w)
          \/ run' = [run EXCEPT ![w].at = "write", ![w].answer = a]
    BY <1>8 DEF ChannelAnswers
  <2>2. CASE NextChannel(w)
    BY <1>2, <2>2, <1>8, <1>0 DEF ChannelAnswers, TypeOK, jobTable
  <2>3. CASE run' = [run EXCEPT ![w].at = "write", ![w].answer = a]
    <3>1. a \subseteq Orders
      BY <1>0 DEF Answers, InWindow
    <3>2. [run[w] EXCEPT !.at = "write", !.answer = a] \in Runs
      BY <3>1, <1>0 DEF Runs, Steps
    <3>3. run' = [run EXCEPT ![w] = [run[w] EXCEPT !.at = "write", !.answer = a]]
      BY <2>3
    <3> QED
      BY <1>1, <3>2, <3>3, <1>8, <1>0 DEF ChannelAnswers, TypeOK, jobTable
  <2> QED
    BY <2>1, <2>2, <2>3
<1>9. ASSUME NEW w \in Workers, Write(w) PROVE TypeOK'
  <2>1. [run[w] EXCEPT !.at = "resolve", !.done = TRUE, !.answer = {}] \in Runs
    BY <1>0 DEF Runs, Steps
  <2>2. run' = [run EXCEPT ![w] = [run[w] EXCEPT !.at = "resolve", !.done = TRUE, !.answer = {}]]
    BY <1>9 DEF Write
  <2>3. run' \in [Workers -> Runs]
    BY <2>1, <2>2, <1>1
  <2>4. run[w].answer \subseteq Orders /\ run[w].from \in Int /\ run[w].till \in Nat
    BY <1>0 DEF Runs
  <2>5. Cardinality(run[w].answer) \in Nat
    BY <2>4, SyncAssumption, FS_Subset, FS_CardinalityType
  <2>6. status' \in [Jobs -> Verdicts] /\ found' \in [Jobs -> Nat]
    BY <1>9, <1>0, <2>5 DEF Write, Verdicts
  <2> QED
    BY <2>3, <2>4, <2>6, <1>0, <1>9 DEF Write, Upserted, TypeOK
<1>10. ASSUME NEW w \in Workers, Resolve(w) \/ Crash(w) PROVE TypeOK'
  BY <1>1, <1>10, <1>0 DEF Resolve, Crash, Return, TypeOK, jobTable
<1>11. ASSUME NEW w \in Workers, Raise(w) PROVE TypeOK'
  <2>1. run[w].channel <= Channels
    BY <1>11 DEF Raise, InTime
  <2> QED
    BY <1>2, <2>1, <1>11, <1>0 DEF Raise, TypeOK, jobTable
<1>12. ASSUME NEW w \in Workers, Finish(w) PROVE TypeOK'
  <2>1. status' \in [Jobs -> Verdicts]
    BY <1>12, <1>0 DEF Finish, Verdicts
  <2> QED
    BY <1>1, <2>1, <1>12, <1>0 DEF Finish, Return, TypeOK
<1>13. ASSUME NEW o \in Orders, Show(o) PROVE TypeOK'
  BY <1>13, <1>0 DEF Show, TypeOK, jobTable
<1>14. CASE Tick
  BY <1>14, <1>0 DEF Tick, TypeOK, jobTable
<1>15. CASE UNCHANGED vars
  BY <1>15, <1>0 DEF vars, TypeOK, jobTable
<1> QED
  BY <1>3, <1>4, <1>5, <1>6, <1>7, <1>8, <1>9, <1>10, <1>11, <1>12, <1>13, <1>14, <1>15 DEF Next, Step

-----------------------------------------------------------------------------
(* Steps *)

(* What a step says of the other runs.                                     *)
LEMMA OthersStay ==
    ASSUME TypeOK, NEW w \in Workers, NEW r, run' = [run EXCEPT ![w] = r]
    PROVE  /\ run'[w] = r
           /\ \A v \in Workers : v # w => run'[v] = run[v]
BY DEF TypeOK

(* A task that ends, or that has not yet claimed a job, takes nothing from *)
(* the invariant.                                                          *)
LEMMA ReturnKeeps ==
    ASSUME SyncInv, NEW w \in Workers, Return(w), TypeOK',
           UNCHANGED <<now, started, cursor, since, record, shown>>,
           status' = status
    PROVE  SyncInv'
<1>1. run'[w] = NoRun /\ \A v \in Workers : v # w => run'[v] = run[v]
  BY OthersStay DEF SyncInv, Return
<1>2. ~AtWork(w)' /\ ~Asking(w)' /\ At(w, "idle")' /\ ~At(w, "reclaim")' /\ ~At(w, "write")'
  BY <1>1 DEF AtWork, Asking, At, NoRun
<1>3. InTime'
  BY <1>1, <1>2 DEF SyncInv, InTime, Asking, At
<1>4. OwnJobs'
  BY <1>1, <1>2 DEF SyncInv, OwnJobs, AtWork, At
<1>5. JobsApart'
  BY <1>1, <1>2 DEF SyncInv, JobsApart, AtWork
<1>6. JobsHeld' /\ OneRunning' /\ DoneMoved'
  BY <1>1, <1>2 DEF SyncInv, JobsHeld, OneRunning, DoneMoved, AtWork, NoRun
<1>7. HiddenAreYoung' /\ NothingSkipped'
  BY DEF SyncInv, HiddenAreYoung, NothingSkipped
<1>8. RecordedBefore' /\ Answered'
  BY <1>1, <1>2 DEF SyncInv, RecordedBefore, Answered, Asking, At
<1> QED
  BY <1>3, <1>4, <1>5, <1>6, <1>7, <1>8 DEF SyncInv

LEMMA LookKeeps ==
    ASSUME SyncInv, NEW w \in Workers, Look(w), TypeOK'
    PROVE  SyncInv'
<1>1. PICK r : /\ run' = [run EXCEPT ![w] = r]
               /\ r.at \in {"insert", "reclaim"} /\ r.begun = now /\ ~r.done
               /\ r.at = "reclaim" => r.job \in RunningJobs /\ IsStale(r.job)
  <2>1. CASE run' = [run EXCEPT ![w] = [NoRun EXCEPT !.at = "insert", !.begun = now]]
    <3> DEFINE s == [NoRun EXCEPT !.at = "insert", !.begun = now]
    <3>1. s.at = "insert" /\ s.begun = now /\ ~s.done
      BY DEF NoRun
    <3>2. run' = [run EXCEPT ![w] = s]
      BY <2>1
    <3> HIDE DEF s
    <3> QED
      BY <3>1, <3>2
  <2>2. ASSUME NEW j \in RunningJobs, IsStale(j),
               run' = [run EXCEPT ![w] = [NoRun EXCEPT !.at = "reclaim", !.begun = now, !.job = j]]
        PROVE  \E r : /\ run' = [run EXCEPT ![w] = r]
                      /\ r.at \in {"insert", "reclaim"} /\ r.begun = now /\ ~r.done
                      /\ r.at = "reclaim" => r.job \in RunningJobs /\ IsStale(r.job)
    <3> DEFINE s == [NoRun EXCEPT !.at = "reclaim", !.begun = now, !.job = j]
    <3>1. s.at = "reclaim" /\ s.begun = now /\ ~s.done /\ s.job = j
      BY DEF NoRun
    <3>2. run' = [run EXCEPT ![w] = s]
      BY <2>2
    <3>3. s.job \in RunningJobs /\ IsStale(s.job)
      BY <3>1, <2>2
    <3> HIDE DEF s
    <3> QED
      BY <3>1, <3>2, <3>3
  <2> QED
    BY <2>1, <2>2 DEF Look
<1>2. run'[w] = r /\ \A v \in Workers : v # w => run'[v] = run[v]
  BY <1>1, OthersStay DEF SyncInv
<1>3. ~AtWork(w)' /\ ~Asking(w)' /\ ~At(w, "write")'
  BY <1>1, <1>2 DEF AtWork, Asking, At
<1>4. UNCHANGED <<now, status, started, found, cursor, since, record, shown>>
  BY DEF Look, jobTable
<1>5. now \in Nat /\ Limit \in Nat /\ Stale \in Nat
  BY SyncAssumption DEF SyncInv, TypeOK
<1>6. InTime'
  BY <1>1, <1>2, <1>3, <1>4, <1>5 DEF SyncInv, InTime, Asking, At
<1>7. OwnJobs'
  <2>1. At(w, "reclaim")' =>
            /\ r.job \in Jobs /\ status[r.job] # "unused"
            /\ started[r.job] \in Nat /\ started[r.job] + Stale < r.begun
    BY <1>1, <1>2, <1>5 DEF At, RunningJobs, IsStale, SyncInv, TypeOK
  <2> QED
    BY <1>2, <1>3, <1>4, <2>1 DEF SyncInv, OwnJobs, AtWork, At
<1>8. JobsApart' /\ JobsHeld' /\ OneRunning' /\ DoneMoved'
  BY <1>1, <1>2, <1>3, <1>4 DEF SyncInv, JobsApart, JobsHeld, OneRunning, DoneMoved, AtWork
<1>9. HiddenAreYoung' /\ NothingSkipped'
  BY <1>4 DEF SyncInv, HiddenAreYoung, NothingSkipped
<1>10. RecordedBefore' /\ Answered'
  BY <1>2, <1>3, <1>4 DEF SyncInv, RecordedBefore, Answered, Asking, At
<1> QED
  BY <1>6, <1>7, <1>8, <1>9, <1>10 DEF SyncInv

(* The run of a stale job is over: it would be older than its limit.       *)
LEMMA ReclaimKeeps ==
    ASSUME SyncInv, NEW w \in Workers, Reclaim(w), TypeOK'
    PROVE  SyncInv'
<1>1. /\ run' = [run EXCEPT ![w] = [run[w] EXCEPT !.at = "insert"]]
      /\ status' = [status EXCEPT ![run[w].job] = "failed"]
      /\ UNCHANGED <<now, started, cursor, since, record, shown>>
      /\ run[w].at = "reclaim"
  BY DEF Reclaim, At
<1>2. run[w] \in Runs
  BY DEF SyncInv, TypeOK
<1>3. /\ run'[w].at = "insert" /\ run'[w].begun = run[w].begun
      /\ \A v \in Workers : v # w => run'[v] = run[v]
  <2>1. run'[w] = [run[w] EXCEPT !.at = "insert"] /\ \A v \in Workers : v # w => run'[v] = run[v]
    BY <1>1 DEF SyncInv, TypeOK
  <2> QED
    BY <1>2, <2>1 DEF Runs
<1>4. ~AtWork(w)' /\ ~Asking(w)' /\ ~At(w, "write")' /\ ~At(w, "reclaim")'
  BY <1>3 DEF AtWork, Asking, At
<1>5. /\ now \in Nat /\ Limit \in Nat /\ Stale \in Nat /\ Limit <= Stale
      /\ \A v \in Workers : run[v].begun \in Nat
      /\ started \in [Jobs -> Nat] /\ status \in [Jobs -> Verdicts]
  BY SyncAssumption, TimingAssumption DEF SyncInv, TypeOK, Runs
<1>6. ASSUME NEW v \in Workers, AtWork(v) PROVE run[v].job # run[w].job
  <2> SUFFICES ASSUME run[v].job = run[w].job PROVE FALSE
    OBVIOUS
  <2>1. started[run[v].job] = run[v].begun /\ now <= run[v].begun + Limit
    BY <1>6 DEF SyncInv, OwnJobs, InTime, AtWork, At
  <2>2. started[run[w].job] + Stale < run[w].begun /\ run[w].begun <= now
    BY <1>1 DEF SyncInv, OwnJobs, InTime, At
  <2> QED
    BY <2>1, <2>2, <1>5
<1>7. InTime'
  BY <1>1, <1>3, <1>4 DEF SyncInv, InTime, Asking, At
<1>8. OwnJobs'
  BY <1>1, <1>3, <1>4, <1>5 DEF SyncInv, OwnJobs, AtWork, At
<1>9. JobsApart'
  BY <1>3, <1>4 DEF SyncInv, JobsApart, AtWork
<1>10. JobsHeld'
  <2> SUFFICES ASSUME NEW v \in Workers, AtWork(v)', ~run'[v].done PROVE status'[run'[v].job] = "running"
    BY DEF JobsHeld
  <2>1. v # w /\ run'[v] = run[v] /\ AtWork(v)
    BY <1>3, <1>4 DEF AtWork
  <2>2. status[run[v].job] = "running" /\ run[v].job \in Jobs
    BY <2>1 DEF SyncInv, JobsHeld, OwnJobs
  <2> QED
    BY <2>1, <2>2, <1>1, <1>5, <1>6
<1>11. OneRunning' /\ DoneMoved'
  BY <1>1, <1>3, <1>4, <1>5 DEF SyncInv, OneRunning, DoneMoved, AtWork
<1>12. HiddenAreYoung' /\ NothingSkipped'
  BY <1>1 DEF SyncInv, HiddenAreYoung, NothingSkipped
<1>13. RecordedBefore' /\ Answered'
  BY <1>1, <1>3, <1>4 DEF SyncInv, RecordedBefore, Answered, Asking, At
<1> QED
  BY <1>7, <1>8, <1>9, <1>10, <1>11, <1>12, <1>13 DEF SyncInv

(* The new job is nobody else's, and no other one is running.              *)
LEMMA InsertKeeps ==
    ASSUME SyncInv, NEW w \in Workers, Insert(w), TypeOK'
    PROVE  SyncInv'
<1>1. CASE Return(w) /\ UNCHANGED <<status, started>>
  BY <1>1, ReturnKeeps DEF Insert
<1>2. ASSUME NEW j \in UnusedJobs, RunningJobs = {}, status' = [status EXCEPT ![j] = "running"],
             started' = [started EXCEPT ![j] = run[w].begun],
             run' = [run EXCEPT ![w].at = "window", ![w].job = j]
      PROVE  SyncInv'
  <2>1. /\ run[w] \in Runs /\ now \in Nat /\ Limit \in Nat
        /\ started \in [Jobs -> Nat] /\ status \in [Jobs -> Verdicts]
        /\ j \in Jobs /\ status[j] = "unused"
    BY SyncAssumption, <1>2 DEF SyncInv, TypeOK, UnusedJobs
  <2>2. run' = [run EXCEPT ![w] = [run[w] EXCEPT !.at = "window", !.job = j]]
    BY <1>2
  <2>3. /\ run'[w].at = "window" /\ run'[w].job = j /\ run'[w].begun = run[w].begun
        /\ run'[w].done = run[w].done
        /\ \A v \in Workers : v # w => run'[v] = run[v]
    <3>1. /\ run'[w] = [run[w] EXCEPT !.at = "window", !.job = j]
          /\ \A v \in Workers : v # w => run'[v] = run[v]
      BY <2>2 DEF SyncInv, TypeOK
    <3> QED
      BY <2>1, <3>1 DEF Runs
  <2>4. AtWork(w)' /\ ~Asking(w)' /\ ~At(w, "write")' /\ ~At(w, "reclaim")'
    BY <2>3 DEF AtWork, Asking, At
  <2>5. UNCHANGED <<now, cursor, since, record, shown>> /\ run[w].at = "insert"
    BY <1>2 DEF Insert, At
  <2>6. \A v \in Workers : AtWork(v) \/ At(v, "reclaim") => run[v].job # j
    BY <2>1 DEF SyncInv, OwnJobs
  <2>7. status'[j] = "running" /\ started'[j] = run[w].begun
        /\ \A i \in Jobs : i # j => status'[i] = status[i] /\ started'[i] = started[i]
    BY <2>1, <1>2
  <2>8. InTime'
    BY <2>3, <2>4, <2>5 DEF SyncInv, InTime, Asking, At
  <2>9. OwnJobs'
    BY <2>1, <2>3, <2>4, <2>6, <2>7 DEF SyncInv, OwnJobs, AtWork, At
  <2>10. JobsApart'
    BY <2>3, <2>6 DEF SyncInv, JobsApart, AtWork
  <2>11. \A i \in Jobs : status[i] # "running"
    BY <1>2 DEF RunningJobs
  <2>12. OneRunning'
    BY <2>7, <2>11 DEF OneRunning
  <2>13. JobsHeld'
    BY <2>3, <2>6, <2>7, <2>11 DEF SyncInv, JobsHeld, OwnJobs, AtWork
  <2>14. DoneMoved'
    BY <2>3, <2>5 DEF SyncInv, DoneMoved
  <2>15. HiddenAreYoung' /\ NothingSkipped'
    BY <2>5 DEF SyncInv, HiddenAreYoung, NothingSkipped
  <2>16. RecordedBefore' /\ Answered'
    BY <2>3, <2>4, <2>5 DEF SyncInv, RecordedBefore, Answered, Asking, At
  <2> QED
    BY <2>8, <2>9, <2>10, <2>12, <2>13, <2>14, <2>15, <2>16 DEF SyncInv
<1> QED
  BY <1>1, <1>2 DEF Insert

(* Behind the cursor everything is on record, so before the window too.    *)
LEMMA ReadWindowKeeps ==
    ASSUME SyncInv, NEW w \in Workers, ReadWindow(w), TypeOK'
    PROVE  SyncInv'
<1>1. PICK p \in PreviousCounts :
        run' = [run EXCEPT ![w].at = "channel", ![w].from = WindowStart, ![w].till = now, ![w].prev = p]
  BY DEF ReadWindow
<1>2. \A v \in Workers : v # w => run'[v] = run[v]
  BY <1>1 DEF SyncInv, TypeOK
<1>3. run[w] \in Runs /\ now \in Nat
  BY DEF SyncInv, TypeOK
<1>4. /\ run'[w].at = "channel" /\ run'[w].from = WindowStart /\ run'[w].till = now
      /\ run'[w].job = run[w].job /\ run'[w].begun = run[w].begun /\ run'[w].done = run[w].done
  <2>1. run'[w] = [run[w] EXCEPT !.at = "channel", !.from = WindowStart, !.till = now, !.prev = p]
    BY <1>1 DEF SyncInv, TypeOK
  <2> QED
    BY <2>1, <1>3 DEF Runs
<1>5. UNCHANGED <<now, status, started, found, cursor, since, record, shown>> /\ run[w].at = "window"
  BY DEF ReadWindow, jobTable, At
<1>6. AtWork(w) /\ AtWork(w)' /\ Asking(w)' /\ ~At(w, "write")' /\ ~At(w, "reclaim")'
  BY <1>4, <1>5 DEF AtWork, Asking, At
<1>7. InTime'
  BY <1>2, <1>3, <1>4, <1>5 DEF SyncInv, InTime, Asking, At
<1>8. OwnJobs'
  BY <1>2, <1>4, <1>5, <1>6 DEF SyncInv, OwnJobs, AtWork, At
<1>9. JobsApart' /\ JobsHeld' /\ OneRunning' /\ DoneMoved'
  BY <1>2, <1>4, <1>5, <1>6 DEF SyncInv, JobsApart, JobsHeld, OneRunning, DoneMoved, AtWork
<1>10. HiddenAreYoung' /\ NothingSkipped'
  BY <1>5 DEF SyncInv, HiddenAreYoung, NothingSkipped
<1>11. RecordedBefore'
  <2> SUFFICES ASSUME cursor # Never, NEW v \in Workers, Asking(v)', NEW o \in Orders,
                      since <= Stamp[o], Stamp[o] < run'[v].from
               PROVE  o \in record
    BY <1>5 DEF RecordedBefore
  <2>1. CASE v # w
    BY <2>1, <1>2 DEF SyncInv, RecordedBefore, Asking
  <2>2. CASE v = w
    <3>1. /\ cursor \in Nat /\ Overlap \in Nat /\ Lateness \in Nat /\ Lateness <= Overlap
          /\ Stamp[o] \in Nat
      BY SyncAssumption, TimingAssumption DEF SyncInv, TypeOK
    <3>2. Stamp[o] < cursor - Overlap
      BY <2>2, <1>4 DEF WindowStart
    <3> QED
      BY <3>1, <3>2 DEF SyncInv, NothingSkipped
  <2> QED
    BY <2>1, <2>2
<1>12. Answered'
  BY <1>2, <1>6 DEF SyncInv, Answered, At
<1> QED
  BY <1>7, <1>8, <1>9, <1>10, <1>11, <1>12 DEF SyncInv

(* A run turns to another channel, or holds an answer, and nothing else    *)
(* changes.                                                                *)
LEMMA AskKeeps ==
    ASSUME SyncInv, NEW w \in Workers, Asking(w), TypeOK',
           \A v \in Workers : v # w => run'[v] = run[v],
           run'[w].at \in {"channel", "write"},
           run'[w].at = "write" => run'[w].channel <= Channels,
           run'[w].job = run[w].job, run'[w].begun = run[w].begun, run'[w].done = run[w].done,
           run'[w].from = run[w].from, run'[w].till = run[w].till,
           run'[w].at = "write" =>
               \A o \in Orders :
                   run[w].from <= Stamp[o] /\ Stamp[o] + Lateness < run[w].till => o \in run'[w].answer,
           UNCHANGED <<now, status, started, cursor, since, record, shown>>
    PROVE  SyncInv'
<1>1. AtWork(w) /\ AtWork(w)' /\ Asking(w)' /\ ~At(w, "reclaim")' /\ ~At(w, "idle")
  BY DEF AtWork, Asking, At
<1>2. InTime'
  BY <1>1 DEF SyncInv, InTime, Asking, At
<1>3. OwnJobs'
  BY <1>1 DEF SyncInv, OwnJobs, AtWork, At
<1>4. JobsApart' /\ JobsHeld' /\ OneRunning' /\ DoneMoved'
  BY <1>1 DEF SyncInv, JobsApart, JobsHeld, OneRunning, DoneMoved, AtWork
<1>5. HiddenAreYoung' /\ NothingSkipped'
  BY DEF SyncInv, HiddenAreYoung, NothingSkipped
<1>6. RecordedBefore'
  BY <1>1 DEF SyncInv, RecordedBefore, Asking
<1>7. Answered'
  BY DEF SyncInv, Answered, At
<1> QED
  BY <1>2, <1>3, <1>4, <1>5, <1>6, <1>7 DEF SyncInv

LEMMA NextChannelKeeps ==
    ASSUME SyncInv, NEW w \in Workers, Asking(w), NextChannel(w), TypeOK',
           UNCHANGED <<now, status, started, cursor, since, record, shown>>
    PROVE  SyncInv'
<1>1. /\ run'[w] = [run[w] EXCEPT !.at = "channel", !.channel = @ + 1, !.answer = {}]
      /\ \A v \in Workers : v # w => run'[v] = run[v]
  BY DEF SyncInv, TypeOK, NextChannel
<1>2. run[w] \in Runs
  BY DEF SyncInv, TypeOK
<1>3. /\ run'[w].at = "channel"
      /\ run'[w].job = run[w].job /\ run'[w].begun = run[w].begun /\ run'[w].done = run[w].done
      /\ run'[w].from = run[w].from /\ run'[w].till = run[w].till
  BY <1>1, <1>2 DEF Runs
<1> QED
  BY <1>1, <1>3, AskKeeps

(* An answer that is not too small is complete.                            *)
LEMMA ChannelAnswersKeeps ==
    ASSUME SyncInv, NEW w \in Workers, ChannelAnswers(w), TypeOK'
    PROVE  SyncInv'
<1>1. PICK a \in Answers(w) :
        IF LowCount(run[w].prev, Cardinality(a)) THEN NextChannel(w)
        ELSE run' = [run EXCEPT ![w].at = "write", ![w].answer = a]
  BY DEF ChannelAnswers
<1>2. /\ run[w].at = "channel" /\ run[w].channel <= Channels
      /\ UNCHANGED <<now, status, started, cursor, since, record, shown>>
  BY DEF ChannelAnswers, At, jobTable
<1>3. Asking(w)
  BY <1>2 DEF Asking
<1>4. CASE LowCount(run[w].prev, Cardinality(a))
  BY <1>1, <1>2, <1>3, <1>4, NextChannelKeeps
<1>5. CASE ~LowCount(run[w].prev, Cardinality(a))
  <2>1. a = InWindow(w)
    BY <1>5 DEF Answers
  <2>2. /\ run'[w] = [run[w] EXCEPT !.at = "write", !.answer = a]
        /\ \A v \in Workers : v # w => run'[v] = run[v]
    BY <1>1, <1>5 DEF SyncInv, TypeOK
  <2>3. run[w] \in Runs /\ now \in Nat
    BY DEF SyncInv, TypeOK
  <2>4. /\ run'[w].at = "write" /\ run'[w].answer = a /\ run'[w].channel = run[w].channel
        /\ run'[w].job = run[w].job /\ run'[w].begun = run[w].begun /\ run'[w].done = run[w].done
        /\ run'[w].from = run[w].from /\ run'[w].till = run[w].till
    BY <2>2, <2>3 DEF Runs
  <2>5. ASSUME NEW o \in Orders, run[w].from <= Stamp[o], Stamp[o] + Lateness < run[w].till
        PROVE  o \in a
    <3>1. run[w].till <= now
      BY <1>3 DEF SyncInv, InTime
    <3>2. run[w].till \in Nat /\ Stamp[o] \in Nat /\ Lateness \in Nat
      BY <2>3, SyncAssumption DEF Runs
    <3>3. ~(now <= Stamp[o] + Lateness) /\ Stamp[o] <= run[w].till
      BY <3>1, <3>2, <2>3, <2>5
    <3>4. o \in shown
      BY <3>3 DEF SyncInv, HiddenAreYoung
    <3> QED
      BY <3>3, <3>4, <2>1, <2>5 DEF InWindow
  <2> QED
    BY <1>2, <1>3, <2>2, <2>4, <2>5, AskKeeps
<1> QED
  BY <1>4, <1>5

(* The verdict on a run's own job is nobody else's business.               *)
LEMMA FinishKeeps ==
    ASSUME SyncInv, NEW w \in Workers, Finish(w), TypeOK'
    PROVE  SyncInv'
<1>1. run'[w] = NoRun /\ \A v \in Workers : v # w => run'[v] = run[v]
  BY DEF SyncInv, TypeOK, Finish, Return
<1>2. /\ ~AtWork(w)' /\ ~Asking(w)' /\ At(w, "idle")' /\ ~At(w, "reclaim")' /\ ~At(w, "write")'
      /\ ~run'[w].done
  BY <1>1 DEF AtWork, Asking, At, NoRun
<1>3. AtWork(w) /\ UNCHANGED <<now, started, cursor, since, record, shown>>
  BY DEF Finish, At, AtWork
<1>4. run[w].job \in Jobs /\ status[run[w].job] # "unused" /\ status \in [Jobs -> Verdicts]
  BY <1>3 DEF SyncInv, OwnJobs, TypeOK
<1>5. /\ status'[run[w].job] \notin {"unused", "running"}
      /\ \A j \in Jobs : j # run[w].job => status'[j] = status[j]
  BY <1>4 DEF Finish
<1>6. \A v \in Workers : v # w /\ AtWork(v) => run[v].job # run[w].job
  BY <1>3 DEF SyncInv, JobsApart
<1>7. InTime'
  BY <1>1, <1>2, <1>3 DEF SyncInv, InTime, Asking, At
<1>8. OwnJobs'
  BY <1>1, <1>2, <1>3, <1>5 DEF SyncInv, OwnJobs, AtWork, At
<1>9. JobsApart' /\ OneRunning' /\ DoneMoved'
  BY <1>1, <1>2, <1>3, <1>5 DEF SyncInv, JobsApart, OneRunning, DoneMoved, AtWork
<1>10. JobsHeld'
  BY <1>1, <1>2, <1>5, <1>6 DEF SyncInv, JobsHeld, OwnJobs, AtWork
<1>11. HiddenAreYoung' /\ NothingSkipped'
  BY <1>3 DEF SyncInv, HiddenAreYoung, NothingSkipped
<1>12. RecordedBefore' /\ Answered'
  BY <1>1, <1>2, <1>3 DEF SyncInv, RecordedBefore, Answered, Asking, At
<1> QED
  BY <1>7, <1>8, <1>9, <1>10, <1>11, <1>12 DEF SyncInv

(* What the new cursor passes was in the answer or is before the window.   *)
LEMMA WriteKeeps ==
    ASSUME SyncInv, NEW w \in Workers, Write(w), TypeOK'
    PROVE  SyncInv'
<1>1. \A v \in Workers : v # w => run'[v] = run[v]
  BY DEF SyncInv, TypeOK, Write
<1>2. /\ run[w] \in Runs /\ status \in [Jobs -> Verdicts]
      /\ cursor \in Nat \cup {Never} /\ since \in Int
  BY DEF SyncInv, TypeOK
<1>3. /\ run'[w].at = "resolve" /\ run'[w].done
      /\ run'[w].job = run[w].job /\ run'[w].begun = run[w].begun /\ run'[w].channel = run[w].channel
      /\ run'[w].from = run[w].from /\ run'[w].till = run[w].till
      /\ run[w].from \in Int /\ run[w].till \in Nat
  <2>1. run'[w] = [run[w] EXCEPT !.at = "resolve", !.done = TRUE, !.answer = {}]
    BY DEF SyncInv, TypeOK, Write
  <2> QED
    BY <2>1, <1>2 DEF Runs
<1>4. run[w].at = "write" /\ AtWork(w) /\ Asking(w) /\ ~At(w, "idle") /\ At(w, "write")
  BY DEF Write, At, AtWork, Asking
<1>5. AtWork(w)' /\ Asking(w)' /\ ~At(w, "write")' /\ ~At(w, "reclaim")' /\ ~At(w, "idle")'
  BY <1>3 DEF At, AtWork, Asking
<1>6. /\ record' = record \cup run[w].answer /\ cursor' = run[w].till
      /\ since' = IF cursor = Never THEN run[w].from ELSE since
      /\ UNCHANGED <<now, started, shown>>
  BY DEF Write, Upserted
<1>7. cursor' # Never
  BY <1>3, <1>6 DEF Never
<1>8. run[w].job \in Jobs
  BY <1>4 DEF SyncInv, OwnJobs
<1>9. /\ status'[run[w].job] = "success"
      /\ \A j \in Jobs : j # run[w].job => status'[j] = status[j]
  BY <1>2, <1>8 DEF Write
<1>10. \A v \in Workers : v # w /\ AtWork(v) => run[v].job # run[w].job
  BY <1>4 DEF SyncInv, JobsApart
<1>11. InTime'
  BY <1>1, <1>3, <1>4, <1>5, <1>6 DEF SyncInv, InTime, Asking, At
<1>12. OwnJobs'
  BY <1>1, <1>3, <1>4, <1>5, <1>6, <1>9 DEF SyncInv, OwnJobs, AtWork, At
<1>13. JobsApart'
  BY <1>1, <1>3, <1>4, <1>10 DEF SyncInv, JobsApart, AtWork
<1>14. JobsHeld'
  BY <1>1, <1>3, <1>9, <1>10 DEF SyncInv, JobsHeld, OwnJobs, AtWork
<1>15. OneRunning' /\ DoneMoved'
  BY <1>7, <1>9 DEF SyncInv, OneRunning, DoneMoved
<1>16. HiddenAreYoung'
  BY <1>6 DEF SyncInv, HiddenAreYoung
<1>17. Answered'
  BY <1>1, <1>5 DEF SyncInv, Answered, At
<1>18. ASSUME NEW o \in Orders, since' <= Stamp[o], Stamp[o] < run[w].from PROVE o \in record
  <2>1. cursor # Never /\ since <= Stamp[o]
    BY <1>18, <1>3, <1>6, SyncAssumption
  <2> QED
    BY <2>1, <1>4, <1>18 DEF SyncInv, RecordedBefore
<1>19. NothingSkipped'
  <2> SUFFICES ASSUME NEW o \in Orders, since' <= Stamp[o], Stamp[o] + Lateness < run[w].till
               PROVE  o \in record'
    BY <1>6 DEF NothingSkipped
  <2>1. CASE Stamp[o] < run[w].from
    BY <2>1, <1>18, <1>6
  <2>2. CASE run[w].from <= Stamp[o]
    BY <2>2, <1>4, <1>6 DEF SyncInv, Answered
  <2> QED
    BY <2>1, <2>2, <1>3, SyncAssumption
<1>20. RecordedBefore'
  <2> SUFFICES ASSUME NEW v \in Workers, Asking(v)', NEW o \in Orders,
                      since' <= Stamp[o], Stamp[o] < run'[v].from
               PROVE  o \in record'
    BY DEF RecordedBefore
  <2>1. CASE v = w
    BY <2>1, <1>3, <1>6, <1>18
  <2>2. CASE v # w /\ cursor # Never
    BY <2>2, <1>1, <1>6 DEF SyncInv, RecordedBefore, Asking
  <2>3. CASE v # w /\ cursor = Never
    <3>1. AtWork(v) /\ ~run[v].done /\ ~run[w].done
      BY <2>3, <1>1 DEF SyncInv, DoneMoved, AtWork, Asking
    <3> QED
      BY <2>3, <3>1, <1>4, OneRunFollows DEF OneRun
  <2> QED
    BY <2>1, <2>2, <2>3
<1> QED
  BY <1>11, <1>12, <1>13, <1>14, <1>15, <1>16, <1>17, <1>19, <1>20 DEF SyncInv

LEMMA ShowKeeps ==
    ASSUME SyncInv, NEW o \in Orders, Show(o), TypeOK'
    PROVE  SyncInv'
<1>1. UNCHANGED <<now, status, started, found, cursor, since, record, run>> /\ shown' = shown \cup {o}
  BY DEF Show, jobTable
<1>2. InTime' /\ OwnJobs' /\ JobsApart' /\ JobsHeld' /\ OneRunning' /\ DoneMoved'
  BY <1>1 DEF SyncInv, InTime, OwnJobs, JobsApart, JobsHeld, OneRunning, DoneMoved, AtWork, Asking, At
<1>3. HiddenAreYoung' /\ RecordedBefore' /\ Answered' /\ NothingSkipped'
  BY <1>1 DEF SyncInv, HiddenAreYoung, RecordedBefore, Answered, NothingSkipped, Asking, At
<1> QED
  BY <1>2, <1>3 DEF SyncInv

LEMMA TickKeeps ==
    ASSUME SyncInv, Tick, TypeOK'
    PROVE  SyncInv'
<1>1. /\ UNCHANGED <<status, started, found, cursor, since, record, shown, run>> /\ now' = now + 1
      /\ \A w \in Workers : ~At(w, "idle") => now < run[w].begun + Limit
      /\ \A o \in Orders \ shown : now < Stamp[o] + Lateness
  BY DEF Tick, jobTable
<1>2. /\ now \in Nat /\ Limit \in Nat /\ Lateness \in Nat /\ Stamp \in [Orders -> Nat]
      /\ \A w \in Workers : run[w].begun \in Nat /\ run[w].till \in Nat
  BY SyncAssumption DEF SyncInv, TypeOK, Runs
<1>3. InTime'
  BY <1>1, <1>2 DEF SyncInv, InTime, Asking, At
<1>4. OwnJobs' /\ JobsApart' /\ JobsHeld' /\ OneRunning' /\ DoneMoved'
  BY <1>1 DEF SyncInv, OwnJobs, JobsApart, JobsHeld, OneRunning, DoneMoved, AtWork, At
<1>5. HiddenAreYoung'
  BY <1>1, <1>2 DEF SyncInv, HiddenAreYoung
<1>6. RecordedBefore' /\ Answered' /\ NothingSkipped'
  BY <1>1 DEF SyncInv, RecordedBefore, Answered, NothingSkipped, Asking, At
<1> QED
  BY <1>3, <1>4, <1>5, <1>6 DEF SyncInv

LEMMA SyncStep == SyncInv /\ [Next]_vars => SyncInv'
<1> SUFFICES ASSUME SyncInv, [Next]_vars PROVE SyncInv'
  OBVIOUS
<1>0. TypeOK'
  BY TypeStep DEF SyncInv
<1>1. ASSUME NEW w \in Workers, Look(w) PROVE SyncInv'
  BY <1>0, <1>1, LookKeeps
<1>2. ASSUME NEW w \in Workers, Reclaim(w) PROVE SyncInv'
  BY <1>0, <1>2, ReclaimKeeps
<1>3. ASSUME NEW w \in Workers, Insert(w) PROVE SyncInv'
  BY <1>0, <1>3, InsertKeeps
<1>4. ASSUME NEW w \in Workers, ReadWindow(w) PROVE SyncInv'
  BY <1>0, <1>4, ReadWindowKeeps
<1>5. ASSUME NEW w \in Workers, ChannelFails(w) PROVE SyncInv'
  <2>1. Asking(w)
    BY <1>5 DEF ChannelFails, Asking, At
  <2> QED
    BY <1>0, <1>5, <2>1, NextChannelKeeps DEF ChannelFails, jobTable
<1>6. ASSUME NEW w \in Workers, ChannelAnswers(w) PROVE SyncInv'
  BY <1>0, <1>6, ChannelAnswersKeeps
<1>7. ASSUME NEW w \in Workers, Write(w) PROVE SyncInv'
  BY <1>0, <1>7, WriteKeeps
<1>8. ASSUME NEW w \in Workers, Resolve(w) \/ Crash(w) PROVE SyncInv'
  BY <1>0, <1>8, ReturnKeeps DEF Resolve, Crash, jobTable
<1>9. ASSUME NEW w \in Workers, Raise(w) PROVE SyncInv'
  <2>1. Asking(w)
    BY <1>9 DEF Raise, Asking
  <2> QED
    BY <1>0, <1>9, <2>1, NextChannelKeeps DEF Raise, jobTable
<1>10. ASSUME NEW w \in Workers, Finish(w) PROVE SyncInv'
  BY <1>0, <1>10, FinishKeeps
<1>11. ASSUME NEW o \in Orders, Show(o) PROVE SyncInv'
  BY <1>0, <1>11, ShowKeeps
<1>12. CASE Tick
  BY <1>0, <1>12, TickKeeps
<1>13. CASE UNCHANGED vars
  <2>1. UNCHANGED <<now, status, started, cursor, since, record, shown, run>>
    BY <1>13 DEF vars, jobTable
  <2>2. InTime' /\ OwnJobs' /\ JobsApart' /\ JobsHeld' /\ OneRunning' /\ DoneMoved'
    BY <2>1 DEF SyncInv, InTime, OwnJobs, JobsApart, JobsHeld, OneRunning, DoneMoved, AtWork, Asking, At
  <2>3. HiddenAreYoung' /\ RecordedBefore' /\ Answered' /\ NothingSkipped'
    BY <2>1 DEF SyncInv, HiddenAreYoung, RecordedBefore, Answered, NothingSkipped, Asking, At
  <2> QED
    BY <1>0, <2>2, <2>3 DEF SyncInv
<1> QED
  BY <1>1, <1>2, <1>3, <1>4, <1>5, <1>6, <1>7, <1>8, <1>9, <1>10, <1>11, <1>12, <1>13 DEF Next, Step

THEOREM SyncInvariant == Spec => []SyncInv
  BY SyncInitially, SyncStep, PTL DEF Spec

(* Every variable keeps its type, for any number of workers, orders and    *)
(* channels; in particular the loop never asks behind the last channel.    *)
THEOREM TypeCorrect == Spec => []TypeOK
<1>1. SyncInv => TypeOK
  BY DEF SyncInv
<1> QED
  BY <1>1, SyncInvariant, PTL

(* When the hard limit of the task is not longer than the age at which a   *)
(* job is reclaimed, no two runs work on orders at once, save one that has *)
(* already reported its success (_start_job and its unique index).         *)
THEOREM OneRunAtATime == Spec => []OneRun
  BY SyncInvariant, OneRunFollows, PTL

(* When orders show up within the overlap of two windows, none whose time  *)
(* the cursor has passed by the lateness is missing (_sync_window and the  *)
(* commit of cursor and orders in sync_orders).                            *)
THEOREM NoOrderSkipped == Spec => []NothingSkipped
<1>1. SyncInv => NothingSkipped
  BY DEF SyncInv
<1> QED
  BY <1>1, SyncInvariant, PTL

=============================================================================
