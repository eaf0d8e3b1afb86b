------------------------- MODULE SystemUpdateProofs -------------------------
(***************************************************************************)
(* SystemUpdate for every set of updates, releases and deaths of a runner. *)
(*                                                                         *)
(* Types and the lives of the processes (TypeInv, LivesInv) and who has a  *)
(* draft of which file (DraftsInv) hold in every regime.  Above them stand *)
(* the lock of the runner (LockInv), the handover from the thread to the   *)
(* runner and who may still report (HandInv, ReportInv), one update from   *)
(* start to end (OneAdminInv, ConsistentInv), and updates on schedule      *)
(* (SettledInv).                                                           *)
(***************************************************************************)
EXTENDS SystemUpdate, TLAPS

-----------------------------------------------------------------------------
(* Types *)

Works == [target : Versions, previous : Versions, before : Versions, revision : Versions,
          known : BOOLEAN, switched : BOOLEAN, migrating : BOOLEAN, quiesced : BOOLEAN,
          failed : BOOLEAN]
ApiLabels == {"free", "checking", "fetch", "result", "apology", "mkdir", "sweep", "own", "owned",
              "spawn", "handoff", "handed", "queue", "drop"}
ApiRecords ==
    [at : ApiLabels, goal : {"none", "check", "start"}, by : {"none", "admin", "poller"},
     run : Runs \cup {NoRun}, current : Versions, dirty : BOOLEAN, latest : Versions,
     tries : 0 .. 2]
RunLabels == {"own", "owned", "spawn", "handoff", "handed", "queue", "drop"}
Apis == {a \in ApiRecords : /\ a.at = "sweep" => a.tries < 2
                            /\ a.at \in RunLabels => a.run \in Runs}
Drafts == [stage : {"none", "read", "written"}, content : Statuses]
StatusTmps == [there : BOOLEAN, content : Statuses]

SystemTyped ==
    /\ remote \in Versions /\ head \in Versions /\ code \in Versions /\ schema \in Versions
    /\ maintenance \in BOOLEAN /\ background \in BOOLEAN

FilesTyped ==
    /\ lock \in Locks /\ ownerTmp \in Locks
    /\ status \in Statuses /\ statusTmp \in StatusTmps
    /\ draft \in [Writers -> Drafts]

RunsTyped ==
    /\ proc \in [Runs -> {"unused", "alive", "zombie", "gone"}] /\ child \subseteq Runs
    /\ at \in [Runs -> Labels]
    /\ work \in [Runs -> Works]

ApiTyped ==
    /\ api \in Apis
    /\ poller \in {"asleep", "check", "install", "waiting", "mark", "complain", "dead"}
    /\ operator \in {"away", "sweeping"} /\ outside \in 0 .. MaxOutside

TypeInv == SystemTyped /\ FilesTyped /\ RunsTyped /\ ApiTyped

Reports == {"preflight", "quiescing", "backup", "installing", "migrating", "building",
            "restarting", "healthcheck", "success", "refused", "rollback", "stuck", "rolled_back"}

LEMMA ReportTable ==
    /\ DOMAIN Report = Reports
    /\ \A l \in Reports : Report[l] \in Phases /\ After[l] \in Labels
<1>1. DOMAIN Report = Reports
  BY DEF Report, Reports
<1>2. ASSUME NEW l \in Reports PROVE Report[l] \in Phases
  BY DEF Report, Reports, Phases, ActivePhases, FinalPhases
<1>3. ASSUME NEW l \in Reports PROVE After[l] \in Labels
  BY <1>1 DEF After, Reports, Labels, Handling
<1> QED
  BY <1>1, <1>2, <1>3

LEMMA TypeInit == Init => TypeInv
<1> SUFFICES ASSUME Init PROVE TypeInv
  OBVIOUS
<1> USE UpdateAssumption
<1>1. SystemTyped
  BY DEF Init, SystemTyped
<1>2. FilesTyped
  BY DEF Init, FilesTyped, Free, NoOwnerTmp, NoStatus, NoStatusTmp, NoDraft, Locks, Statuses,
         StatusTmps, Drafts, Pids, Phases
<1>3. RunsTyped
  BY DEF Init, RunsTyped, NoWork, Works, Labels
<1>4. ApiTyped
  BY DEF Init, ApiTyped, NoApi, Apis, ApiRecords, ApiLabels, RunLabels
<1> QED
  BY <1>1, <1>2, <1>3, <1>4 DEF TypeInv

(* What a step may write: labels, locks, what a runner remembers.          *)
LEMMA LabelsKnown ==
    {"none", "claim", "claimed", "preflight", "verify", "lockdown", "quiescing", "quiesce", "backup",
     "dump", "installing", "switch", "point", "install", "migrating", "migrate", "building", "build",
     "restarting", "restart", "healthcheck", "probe", "reopen", "success", "resume", "unlock",
     "refused", "rollback", "downgrade", "revert", "repoint", "rebuild", "restore", "reopenOld", "stuck",
     "rolled_back", "release", "ended"} \subseteq Labels
  BY ReportTable DEF Labels, Handling, Reports

LEMMA LocksKnown ==
    /\ Free \in Locks /\ NoOwnerTmp \in Locks /\ Made \in Locks
    /\ \A r \in Runs \cup {NoRun} : Owned(r, "api") \in Locks /\ Owned(r, r) \in Locks
    /\ \A l \in Locks : FormerPid(l) \in Locks
  BY DEF Free, NoOwnerTmp, Made, Owned, FormerPid, Locks, Pids

LEMMA WorksKnown ==
    /\ NoWork \in Works
    /\ \A w \in Works :
          /\ w.target \in Versions /\ w.previous \in Versions /\ w.revision \in Versions
          /\ w.switched \in BOOLEAN /\ w.migrating \in BOOLEAN
          /\ [w EXCEPT !.switched = TRUE] \in Works /\ [w EXCEPT !.migrating = TRUE] \in Works
          /\ [w EXCEPT !.quiesced = TRUE] \in Works /\ [w EXCEPT !.failed = TRUE] \in Works
          /\ \A v, s \in Versions, b \in BOOLEAN :
                [w EXCEPT !.previous = v, !.revision = s, !.known = b] \in Works
  BY UpdateAssumption DEF NoWork, Works

LEMMA StatusesKnown ==
    /\ NoStatus \in Statuses /\ NoStatusTmp \in StatusTmps /\ NoDraft \in Drafts
    /\ \A s \in Statuses : /\ s.phase \in Phases /\ s.pid \in Runs \cup {NoRun}
                           /\ \A p \in Phases : [s EXCEPT !.phase = p] \in Statuses
                           /\ [stage |-> "read", content |-> s] \in Drafts
                           /\ [there |-> TRUE, content |-> s] \in StatusTmps
    /\ \A d \in Drafts : d.content \in Statuses
    /\ \A s \in StatusTmps : s.content \in Statuses
    /\ [stage |-> "written", content |-> NoStatus] \in Drafts
  BY DEF NoStatus, NoStatusTmp, NoDraft, Statuses, StatusTmps, Drafts, Phases

LEMMA RunsKnown ==
    ASSUME RunsTyped
    PROVE  /\ \A r \in Runs : Exited(proc, r) \in [Runs -> {"unused", "alive", "zombie", "gone"}]
           /\ Reaped(proc) \in [Runs -> {"unused", "alive", "zombie", "gone"}]
  BY DEF RunsTyped, Exited, Reaped

LEMMA Raised ==
    ASSUME RunsTyped, NEW r \in Runs, Raise(r)
    PROVE  at' \in [Runs -> Labels]
  BY LabelsKnown DEF RunsTyped, Raise, Goto

LEMMA Remembered ==
    ASSUME RunsTyped, NEW r \in Runs, NEW w \in Works, Remember(r, w)
    PROVE  work' \in [Runs -> Works]
  BY DEF RunsTyped, Remember

LEMMA LockRemoved ==
    RemoveLock => lock' \in Locks /\ ownerTmp' \in Locks
  BY LocksKnown DEF RemoveLock

LEMMA RestartTyped ==
    ASSUME TypeInv, NEW l \in Locks, NEW o \in Locks, RestartServices(l, o)
    PROVE  /\ api' \in Apis /\ poller' = "asleep" /\ background' \in BOOLEAN
           /\ child' \subseteq Runs /\ proc' \in [Runs -> {"unused", "alive", "zombie", "gone"}]
           /\ lock' \in Locks /\ ownerTmp' \in Locks /\ draft' \in [Writers -> Drafts]
<1>1. api' \in Apis
  BY UpdateAssumption DEF RestartServices, NoApi, Apis, ApiRecords, ApiLabels, RunLabels
<1>2. draft' \in [Writers -> Drafts]
  BY StatusesKnown DEF RestartServices, TypeInv, FilesTyped, Writers
<1> QED
  BY <1>1, <1>2, RunsKnown, LocksKnown DEF RestartServices, TypeInv

LEMMA MakeRestartTyped ==
    ASSUME TypeInv, MakeRestart
    PROVE  /\ api' \in Apis /\ poller' = "asleep" /\ background' \in BOOLEAN
           /\ child' \subseteq Runs /\ proc' \in [Runs -> {"unused", "alive", "zombie", "gone"}]
           /\ lock' \in Locks /\ ownerTmp' \in Locks /\ draft' \in [Writers -> Drafts]
  BY RestartTyped, LocksKnown DEF MakeRestart, TypeInv, FilesTyped

LEMMA RunnerTypes ==
    ASSUME TypeInv, NEW r \in Runs, RunnerStep(r)
    PROVE  TypeInv'
<1>0. SystemTyped /\ FilesTyped /\ RunsTyped /\ ApiTyped
  BY DEF TypeInv
<1>1. CASE Claim(r)
  <2>1. at' \in [Runs -> Labels] /\ proc' \in [Runs -> {"unused", "alive", "zombie", "gone"}]
    BY <1>0, <1>1, LabelsKnown, RunsKnown DEF Claim, Goto, End, RunsTyped
  <2>2. ownerTmp' \in Locks
    BY <1>0, <1>1, LocksKnown DEF Claim, FilesTyped
  <2> QED
    BY <1>0, <1>1, <2>1, <2>2
       DEF Claim, system, TypeInv, SystemTyped, FilesTyped, RunsTyped, ApiTyped
<1>2. CASE ClaimRename(r)
  <2>1. at' \in [Runs -> Labels] /\ proc' \in [Runs -> {"unused", "alive", "zombie", "gone"}]
    BY <1>0, <1>2, LabelsKnown, RunsKnown DEF ClaimRename, Goto, End, RunsTyped
  <2>2. lock' \in Locks /\ ownerTmp' \in Locks
    BY <1>0, <1>2, LocksKnown DEF ClaimRename, FilesTyped
  <2> QED
    BY <1>0, <1>2, <2>1, <2>2
       DEF ClaimRename, system, TypeInv, SystemTyped, FilesTyped, RunsTyped, ApiTyped
<1>3. CASE ReportBegins(r)
  <2>1. PICK c \in Statuses : draft' = [draft EXCEPT ![r] = [stage |-> "read", content |-> c]]
    BY <1>0, <1>3, ReportTable, StatusesKnown DEF ReportBegins, Reads, FilesTyped
  <2>2. draft' \in [Writers -> Drafts]
    BY <1>0, <2>1, StatusesKnown DEF FilesTyped
  <2> QED
    BY <1>0, <1>3, <2>2
       DEF ReportBegins, Reads, system, TypeInv, SystemTyped, FilesTyped, RunsTyped, ApiTyped
<1>4. CASE ReportEnds(r)
  <2>1. at' \in [Runs -> Labels]
    BY <1>0, <1>4, ReportTable, Raised DEF ReportEnds, Goto, RunsTyped
  <2>2. status' \in Statuses /\ statusTmp' \in StatusTmps /\ draft' \in [Writers -> Drafts]
    BY <1>0, <1>4, StatusesKnown DEF ReportEnds, Rename, RenameRaises, FilesTyped
  <2> QED
    BY <1>0, <1>4, <2>1, <2>2
       DEF ReportEnds, system, TypeInv, SystemTyped, FilesTyped, RunsTyped, ApiTyped
<1>5. CASE Verify(r)
  <2>1. at' \in [Runs -> Labels]
    BY <1>0, <1>5, LabelsKnown, Raised DEF Verify, Goto, RunsTyped
  <2>2. work' \in [Runs -> Works]
    <3> DEFINE known == schema \in Readable
    <3> DEFINE noted == [work[r] EXCEPT !.previous = head, !.revision = schema, !.known = known]
    <3>1. known \in BOOLEAN /\ work[r] \in Works
      BY <1>0 DEF RunsTyped
    <3>2. Remember(r, noted) \/ work' = work
      BY <1>5 DEF Verify
    <3> HIDE DEF known
    <3>3. noted \in Works
      BY <1>0, <3>1, WorksKnown DEF SystemTyped
    <3> HIDE DEF noted
    <3> QED
      BY <1>0, <3>2, <3>3, Remembered DEF RunsTyped
  <2> QED
    BY <1>0, <1>5, <2>1, <2>2
       DEF Verify, system, files, TypeInv, SystemTyped, FilesTyped, RunsTyped, ApiTyped
<1>6. CASE Lockdown(r)
  BY <1>0, <1>6, LabelsKnown
     DEF Lockdown, Goto, files, TypeInv, SystemTyped, FilesTyped, RunsTyped, ApiTyped
<1>7. CASE Quiesce(r)
  <2>1. at' \in [Runs -> Labels]
    BY <1>0, <1>7, LabelsKnown, Raised DEF Quiesce, Goto, RunsTyped
  <2>2. work' \in [Runs -> Works] /\ background' \in BOOLEAN
    BY <1>0, <1>7, WorksKnown, Remembered DEF Quiesce, RunsTyped, SystemTyped
  <2> QED
    BY <1>0, <1>7, <2>1, <2>2
       DEF Quiesce, files, TypeInv, SystemTyped, FilesTyped, RunsTyped, ApiTyped
<1>8. CASE Command(r)
  <2>1. at' \in [Runs -> Labels]
    BY <1>0, <1>8, LabelsKnown, Raised DEF Command, Dump, Install, Build, Probe, Goto, RunsTyped
  <2> QED
    BY <1>0, <1>8, <2>1
       DEF Command, system, files, TypeInv, SystemTyped, FilesTyped, RunsTyped, ApiTyped
<1>9. CASE Switch(r)
  <2>1. at' \in [Runs -> Labels]
    BY <1>0, <1>9, LabelsKnown, Raised DEF Switch, Goto, RunsTyped
  <2>2. code' \in Versions
    BY ZenonT(30), <1>0, <1>9, WorksKnown DEF Switch, RunsTyped, SystemTyped
  <2> QED
    BY <1>0, <1>9, <2>1, <2>2
       DEF Switch, files, TypeInv, SystemTyped, FilesTyped, RunsTyped, ApiTyped
<1>19. CASE Point(r)
  <2>1. at' \in [Runs -> Labels]
    BY <1>0, <1>19, LabelsKnown, Raised DEF Point, Goto, RunsTyped
  <2>2. work' \in [Runs -> Works] /\ head' \in Versions
    BY ZenonT(30), <1>0, <1>19, WorksKnown, Remembered DEF Point, RunsTyped, SystemTyped
  <2>3. lock' \in Locks /\ ownerTmp' \in Locks
    BY <1>0, <1>19, LockRemoved DEF Point, Hook, FilesTyped
  <2> QED
    BY <1>0, <1>19, <2>1, <2>2, <2>3
       DEF Point, TypeInv, SystemTyped, FilesTyped, RunsTyped, ApiTyped
<1>10. CASE Migrate(r)
  <2>1. at' \in [Runs -> Labels]
    BY <1>0, <1>10, LabelsKnown, Raised DEF Migrate, Goto, RunsTyped
  <2>2. work' \in [Runs -> Works] /\ schema' \in Versions
    BY <1>0, <1>10, WorksKnown, Remembered DEF Migrate, RunsTyped, SystemTyped
  <2> QED
    BY <1>0, <1>10, <2>1, <2>2
       DEF Migrate, files, TypeInv, SystemTyped, FilesTyped, RunsTyped, ApiTyped
<1>11. CASE Restart(r)
  <2>1. at' \in [Runs -> Labels]
    BY <1>0, <1>11, LabelsKnown DEF Restart, Goto, RunsTyped
  <2> QED
    BY <1>0, <1>11, <2>1, MakeRestartTyped
       DEF Restart, TypeInv, SystemTyped, FilesTyped, RunsTyped, ApiTyped
<1>12. CASE Reopen(r)
  BY <1>0, <1>12, LabelsKnown
     DEF Reopen, Goto, files, TypeInv, SystemTyped, FilesTyped, RunsTyped, ApiTyped
<1>13. CASE Resume(r)
  <2>1. at' \in [Runs -> Labels]
    BY <1>0, <1>13, LabelsKnown DEF Resume, Goto, RunsTyped
  <2> QED
    BY <1>0, <1>13, <2>1, MakeRestartTyped
       DEF Resume, TypeInv, SystemTyped, FilesTyped, RunsTyped, ApiTyped
<1>14. CASE Downgrade(r)
  <2>1. at' \in [Runs -> Labels]
    BY <1>0, <1>14, LabelsKnown DEF Downgrade, Goto, RunsTyped
  <2>2. work' \in [Runs -> Works] /\ schema' \in Versions
    BY <1>0, <1>14, WorksKnown, Remembered DEF Downgrade, Noted, RunsTyped, SystemTyped
  <2> QED
    BY <1>0, <1>14, <2>1, <2>2
       DEF Downgrade, files, TypeInv, SystemTyped, FilesTyped, RunsTyped, ApiTyped
<1>15. CASE Revert(r)
  <2>1. at' \in [Runs -> Labels]
    BY <1>0, <1>15, LabelsKnown DEF Revert, Goto, RunsTyped
  <2>2. work' \in [Runs -> Works] /\ code' \in Versions
    BY ZenonT(30), <1>0, <1>15, WorksKnown, Remembered DEF Revert, Noted, RunsTyped, SystemTyped
  <2> QED
    BY <1>0, <1>15, <2>1, <2>2
       DEF Revert, files, TypeInv, SystemTyped, FilesTyped, RunsTyped, ApiTyped
<1>20. CASE Repoint(r)
  <2>1. at' \in [Runs -> Labels]
    BY <1>0, <1>20, LabelsKnown DEF Repoint, Goto, RunsTyped
  <2>2. work' \in [Runs -> Works] /\ head' \in Versions
    BY ZenonT(30), <1>0, <1>20, WorksKnown, Remembered DEF Repoint, Noted, RunsTyped, SystemTyped
  <2>3. lock' \in Locks /\ ownerTmp' \in Locks
    BY <1>0, <1>20, LockRemoved DEF Repoint, Hook, FilesTyped
  <2> QED
    BY <1>0, <1>20, <2>1, <2>2, <2>3
       DEF Repoint, TypeInv, SystemTyped, FilesTyped, RunsTyped, ApiTyped
<1>16. CASE Rebuild(r)
  <2>1. at' \in [Runs -> Labels] /\ work' \in [Runs -> Works]
    BY <1>0, <1>16, LabelsKnown, WorksKnown, Remembered DEF Rebuild, Noted, Goto, RunsTyped
  <2> QED
    BY <1>0, <1>16, <2>1
       DEF Rebuild, system, files, TypeInv, SystemTyped, FilesTyped, RunsTyped, ApiTyped
<1>17. CASE Restore(r)
  <2>1. at' \in [Runs -> Labels] /\ work' \in [Runs -> Works]
    BY ZenonT(30), <1>0, <1>17, LabelsKnown, WorksKnown, Remembered DEF Restore, Noted, Goto, RunsTyped
  <2> QED
    BY <1>0, <1>17, <2>1, MakeRestartTyped
       DEF Restore, TypeInv, SystemTyped, FilesTyped, RunsTyped, ApiTyped
<1>18. CASE Release(r)
  <2>1. at' \in [Runs -> Labels] /\ proc' \in [Runs -> {"unused", "alive", "zombie", "gone"}]
    BY <1>0, <1>18, LabelsKnown, RunsKnown DEF Release, Goto, End, RunsTyped
  <2>2. lock' \in Locks /\ ownerTmp' \in Locks
    BY <1>0, <1>18, LockRemoved DEF Release, FilesTyped
  <2> QED
    BY <1>0, <1>18, <2>1, <2>2
       DEF Release, system, TypeInv, SystemTyped, FilesTyped, RunsTyped, ApiTyped
<1> QED
  BY <1>1, <1>2, <1>3, <1>4, <1>5, <1>6, <1>7, <1>8, <1>9, <1>10, <1>11, <1>12, <1>13, <1>14,
     <1>15, <1>16, <1>17, <1>18, <1>19, <1>20 DEF RunnerStep

FreeLabels == {"checking", "fetch", "result", "apology", "mkdir"}

LEMMA ThreadMoves ==
    ASSUME ApiTyped
    PROVE  /\ \A l \in FreeLabels : [api EXCEPT !.at = l] \in Apis
           /\ api.at \in RunLabels =>
                 api.run \in Runs /\ \A l \in RunLabels : [api EXCEPT !.at = l] \in Apis
           /\ NoApi \in Apis
           /\ api.run \in Runs \cup {NoRun} /\ api.latest \in Versions
           /\ ThreadRaises =>
                 /\ api' \in Apis
                 /\ poller' \in {"asleep", "check", "install", "waiting", "mark", "complain", "dead"}
           /\ ThreadReturns =>
                 /\ api' \in Apis
                 /\ poller' \in {"asleep", "check", "install", "waiting", "mark", "complain", "dead"}
<1>1. NoApi \in Apis
  BY UpdateAssumption DEF NoApi, Apis, ApiRecords, ApiLabels, RunLabels
<1>2. \A l \in FreeLabels : [api EXCEPT !.at = l] \in Apis
  BY DEF ApiTyped, Apis, ApiRecords, ApiLabels, RunLabels, FreeLabels
<1>6. api.at \in RunLabels =>
        api.run \in Runs /\ \A l \in RunLabels : [api EXCEPT !.at = l] \in Apis
  BY DEF ApiTyped, Apis, ApiRecords, ApiLabels, RunLabels
<1>3. api.run \in Runs \cup {NoRun} /\ api.latest \in Versions
  BY DEF ApiTyped, Apis, ApiRecords, RunLabels
<1>4. ThreadRaises => poller' \in {"asleep", "check", "install", "waiting", "mark", "complain", "dead"}
  BY DEF ThreadRaises, ApiTyped
<1>5. ThreadReturns => poller' \in {"asleep", "check", "install", "waiting", "mark", "complain", "dead"}
  BY DEF ThreadReturns, ApiTyped
<1> QED
  BY <1>1, <1>2, <1>3, <1>4, <1>5, <1>6 DEF ThreadRaises, ThreadReturns

LEMMA ThreadTypes ==
    ASSUME TypeInv, ThreadStep
    PROVE  TypeInv'
<1>0. SystemTyped /\ FilesTyped /\ RunsTyped /\ ApiTyped
  BY DEF TypeInv
<1>1. CASE ThreadReportBegins
  <2>1. \A l \in DOMAIN ThreadPhase : ThreadPhase[l] \in Phases
    BY DEF ThreadPhase, Phases
  <2>2. [phase |-> "queued", pid |-> api.run] \in Statuses
    BY <1>0, ThreadMoves DEF Statuses, Phases, ActivePhases
  <2>3. PICK c \in Statuses : draft' = [draft EXCEPT !["thread"] = [stage |-> "read", content |-> c]]
    BY <1>0, <1>1, <2>1, <2>2, StatusesKnown DEF ThreadReportBegins, Reads, FilesTyped
  <2>4. draft' \in [Writers -> Drafts]
    BY <1>0, <2>3, StatusesKnown DEF FilesTyped
  <2> QED
    BY <1>0, <1>1, <2>4
       DEF ThreadReportBegins, Reads, system, TypeInv, SystemTyped, FilesTyped, RunsTyped, ApiTyped
<1>2. CASE ThreadReportEnds
  <2>1. status' \in Statuses /\ statusTmp' \in StatusTmps /\ draft' \in [Writers -> Drafts]
    BY <1>0, <1>2, StatusesKnown DEF ThreadReportEnds, Rename, RenameRaises, FilesTyped
  <2>2. ApiTyped'
    BY <1>0, <1>2, ThreadMoves DEF ThreadReportEnds, Move, FreeLabels, RunLabels, ApiTyped
  <2> QED
    BY <1>0, <1>2, <2>1, <2>2
       DEF ThreadReportEnds, system, TypeInv, SystemTyped, FilesTyped, RunsTyped
<1>3. CASE Fetch
  <2>1. api' \in Apis
    <3>1. [api EXCEPT !.at = "result", !.latest = remote] \in Apis
      BY <1>0 DEF ApiTyped, SystemTyped, Apis, ApiRecords, ApiLabels, RunLabels
    <3> QED
      BY <1>0, <1>3, <3>1, ThreadMoves DEF Fetch, Move, FreeLabels, RunLabels
  <2>2. lock' \in Locks /\ ownerTmp' \in Locks
    BY <1>0, <1>3, LockRemoved DEF Fetch, FilesTyped
  <2>3. proc' \in [Runs -> {"unused", "alive", "zombie", "gone"}]
    BY <1>0, <1>3, RunsKnown DEF Fetch
  <2> QED
    BY <1>0, <1>3, <2>1, <2>2, <2>3
       DEF Fetch, system, TypeInv, SystemTyped, FilesTyped, RunsTyped, ApiTyped
<1>4. CASE MakeLock
  <2>1. lock' \in Locks /\ ownerTmp' \in Locks
    BY <1>0, <1>4, LocksKnown DEF MakeLock, FilesTyped
  <2>2. \A r \in Runs : [api EXCEPT !.at = "own", !.run = r] \in Apis
    BY <1>0 DEF ApiTyped, Apis, ApiRecords, ApiLabels, RunLabels
  <2>3. api.tries # 2 => [api EXCEPT !.at = "sweep"] \in Apis
    BY <1>0 DEF ApiTyped, Apis, ApiRecords, ApiLabels, RunLabels
  <2>4. ApiTyped'
    BY <1>0, <1>4, <2>2, <2>3, ThreadMoves DEF MakeLock, Unused, Move, ApiTyped
  <2> QED
    BY <1>0, <1>4, <2>1, <2>4 DEF MakeLock, system, TypeInv, SystemTyped, FilesTyped, RunsTyped
<1>5. CASE SweepLock
  <2>1. lock' \in Locks /\ ownerTmp' \in Locks
    BY <1>5, LockRemoved DEF SweepLock
  <2>2. [api EXCEPT !.at = "mkdir", !.tries = @ + 1] \in Apis
    <3> DEFINE next == [api EXCEPT !.at = "mkdir", !.tries = api.tries + 1]
    <3>1. api \in ApiRecords /\ api.tries \in 0 .. 2 /\ api.tries < 2
      BY <1>0, <1>5 DEF SweepLock, ApiTyped, Apis, ApiRecords
    <3>2. api.tries + 1 \in 0 .. 2
      BY <3>1
    <3>3. next \in ApiRecords /\ next.at = "mkdir"
      BY <3>1, <3>2 DEF ApiRecords, ApiLabels
    <3> QED
      BY <3>3 DEF Apis, RunLabels
  <2> QED
    BY <1>0, <1>5, <2>1, <2>2
       DEF SweepLock, system, TypeInv, SystemTyped, FilesTyped, RunsTyped, ApiTyped
<1>6. CASE WriteOwner
  <2>1. ownerTmp' \in Locks
    BY <1>0, <1>6, LocksKnown, ThreadMoves DEF WriteOwner, FilesTyped
  <2>2. ApiTyped'
    BY <1>0, <1>6, ThreadMoves DEF WriteOwner, Move, FreeLabels, RunLabels, ApiTyped
  <2> QED
    BY <1>0, <1>6, <2>1, <2>2 DEF WriteOwner, system, TypeInv, SystemTyped, FilesTyped, RunsTyped
<1>7. CASE RenameOwner
  <2>1. lock' \in Locks /\ ownerTmp' \in Locks
    BY <1>0, <1>7, LocksKnown DEF RenameOwner, FilesTyped
  <2>2. ApiTyped'
    BY <1>0, <1>7, ThreadMoves DEF RenameOwner, Move, FreeLabels, RunLabels, ApiTyped
  <2> QED
    BY <1>0, <1>7, <2>1, <2>2 DEF RenameOwner, system, TypeInv, SystemTyped, FilesTyped, RunsTyped
<1>8. CASE Spawn
  <2>1. proc' \in [Runs -> {"unused", "alive", "zombie", "gone"}]
    BY <1>0, <1>8, RunsKnown DEF Spawn, RunsTyped
  <2>2. child' \subseteq Runs /\ at' \in [Runs -> Labels]
    BY <1>0, <1>8, LabelsKnown, ThreadMoves DEF Spawn, Goto, RunLabels, RunsTyped
  <2>4. work' \in [Runs -> Works]
    <3>1. [NoWork EXCEPT !.target = api.latest] \in Works
      BY <1>0, ThreadMoves, UpdateAssumption DEF NoWork, Works
    <3> QED
      BY <1>0, <1>8, <3>1, ThreadMoves, Remembered DEF Spawn, RunLabels, RunsTyped
  <2>3. ApiTyped'
    BY <1>0, <1>8, ThreadMoves DEF Spawn, Move, FreeLabels, RunLabels, ApiTyped
  <2> QED
    BY <1>0, <1>8, <2>1, <2>2, <2>3, <2>4 DEF Spawn, system, files, TypeInv, SystemTyped, FilesTyped, RunsTyped
<1>9. CASE Handoff
  <2>1. ownerTmp' \in Locks
    BY <1>0, <1>9, LocksKnown, ThreadMoves DEF Handoff, FilesTyped
  <2>2. ApiTyped'
    BY <1>0, <1>9, ThreadMoves DEF Handoff, Move, FreeLabels, RunLabels, ApiTyped
  <2> QED
    BY <1>0, <1>9, <2>1, <2>2 DEF Handoff, system, TypeInv, SystemTyped, FilesTyped, RunsTyped
<1>10. CASE DropLock
  <2>1. lock' \in Locks /\ ownerTmp' \in Locks
    BY <1>0, <1>10, LockRemoved DEF DropLock, FilesTyped
  <2>2. ApiTyped'
    BY <1>0, <1>10, ThreadMoves DEF DropLock, ApiTyped
  <2> QED
    BY <1>0, <1>10, <2>1, <2>2 DEF DropLock, system, TypeInv, SystemTyped, FilesTyped, RunsTyped
<1> QED
  BY <1>1, <1>2, <1>3, <1>4, <1>5, <1>6, <1>7, <1>8, <1>9, <1>10 DEF ThreadStep

LEMMA BeginTypes ==
    ASSUME TypeInv, NEW by \in {"admin", "poller"}, NEW goal \in {"check", "start"}, Begin(by, goal)
    PROVE  /\ SystemTyped' /\ FilesTyped' /\ RunsTyped'
           /\ api' \in Apis /\ operator' = operator /\ outside' = outside
<1>0. SystemTyped /\ FilesTyped /\ RunsTyped /\ ApiTyped
  BY DEF TypeInv
<1>1. api' \in Apis
  <2>1. api' = [at |-> "checking", goal |-> goal, by |-> by, run |-> NoRun,
                current |-> head, dirty |-> head # code, latest |-> 0, tries |-> 0]
    BY DEF Begin, NoApi
  <2>2. api' \in ApiRecords /\ api'.at = "checking"
    <3> DEFINE dirty == head # code
    <3>1. dirty \in BOOLEAN /\ head \in Versions /\ 0 \in Versions
      BY <1>0, UpdateAssumption DEF SystemTyped
    <3>2. api' = [at |-> "checking", goal |-> goal, by |-> by, run |-> NoRun,
                  current |-> head, dirty |-> dirty, latest |-> 0, tries |-> 0]
      BY <2>1
    <3> HIDE DEF dirty
    <3> QED
      BY <3>1, <3>2 DEF ApiRecords, ApiLabels
  <2> QED
    BY <2>2 DEF Apis, RunLabels
<1>2. proc' \in [Runs -> {"unused", "alive", "zombie", "gone"}]
  BY <1>0, RunsKnown DEF Begin
<1> QED
  BY <1>0, <1>1, <1>2 DEF Begin, system, files, SystemTyped, FilesTyped, RunsTyped

LEMMA OtherTypes ==
    ASSUME TypeInv,
           \/ \E r \in Runs : Kill(r)
           \/ AdminAsks \/ PollerStep \/ \E w \in Writers : WriteTmp(w)
           \/ World
    PROVE  TypeInv'
<1>0. SystemTyped /\ FilesTyped /\ RunsTyped /\ ApiTyped
  BY DEF TypeInv
<1>1. ASSUME NEW r \in Runs, Kill(r) PROVE TypeInv'
  <2>1. at' \in [Runs -> Labels] /\ proc' \in [Runs -> {"unused", "alive", "zombie", "gone"}]
    BY <1>0, <1>1, LabelsKnown, RunsKnown DEF Kill, Goto, End, RunsTyped
  <2>2. draft' \in [Writers -> Drafts]
    BY <1>0, <1>1, StatusesKnown DEF Kill, FilesTyped
  <2> QED
    BY <1>0, <1>1, <2>1, <2>2
       DEF Kill, system, TypeInv, SystemTyped, FilesTyped, RunsTyped, ApiTyped
<1>2. CASE AdminAsks
  BY <1>0, <1>2, BeginTypes, UpdateAssumption DEF AdminAsks, TypeInv, ApiTyped
<1>3. CASE PollerLooks
  BY <1>0, <1>3
     DEF PollerLooks, system, files, TypeInv, SystemTyped, FilesTyped, RunsTyped, ApiTyped
<1>4. CASE PollerCalls
  <2>1. CASE poller' = "complain"
    BY <1>0, <1>4, <2>1, RunsKnown
       DEF PollerCalls, system, files, TypeInv, SystemTyped, FilesTyped, RunsTyped, ApiTyped
  <2>2. ASSUME NEW goal \in {"check", "start"}, Begin("poller", goal) /\ poller' = "waiting"
        PROVE  TypeInv'
    BY <1>0, <2>2, BeginTypes DEF TypeInv, ApiTyped
  <2> QED
    BY <1>4, <2>1, <2>2 DEF PollerCalls
<1>5. CASE PollerReportBegins
  <2>1. "failed" \in Phases
    BY DEF Phases, FinalPhases
  <2>2. PICK c \in Statuses : draft' = [draft EXCEPT !["poller"] = [stage |-> "read", content |-> c]]
    BY <1>0, <1>5, <2>1, StatusesKnown DEF PollerReportBegins, Reads, FilesTyped
  <2>3. draft' \in [Writers -> Drafts]
    BY <1>0, <2>2, StatusesKnown DEF FilesTyped
  <2> QED
    BY <1>0, <1>5, <2>3
       DEF PollerReportBegins, Reads, system, TypeInv, SystemTyped, FilesTyped, RunsTyped, ApiTyped
<1>6. CASE PollerReportEnds
  <2>1. status' \in Statuses /\ statusTmp' \in StatusTmps /\ draft' \in [Writers -> Drafts]
    BY <1>0, <1>6, StatusesKnown DEF PollerReportEnds, Rename, RenameRaises, FilesTyped
  <2> QED
    BY <1>0, <1>6, <2>1
       DEF PollerReportEnds, system, TypeInv, SystemTyped, FilesTyped, RunsTyped, ApiTyped
<1>7. ASSUME NEW w \in Writers, WriteTmp(w) PROVE TypeInv'
  <2>1. statusTmp' \in StatusTmps /\ draft' \in [Writers -> Drafts]
    BY <1>0, <1>7, StatusesKnown DEF WriteTmp, FilesTyped
  <2> QED
    BY <1>0, <1>7, <2>1
       DEF WriteTmp, system, TypeInv, SystemTyped, FilesTyped, RunsTyped, ApiTyped
<1>8. CASE Push
  BY <1>0, <1>8 DEF Push, files, TypeInv, SystemTyped, FilesTyped, RunsTyped, ApiTyped
<1>9. CASE StatusPage
  BY <1>0, <1>9, RunsKnown
     DEF StatusPage, system, files, TypeInv, SystemTyped, FilesTyped, RunsTyped, ApiTyped
<1>10. CASE OperatorLooks
  BY <1>0, <1>10, UpdateAssumption
     DEF OperatorLooks, system, files, TypeInv, SystemTyped, FilesTyped, RunsTyped, ApiTyped
<1>11. CASE OperatorSweeps
  BY <1>0, <1>11, LockRemoved
     DEF OperatorSweeps, system, TypeInv, SystemTyped, FilesTyped, RunsTyped, ApiTyped
<1>12. CASE RestartFromOutside
  <2>1. MakeRestart \/ RestartServices(lock, ownerTmp)
    BY <1>12 DEF RestartFromOutside
  <2>2. /\ api' \in Apis /\ poller' = "asleep" /\ background' \in BOOLEAN
        /\ child' \subseteq Runs /\ proc' \in [Runs -> {"unused", "alive", "zombie", "gone"}]
        /\ lock' \in Locks /\ ownerTmp' \in Locks /\ draft' \in [Writers -> Drafts]
    BY <1>0, <2>1, MakeRestartTyped, RestartTyped DEF FilesTyped
  <2>3. outside' \in 0 .. MaxOutside
    BY <1>0, <1>12, UpdateAssumption DEF RestartFromOutside, ApiTyped
  <2> QED
    BY <1>0, <1>12, <2>2, <2>3
       DEF RestartFromOutside, TypeInv, SystemTyped, FilesTyped, RunsTyped, ApiTyped
<1> QED
  BY <1>1, <1>2, <1>3, <1>4, <1>5, <1>6, <1>7, <1>8, <1>9, <1>10, <1>11, <1>12
     DEF PollerStep, World

LEMMA TypeStep == TypeInv /\ [Next]_vars => TypeInv'
<1>1. ASSUME TypeInv, UNCHANGED vars PROVE TypeInv'
  BY <1>1 DEF vars, TypeInv, SystemTyped, FilesTyped, RunsTyped, ApiTyped
<1> QED
  BY <1>1, RunnerTypes, ThreadTypes, OtherTypes DEF Next

LEMMA TypeInvariant == Spec => []TypeInv
  BY TypeInit, TypeStep, PTL DEF Spec

(* Whatever is started, killed, restarted or swept away, every file and    *)
(* every actor's memory holds what its readers expect of it.               *)
THEOREM UpdateTypes == Spec => []TypeOK
<1>1. TypeInv => TypeOK
  BY DEF TypeInv, TypeOK, SystemTyped, FilesTyped, RunsTyped, ApiTyped, Works, Apis, ApiRecords, Drafts, StatusTmps
<1> QED
  BY <1>1, TypeInvariant, PTL

-----------------------------------------------------------------------------
(* Who changes what *)

LEMMA RunnerEffects ==
    ASSUME TypeInv, NEW r \in Runs, RunnerStep(r) \/ Kill(r)
    PROVE  /\ \A q \in Runs \ {r} : at'[q] = at[q] /\ work'[q] = work[q]
           /\ at'[r] # "none"
           /\ at'[r] = "ended" => proc' = Exited(proc, r)
           /\ at'[r] # "ended" => proc' = proc \/ proc' = Reaped(proc)
           /\ api' = api \/ api' = NoApi
<1>0. RunsTyped
  BY DEF TypeInv
<1>1. CASE Claim(r) \/ ClaimRename(r) \/ Release(r) \/ Kill(r)
  BY <1>0, <1>1 DEF Claim, ClaimRename, Release, Kill, End, Goto, RunsTyped
<1>2. CASE ReportBegins(r)
  BY <1>0, <1>2, ReportTable DEF ReportBegins, RunsTyped, Reports
<1>3. CASE ReportEnds(r)
  <2>1. \A l \in Reports : After[l] \notin {"none", "ended"}
    BY DEF After, Reports
  <2> QED
    BY <1>0, <1>3, <2>1, ReportTable DEF ReportEnds, Raise, Goto, RunsTyped
<1>4. CASE Verify(r) \/ Lockdown(r) \/ Quiesce(r) \/ Command(r) \/ Rebuild(r)
  BY <1>0, <1>4 DEF Verify, Lockdown, Quiesce, Command, Dump, Install, Build, Probe, Rebuild, Raise,
                    Goto, Remember, RunsTyped
<1>5. CASE Switch(r) \/ Point(r) \/ Migrate(r) \/ Reopen(r) \/ Downgrade(r) \/ Revert(r) \/ Repoint(r)
  BY <1>0, <1>5 DEF Switch, Point, Migrate, Reopen, Downgrade, Revert, Repoint, Raise, Goto, Remember, RunsTyped
<1>6. CASE Restart(r) \/ Resume(r) \/ Restore(r)
  BY <1>0, <1>6 DEF Restart, Resume, Restore, MakeRestart, RestartServices, Goto, Remember, RunsTyped
<1> QED
  BY <1>1, <1>2, <1>3, <1>4, <1>5, <1>6 DEF RunnerStep

LEMMA RunnerBegun ==
    ASSUME NEW r \in Runs, RunnerStep(r)
    PROVE  at[r] \notin {"none", "ended"}
  BY ReportTable
     DEF RunnerStep, Claim, ClaimRename, ReportBegins, ReportEnds, Verify, Lockdown, Quiesce, Command,
         Dump, Install, Build, Probe, Switch, Point, Migrate, Restart, Reopen, Resume, Downgrade, Revert, Repoint,
         Rebuild, Restore, Release, Reports

Outsiders ==
    \/ ThreadStep \/ AdminAsks \/ PollerStep
    \/ \E w \in Writers : WriteTmp(w)
    \/ World

LEMMA OutsiderEffects ==
    ASSUME TypeInv, Outsiders
    PROVE  /\ UNCHANGED <<head, code, schema, maintenance>>
           /\ \/ UNCHANGED <<at, work>> /\ (proc' = proc \/ proc' = Reaped(proc))
              \/ /\ api.at = "spawn" /\ api.run \in Runs
                 /\ at' = [at EXCEPT ![api.run] = "claim"]
                 /\ work' = [work EXCEPT ![api.run] = [NoWork EXCEPT !.target = api.latest]]
                 /\ proc' = [Reaped(proc) EXCEPT ![api.run] = "alive"]
                 /\ api' = [api EXCEPT !.at = "handoff"]
<1>0. ApiTyped
  BY DEF TypeInv
<1>1. CASE Spawn
  BY <1>0, <1>1, ThreadMoves DEF Spawn, Goto, Remember, Move, RunLabels, system
<1>2. CASE \/ ThreadReportBegins \/ ThreadReportEnds \/ Fetch \/ MakeLock \/ SweepLock \/ WriteOwner
           \/ RenameOwner \/ Handoff \/ DropLock
  BY <1>2 DEF ThreadReportBegins, ThreadReportEnds, Fetch, MakeLock, SweepLock, WriteOwner,
              RenameOwner, Handoff, DropLock, system
<1>3. CASE AdminAsks \/ PollerStep
  BY <1>3 DEF AdminAsks, PollerStep, PollerLooks, PollerCalls, PollerReportBegins, PollerReportEnds,
              Begin, system, files
<1>4. CASE (\E w \in Writers : WriteTmp(w)) \/ World
  BY <1>4 DEF WriteTmp, World, Push, StatusPage, OperatorLooks, OperatorSweeps, RestartFromOutside,
              MakeRestart, RestartServices, system, files
<1> QED
  BY <1>1, <1>2, <1>3, <1>4 DEF Outsiders, ThreadStep

(* The thread begins the life of a runner that has not begun.              *)
LEMMA OutsiderChooses ==
    ASSUME TypeInv, Outsiders
    PROVE  /\ api'.at \in {"own", "owned", "spawn"} =>
                \/ api.at \in {"own", "owned"} /\ api'.run = api.run
                \/ api.at = "spawn" /\ api' = api
                \/ api.at = "mkdir" /\ api'.run \in Unused
<1>0. ApiTyped /\ api \in ApiRecords
  BY DEF TypeInv, ApiTyped, Apis
<1>1. CASE Spawn \/ Handoff \/ DropLock \/ SweepLock \/ Fetch
  <2>1. CASE Spawn \/ Handoff \/ DropLock
    <3>1. api' = NoApi \/ \E l \in {"handoff", "drop", "handed", "queue"} : api' = [api EXCEPT !.at = l]
      BY <2>1 DEF Spawn, Handoff, DropLock, Move, ThreadRaises
    <3> QED
      BY <1>0, <3>1 DEF NoApi, ApiRecords
  <2>2. CASE SweepLock
    <3>1. api' = [api EXCEPT !.at = "mkdir", !.tries = @ + 1]
      BY <2>2 DEF SweepLock
    <3> QED
      BY <1>0, <3>1 DEF ApiRecords
  <2>3. CASE Fetch
    <3>1. \/ api' = [api EXCEPT !.at = "result", !.latest = remote]
          \/ api' = [api EXCEPT !.at = "apology"]
      BY <2>3 DEF Fetch, Move
    <3> QED
      BY <1>0, <3>1 DEF ApiRecords
  <2> QED
    BY <1>1, <2>1, <2>2, <2>3
<1>2. CASE MakeLock
  <2>1. /\ api.at = "mkdir"
        /\ \/ api' = NoApi \/ api' = [api EXCEPT !.at = "sweep"]
           \/ \E r \in Unused : api' = [api EXCEPT !.at = "own", !.run = r]
    BY <1>2 DEF MakeLock, ThreadRaises, Move
  <2>2. \A r : [api EXCEPT !.at = "own", !.run = r].run = r
    BY <1>0 DEF ApiRecords
  <2>3. NoApi.at = "free" /\ [api EXCEPT !.at = "sweep"].at = "sweep"
    BY <1>0 DEF ApiRecords, NoApi
  <2> QED
    BY <2>1, <2>2, <2>3
<1>3. CASE WriteOwner \/ RenameOwner
  BY <1>0, <1>3 DEF WriteOwner, RenameOwner, Move, ThreadRaises, NoApi, ApiRecords
<1>4. CASE ThreadReportBegins \/ ThreadReportEnds
  <2>1. CASE ThreadReportBegins
    BY <1>0, <2>1 DEF ThreadReportBegins
  <2>2. CASE ThreadReportEnds
    <3>1. api' = NoApi \/ \E l \in {"fetch", "mkdir", "apology"} : api' = [api EXCEPT !.at = l]
      BY <2>2 DEF ThreadReportEnds, ThreadReturns, ThreadRaises, Move
    <3> QED
      BY <1>0, <3>1 DEF NoApi, ApiRecords
  <2> QED
    BY <1>4, <2>1, <2>2
<1>5. CASE AdminAsks \/ PollerStep
  <2>1. api' = api \/ \E by, goal : Begin(by, goal)
    BY <1>5 DEF AdminAsks, PollerStep, PollerLooks, PollerCalls, PollerReportBegins, PollerReportEnds
  <2>2. ASSUME NEW by, NEW goal, Begin(by, goal) PROVE api'.at = "checking"
    BY <2>2 DEF Begin, NoApi
  <2> QED
    BY <1>0, <2>1, <2>2
<1>6. CASE (\E w \in Writers : WriteTmp(w)) \/ World
  BY <1>0, <1>6 DEF WriteTmp, World, Push, StatusPage, OperatorLooks, OperatorSweeps,
                    RestartFromOutside, MakeRestart, RestartServices, NoApi
<1> QED
  BY <1>1, <1>2, <1>3, <1>4, <1>5, <1>6 DEF Outsiders, ThreadStep

(* A runner is at no step before its process begins and after it ends, and *)
(* the thread prepares only updates that have not begun.                   *)
LivesInv ==
    /\ \A r \in Runs : at[r] = "none" <=> proc[r] = "unused"
    /\ \A r \in Runs : at[r] = "ended" <=> proc[r] \in {"zombie", "gone"}
    /\ api.at \in {"own", "owned", "spawn"} => at[api.run] = "none"

LEMMA LivesStep == TypeInv /\ LivesInv /\ [Next]_vars => LivesInv'
<1> SUFFICES ASSUME TypeInv, LivesInv, [Next]_vars PROVE LivesInv'
  OBVIOUS
<1>0. RunsTyped /\ ApiTyped
  BY DEF TypeInv
<1>1. \A r \in Runs : Reaped(proc)[r] = IF proc[r] = "zombie" THEN "gone" ELSE proc[r]
  BY DEF Reaped
<1>2. api.at \in RunLabels => api.run \in Runs
  BY <1>0 DEF ApiTyped, Apis
<1>3. ASSUME NEW r \in Runs, RunnerStep(r) \/ Kill(r) PROVE LivesInv'
  <2>1. /\ \A q \in Runs \ {r} : at'[q] = at[q]
        /\ at'[r] # "none"
        /\ at'[r] = "ended" => proc' = Exited(proc, r)
        /\ at'[r] # "ended" => proc' = proc \/ proc' = Reaped(proc)
        /\ api' = api \/ api' = NoApi
    BY <1>3, RunnerEffects
  <2>2. at[r] \notin {"none", "ended"}
    BY <1>0, <1>3, RunnerBegun DEF Kill, LivesInv
  <2>3. CASE at'[r] = "ended"
    <3>1. \A q \in Runs : proc'[q] = IF q = r THEN IF r \in child THEN "zombie" ELSE "gone" ELSE proc[q]
      BY <1>0, <2>1, <2>3 DEF Exited, RunsTyped
    <3> QED
      BY <1>2, <2>1, <2>2, <2>3, <3>1 DEF LivesInv, NoApi, RunLabels
  <2>4. CASE at'[r] # "ended"
    <3>1. \A q \in Runs : proc'[q] = proc[q] \/ (proc[q] = "zombie" /\ proc'[q] = "gone")
      BY <1>1, <2>1, <2>4
    <3> QED
      BY <1>0, <1>2, <2>1, <2>2, <2>4, <3>1 DEF LivesInv, NoApi, RunLabels, RunsTyped
  <2> QED
    BY <2>3, <2>4
<1>4. CASE Outsiders
  <2>1. api'.at \in {"own", "owned", "spawn"} =>
            \/ api.at \in {"own", "owned"} /\ api'.run = api.run
            \/ api.at = "spawn" /\ api' = api
            \/ api.at = "mkdir" /\ api'.run \in Unused
    BY <1>4, OutsiderChooses
  <2>2. CASE at' = at /\ (proc' = proc \/ proc' = Reaped(proc))
    <3>1. \A q \in Runs : proc'[q] = proc[q] \/ (proc[q] = "zombie" /\ proc'[q] = "gone")
      BY <1>1, <2>2
    <3> QED
      BY <1>0, <1>2, <2>1, <2>2, <3>1 DEF LivesInv, RunLabels, RunsTyped, Unused
  <2>3. CASE /\ api.at = "spawn" /\ api.run \in Runs
             /\ at' = [at EXCEPT ![api.run] = "claim"]
             /\ proc' = [Reaped(proc) EXCEPT ![api.run] = "alive"]
             /\ api' = [api EXCEPT !.at = "handoff"]
    <3>1. \A q \in Runs : proc'[q] = IF q = api.run THEN "alive" ELSE Reaped(proc)[q]
      BY <2>3 DEF Reaped
    <3>2. \A q \in Runs : at'[q] = IF q = api.run THEN "claim" ELSE at[q]
      BY <1>0, <2>3 DEF RunsTyped
    <3>3. api'.at = "handoff"
      BY <1>0, <2>3 DEF ApiTyped, Apis, ApiRecords
    <3> QED
      BY <1>1, <2>3, <3>1, <3>2, <3>3 DEF LivesInv
  <2> QED
    BY <1>4, <2>2, <2>3, OutsiderEffects
<1>5. CASE UNCHANGED vars
  BY <1>5 DEF vars, LivesInv
<1> QED
  BY <1>3, <1>4, <1>5 DEF Next, Outsiders

LEMMA LivesInvariant == Spec => []LivesInv
<1>1. Init => LivesInv
  BY DEF Init, LivesInv, NoApi
<1>2. TypeInv /\ LivesInv /\ [Next]_vars => LivesInv'
  BY LivesStep
<1> QED
  BY <1>1, <1>2, TypeInvariant, PTL DEF Spec

-----------------------------------------------------------------------------
(* Who writes the status file *)

Quiet(w) == draft[w].stage = "none"
ThreadReports == {"checking", "result", "apology", "queue"}

(* A writer has a draft only at a step that reports, and the poller waits  *)
(* for a thread of its own.                                                *)
DraftsInv ==
    /\ \A r \in Runs : ~Quiet(r) => at[r] \in Reports
    /\ ~Quiet("thread") => api.at \in ThreadReports
    /\ ~Quiet("poller") => poller \in {"mark", "complain"}
    /\ api.by = "poller" => poller = "waiting"

LEMMA WritersKnown ==
    /\ Runs \subseteq Writers /\ "thread" \in Writers /\ "poller" \in Writers
    /\ "thread" \notin Runs /\ "poller" \notin Runs
  BY UpdateAssumption DEF Writers

LEMMA RunnerDrafts ==
    ASSUME TypeInv, NEW r \in Runs, RunnerStep(r) \/ Kill(r)
    PROVE  /\ \/ UNCHANGED <<api, poller>> /\ \A w \in Writers \ {r} : draft'[w] = draft[w]
              \/ /\ api' = NoApi /\ poller' = "asleep"
                 /\ draft'["thread"] = NoDraft /\ draft'["poller"] = NoDraft
                 /\ \A q \in Runs : draft'[q] = draft[q]
           /\ \/ draft'[r] = NoDraft
              \/ at[r] \in Reports /\ at'[r] = at[r]
              \/ at[r] \notin Reports /\ draft'[r] = draft[r]
           /\ ReportEnds(r) \/ UNCHANGED <<status, statusTmp>>
<1>0. RunsTyped /\ draft \in [Writers -> Drafts]
  BY DEF TypeInv, FilesTyped
<1>1. CASE ReportBegins(r)
  BY <1>0, <1>1, ReportTable, WritersKnown DEF ReportBegins, Reads
<1>2. CASE ReportEnds(r) \/ Kill(r)
  BY <1>0, <1>2, WritersKnown DEF ReportEnds, Kill, Rename, RenameRaises
<1>3. CASE Claim(r) \/ ClaimRename(r) \/ Release(r)
  BY <1>3 DEF Claim, ClaimRename, Release, Reports
<1>4. CASE Verify(r) \/ Lockdown(r) \/ Quiesce(r) \/ Command(r) \/ Rebuild(r)
  BY <1>4 DEF Verify, Lockdown, Quiesce, Command, Dump, Install, Build, Probe, Rebuild, files, Reports
<1>5. CASE Switch(r) \/ Point(r) \/ Migrate(r) \/ Reopen(r) \/ Downgrade(r) \/ Revert(r) \/ Repoint(r)
  BY <1>5 DEF Switch, Point, Migrate, Reopen, Downgrade, Revert, Repoint, files, Reports
<1>6. CASE Restart(r) \/ Resume(r) \/ Restore(r)
  <2>1. MakeRestart => /\ api' = NoApi /\ poller' = "asleep"
                       /\ draft'["thread"] = NoDraft /\ draft'["poller"] = NoDraft
                       /\ \A q \in Runs : draft'[q] = draft[q]
    BY <1>0, WritersKnown DEF MakeRestart, RestartServices
  <2> QED
    BY <1>6, <2>1 DEF Restart, Resume, Restore, Reports
<1> QED
  BY <1>1, <1>2, <1>3, <1>4, <1>5, <1>6 DEF RunnerStep

LEMMA DraftsRunner ==
    ASSUME TypeInv, DraftsInv, NEW r \in Runs, RunnerStep(r) \/ Kill(r)
    PROVE  DraftsInv'
<1>1. \A q \in Runs \ {r} : at'[q] = at[q] /\ draft'[q] = draft[q]
  BY RunnerEffects, RunnerDrafts, WritersKnown
<1>2. ~Quiet(r)' => at'[r] \in Reports
  BY RunnerDrafts DEF DraftsInv, Quiet, NoDraft
<1>3. /\ ~Quiet("thread")' => api'.at \in ThreadReports
      /\ ~Quiet("poller")' => poller' \in {"mark", "complain"}
      /\ api'.by = "poller" => poller' = "waiting"
  BY RunnerDrafts, WritersKnown DEF DraftsInv, Quiet, NoDraft, NoApi
<1> QED
  BY <1>1, <1>2, <1>3 DEF DraftsInv, Quiet

(* What a step of the thread leaves of its errand. *)
LEMMA ThreadErrand ==
    ASSUME TypeInv, ThreadStep
    PROVE  /\ api' = NoApi \/ (api'.by = api.by /\ api'.goal = api.goal /\ poller' = poller)
           /\ api.by # "poller" => poller' = poller
<1>0. api \in ApiRecords
  BY DEF TypeInv, ApiTyped, Apis
<1>1. CASE ThreadReportEnds
  <2>1. \/ api' = NoApi \/ \E l \in {"fetch", "mkdir", "apology"} : api' = [api EXCEPT !.at = l] /\ poller' = poller
    BY <1>1 DEF ThreadReportEnds, ThreadReturns, ThreadRaises, Move
  <2>2. api.by # "poller" => poller' = poller
    BY <1>1 DEF ThreadReportEnds, ThreadReturns, ThreadRaises
  <2> QED
    BY <1>0, <2>1, <2>2 DEF ApiRecords
<1>2. CASE ThreadReportBegins \/ Fetch \/ SweepLock \/ Spawn \/ Handoff
  <2>1. poller' = poller
    BY <1>2 DEF ThreadReportBegins, Fetch, SweepLock, Spawn, Handoff
  <2>2. CASE ThreadReportBegins \/ Spawn \/ Handoff
    <3>1. api' = api \/ \E l \in RunLabels : api' = [api EXCEPT !.at = l]
      BY <2>2 DEF ThreadReportBegins, Spawn, Handoff, Move, RunLabels
    <3> QED
      BY <1>0, <2>1, <3>1 DEF ApiRecords
  <2>3. CASE Fetch
    <3>1. \/ api' = [api EXCEPT !.at = "result", !.latest = remote]
          \/ api' = [api EXCEPT !.at = "apology"]
      BY <2>3 DEF Fetch, Move
    <3> QED
      BY <1>0, <2>1, <3>1 DEF ApiRecords
  <2>4. CASE SweepLock
    <3>1. api' = [api EXCEPT !.at = "mkdir", !.tries = @ + 1]
      BY <2>4 DEF SweepLock
    <3> QED
      BY <1>0, <2>1, <3>1 DEF ApiRecords
  <2> QED
    BY <1>2, <2>2, <2>3, <2>4
<1>3. CASE MakeLock \/ WriteOwner \/ RenameOwner \/ DropLock
  <2>1. \/ api' = NoApi
        \/ poller' = poller /\ \E l \in ApiLabels : api' = [api EXCEPT !.at = l]
        \/ poller' = poller /\ \E r \in Runs : api' = [api EXCEPT !.at = "own", !.run = r]
    BY <1>3 DEF MakeLock, WriteOwner, RenameOwner, DropLock, ThreadRaises, Move, ApiLabels, Unused
  <2>2. api.by # "poller" => poller' = poller
    BY <1>3 DEF MakeLock, WriteOwner, RenameOwner, DropLock, ThreadRaises
  <2> QED
    BY <1>0, <2>1, <2>2 DEF ApiRecords
<1> QED
  BY <1>1, <1>2, <1>3 DEF ThreadStep

(* What a step of the thread does to the drafts. *)
LEMMA ThreadDrafts ==
    ASSUME TypeInv, ThreadStep
    PROVE  /\ \A w \in Writers \ {"thread"} : draft'[w] = draft[w]
           /\ \/ draft'["thread"] = NoDraft
              \/ api.at \in ThreadReports /\ api' = api
              \/ api.at \notin ThreadReports /\ draft' = draft
           /\ ThreadReportEnds \/ UNCHANGED <<status, statusTmp>>
<1>0. draft \in [Writers -> Drafts]
  BY DEF TypeInv, FilesTyped
<1>1. CASE ThreadReportBegins
  <2>1. api.at \in ThreadReports
    BY <1>1 DEF ThreadReportBegins, ThreadReports, ThreadPhase
  <2> QED
    BY <1>0, <1>1, <2>1 DEF ThreadReportBegins, Reads
<1>2. CASE ThreadReportEnds
  BY <1>0, <1>2, WritersKnown DEF ThreadReportEnds, Rename, RenameRaises
<1>3. CASE \/ Fetch \/ MakeLock \/ SweepLock \/ WriteOwner \/ RenameOwner \/ Spawn \/ Handoff \/ DropLock
  BY <1>3 DEF Fetch, MakeLock, SweepLock, WriteOwner, RenameOwner, Spawn, Handoff, DropLock,
              ThreadReports, files
<1> QED
  BY <1>1, <1>2, <1>3 DEF ThreadStep

LEMMA DraftsStep == TypeInv /\ LivesInv /\ DraftsInv /\ [Next]_vars => DraftsInv'
<1> SUFFICES ASSUME TypeInv, LivesInv, DraftsInv, [Next]_vars PROVE DraftsInv'
  OBVIOUS
<1>0. RunsTyped /\ draft \in [Writers -> Drafts]
  BY DEF TypeInv, FilesTyped
<1>1. ASSUME NEW r \in Runs, RunnerStep(r) \/ Kill(r) PROVE DraftsInv'
  BY <1>1, DraftsRunner
<1>2. CASE ThreadStep
  <2>1. \A r \in Runs : ~Quiet(r)' => at'[r] \in Reports
    <3>1. \A r \in Runs : draft'[r] = draft[r]
      BY <1>2, ThreadDrafts, WritersKnown
    <3>2. \A r \in Runs : at'[r] = at[r] \/ at[r] = "none"
      BY <1>0, <1>2, OutsiderEffects DEF Outsiders, LivesInv, RunsTyped
    <3>3. "none" \notin Reports
      BY DEF Reports
    <3> QED
      BY <3>1, <3>2, <3>3 DEF DraftsInv, Quiet
  <2>2. ~Quiet("thread")' => api'.at \in ThreadReports
    BY <1>2, ThreadDrafts DEF DraftsInv, Quiet, NoDraft
  <2>3. /\ ~Quiet("poller")' => poller' \in {"mark", "complain"}
        /\ api'.by = "poller" => poller' = "waiting"
    BY <1>2, ThreadDrafts, ThreadErrand, WritersKnown DEF DraftsInv, Quiet, NoApi
  <2> QED
    BY <2>1, <2>2, <2>3 DEF DraftsInv
<1>3. CASE AdminAsks
  <2>1. PICK goal : Begin("admin", goal) /\ UNCHANGED poller
    BY <1>3 DEF AdminAsks
  <2>2. api.at = "free" /\ api'.by = "admin" /\ UNCHANGED <<draft, at>>
    BY <2>1 DEF Begin, NoApi, files
  <2> QED
    BY <2>1, <2>2 DEF DraftsInv, Quiet, ThreadReports
<1>4. CASE PollerStep
  <2>1. CASE PollerLooks
    BY <2>1 DEF PollerLooks, files, DraftsInv, Quiet
  <2>2. CASE PollerCalls
    <3>1. CASE poller' = "complain" /\ UNCHANGED <<draft, at, api>>
      BY <2>2, <3>1 DEF PollerCalls, DraftsInv, Quiet
    <3>2. CASE poller' = "waiting" /\ \E goal : Begin("poller", goal)
      <4>1. api.at = "free" /\ UNCHANGED <<draft, at>>
        BY <3>2 DEF Begin, files
      <4> QED
        BY <2>2, <3>2, <4>1 DEF PollerCalls, DraftsInv, Quiet, ThreadReports
    <3> QED
      BY <2>2, <3>1, <3>2 DEF PollerCalls, files
  <2>3. CASE PollerReportBegins
    <3>1. /\ UNCHANGED <<at, api, poller>> /\ poller \in {"mark", "complain"}
          /\ \A w \in Writers \ {"poller"} : draft'[w] = draft[w]
      BY <1>0, <2>3 DEF PollerReportBegins, Reads
    <3> QED
      BY <3>1, WritersKnown DEF DraftsInv, Quiet
  <2>4. CASE PollerReportEnds
    <3>1. /\ UNCHANGED <<at, api>> /\ ~Quiet("poller") /\ draft'["poller"] = NoDraft
          /\ \A w \in Writers \ {"poller"} : draft'[w] = draft[w]
      BY <1>0, <2>4, WritersKnown DEF PollerReportEnds, Rename, RenameRaises, Quiet
    <3> QED
      BY <3>1, WritersKnown DEF DraftsInv, Quiet, NoDraft
  <2> QED
    BY <1>4, <2>1, <2>2, <2>3, <2>4 DEF PollerStep
<1>5. ASSUME NEW w \in Writers, WriteTmp(w) PROVE DraftsInv'
  <2>1. /\ UNCHANGED <<at, api, poller>> /\ ~Quiet(w)
        /\ \A v \in Writers \ {w} : draft'[v] = draft[v]
    BY <1>0, <1>5 DEF WriteTmp, Quiet
  <2> QED
    BY <2>1, WritersKnown DEF DraftsInv, Quiet
<1>6. CASE World
  <2>1. CASE RestartFromOutside
    <3>1. /\ api' = NoApi /\ at' = at
          /\ draft'["thread"] = NoDraft /\ draft'["poller"] = NoDraft
          /\ \A q \in Runs : draft'[q] = draft[q]
      BY <1>0, <2>1, WritersKnown DEF RestartFromOutside, MakeRestart, RestartServices
    <3> QED
      BY <3>1 DEF DraftsInv, Quiet, NoDraft, NoApi
  <2>2. CASE Push \/ StatusPage \/ OperatorLooks \/ OperatorSweeps
    BY <2>2 DEF Push, StatusPage, OperatorLooks, OperatorSweeps, files, DraftsInv, Quiet
  <2> QED
    BY <1>6, <2>1, <2>2 DEF World
<1>7. CASE UNCHANGED vars
  BY <1>7 DEF vars, DraftsInv, Quiet
<1> QED
  BY <1>1, <1>2, <1>3, <1>4, <1>5, <1>6, <1>7 DEF Next

LEMMA DraftsInvariant == Spec => []DraftsInv
<1>1. Init => DraftsInv
  BY WritersKnown DEF Init, DraftsInv, Quiet, NoDraft, NoApi
<1>2. TypeInv /\ LivesInv /\ DraftsInv /\ [Next]_vars => DraftsInv'
  BY DraftsStep
<1> QED
  BY <1>1, <1>2, TypeInvariant, LivesInvariant, PTL DEF Spec

-----------------------------------------------------------------------------
(* The lock *)

(* Nobody but the API and the runners touches the lock, and a runner looks *)
(* at it only when the API has handed it over.                             *)
LockUndisturbed == Prompt /\ MaxOutside = 0

Working(r) == at[r] \notin {"none", "claim", "ended"}
Held(r) == lock = Owned(r, r)

(* The thread has decided that no runner works, and prepares one of its own. *)
Preparing == {"sweep"} \cup RunLabels

LockInv ==
    /\ operator = "away"
    /\ \A r \in Runs : Working(r) \/ (at[r] = "claim" /\ api.run # r) => Held(r)
    /\ \A r \in Runs : at[r] = "claimed" => ownerTmp = Owned(r, r)
    /\ api.at \in Preparing => \A r \in Runs : at[r] \notin {"none", "ended"} => r = api.run /\ at[r] = "claim"
    /\ api.at \notin RunLabels => api.run = NoRun
    /\ api.at \in {"own", "owned"} => lock = Made
    /\ api.at = "owned" => ownerTmp = Owned(api.run, "api")
    /\ api.at \in {"spawn", "handoff", "handed", "drop"} => lock = Owned(api.run, "api")
    /\ api.at = "drop" => at[api.run] # "claim"
    /\ api.at = "handed" => ownerTmp = Owned(api.run, api.run)
    /\ api.at = "queue" => lock = Owned(api.run, api.run)

LEMMA LockFields ==
    /\ Free.dir = FALSE /\ Free.run = NoRun /\ NoOwnerTmp = Free /\ Made.dir = TRUE /\ Made.run = NoRun
    /\ \A r, p : Owned(r, p).dir = TRUE /\ Owned(r, p).run = r /\ Owned(r, p).pid = p
    /\ \A r \in Runs : FormerPid(Owned(r, r)) = Owned(r, r)
    /\ FormerPid(Free) = Free
    /\ NoApi.at = "free" /\ NoApi.run = NoRun
<1>1. \A r \in Runs : FormerPid(Owned(r, r)) = Owned(r, r)
  BY UpdateAssumption DEF FormerPid, Owned
<1>2. FormerPid(Free) = Free
  BY UpdateAssumption DEF FormerPid, Free
<1> QED
  BY <1>1, <1>2 DEF Free, NoOwnerTmp, Made, Owned, NoApi

(* A runner at work holds the lock for everybody who looks.                *)
LEMMA WorkingHolds ==
    ASSUME TypeInv, LivesInv, LockInv, NEW r \in Runs, Working(r) \/ (at[r] = "claim" /\ api.run # r)
    PROVE  /\ Held(r) /\ lock.dir /\ lock.run = r /\ proc[r] = "alive" /\ LockHeld
           /\ GuardPasses(r) /\ HookPasses(r)
<1>1. Held(r) /\ lock.dir = TRUE /\ lock.run = r /\ lock.pid = r
  BY LockFields DEF LockInv, Held
<1>2. proc[r] = "alive"
  BY DEF Working, LivesInv, TypeInv, RunsTyped
<1> QED
  BY <1>1, <1>2 DEF LockHeld, Running, GuardPasses, HookPasses

LEMMA WorkingAlone ==
    ASSUME LivesInv, LockInv, NEW r \in Runs, Working(r)
    PROVE  /\ api.at \notin Preparing /\ api.run = NoRun
           /\ \A q \in Runs \ {r} : at[q] \in {"none", "ended"}
<1>1. Held(r)
  BY DEF LockInv
<1>2. api.at \notin Preparing
  BY DEF Working, LockInv
<1>3. api.run = NoRun
  BY <1>2 DEF LockInv, Preparing
<1>4. ASSUME NEW q \in Runs \ {r} PROVE at[q] \in {"none", "ended"}
  <2>1. ~Held(q)
    BY <1>1, LockFields DEF Held
  <2>2. ~Working(q) /\ ~(at[q] = "claim" /\ api.run # q)
    BY <2>1 DEF LockInv
  <2> QED
    BY <1>3, <2>2, UpdateAssumption DEF Working
<1> QED
  BY <1>2, <1>3, <1>4

(* What a step of a runner does to the lock.                               *)
LEMMA RunnerLocks ==
    ASSUME TypeInv, LivesInv, LockInv, NEW r \in Runs, RunnerStep(r) \/ Kill(r)
    PROVE  /\ operator' = operator
           /\ \/ /\ lock' = lock
                 /\ \/ UNCHANGED <<ownerTmp, api>>
                    \/ Working(r) /\ ownerTmp' = FormerPid(ownerTmp) /\ api' = NoApi
                 /\ \/ at'[r] = "ended"
                    \/ Working(r) /\ at'[r] \notin {"none", "claim", "claimed", "ended"}
              \/ /\ at[r] = "claim" /\ (Prompt => api.run # r) /\ at'[r] = "claimed"
                 /\ ownerTmp' = Owned(r, r) /\ UNCHANGED <<lock, api>>
              \/ /\ at[r] = "claimed" /\ at'[r] = "preflight"
                 /\ lock' = ownerTmp /\ ownerTmp' = Free /\ UNCHANGED api
              \/ /\ at[r] = "release" /\ at'[r] = "ended"
                 /\ lock' = Free /\ ownerTmp' = Free /\ UNCHANGED api
<1>0. RunsTyped
  BY DEF TypeInv
<1>1. CASE Claim(r)
  BY <1>0, <1>1 DEF Claim, End, Goto, RunsTyped
<1>2. CASE ClaimRename(r)
  BY <1>0, <1>2, LockFields DEF ClaimRename, End, Goto, RunsTyped
<1>3. CASE Release(r)
  BY <1>0, <1>3, LockFields DEF Release, RemoveLock, End, Goto, RunsTyped
<1>4. CASE Kill(r)
  BY <1>0, <1>4 DEF Kill, End, Goto, RunsTyped
<1>5. CASE ReportBegins(r)
  BY <1>0, <1>5, ReportTable DEF ReportBegins, Reports, Working
<1>6. CASE ReportEnds(r)
  <2>1. \A l \in Reports : l \notin {"none", "claim", "claimed", "ended"}
                           /\ After[l] \notin {"none", "claim", "claimed", "ended"}
    BY DEF After, Reports
  <2> QED
    BY <1>0, <1>6, <2>1, ReportTable DEF ReportEnds, Raise, Goto, RunsTyped, Working
<1>7. CASE Verify(r) \/ Lockdown(r) \/ Quiesce(r) \/ Command(r) \/ Rebuild(r) \/ Migrate(r)
           \/ Reopen(r) \/ Downgrade(r)
  BY <1>0, <1>7 DEF Verify, Lockdown, Quiesce, Command, Dump, Install, Build, Probe, Rebuild, Migrate,
                    Reopen, Downgrade, Raise, Goto, RunsTyped, Working, files
<1>8. CASE Switch(r) \/ Point(r) \/ Revert(r) \/ Repoint(r)
  <2>1. LockHeld
    BY <1>8, WorkingHolds DEF Switch, Point, Hook, Revert, Repoint, files, Working
  <2> QED
    BY <1>0, <1>8, <2>1 DEF Switch, Point, Hook, Revert, Repoint, files, Raise, Goto, RunsTyped, Working
<1>9. CASE Restart(r) \/ Resume(r) \/ Restore(r)
  <2>1. Working(r) /\ LockHeld /\ Held(r)
    BY <1>9, WorkingHolds DEF Restart, Resume, Restore, Working
  <2>2. MakeRestart => lock' = lock /\ ownerTmp' = FormerPid(ownerTmp) /\ api' = NoApi
    BY <2>1, LockFields DEF MakeRestart, RestartServices, Held
  <2> QED
    BY <1>0, <1>9, <2>1, <2>2 DEF Restart, Resume, Restore, Goto, RunsTyped
<1> QED
  BY <1>1, <1>2, <1>3, <1>4, <1>5, <1>6, <1>7, <1>8, <1>9 DEF RunnerStep

LEMMA LockRunnerStep ==
    ASSUME LockUndisturbed, TypeInv, LivesInv, LockInv, NEW r \in Runs, RunnerStep(r) \/ Kill(r)
    PROVE  LockInv'
<1>0. /\ at[r] \notin {"none", "ended"}
      /\ \A q \in Runs \ {r} : at'[q] = at[q]
      /\ at'[r] # "none"
  BY RunnerBegun, RunnerEffects DEF Kill, LivesInv
<1>1. CASE /\ lock' = lock /\ UNCHANGED <<ownerTmp, api, operator>>
           /\ \/ at'[r] = "ended"
              \/ Working(r) /\ at'[r] \notin {"none", "claim", "claimed", "ended"}
  <2>1. CASE at'[r] = "ended"
    BY <1>0, <1>1, <2>1, UpdateAssumption DEF LockInv, Working, Held, Preparing, RunLabels
  <2>2. CASE Working(r) /\ at'[r] \notin {"none", "claim", "claimed", "ended"}
    BY <1>0, <1>1, <2>2, WorkingAlone DEF LockInv, Working, Held, Preparing, RunLabels
  <2> QED
    BY <1>1, <2>1, <2>2
<1>2. CASE /\ lock' = lock /\ operator' = operator
           /\ Working(r) /\ ownerTmp' = FormerPid(ownerTmp) /\ api' = NoApi
           /\ \/ at'[r] = "ended"
              \/ Working(r) /\ at'[r] \notin {"none", "claim", "claimed", "ended"}
  BY <1>0, <1>2, LockFields, WorkingAlone DEF LockInv, Working, Held, Preparing, RunLabels
<1>3. CASE /\ at[r] = "claim" /\ (Prompt => api.run # r) /\ at'[r] = "claimed"
           /\ ownerTmp' = Owned(r, r) /\ UNCHANGED <<lock, api, operator>>
  <2>1. Held(r) /\ api.run # r
    BY <1>3 DEF LockInv, LockUndisturbed
  <2>2. api.at \notin Preparing
    BY <1>3, <2>1 DEF LockInv
  <2>3. \A q \in Runs \ {r} : at[q] # "claimed"
    BY <2>1, LockFields DEF LockInv, Held, Working
  <2> QED
    BY <1>0, <1>3, <2>1, <2>2, <2>3 DEF LockInv, Working, Held, Preparing, RunLabels
<1>4. CASE /\ at[r] = "claimed" /\ at'[r] = "preflight" /\ operator' = operator
           /\ lock' = ownerTmp /\ ownerTmp' = Free /\ UNCHANGED api
  <2>1. Working(r) /\ ownerTmp = Owned(r, r)
    BY <1>4 DEF LockInv, Working
  <2> QED
    BY <1>0, <1>4, <2>1, WorkingAlone DEF LockInv, Working, Held, Preparing, RunLabels
<1>5. CASE /\ at[r] = "release" /\ at'[r] = "ended" /\ operator' = operator
           /\ lock' = Free /\ ownerTmp' = Free /\ UNCHANGED api
  <2>1. Working(r)
    BY <1>5 DEF Working
  <2> QED
    BY <1>0, <1>5, <2>1, WorkingAlone DEF LockInv, Working, Held, Preparing, RunLabels
<1> QED
  BY <1>1, <1>2, <1>3, <1>4, <1>5, RunnerLocks

(* What the thread makes of its errand, where the lock is concerned.       *)
LEMMA ThreadSteps ==
    ASSUME TypeInv, api.at \notin RunLabels => api.run = NoRun
    PROVE  /\ \A l \in ApiLabels \ RunLabels : api.at \notin RunLabels =>
                 [api EXCEPT !.at = l].at = l /\ [api EXCEPT !.at = l].run = NoRun
           /\ \A l \in ApiLabels : [api EXCEPT !.at = l].at = l /\ [api EXCEPT !.at = l].run = api.run
           /\ \A r \in Runs : [api EXCEPT !.at = "own", !.run = r].at = "own"
                              /\ [api EXCEPT !.at = "own", !.run = r].run = r
           /\ [api EXCEPT !.at = "mkdir", !.tries = api.tries + 1].at = "mkdir"
           /\ [api EXCEPT !.at = "mkdir", !.tries = api.tries + 1].run = api.run
           /\ [api EXCEPT !.at = "result", !.latest = remote].at = "result"
           /\ [api EXCEPT !.at = "result", !.latest = remote].run = api.run
<1>1. api \in ApiRecords
  BY DEF TypeInv, ApiTyped, Apis
<1> QED
  BY <1>1 DEF ApiRecords

LEMMA LockThreadStep ==
    ASSUME LockUndisturbed, TypeInv, LivesInv, DraftsInv, LockInv, ThreadStep
    PROVE  LockInv'
<1>0. /\ RunsTyped /\ ApiTyped /\ (api.at \in RunLabels => api.run \in Runs)
      /\ (api.at \notin RunLabels => api.run = NoRun) /\ NoRun \notin Runs
      /\ operator = "away" /\ operator' = operator
  BY UpdateAssumption
     DEF TypeInv, LockInv, ApiTyped, Apis, ThreadStep, ThreadReportBegins, ThreadReportEnds, Fetch,
         MakeLock, SweepLock, WriteOwner, RenameOwner, Spawn, Handoff, DropLock
<1>1. CASE ThreadReportBegins
  BY <1>0, <1>1 DEF ThreadReportBegins, LockInv, Working, Held
<1>2. CASE ThreadReportEnds
  <2>1. api.at \in ThreadReports
    BY <1>2 DEF DraftsInv, Quiet, ThreadReportEnds, Rename, RenameRaises
  <2>2. /\ UNCHANGED <<lock, ownerTmp, at>>
        /\ \/ api' = NoApi
           \/ api.at # "queue" /\ \E l \in {"fetch", "mkdir", "apology"} : api' = [api EXCEPT !.at = l]
    BY <1>2 DEF ThreadReportEnds, ThreadReturns, ThreadRaises, Move
  <2>3. api'.at \in {"free", "fetch", "mkdir", "apology"} /\ api'.run = NoRun
    <3>1. CASE api' = NoApi
      BY <3>1, LockFields
    <3>2. ASSUME NEW l \in {"fetch", "mkdir", "apology"}, api.at # "queue", api' = [api EXCEPT !.at = l]
          PROVE  api'.at = l /\ api'.run = NoRun
      <4>1. api.run = NoRun
        BY <1>0, <2>1, <3>2 DEF ThreadReports, RunLabels
      <4> QED
        BY <1>0, <3>2, <4>1, ThreadSteps DEF ApiLabels
    <3> QED
      BY <2>2, <3>1, <3>2
  <2>4. \A r \in Runs : at[r] = "claim" => Held(r)
    BY <1>0, <2>1 DEF LockInv, Held, ThreadReports, RunLabels, Preparing
  <2> QED
    BY <1>0, <2>2, <2>3, <2>4 DEF LockInv, Working, Held, Preparing, RunLabels
<1>3. CASE Fetch
  <2>1. /\ at' = at /\ api'.at \in {"result", "apology"} /\ api'.run = NoRun
        /\ \/ UNCHANGED <<lock, ownerTmp>>
           \/ ~LockHeld /\ RemoveLock
    <3>1. \/ api' = [api EXCEPT !.at = "result", !.latest = remote]
          \/ api' = [api EXCEPT !.at = "apology"]
      BY <1>3 DEF Fetch, Move
    <3>2. api.run = NoRun
      BY <1>0, <1>3 DEF Fetch, RunLabels
    <3>3. api'.at \in {"result", "apology"} /\ api'.run = NoRun
      <4>1. /\ [api EXCEPT !.at = "apology"].at = "apology"
            /\ [api EXCEPT !.at = "apology"].run = api.run
        BY <1>0, ThreadSteps DEF ApiLabels
      <4> QED
        BY <1>0, <3>1, <3>2, <4>1, ThreadSteps
    <3> QED
      BY <1>3, <3>3 DEF Fetch
  <2>2. CASE UNCHANGED <<lock, ownerTmp>>
    BY <1>0, <1>3, <2>1, <2>2 DEF Fetch, LockInv, Working, Held, Preparing, RunLabels
  <2>3. CASE ~LockHeld
    <3>1. \A r \in Runs : ~Working(r) /\ ~(at[r] = "claim" /\ api.run # r)
      BY <2>3, WorkingHolds
    <3> QED
      BY <1>0, <1>3, <2>1, <3>1 DEF Fetch, LockInv, Working, Held, Preparing, RunLabels
  <2> QED
    BY <2>1, <2>2, <2>3
<1>4. CASE MakeLock
  <2>0. api.at = "mkdir" /\ at' = at /\ api.run = NoRun
    BY <1>0, <1>4 DEF MakeLock, RunLabels
  <2>1. CASE api' = NoApi /\ UNCHANGED <<lock, ownerTmp>>
    BY <1>0, <2>0, <2>1, LockFields DEF LockInv, Working, Held, Preparing, RunLabels
  <2>2. ASSUME NEW n \in Unused, ~lock.dir, lock' = Made, api' = [api EXCEPT !.at = "own", !.run = n]
        PROVE  LockInv'
    <3>1. \A r \in Runs : ~Working(r) /\ at[r] # "claim"
      BY <1>0, <2>0, <2>2, WorkingHolds DEF LockHeld
    <3>2. api'.at = "own" /\ api'.run = n
      BY <1>0, <2>2, ThreadSteps DEF Unused
    <3> QED
      BY <1>0, <2>0, <2>2, <3>1, <3>2 DEF LockInv, Working, Held, Preparing, RunLabels
  <2>3. CASE ~LockHeld /\ api' = [api EXCEPT !.at = "sweep"] /\ UNCHANGED <<lock, ownerTmp>>
    <3>1. \A r \in Runs : ~Working(r) /\ at[r] # "claim"
      BY <1>0, <2>0, <2>3, WorkingHolds
    <3>2. api'.at = "sweep" /\ api'.run = NoRun
      BY <1>0, <2>0, <2>3, ThreadSteps DEF ApiLabels
    <3> QED
      BY <1>0, <2>0, <2>3, <3>1, <3>2 DEF LockInv, Working, Held, Preparing, RunLabels
  <2> QED
    BY <1>4, <2>1, <2>2, <2>3 DEF MakeLock, ThreadRaises, Move
<1>5. CASE SweepLock
  <2>1. api' = [api EXCEPT !.at = "mkdir", !.tries = api.tries + 1] /\ at' = at /\ api.at = "sweep"
    BY <1>5 DEF SweepLock
  <2>2. api'.at = "mkdir" /\ api'.run = NoRun
    BY <1>0, <2>1, ThreadSteps DEF RunLabels
  <2>3. \A r \in Runs : ~Working(r) /\ at[r] # "claim"
    BY <1>0, <2>1 DEF LockInv, Working, Preparing, RunLabels
  <2> QED
    BY <1>0, <2>1, <2>2, <2>3 DEF LockInv, Working, Held, Preparing, RunLabels
<1>6. CASE WriteOwner
  <2>1. /\ api.at = "own" /\ lock = Made /\ UNCHANGED <<lock, at>>
        /\ ownerTmp' = Owned(api.run, "api") /\ api' = [api EXCEPT !.at = "owned"]
    BY <1>6, LockFields DEF WriteOwner, Move, LockInv
  <2>2. api'.at = "owned" /\ api'.run = api.run
    BY <1>0, <2>1, ThreadSteps DEF ApiLabels
  <2> QED
    BY <1>0, <2>1, <2>2 DEF LockInv, LivesInv, Working, Held, Preparing, RunLabels
<1>7. CASE RenameOwner
  <2>1. CASE api.at = "owned"
    <3>1. /\ lock' = Owned(api.run, "api") /\ api' = [api EXCEPT !.at = "spawn"]
          /\ at' = at
      BY <1>7, <2>1, LockFields DEF RenameOwner, Move, LockInv
    <3>2. api'.at = "spawn" /\ api'.run = api.run
      BY <1>0, <3>1, ThreadSteps DEF ApiLabels
    <3> QED
      BY <1>0, <2>1, <3>1, <3>2 DEF LockInv, LivesInv, Working, Held, Preparing, RunLabels
  <2>2. CASE api.at = "handed"
    <3>1. /\ lock' = Owned(api.run, api.run) /\ api' = [api EXCEPT !.at = "queue"]
          /\ at' = at
      BY <1>7, <2>2, LockFields DEF RenameOwner, Move, LockInv
    <3>2. api'.at = "queue" /\ api'.run = api.run
      BY <1>0, <3>1, ThreadSteps DEF ApiLabels
    <3> QED
      BY <1>0, <2>2, <3>1, <3>2 DEF LockInv, LivesInv, Working, Held, Preparing, RunLabels
  <2> QED
    BY <1>7, <2>1, <2>2 DEF RenameOwner
<1>8. CASE Spawn
  <2>0. api.at = "spawn" /\ UNCHANGED <<lock, ownerTmp>> /\ at[api.run] = "none" /\ api.run \in Runs
    BY <1>0, <1>8 DEF Spawn, files, LivesInv, RunLabels
  <2>1. \A l \in ApiLabels : [api EXCEPT !.at = l].at = l /\ [api EXCEPT !.at = l].run = api.run
    BY <1>0, ThreadSteps
  <2>2. CASE at' = [at EXCEPT ![api.run] = "claim"] /\ api' = [api EXCEPT !.at = "handoff"]
    <3>1. \A q \in Runs : at'[q] = IF q = api.run THEN "claim" ELSE at[q]
      BY <1>0, <2>2 DEF RunsTyped
    <3>2. api'.at = "handoff" /\ api'.run = api.run
      BY <2>1, <2>2 DEF ApiLabels
    <3> QED
      BY <1>0, <2>0, <3>1, <3>2 DEF LockInv, Working, Held, Preparing, RunLabels
  <2>3. CASE at' = at /\ api' = [api EXCEPT !.at = "drop"]
    <3>1. api'.at = "drop" /\ api'.run = api.run
      BY <2>1, <2>3 DEF ApiLabels
    <3> QED
      BY <1>0, <2>0, <2>3, <3>1 DEF LockInv, Working, Held, Preparing, RunLabels
  <2> QED
    BY <1>8, <2>2, <2>3 DEF Spawn, Goto, Move
<1>9. CASE Handoff
  <2>1. /\ api.at = "handoff" /\ UNCHANGED <<lock, at>>
        /\ ownerTmp' = Owned(api.run, api.run) /\ api' = [api EXCEPT !.at = "handed"]
    BY <1>9, LockFields DEF Handoff, Move, LockInv
  <2>2. api'.at = "handed" /\ api'.run = api.run
    BY <1>0, <2>1, ThreadSteps DEF ApiLabels
  <2> QED
    BY <1>0, <2>1, <2>2 DEF LockInv, Working, Held, Preparing, RunLabels
<1>10. CASE DropLock
  <2>1. /\ api.at = "drop" /\ UNCHANGED at /\ api' = NoApi
    BY <1>10 DEF DropLock, ThreadRaises
  <2>2. \A r \in Runs : ~Working(r) /\ at[r] # "claim"
    BY <1>0, <2>1 DEF LockInv, Working, Preparing, RunLabels
  <2> QED
    BY <1>0, <2>1, <2>2, LockFields DEF LockInv, Working, Held, Preparing, RunLabels
<1> QED
  BY <1>1, <1>2, <1>3, <1>4, <1>5, <1>6, <1>7, <1>8, <1>9, <1>10 DEF ThreadStep

LEMMA LockStep ==
    ASSUME LockUndisturbed, TypeInv, LivesInv, DraftsInv, LockInv, [Next]_vars
    PROVE  LockInv'
<1>0. ApiTyped
  BY DEF TypeInv
<1>1. ASSUME NEW r \in Runs, RunnerStep(r) \/ Kill(r) PROVE LockInv'
  BY <1>1, LockRunnerStep
<1>2. CASE ThreadStep
  BY <1>2, LockThreadStep
<1>3. ASSUME NEW by, NEW goal, Begin(by, goal) PROVE LockInv'
  <2>1. /\ UNCHANGED <<lock, ownerTmp, at, operator>> /\ api'.at = "checking" /\ api'.run = NoRun
        /\ api.at = "free"
    BY <1>3 DEF Begin, NoApi, files
  <2> QED
    BY <2>1 DEF LockInv, Working, Held, Preparing, RunLabels
<1>4. CASE PollerStep
  <2>1. (\E goal : Begin("poller", goal)) \/ UNCHANGED <<lock, ownerTmp, at, operator, api>>
    BY <1>4 DEF PollerStep, PollerLooks, PollerCalls, PollerReportBegins, PollerReportEnds, files
  <2>2. CASE UNCHANGED <<lock, ownerTmp, at, operator, api>>
    BY <2>2 DEF LockInv, Working, Held
  <2> QED
    BY <1>3, <2>1, <2>2
<1>5. CASE (\E w \in Writers : WriteTmp(w)) \/ World
  <2>1. UNCHANGED <<lock, ownerTmp, at, operator, api>>
    BY <1>0, <1>5
       DEF WriteTmp, World, Push, StatusPage, OperatorLooks, OperatorSweeps, RestartFromOutside,
           files, LockInv, LockUndisturbed, ApiTyped
  <2> QED
    BY <2>1 DEF LockInv, Working, Held
<1>6. CASE UNCHANGED vars
  BY <1>6 DEF vars, LockInv, Working, Held
<1> QED
  BY <1>1, <1>2, <1>3, <1>4, <1>5, <1>6 DEF Next, AdminAsks

LEMMA LockInvariant == ASSUME LockUndisturbed PROVE Spec => []LockInv
<1>1. Init => LockInv
  BY DEF Init, LockInv, Working, NoApi, Preparing, RunLabels
<1>2. TypeInv /\ LivesInv /\ DraftsInv /\ LockInv /\ [Next]_vars => LockInv'
  BY LockStep
<1> QED
  BY <1>1, <1>2, TypeInvariant, LivesInvariant, DraftsInvariant, PTL DEF Spec

(* When only the API and its runners touch the lock, and a runner looks at *)
(* it after the API has handed it over, a runner owns the lock from its    *)
(* claim to its end, whatever fails, dies or is restarted, and however     *)
(* many updates follow each other.                                         *)
THEOREM RunnerKeepsLock == ASSUME LockUndisturbed PROVE Spec => []RunnerOwnsLock
<1>1. LockInv => RunnerOwnsLock
  BY LockFields DEF LockInv, RunnerOwnsLock, Working, Held
<1> QED
  BY <1>1, LockInvariant, PTL

-----------------------------------------------------------------------------
(* The reports of a runner: nobody else writes the status file             *)

(* From where to where the thread goes, unless it returns or raises.       *)
Walks(l, m) ==
    \/ l = "checking" /\ m = "fetch"
    \/ l = "fetch" /\ m \in {"result", "apology"}
    \/ l = "result" /\ m \in {"mkdir", "apology"}
    \/ l = "mkdir" /\ m \in {"sweep", "own"}
    \/ l = "sweep" /\ m = "mkdir"
    \/ l = "own" /\ m = "owned"
    \/ l = "owned" /\ m = "spawn"
    \/ l = "spawn" /\ m \in {"handoff", "drop"}
    \/ l = "handoff" /\ m \in {"handed", "queue"}
    \/ l = "handed" /\ m \in {"queue", "drop"}

LEMMA ThreadWalks ==
    ASSUME TypeInv, DraftsInv, ThreadStep
    PROVE  \/ api' = NoApi
           \/ api' = api
           \/ /\ Walks(api.at, api'.at)
              /\ IF api'.at = "own" THEN api'.run \in Unused ELSE api'.run = api.run
              /\ api.at = "result" /\ api'.at = "mkdir" => api.goal = "start"
<1>0. api \in ApiRecords
  BY DEF TypeInv, ApiTyped, Apis
<1>e. \A l \in ApiLabels : [api EXCEPT !.at = l].at = l /\ [api EXCEPT !.at = l].run = api.run
  BY <1>0 DEF ApiRecords
<1>1. CASE ThreadReportBegins
  BY <1>1 DEF ThreadReportBegins
<1>2. CASE ThreadReportEnds
  <2>1. \/ api' = NoApi
        \/ api.at = "checking" /\ api' = [api EXCEPT !.at = "fetch"]
        \/ api.at = "result" /\ api.goal = "start" /\ api' = [api EXCEPT !.at = "mkdir"]
        \/ api.at = "result" /\ api' = [api EXCEPT !.at = "apology"]
    BY <1>2 DEF ThreadReportEnds, ThreadReturns, ThreadRaises, Move
  <2>2. \A l \in {"fetch", "mkdir", "apology"} :
            api' = [api EXCEPT !.at = l] => api'.at = l /\ api'.run = api.run
    BY <1>e DEF ApiLabels
  <2>3. \/ api' = NoApi
        \/ api.at = "checking" /\ api'.at = "fetch" /\ api'.run = api.run
        \/ api.at = "result" /\ api.goal = "start" /\ api'.at = "mkdir" /\ api'.run = api.run
        \/ api.at = "result" /\ api'.at = "apology" /\ api'.run = api.run
    BY <2>1, <2>2
  <2> QED
    BY <2>3 DEF Walks
<1>3. CASE Fetch
  <2>1. \/ api' = [api EXCEPT !.at = "result", !.latest = remote]
        \/ api' = [api EXCEPT !.at = "apology"]
    BY <1>3 DEF Fetch, Move
  <2>2. api.at = "fetch" /\ api'.at \in {"result", "apology"} /\ api'.run = api.run
    BY <1>0, <1>3, <2>1 DEF Fetch, ApiRecords
  <2> QED
    BY <2>2 DEF Walks
<1>4. CASE MakeLock
  <2>1. /\ api.at = "mkdir"
        /\ \/ api' = NoApi
           \/ api' = [api EXCEPT !.at = "sweep"]
           \/ \E r \in Unused : api' = [api EXCEPT !.at = "own", !.run = r]
    BY <1>4 DEF MakeLock, ThreadRaises, Move
  <2>2. \A r : [api EXCEPT !.at = "own", !.run = r].at = "own" /\ [api EXCEPT !.at = "own", !.run = r].run = r
    BY <1>0 DEF ApiRecords
  <2>3. CASE api' = [api EXCEPT !.at = "sweep"]
    BY <1>e, <2>1, <2>3 DEF Walks, ApiLabels
  <2>4. ASSUME NEW r \in Unused, api' = [api EXCEPT !.at = "own", !.run = r]
        PROVE  Walks(api.at, api'.at) /\ api'.at = "own" /\ api'.run \in Unused
    BY <2>1, <2>2, <2>4 DEF Walks
  <2> QED
    BY <2>1, <2>3, <2>4
<1>5. CASE SweepLock
  <2>1. api.at = "sweep" /\ api' = [api EXCEPT !.at = "mkdir", !.tries = @ + 1]
    BY <1>5 DEF SweepLock
  <2>2. api'.at = "mkdir" /\ api'.run = api.run
    BY <1>0, <2>1 DEF ApiRecords
  <2> QED
    BY <2>1, <2>2 DEF Walks
<1>6. CASE WriteOwner \/ RenameOwner \/ Spawn \/ Handoff \/ DropLock
  <2>1. \/ api' = NoApi
        \/ api.at = "own" /\ api' = [api EXCEPT !.at = "owned"]
        \/ api.at = "owned" /\ api' = [api EXCEPT !.at = "spawn"]
        \/ api.at = "spawn" /\ (api' = [api EXCEPT !.at = "handoff"] \/ api' = [api EXCEPT !.at = "drop"])
        \/ api.at = "handoff" /\ (api' = [api EXCEPT !.at = "handed"] \/ api' = [api EXCEPT !.at = "queue"])
        \/ api.at = "handed" /\ (api' = [api EXCEPT !.at = "queue"] \/ api' = [api EXCEPT !.at = "drop"])
    BY <1>6 DEF WriteOwner, RenameOwner, Spawn, Handoff, DropLock, ThreadRaises, Move
  <2>2. \A l \in {"owned", "spawn", "handoff", "drop", "handed", "queue"} :
            api' = [api EXCEPT !.at = l] => api'.at = l /\ api'.run = api.run
    BY <1>e DEF ApiLabels
  <2>3. \/ api' = NoApi
        \/ /\ api'.run = api.run
           /\ \/ api.at = "own" /\ api'.at = "owned"
              \/ api.at = "owned" /\ api'.at = "spawn"
              \/ api.at = "spawn" /\ api'.at \in {"handoff", "drop"}
              \/ api.at = "handoff" /\ api'.at \in {"handed", "queue"}
              \/ api.at = "handed" /\ api'.at \in {"queue", "drop"}
    BY <2>1, <2>2
  <2> QED
    BY <2>3 DEF Walks
<1> QED
  BY <1>1, <1>2, <1>3, <1>4, <1>5, <1>6 DEF ThreadStep

(* The thread that hands an update over: its runner waits for it.          *)
HandInv ==
    /\ api.at \notin RunLabels => api.run = NoRun
    /\ api.at \in RunLabels => at[api.run] \in {"none", "claim", "ended"}
    /\ api.at \in {"handoff", "handed", "queue"} => at[api.run] # "none"
    /\ api.at \in {"mkdir", "sweep"} \cup RunLabels => api.goal = "start"

LEMMA HandStep == Prompt /\ TypeInv /\ LivesInv /\ DraftsInv /\ HandInv /\ [Next]_vars => HandInv'
<1> SUFFICES ASSUME Prompt, TypeInv, LivesInv, DraftsInv, HandInv, [Next]_vars PROVE HandInv'
  OBVIOUS
<1>0. RunsTyped /\ (api.at \in RunLabels => api.run \in Runs)
  BY DEF TypeInv, ApiTyped, Apis
<1>n. ASSUME api' = NoApi PROVE HandInv'
  BY <1>n DEF HandInv, NoApi, RunLabels
<1>1. ASSUME NEW r \in Runs, RunnerStep(r) \/ Kill(r) PROVE HandInv'
  <2>1. /\ \A q \in Runs \ {r} : at'[q] = at[q]
        /\ at'[r] # "none" /\ (api' = api \/ api' = NoApi)
    BY <1>1, RunnerEffects
  <2>2. CASE api' = api /\ api.at \in RunLabels /\ api.run = r
    <3>1. at'[r] = "ended"
      <4>1. CASE Kill(r)
        BY <1>0, <4>1 DEF Kill, End, Goto, RunsTyped
      <4>2. CASE RunnerStep(r)
        <5>1. at[r] = "claim"
          BY <2>2, <4>2, RunnerBegun DEF HandInv
        <5>2. ~Claim(r)
          BY <2>2 DEF Claim
        <5> QED
          BY <4>2, <5>1, <5>2, ReportTable
             DEF RunnerStep, ClaimRename, ReportBegins, ReportEnds, Verify, Lockdown, Quiesce, Command,
                 Dump, Install, Build, Probe, Switch, Point, Migrate, Restart, Reopen, Resume, Downgrade,
                 Revert, Repoint, Rebuild, Restore, Release, Reports
      <4> QED
        BY <1>1, <4>1, <4>2
    <3> QED
      BY <2>2, <3>1 DEF HandInv
  <2>3. CASE api' = api /\ ~(api.at \in RunLabels /\ api.run = r)
    BY <1>0, <2>1, <2>3 DEF HandInv, RunLabels
  <2> QED
    BY <1>n, <2>1, <2>2, <2>3
<1>2. CASE ThreadStep
  <2>1. CASE api' = api
    BY <1>0, <1>2, <2>1, OutsiderEffects DEF Outsiders, HandInv, LivesInv, RunsTyped, RunLabels
  <2>2. ASSUME Walks(api.at, api'.at), api'.goal = api.goal,
               IF api'.at = "own" THEN api'.run \in Unused ELSE api'.run = api.run,
               api.at = "result" /\ api'.at = "mkdir" => api.goal = "start"
        PROVE  HandInv'
    <3>1. CASE api'.at = "own"
      <4>1. at' = at /\ at[api'.run] = "none" /\ api.at = "mkdir"
        BY <1>0, <1>2, <2>2, <3>1, OutsiderEffects DEF Outsiders, LivesInv, Unused, Walks
      <4> QED
        BY <2>2, <3>1, <4>1 DEF HandInv, RunLabels
    <3>2. CASE api'.at # "own" /\ api.at = "spawn"
      <4>1. \/ at' = [at EXCEPT ![api.run] = "claim"]
            \/ at' = at /\ api' = [api EXCEPT !.at = "drop"]
        <5>1. Spawn
          BY <1>2, <2>2, <3>2
             DEF ThreadStep, Walks, ThreadReportBegins, ThreadReportEnds, Fetch, MakeLock, SweepLock,
                 WriteOwner, RenameOwner, Handoff, DropLock, ThreadReports, ThreadPhase,
                 DraftsInv, Quiet, Rename, RenameRaises
        <5> QED
          BY <5>1 DEF Spawn, Goto, Move
      <4>2. [api EXCEPT !.at = "drop"].at = "drop"
        BY DEF TypeInv, ApiTyped, Apis, ApiRecords
      <4> QED
        BY <1>0, <2>2, <3>2, <4>1, <4>2 DEF HandInv, RunLabels, Walks, RunsTyped
    <3>3. CASE api'.at # "own" /\ api.at # "spawn"
      <4>1. at' = at
        BY <1>2, <3>3, OutsiderEffects DEF Outsiders
      <4> QED
        BY <2>2, <3>3, <4>1 DEF HandInv, RunLabels, Walks
    <3> QED
      BY <3>1, <3>2, <3>3
  <2> QED
    BY <1>n, <1>2, <2>1, <2>2, ThreadWalks, ThreadErrand
<1>3. ASSUME NEW by, NEW goal, Begin(by, goal) PROVE HandInv'
  BY <1>3 DEF Begin, NoApi, HandInv, RunLabels
<1>4. CASE AdminAsks \/ PollerStep \/ (\E w \in Writers : WriteTmp(w)) \/ World
  <2>1. \/ api' = NoApi \/ UNCHANGED <<at, api>>
        \/ \E by, goal : Begin(by, goal)
    BY <1>4 DEF AdminAsks, PollerStep, PollerLooks, PollerCalls, PollerReportBegins, PollerReportEnds,
                WriteTmp, World, Push, StatusPage, OperatorLooks, OperatorSweeps, RestartFromOutside,
                MakeRestart, RestartServices
  <2> QED
    BY <1>n, <1>3, <2>1 DEF HandInv
<1>5. CASE UNCHANGED vars
  BY <1>5 DEF vars, HandInv
<1> QED
  BY <1>1, <1>2, <1>4, <1>5 DEF Next

LEMMA HandInvariant == ASSUME Prompt PROVE Spec => []HandInv
<1>1. Init => HandInv
  BY DEF Init, HandInv, NoApi, RunLabels
<1>2. TypeInv /\ LivesInv /\ DraftsInv /\ HandInv /\ [Next]_vars => HandInv'
  BY HandStep
<1> QED
  BY <1>1, <1>2, TypeInvariant, LivesInvariant, DraftsInvariant, PTL DEF Spec

(* From the moment the API lets go of it until it has said how it ended, a *)
(* runner has the status file to itself.                                   *)
PreFinal == Labels \ {"none", "claim", "release", "ended"}
Reporting(r) == at[r] \in PreFinal \/ (at[r] = "claim" /\ api.run # r /\ lock.dir /\ lock.run = r)
Drafting(w, s) ==
    /\ draft[w].stage = "read" => draft[w].content = s
    /\ draft[w].stage = "written" => statusTmp = [there |-> TRUE, content |-> s]
Reported(r) == [phase |-> Report[at[r]], pid |-> r]
Queued(r) == [phase |-> "queued", pid |-> r]

ReportInv ==
    /\ \A r \in Runs : Reporting(r) =>
          api.at = "free" /\ poller = "asleep" /\ Active(status) /\ status.pid = r
    /\ \A r \in Runs : at[r] \in Reports => Drafting(r, Reported(r))
    /\ api.at = "queue" => Drafting("thread", Queued(api.run))
    /\ api.at \in {"owned", "handed"} /\ ownerTmp.dir => ownerTmp.run = api.run
    /\ \A r \in Runs : at[r] = "claimed" /\ ownerTmp.dir => ownerTmp.run = r

(* What the settings in force must add: while the thread reports that an   *)
(* update is queued, the poller neither begins one of its own nor declares *)
(* one dead, and the API is not restarted with an update in its hands.     *)
Sheltered ==
    /\ Prompt /\ AdminGoals \subseteq {"start"}
    /\ api.at = "queue" => api.by = "poller" \/ (poller = "asleep" /\ Quiet("poller"))
    /\ outside < MaxOutside => \A r \in Runs :
          at[r] = "claim" /\ api.run = r /\ lock.dir /\ lock.run = r => LockHeld /\ background

ReportBase == Sheltered /\ TypeInv /\ LivesInv /\ DraftsInv /\ HandInv /\ ReportInv

LEMMA ReportingAlone ==
    ASSUME ReportBase, NEW r \in Runs, Reporting(r)
    PROVE  /\ api.at = "free" /\ api.run = NoRun /\ poller = "asleep"
           /\ Active(status) /\ status.pid = r
           /\ proc[r] = "alive" /\ Running(r)
           /\ \A q \in Runs \ {r} : ~Reporting(q) /\ at[q] \notin Reports /\ Quiet(q)
           /\ Quiet("thread") /\ Quiet("poller")
<1>1. /\ api.at = "free" /\ api.run = NoRun /\ poller = "asleep"
      /\ Active(status) /\ status.pid = r
  BY DEF ReportBase, ReportInv, HandInv, RunLabels
<1>2. proc[r] = "alive"
  BY DEF ReportBase, LivesInv, TypeInv, RunsTyped, Reporting, PreFinal
<1>3. ASSUME NEW q \in Runs \ {r} PROVE ~Reporting(q) /\ at[q] \notin Reports /\ Quiet(q)
  <2>1. ~Reporting(q)
    BY <1>1 DEF ReportBase, ReportInv
  <2>2. Reports \subseteq PreFinal
    BY LabelsKnown DEF Reports, PreFinal
  <2> QED
    BY <2>1, <2>2 DEF Reporting, ReportBase, DraftsInv
<1>4. Quiet("thread") /\ Quiet("poller")
  BY <1>1 DEF ReportBase, DraftsInv, ThreadReports
<1> QED
  BY <1>1, <1>2, <1>3, <1>4 DEF Running

LEMMA ReportsArePreFinal ==
    /\ Reports \subseteq PreFinal
    /\ \A r \in Runs : at[r] \in Reports => Reporting(r)
  BY LabelsKnown DEF Reports, PreFinal, Reporting

LEMMA ReportSucceeds ==
    ASSUME ReportBase, NEW r \in Runs, ReportEnds(r)
    PROVE  /\ at[r] \in Reports /\ at' = [at EXCEPT ![r] = After[at[r]]]
           /\ status' = Reported(r)
<1>1. at[r] \in Reports /\ Drafting(r, Reported(r))
  BY ReportTable DEF ReportEnds, ReportBase, ReportInv
<1>2. Rename(r) /\ Goto(r, After[at[r]])
  BY <1>1 DEF ReportEnds, RenameRaises, Drafting
<1> QED
  BY <1>1, <1>2 DEF Rename, Goto, Drafting

(* What a step of a runner does to the lock, whoever owns it.              *)
LEMMA RunnerLocksAny ==
    ASSUME TypeInv, NEW r \in Runs, RunnerStep(r) \/ Kill(r)
    PROVE  /\ lock'.dir => \/ lock.dir /\ lock'.run = lock.run
                           \/ at[r] = "claimed" /\ ownerTmp.dir /\ lock'.run = ownerTmp.run
           /\ ownerTmp'.dir => \/ ownerTmp.dir /\ ownerTmp'.run = ownerTmp.run
                               \/ at[r] = "claim" /\ ownerTmp'.run = r
           /\ at'[r] = "claimed" => at[r] = "claim" /\ ownerTmp'.run = r
           /\ at[r] = "claimed" => at'[r] # "claimed"
           /\ at'[r] # "claim"
<1>0. RunsTyped /\ lock \in Locks /\ ownerTmp \in Locks
  BY DEF TypeInv, FilesTyped
<1>f. \A o \in Locks : FormerPid(o).dir = o.dir /\ FormerPid(o).run = o.run
  BY DEF FormerPid, Locks
<1>m. MakeRestart =>
        /\ lock'.dir => lock.dir /\ lock'.run = lock.run
        /\ ownerTmp'.dir => ownerTmp.dir /\ ownerTmp'.run = ownerTmp.run
  BY <1>0, <1>f, LockFields DEF MakeRestart, RestartServices
<1>1. CASE Claim(r) \/ ClaimRename(r)
  BY <1>0, <1>1, LockFields DEF Claim, ClaimRename, End, Goto, RunsTyped
<1>2. CASE Release(r) \/ Kill(r)
  BY <1>0, <1>2, LockFields DEF Release, Kill, RemoveLock, End, Goto, RunsTyped
<1>3. CASE ReportBegins(r) \/ ReportEnds(r)
  <2>1. \A l \in Reports : l \notin {"claim", "claimed"} /\ After[l] \notin {"claim", "claimed"}
    BY DEF After, Reports
  <2> QED
    BY <1>0, <1>3, <2>1, ReportTable DEF ReportBegins, ReportEnds, Raise, Goto, RunsTyped
<1>4. CASE Verify(r) \/ Lockdown(r) \/ Quiesce(r) \/ Command(r) \/ Rebuild(r) \/ Migrate(r)
           \/ Reopen(r) \/ Downgrade(r)
  BY <1>0, <1>4 DEF Verify, Lockdown, Quiesce, Command, Dump, Install, Build, Probe, Rebuild, Migrate,
                    Reopen, Downgrade, Raise, Goto, RunsTyped, files
<1>5. CASE Switch(r) \/ Point(r) \/ Revert(r) \/ Repoint(r)
  BY <1>0, <1>5, LockFields DEF Switch, Point, Hook, Revert, Repoint, files, Raise, RemoveLock, Goto, RunsTyped
<1>6. CASE Restart(r) \/ Resume(r) \/ Restore(r)
  BY <1>0, <1>6, <1>m DEF Restart, Resume, Restore, Goto, RunsTyped
<1> QED
  BY <1>1, <1>2, <1>3, <1>4, <1>5, <1>6 DEF RunnerStep

LEMMA ReportRunnerStep ==
    ASSUME ReportBase, NEW r \in Runs, RunnerStep(r) \/ Kill(r)
    PROVE  ReportInv'
<1>0. /\ TypeInv /\ RunsTyped /\ at'[r] # "none" /\ at[r] \notin {"none", "ended"}
      /\ \A q \in Runs \ {r} : at'[q] = at[q] /\ draft'[q] = draft[q]
  BY RunnerEffects, RunnerDrafts, RunnerBegun, WritersKnown DEF ReportBase, TypeInv, Kill, LivesInv
<1>1. CASE Reporting(r)
  <2>1. api' = api \/ api' = NoApi
    BY <1>0, RunnerEffects
  <2>2. api'.at = "free" /\ api'.run = NoRun /\ api.run = NoRun
    BY <1>1, <2>1, ReportingAlone, LockFields
  <2>3. poller' = "asleep"
    BY <1>0, <1>1, RunnerDrafts, ReportingAlone
  <2>4. \A q \in Runs \ {r} : ~Reporting(q)'
    <3>1. TAKE q \in Runs \ {r}
    <3>2. ~Reporting(q) /\ at'[q] = at[q]
      BY <1>0, <1>1, ReportingAlone
    <3>3. lock'.dir /\ lock'.run = q => lock.dir /\ lock.run = q
      BY <1>0, RunnerLocksAny DEF ReportBase, ReportInv
    <3>4. api.run # q
      BY <2>2, UpdateAssumption
    <3> QED
      BY <3>2, <3>3, <3>4 DEF Reporting
  <2>5. Reporting(r)' => Active(status)' /\ status'.pid = r
    <3>1. CASE ReportEnds(r)
      <4>1. at'[r] = After[at[r]] /\ status' = Reported(r) /\ at[r] \in Reports
        BY <1>0, <3>1, ReportSucceeds DEF RunsTyped
      <4>2. \A l \in Reports : /\ After[l] # "claim"
                               /\ After[l] # "release" => Report[l] \in ActivePhases
        BY DEF After, Report, Reports, ActivePhases
      <4>3. Reporting(r)' => After[at[r]] # "release"
        BY <4>1, <4>2 DEF Reporting, PreFinal
      <4>4. status'.phase = Report[at[r]] /\ status'.pid = r
        BY <4>1 DEF Reported
      <4> QED
        BY <4>1, <4>2, <4>3, <4>4 DEF Active
    <3>2. CASE ~ReportEnds(r)
      <4>1. status' = status
        BY <1>0, <3>2, RunnerDrafts
      <4>2. Active(status) /\ status.pid = r
        BY <1>1, ReportingAlone
      <4> QED
        BY <4>1, <4>2 DEF Active
    <3> QED
      BY <3>1, <3>2
  <2>6. \A q \in Runs : at'[q] \in Reports => Drafting(q, Reported(q))'
    <3>1. ASSUME NEW q \in Runs \ {r}, at'[q] \in Reports PROVE FALSE
      BY <1>0, <1>1, <3>1, ReportingAlone
    <3>2. ASSUME at'[r] \in Reports PROVE Drafting(r, Reported(r))'
      <4>1. CASE Quiet(r)'
        BY <4>1 DEF Quiet, Drafting
      <4>2. CASE ReportBegins(r)
        <5>1. /\ at' = at /\ draft'[r] = [stage |-> "read", content |-> [status EXCEPT !.phase = Report[at[r]]]]
          BY <1>0, <4>2, WritersKnown DEF ReportBegins, Reads, TypeInv, FilesTyped
        <5>2. [status EXCEPT !.phase = Report[at[r]]] = Reported(r)
          <6>1. status.pid = r /\ status \in Statuses
            BY <1>0, <1>1, ReportingAlone DEF TypeInv, FilesTyped
          <6> QED
            BY <6>1 DEF Statuses, Reported
        <5> QED
          BY <5>1, <5>2 DEF Drafting, Reported
      <4>3. CASE ~Quiet(r)' /\ ~ReportBegins(r)
        <5>1. at[r] \notin Reports => Quiet(r) /\ draft'[r] = draft[r]
          BY <1>0, <4>3, RunnerDrafts DEF ReportBase, DraftsInv, Quiet, NoDraft
        <5>2. at[r] \in Reports
          BY <4>3, <5>1 DEF Quiet
        <5>3. ~ReportEnds(r) /\ ~Kill(r)
          BY <1>0, <4>3, WritersKnown
             DEF ReportEnds, Kill, Rename, RenameRaises, Quiet, NoDraft, TypeInv, FilesTyped
        <5> QED
          BY <1>0, <4>3, <5>2, <5>3
             DEF RunnerStep, Claim, ClaimRename, Verify, Lockdown, Quiesce, Command, Dump, Install,
                 Build, Probe, Switch, Point, Migrate, Restart, Reopen, Resume, Downgrade, Revert, Repoint, Rebuild,
                 Restore, Release, Reports
      <4> QED
        BY <4>1, <4>2, <4>3
    <3> QED
      BY <3>1, <3>2
  <2>7. \A q \in Runs : at'[q] = "claimed" /\ ownerTmp'.dir => ownerTmp'.run = q
    <3>1. ASSUME NEW q \in Runs \ {r}, at'[q] = "claimed" PROVE FALSE
      <4>1. "claimed" \in PreFinal
        BY LabelsKnown DEF PreFinal
      <4> QED
        BY <1>0, <1>1, <3>1, <4>1, ReportingAlone DEF Reporting
    <3> QED
      BY <1>0, <3>1, RunnerLocksAny
  <2> QED
    BY <2>2, <2>3, <2>4, <2>5, <2>6, <2>7 DEF ReportInv
<1>2. CASE ~Reporting(r)
  <2>1. /\ at'[r] = "ended" /\ UNCHANGED <<api, poller, status, statusTmp>>
        /\ draft'["thread"] = draft["thread"]
        /\ lock' = lock \/ lock' = Free
        /\ ownerTmp' = ownerTmp \/ ownerTmp' = Free
    <3>1. CASE Kill(r)
      BY <1>0, <3>1, WritersKnown DEF Kill, End, Goto, RunsTyped, TypeInv, FilesTyped
    <3>2. CASE RunnerStep(r) /\ at[r] = "release"
      <4>1. Release(r)
        BY <3>2, ReportTable
           DEF RunnerStep, Claim, ClaimRename, ReportBegins, ReportEnds, Verify, Lockdown, Quiesce,
               Command, Dump, Install, Build, Probe, Switch, Point, Migrate, Restart, Reopen, Resume, Downgrade,
               Revert, Repoint, Rebuild, Restore, Reports
      <4> QED
        BY <1>0, <4>1, LockFields DEF Release, RemoveLock, End, Goto, RunsTyped
    <3>3. CASE RunnerStep(r) /\ at[r] = "claim"
      <4>1. Claim(r)
        BY <3>3, ReportTable
           DEF RunnerStep, Release, ClaimRename, ReportBegins, ReportEnds, Verify, Lockdown, Quiesce,
               Command, Dump, Install, Build, Probe, Switch, Point, Migrate, Restart, Reopen, Resume, Downgrade,
               Revert, Repoint, Rebuild, Restore, Reports
      <4> QED
        BY <1>0, <1>2, <3>3, <4>1 DEF Claim, Reporting, ReportBase, Sheltered, End, Goto, RunsTyped
    <3> QED
      BY <1>0, <1>2, <3>1, <3>2, <3>3 DEF Reporting, PreFinal, RunsTyped
  <2>2. \A q \in Runs : Reporting(q)' => Reporting(q)
    BY <1>0, <2>1, LockFields DEF Reporting, PreFinal
  <2>3. \A q \in Runs : at'[q] \in Reports => q # r
    BY <2>1 DEF Reports
  <2> QED
    BY <1>0, <2>1, <2>2, <2>3, LockFields DEF ReportBase, ReportInv, Drafting, Reported, Queued, Active
<1> QED
  BY <1>1, <1>2

(* Without a runner that reports, every runner is quiet. *)
LEMMA NobodyReports ==
    ASSUME ReportBase, \A r \in Runs : ~Reporting(r)
    PROVE  \A r \in Runs : at[r] \notin PreFinal /\ at[r] \notin Reports /\ at[r] # "claimed" /\ Quiet(r)
  BY LabelsKnown, ReportsArePreFinal DEF ReportBase, DraftsInv, Reporting, PreFinal

LEMMA ReportThreadStep ==
    ASSUME ReportBase, ThreadStep
    PROVE  ReportInv'
<1>0. /\ TypeInv /\ RunsTyped /\ api.at # "free" /\ (api.at \in RunLabels => api.run \in Runs)
      /\ (api.at \notin RunLabels => api.run = NoRun) /\ NoRun \notin Runs
  BY UpdateAssumption
     DEF ReportBase, TypeInv, HandInv, DraftsInv, ApiTyped, Apis, Quiet, ThreadReports, ThreadStep,
         ThreadReportBegins, ThreadReportEnds, ThreadPhase, Rename, RenameRaises, Fetch, MakeLock,
         SweepLock, WriteOwner, RenameOwner, Spawn, Handoff, DropLock
<1>1. \A r \in Runs : ~Reporting(r)
  BY <1>0, ReportingAlone
<1>2. \A r \in Runs : at[r] \notin PreFinal /\ at[r] \notin Reports /\ at[r] # "claimed" /\ Quiet(r)
  BY <1>1, NobodyReports
<1>3. \A r \in Runs : at'[r] = at[r] \/ (Spawn /\ r = api.run /\ api'.run = r /\ at'[r] = "claim")
  <2>1. CASE at' = at
    BY <2>1
  <2>2. CASE /\ api.at = "spawn" /\ at' = [at EXCEPT ![api.run] = "claim"]
             /\ api' = [api EXCEPT !.at = "handoff"]
    <3>1. Spawn
      BY <1>2, <2>2
         DEF ThreadStep, ThreadReportBegins, ThreadReportEnds, Fetch, MakeLock, SweepLock, WriteOwner,
             RenameOwner, Handoff, DropLock, ThreadPhase, ThreadReports, ReportBase, DraftsInv, Quiet,
             Rename, RenameRaises
    <3>2. api'.run = api.run
      BY <1>0, <2>2 DEF TypeInv, ApiTyped, Apis, ApiRecords
    <3> QED
      BY <1>0, <2>2, <3>1, <3>2 DEF RunsTyped
  <2> QED
    BY <1>0, <2>1, <2>2, OutsiderEffects DEF Outsiders
<1>4. \A r \in Runs : at'[r] \notin PreFinal /\ at'[r] \notin Reports /\ at'[r] # "claimed"
  BY <1>2, <1>3 DEF PreFinal, Reports
(* A runner that the thread lets go of has its status and its lock. *)
<1>5. ASSUME NEW r \in Runs, Reporting(r)'
      PROVE  api'.at = "free" /\ poller' = "asleep" /\ Active(status)' /\ status'.pid = r
  <2>1. at'[r] = "claim" /\ api'.run # r /\ lock'.dir /\ lock'.run = r
    BY <1>4, <1>5 DEF Reporting
  <2>2. at[r] = "claim" /\ (api.run = r \/ ~(lock.dir /\ lock.run = r))
    BY <1>1, <1>3, <2>1 DEF Reporting
  <2>3. api.run = r
    <3>1. CASE RenameOwner
      <4>1. (lock' = ownerTmp /\ ownerTmp.dir) \/ lock' = lock
        BY <3>1 DEF RenameOwner
      <4> QED
        BY <2>1, <2>2, <3>1, <4>1 DEF RenameOwner, ReportBase, ReportInv
    <3>2. CASE ~RenameOwner
      <4>1. lock' = lock \/ lock' = Free \/ lock' = Made
        BY <3>2 DEF ThreadStep, ThreadReportBegins, ThreadReportEnds, Fetch, MakeLock, SweepLock,
                    WriteOwner, Spawn, Handoff, DropLock, RemoveLock, files
      <4> QED
        BY <1>0, <2>1, <2>2, <4>1, LockFields
    <3> QED
      BY <3>1, <3>2
  <2>4. api.at \in RunLabels /\ at[api.run] = "claim"
    BY <1>0, <2>2, <2>3
  <2>5. api' = NoApi
    BY <1>0, <2>1, <2>3, <2>4, ThreadWalks DEF ReportBase, Walks, RunLabels
  <2>6. CASE ThreadReportEnds
    <3>1. api.at = "queue"
      BY <2>4, <2>6 DEF ReportBase, DraftsInv, ThreadReportEnds, Rename, RenameRaises, Quiet,
                        ThreadReports, RunLabels
    <3>2. draft["thread"].stage = "written" /\ statusTmp = [there |-> TRUE, content |-> Queued(r)]
      BY <2>3, <2>6, <3>1 DEF ReportBase, ReportInv, Drafting, ThreadReportEnds, Rename, RenameRaises
    <3>3. status' = Queued(r) /\ ThreadReturns
      BY <2>6, <3>1, <3>2 DEF ThreadReportEnds, Rename, RenameRaises
    <3>4. poller' = "asleep"
      BY <3>1, <3>3 DEF ThreadReturns, ReportBase, HandInv, Sheltered, RunLabels
    <3>5. Active(Queued(r)) /\ Queued(r).pid = r
      BY DEF Active, Queued, ActivePhases
    <3> QED
      BY <2>5, <3>3, <3>4, <3>5, LockFields DEF Active
  <2>7. CASE WriteOwner \/ RenameOwner
    <3>1. api.at \in {"own", "owned"}
      BY <2>5, <2>7, LockFields DEF WriteOwner, RenameOwner, Move, ReportBase, TypeInv, ApiTyped, Apis,
         ApiRecords, NoApi
    <3> QED
      BY <2>3, <2>4, <3>1 DEF ReportBase, LivesInv
  <2>8. CASE DropLock
    BY <2>1, <2>2, <2>3, <2>8, LockFields DEF DropLock, RemoveLock
  <2>9. CASE ~(ThreadReportEnds \/ WriteOwner \/ RenameOwner \/ DropLock)
    <3>1. api' # NoApi
      <4>1. api \in ApiRecords
        BY <1>0 DEF TypeInv, ApiTyped, Apis
      <4>2. \A l \in ApiLabels : [api EXCEPT !.at = l].at = l
        BY <4>1 DEF ApiRecords
      <4>3. \/ api' = api
            \/ api' = [api EXCEPT !.at = "handoff"] \/ api' = [api EXCEPT !.at = "drop"]
            \/ api' = [api EXCEPT !.at = "handed"] \/ api' = [api EXCEPT !.at = "queue"]
        BY <2>4, <2>9 DEF ThreadStep, ThreadReportBegins, Fetch, MakeLock, SweepLock, Spawn, Handoff,
                          Move, RunLabels
      <4>4. api'.at # "free"
        BY <1>0, <4>2, <4>3 DEF ApiLabels
      <4> QED
        BY <4>4, LockFields
    <3> QED
      BY <2>5, <3>1
  <2> QED
    BY <2>6, <2>7, <2>8, <2>9
<1>6. api'.at = "queue" => Drafting("thread", Queued(api.run))'
  <2>1. CASE ThreadReportBegins
    <3>1. api' = api
      BY <2>1 DEF ThreadReportBegins
    <3>2. api.at = "queue" => draft'["thread"] = [stage |-> "read", content |-> Queued(api.run)]
      BY <1>0, <2>1, WritersKnown
         DEF ThreadReportBegins, Reads, TypeInv, FilesTyped, ThreadPhase, Queued
    <3> QED
      BY <3>1, <3>2 DEF Drafting
  <2>2. CASE ~ThreadReportBegins
    <3>1. api.at \in {"handoff", "handed"} \/ api'.at # "queue"
      <4>1. api' = api /\ api'.at = "queue" => FALSE
        <5>1. api' = api /\ api.at = "queue" => ThreadReportEnds
          BY <2>2 DEF ThreadStep, Fetch, MakeLock, SweepLock, WriteOwner, RenameOwner, Spawn, Handoff, DropLock
        <5>2. ThreadReportEnds /\ api.at = "queue" => api' = NoApi
          BY DEF ThreadReportEnds, ThreadReturns, ThreadRaises
        <5> QED
          BY <5>1, <5>2, LockFields
      <4> QED
        BY <4>1, ThreadWalks, LockFields DEF ReportBase, Walks
    <3>2. api.at \in {"handoff", "handed"} => Quiet("thread")'
      BY ThreadDrafts DEF ReportBase, DraftsInv, Quiet, ThreadReports, NoDraft
    <3> QED
      BY <3>1, <3>2 DEF Drafting, Quiet
  <2> QED
    BY <2>1, <2>2
<1>7. api'.at \in {"owned", "handed"} /\ ownerTmp'.dir => ownerTmp'.run = api'.run
  <2>1. CASE api' = api /\ api.at \in {"owned", "handed"}
    <3>1. ThreadReportBegins \/ RenameOwner \/ ThreadReportEnds
      BY <2>1 DEF ThreadStep, Fetch, MakeLock, SweepLock, WriteOwner, Spawn, Handoff, DropLock
    <3>2. ~ThreadReportEnds
      BY <2>1 DEF ReportBase, DraftsInv, ThreadReports, Quiet, ThreadReportEnds, Rename, RenameRaises
    <3>3. ~ThreadReportBegins
      BY <2>1 DEF ThreadReportBegins, ThreadPhase
    <3>4. ownerTmp' = ownerTmp \/ ownerTmp' = Free
      BY <3>1, <3>2, <3>3, LockFields DEF RenameOwner
    <3> QED
      BY <2>1, <3>4, LockFields DEF ReportBase, ReportInv
  <2>2. CASE api'.at \in {"owned", "handed"} /\ api' # api
    <3>1. api.at \in {"own", "handoff"} /\ api'.run = api.run
      BY <2>2, ThreadWalks, LockFields DEF ReportBase, Walks
    <3>2. WriteOwner \/ Handoff
      BY <3>1 DEF ReportBase, DraftsInv, ThreadReports, Quiet, ThreadReportEnds, Rename, RenameRaises,
                  ThreadStep, ThreadReportBegins, ThreadPhase, Fetch, MakeLock, SweepLock, RenameOwner,
                  Spawn, DropLock
    <3>3. ownerTmp' = Owned(api.run, "api") \/ ownerTmp' = Owned(api.run, api.run) \/ api'.at \notin {"owned", "handed"}
      <4>1. [api EXCEPT !.at = "queue"].at = "queue"
        BY <1>0 DEF TypeInv, ApiTyped, Apis, ApiRecords
      <4> QED
        BY <3>2, <4>1, LockFields DEF WriteOwner, Handoff, ThreadRaises, Move
    <3> QED
      BY <2>2, <3>1, <3>3, LockFields
  <2> QED
    BY <2>1, <2>2
<1> QED
  BY <1>4, <1>5, <1>6, <1>7 DEF ReportInv

LEMMA ReportBeginStep ==
    ASSUME ReportBase, NEW by, NEW goal, Begin(by, goal), \A r \in Runs : ~Reporting(r)
    PROVE  ReportInv'
<1>1. \A r \in Runs : at[r] \notin PreFinal /\ at[r] \notin Reports /\ at[r] # "claimed"
  BY NobodyReports
<1>2. UNCHANGED <<at, lock, status>> /\ api.run = NoRun /\ api'.run = NoRun /\ api'.at = "checking"
  BY DEF Begin, NoApi, files, ReportBase, HandInv, RunLabels
<1>3. \A r \in Runs : ~Reporting(r)'
  BY <1>2 DEF Reporting
<1> QED
  BY <1>1, <1>2, <1>3 DEF ReportInv

LEMMA ReportPollerStep ==
    ASSUME ReportBase, PollerStep
    PROVE  ReportInv'
<1>0. draft \in [Writers -> Drafts]
  BY DEF ReportBase, TypeInv, FilesTyped
<1>1. CASE PollerLooks
  <2>1. \A r \in Runs : ~Reporting(r)
    BY <1>1, ReportingAlone DEF PollerLooks
  <2>2. UNCHANGED <<at, lock, ownerTmp, status, statusTmp, draft, api>>
    BY <1>1 DEF PollerLooks, files
  <2>3. \A r \in Runs : ~Reporting(r)'
    BY <2>1, <2>2 DEF Reporting
  <2> QED
    BY <2>2, <2>3 DEF ReportBase, ReportInv, Drafting, Reported, Queued
<1>2. CASE PollerCalls
  <2>1. \A r \in Runs : ~Reporting(r)
    BY <1>2, ReportingAlone DEF PollerCalls
  <2>2. CASE \E goal : Begin("poller", goal)
    BY <2>1, <2>2, ReportBeginStep
  <2>3. CASE UNCHANGED <<at, lock, ownerTmp, status, statusTmp, draft, api>>
    <3>1. \A r \in Runs : ~Reporting(r)'
      BY <2>1, <2>3 DEF Reporting
    <3> QED
      BY <2>3, <3>1 DEF ReportBase, ReportInv, Drafting, Reported, Queued
  <2> QED
    BY <1>2, <2>2, <2>3 DEF PollerCalls, files
<1>3. CASE PollerReportBegins \/ PollerReportEnds
  <2>1. poller # "asleep" /\ poller # "waiting"
    BY <1>3 DEF PollerReportBegins, PollerReportEnds, Rename, RenameRaises, ReportBase, DraftsInv, Quiet
  <2>2. \A r \in Runs : ~Reporting(r)
    BY <2>1, ReportingAlone
  <2>3. \A r \in Runs : at[r] \notin PreFinal /\ at[r] \notin Reports /\ at[r] # "claimed"
    BY <2>2, NobodyReports
  <2>4. UNCHANGED <<at, lock, ownerTmp, api>>
    BY <1>3 DEF PollerReportBegins, PollerReportEnds
  <2>5. \A r \in Runs : ~Reporting(r)'
    BY <2>2, <2>4 DEF Reporting
  <2>6. api.at # "queue"
    BY <2>1 DEF ReportBase, Sheltered, DraftsInv
  <2> QED
    BY <2>3, <2>4, <2>5, <2>6 DEF ReportBase, ReportInv
<1> QED
  BY <1>1, <1>2, <1>3 DEF PollerStep

LEMMA ReportWriteStep ==
    ASSUME ReportBase, NEW w \in Writers, WriteTmp(w)
    PROVE  ReportInv'
<1>0. /\ draft \in [Writers -> Drafts] /\ ~Quiet(w)
      /\ UNCHANGED <<at, lock, ownerTmp, status, api, poller>>
      /\ draft' = [draft EXCEPT ![w] = [stage |-> "written", content |-> NoStatus]]
      /\ draft[w].stage = "read" /\ statusTmp' = [there |-> TRUE, content |-> draft[w].content]
  BY DEF ReportBase, TypeInv, FilesTyped, WriteTmp, Quiet
<1>1. \A r \in Runs : Reporting(r)' = Reporting(r)
  BY <1>0 DEF Reporting
<1>2. ASSUME NEW r \in Runs, at[r] \in Reports PROVE Drafting(r, Reported(r))'
  <2>1. Reporting(r)
    BY <1>2, ReportsArePreFinal
  <2>2. w = r
    BY <1>0, <2>1, ReportingAlone DEF Writers
  <2>3. draft[r].content = Reported(r)
    BY <1>0, <1>2, <2>2 DEF ReportBase, ReportInv, Drafting
  <2>4. draft'[r] = [stage |-> "written", content |-> NoStatus]
    BY <1>0, <2>2
  <2>5. Reported(r)' = Reported(r)
    BY <1>0 DEF Reported
  <2> QED
    BY <1>0, <2>2, <2>3, <2>4, <2>5 DEF Drafting
<1>3. ASSUME api.at = "queue" PROVE Drafting("thread", Queued(api.run))'
  <2>1. \A r \in Runs : ~Reporting(r)
    BY <1>3, ReportingAlone
  <2>2. \A r \in Runs : Quiet(r)
    BY <2>1, NobodyReports
  <2>3. Quiet("poller")
    BY <1>3 DEF ReportBase, Sheltered, DraftsInv
  <2>4. w = "thread"
    BY <1>0, <2>2, <2>3 DEF Writers
  <2> QED
    BY <1>0, <1>3, <2>4 DEF ReportBase, ReportInv, Drafting, Queued
<1> QED
  BY <1>0, <1>1, <1>2, <1>3 DEF ReportBase, ReportInv, Active

LEMMA ReportWorldStep ==
    ASSUME ReportBase, World
    PROVE  ReportInv'
<1>0. TypeInv /\ lock \in Locks /\ ownerTmp \in Locks /\ draft \in [Writers -> Drafts]
  BY DEF ReportBase, TypeInv, FilesTyped
<1>1. CASE RestartFromOutside
  <2>1. /\ api' = NoApi /\ poller' = "asleep" /\ UNCHANGED <<at, status, statusTmp>>
        /\ \A r \in Runs : draft'[r] = draft[r]
    BY <1>0, <1>1, WritersKnown DEF RestartFromOutside, MakeRestart, RestartServices
  <2>2. /\ lock'.dir => lock.dir /\ lock'.run = lock.run
        /\ ownerTmp'.dir => ownerTmp.dir /\ ownerTmp'.run = ownerTmp.run
    <3>1. \A o \in Locks : FormerPid(o).dir = o.dir /\ FormerPid(o).run = o.run
      BY DEF FormerPid, Locks
    <3>2. Free.dir = FALSE /\ FormerPid(Free) = Free /\ NoOwnerTmp = Free
      BY LockFields
    <3>3. RestartServices(lock, ownerTmp) \/ RestartServices(Free, NoOwnerTmp)
      BY <1>1 DEF RestartFromOutside, MakeRestart
    <3> QED
      BY <1>0, <3>1, <3>2, <3>3 DEF RestartServices
  <2>3. ASSUME NEW r \in Runs, Reporting(r)' PROVE Reporting(r)
    <3>1. CASE at[r] = "claim" /\ api.run = r
      <4>1. lock.dir /\ lock.run = r
        BY <2>1, <2>2, <2>3, <3>1 DEF Reporting, PreFinal
      <4>2. LockHeld /\ background
        BY <1>1, <3>1, <4>1 DEF RestartFromOutside, ReportBase, Sheltered
      <4> QED
        BY <1>1, <4>2 DEF RestartFromOutside
    <3>2. CASE ~(at[r] = "claim" /\ api.run = r)
      BY <2>1, <2>2, <2>3, <3>2 DEF Reporting, PreFinal
    <3> QED
      BY <3>1, <3>2
  <2>4. \A r \in Runs : at'[r] \in Reports => Drafting(r, Reported(r))'
    BY <2>1 DEF ReportBase, ReportInv, Drafting, Reported
  <2>5. \A r \in Runs : at'[r] = "claimed" /\ ownerTmp'.dir => ownerTmp'.run = r
    BY <2>1, <2>2 DEF ReportBase, ReportInv
  <2>6. \A r \in Runs : Reporting(r)' =>
           api'.at = "free" /\ poller' = "asleep" /\ Active(status)' /\ status'.pid = r
    BY <2>1, <2>3, LockFields DEF ReportBase, ReportInv, Active
  <2> QED
    BY <2>1, <2>4, <2>5, <2>6, LockFields DEF ReportInv
<1>2. CASE Push \/ StatusPage \/ OperatorLooks
  <2>1. UNCHANGED <<at, lock, ownerTmp, status, statusTmp, draft, api, poller>>
    BY <1>2 DEF Push, StatusPage, OperatorLooks, files
  <2> QED
    BY <2>1 DEF ReportBase, ReportInv, Reporting, Drafting, Reported, Queued, Active
<1>3. CASE OperatorSweeps
  <2>1. UNCHANGED <<at, status, statusTmp, draft, api, poller>> /\ lock' = Free /\ ownerTmp' = Free
    BY <1>3, LockFields DEF OperatorSweeps, RemoveLock
  <2>2. \A r \in Runs : Reporting(r)' => Reporting(r)
    BY <2>1, LockFields DEF Reporting
  <2> QED
    BY <2>1, <2>2, LockFields DEF ReportBase, ReportInv, Drafting, Reported, Queued, Active
<1> QED
  BY <1>1, <1>2, <1>3 DEF World

LEMMA ReportStep == ReportBase /\ [Next]_vars => ReportInv'
<1> SUFFICES ASSUME ReportBase, [Next]_vars PROVE ReportInv'
  OBVIOUS
<1>1. ASSUME NEW r \in Runs, RunnerStep(r) \/ Kill(r) PROVE ReportInv'
  BY <1>1, ReportRunnerStep
<1>2. CASE AdminAsks
  <2>1. Begin("admin", "start")
    BY <1>2 DEF AdminAsks, ReportBase, Sheltered
  <2>2. \A r \in Runs : ~Reporting(r)
    <3>1. SUFFICES ASSUME NEW r \in Runs, Reporting(r) PROVE FALSE
      OBVIOUS
    <3>2. Refused("start")
      BY <3>1, ReportingAlone DEF Refused
    <3> QED
      BY <2>1, <3>2 DEF Begin
  <2> QED
    BY <2>1, <2>2, ReportBeginStep
<1>3. CASE UNCHANGED vars
  BY <1>3 DEF vars, ReportBase, ReportInv, Reporting, Drafting, Reported, Queued, Active
<1> QED
  BY <1>1, <1>2, <1>3, ReportThreadStep, ReportPollerStep, ReportWriteStep, ReportWorldStep DEF Next

LEMMA ReportInit == Init => ReportInv
  BY ReportTable, LockFields
     DEF Init, ReportInv, Reporting, PreFinal, Reports, NoOwnerTmp

-----------------------------------------------------------------------------
(* One update, asked for by the administrator                              *)

OneUpdate == \A q, r \in Runs : q = r
OneAdmin == Prompt /\ OneUpdate /\ AdminGoals \subseteq {"start"} /\ PollerGoals = {}

(* Until the update is handed over, the status file is the thread's and    *)
(* nobody has a reason to look after a dead runner; until its runner takes *)
(* the lock, its owner is alive and the workers run.                       *)
Fresh(r) == at[r] = "none" \/ api.run = r

OneAdminInv ==
    /\ poller \in {"asleep", "mark", "complain", "dead"} /\ api.by # "poller"
    /\ \A r \in Runs : Fresh(r) =>
          /\ poller = "asleep" /\ ~Active(status)
          /\ api.at # "queue" /\ ~Quiet("thread") => ~Active(draft["thread"].content)
          /\ statusTmp.there /\ Active(statusTmp.content) =>
                 api.at = "queue" /\ draft["thread"].stage = "written"
    /\ \A r \in Runs : at[r] \in {"none", "claim"} =>
          /\ background
          /\ lock.run = r => lock.pid \in {"api", r}
          /\ ownerTmp.run = r => ownerTmp.pid \in {"api", r}

OneAdminBase == OneAdmin /\ TypeInv /\ LivesInv /\ DraftsInv /\ HandInv /\ OneAdminInv

LEMMA OneAdminShelters == OneAdminBase => Sheltered
<1> SUFFICES ASSUME OneAdminBase PROVE Sheltered
  OBVIOUS
<1>1. api.at = "queue" => poller = "asleep" /\ Quiet("poller")
  BY DEF OneAdminBase, OneAdminInv, Fresh, DraftsInv, TypeInv, ApiTyped, Apis, RunLabels
<1>2. ASSUME NEW r \in Runs, at[r] = "claim", lock.dir, lock.run = r PROVE LockHeld /\ background
  <2>1. proc[r] = "alive"
    BY <1>2 DEF OneAdminBase, LivesInv, TypeInv, RunsTyped
  <2> QED
    BY <1>2, <2>1 DEF OneAdminBase, OneAdminInv, LockHeld, Running
<1> QED
  BY <1>1, <1>2 DEF Sheltered, OneAdminBase, OneAdmin

(* The three parts of OneAdminInv, each preserved on its own.              *)
LEMMA OneAdminPoller ==
    ASSUME OneAdminBase, [Next]_vars
    PROVE  poller' \in {"asleep", "mark", "complain", "dead"} /\ api'.by # "poller"
<1>0. /\ poller \in {"asleep", "mark", "complain", "dead"} /\ api.by # "poller"
      /\ PollerGoals = {} /\ TypeInv
  BY DEF OneAdminBase, OneAdminInv, OneAdmin
<1>1. ASSUME NEW r \in Runs, RunnerStep(r) \/ Kill(r)
      PROVE  poller' \in {"asleep", "mark", "complain", "dead"} /\ api'.by # "poller"
  BY <1>0, <1>1, RunnerDrafts DEF NoApi
<1>2. CASE ThreadStep
  BY <1>0, <1>2, ThreadErrand DEF NoApi
<1>3. CASE AdminAsks
  BY <1>0, <1>3 DEF AdminAsks, Begin, NoApi
<1>4. CASE PollerStep
  BY <1>0, <1>4 DEF PollerStep, PollerLooks, PollerCalls, PollerReportBegins, PollerReportEnds
<1>5. CASE (\E w \in Writers : WriteTmp(w)) \/ World
  BY <1>0, <1>5 DEF WriteTmp, World, Push, StatusPage, OperatorLooks, OperatorSweeps,
                    RestartFromOutside, MakeRestart, RestartServices, NoApi
<1>6. CASE UNCHANGED vars
  BY <1>0, <1>6 DEF vars
<1> QED
  BY <1>1, <1>2, <1>3, <1>4, <1>5, <1>6 DEF Next

LEMMA OneAdminFresh ==
    ASSUME OneAdminBase, [Next]_vars, NEW r \in Runs, Fresh(r)'
    PROVE  /\ poller' = "asleep" /\ ~Active(status')
           /\ api'.at # "queue" /\ ~Quiet("thread")' => ~Active(draft'["thread"].content)
           /\ statusTmp'.there /\ Active(statusTmp'.content) =>
                  api'.at = "queue" /\ draft'["thread"].stage = "written"
<1>0. /\ TypeInv /\ RunsTyped /\ draft \in [Writers -> Drafts] /\ PollerGoals = {}
      /\ (api.at \in RunLabels => api.run = r) /\ (api.at \notin RunLabels => api.run = NoRun)
      /\ \A q \in Runs : q = r
      /\ api.by # "poller" /\ NoRun \notin Runs
  BY UpdateAssumption
     DEF OneAdminBase, OneAdminInv, OneAdmin, OneUpdate, TypeInv, FilesTyped, ApiTyped, Apis, HandInv
<1>1. ASSUME Fresh(r)
      PROVE  /\ poller = "asleep" /\ ~Active(status) /\ Quiet("poller") /\ Quiet(r)
             /\ api.at # "queue" /\ ~Quiet("thread") => ~Active(draft["thread"].content)
             /\ statusTmp.there /\ Active(statusTmp.content) =>
                    api.at = "queue" /\ draft["thread"].stage = "written"
             /\ ~Quiet("thread") => api.at \in ThreadReports
  <2>1. Quiet(r)
    BY <1>0, <1>1 DEF OneAdminBase, HandInv, DraftsInv, Fresh, Reports
  <2> QED
    BY <1>1, <2>1 DEF OneAdminBase, OneAdminInv, DraftsInv
<1>2. ASSUME NEW q \in Runs, RunnerStep(q) \/ Kill(q)
      PROVE  Fresh(r) /\ UNCHANGED <<poller, status, statusTmp, api>> /\ draft'["thread"] = draft["thread"]
  <2>1. q = r
    BY <1>0
  <2>2. at'[r] # "none" /\ (api' = api \/ api' = NoApi)
    BY <1>0, <1>2, <2>1, RunnerEffects
  <2>3. api' = api /\ api.run = r
    BY <1>0, <2>2, LockFields DEF Fresh
  <2>4. at[r] \in {"none", "claim", "ended"}
    BY <1>0, <2>3 DEF OneAdminBase, HandInv
  <2>5. ~RunnerStep(r)
    <3>1. SUFFICES ASSUME RunnerStep(r) PROVE FALSE
      OBVIOUS
    <3>2. at[r] = "claim"
      BY <2>4, <3>1, RunnerBegun
    <3>3. ~Claim(r)
      BY <2>3 DEF Claim, OneAdminBase, OneAdmin
    <3> QED
      BY <3>1, <3>2, <3>3, ReportTable
         DEF RunnerStep, ClaimRename, ReportBegins, ReportEnds, Verify, Lockdown, Quiesce, Command,
             Dump, Install, Build, Probe, Switch, Point, Migrate, Restart, Reopen, Resume, Downgrade,
             Revert, Repoint, Rebuild, Restore, Release, Reports
  <2> QED
    BY <1>0, <1>2, <2>1, <2>3, <2>5, WritersKnown DEF Kill, Fresh
<1>3. CASE ThreadStep
  <2>1. Fresh(r)
    <3>1. at'[r] = at[r] \/ at'[r] = "claim"
      BY <1>0, <1>3, OutsiderEffects DEF Outsiders, RunsTyped
    <3>2. api'.run = r => api.run = r \/ at[r] = "none"
      <4>1. api'.run = r /\ api'.run \in Unused => at[r] = "none"
        BY DEF Unused, OneAdminBase, LivesInv
      <4> QED
        BY <1>0, <1>3, <4>1, ThreadWalks, LockFields DEF OneAdminBase
    <3> QED
      BY <3>1, <3>2 DEF Fresh
  <2>2. poller' = "asleep"
    BY <1>0, <1>1, <1>3, <2>1, ThreadErrand
  <2>3. CASE ThreadReportBegins
    <3>1. UNCHANGED <<status, statusTmp, api>> /\ Quiet("thread")
      BY <2>3 DEF ThreadReportBegins, Reads, Quiet
    <3>2. /\ api.at # "queue" => /\ api.at \in DOMAIN ThreadPhase
                                 /\ draft'["thread"].content = [status EXCEPT !.phase = ThreadPhase[api.at]]
      BY <1>0, <2>3, WritersKnown DEF ThreadReportBegins, Reads
    <3>3. \A l \in DOMAIN ThreadPhase : ThreadPhase[l] \in {"checking", "idle"}
      BY DEF ThreadPhase
    <3>4. api.at # "queue" => draft'["thread"].content.phase \in {"checking", "idle"}
      BY <1>0, <3>2, <3>3 DEF TypeInv, FilesTyped, Statuses
    <3>5. ~(statusTmp.there /\ Active(statusTmp.content))
      BY <1>1, <2>1, <3>1 DEF Quiet
    <3> QED
      BY <1>1, <2>1, <2>2, <3>1, <3>4, <3>5 DEF Active, ActivePhases
  <2>4. CASE ThreadReportEnds
    <3>1. draft'["thread"] = NoDraft /\ draft["thread"].stage = "written"
      BY <1>0, <2>4, WritersKnown DEF ThreadReportEnds, Rename, RenameRaises
    <3>2. api.at # "queue"
      <4>1. SUFFICES ASSUME api.at = "queue" PROVE FALSE
        OBVIOUS
      <4>2. api' = NoApi /\ at' = at
        BY <2>4, <4>1 DEF ThreadReportEnds, ThreadReturns, ThreadRaises
      <4>3. at[r] # "none"
        BY <1>0, <4>1 DEF OneAdminBase, HandInv, RunLabels
      <4> QED
        BY <1>0, <4>2, <4>3, LockFields DEF Fresh
    <3>3. ~(statusTmp.there /\ Active(statusTmp.content))
      BY <1>1, <2>1, <3>2
    <3>4. \/ statusTmp.there /\ status' = statusTmp.content /\ statusTmp' = NoStatusTmp
          \/ ~statusTmp.there /\ UNCHANGED <<status, statusTmp>>
      BY <2>4 DEF ThreadReportEnds, Rename, RenameRaises
    <3>5. ~Active(status') /\ ~statusTmp'.there
      BY <1>1, <2>1, <3>3, <3>4 DEF NoStatusTmp
    <3> QED
      BY <2>2, <3>1, <3>5 DEF Quiet, NoDraft
  <2>5. CASE ~ThreadReportBegins /\ ~ThreadReportEnds
    <3>1. UNCHANGED <<draft, status, statusTmp>>
      BY <1>3, <2>5 DEF ThreadStep, Fetch, MakeLock, SweepLock, WriteOwner, RenameOwner, Spawn,
                        Handoff, DropLock, files
    <3>2. api.at \notin ThreadReports
      BY <1>3, <2>5 DEF ThreadStep, Fetch, MakeLock, SweepLock, WriteOwner, RenameOwner, Spawn,
                        Handoff, DropLock, ThreadReports
    <3>3. Quiet("thread") /\ api.at # "queue"
      BY <1>1, <2>1, <3>2 DEF ThreadReports
    <3> QED
      BY <1>1, <2>1, <2>2, <3>1, <3>3 DEF Quiet
  <2> QED
    BY <2>3, <2>4, <2>5
<1>4. CASE AdminAsks
  <2>1. PICK goal : Begin("admin", goal) /\ UNCHANGED poller
    BY <1>4 DEF AdminAsks
  <2>2. /\ api.at = "free" /\ api'.run = NoRun /\ api'.at = "checking"
        /\ UNCHANGED <<at, status, statusTmp, draft>>
    BY <2>1 DEF Begin, NoApi, files
  <2>3. Fresh(r) /\ Quiet("thread")
    BY <1>0, <2>2 DEF Fresh, OneAdminBase, DraftsInv, ThreadReports
  <2> QED
    BY <1>1, <2>1, <2>2, <2>3 DEF Quiet
<1>5. CASE PollerStep
  <2>1. Fresh(r)
    <3>1. at' = at /\ (api' = api \/ \E goal : Begin("poller", goal))
      BY <1>5 DEF PollerStep, PollerLooks, PollerCalls, PollerReportBegins, PollerReportEnds, Begin
    <3> QED
      BY <1>0, <3>1 DEF Fresh, Begin, NoApi
  <2> QED
    BY <1>0, <1>1, <1>5, <2>1
       DEF PollerStep, PollerLooks, PollerCalls, PollerReportBegins, PollerReportEnds, Quiet, Rename,
           RenameRaises
<1>6. ASSUME NEW w \in Writers, WriteTmp(w)
      PROVE  /\ poller' = "asleep" /\ ~Active(status')
             /\ api'.at # "queue" /\ ~Quiet("thread")' => ~Active(draft'["thread"].content)
             /\ statusTmp'.there /\ Active(statusTmp'.content) =>
                    api'.at = "queue" /\ draft'["thread"].stage = "written"
  <2>1. Fresh(r) /\ UNCHANGED <<poller, status, api>> /\ ~Quiet(w)
    BY <1>6 DEF WriteTmp, Fresh, Quiet
  <2>2. w = "thread"
    BY <1>0, <1>1, <2>1 DEF Writers
  <2>3. /\ draft'["thread"] = [stage |-> "written", content |-> NoStatus]
        /\ statusTmp' = [there |-> TRUE, content |-> draft["thread"].content]
    BY <1>0, <1>6, <2>2, WritersKnown DEF WriteTmp
  <2>4. ~Active(NoStatus)
    BY DEF Active, NoStatus, ActivePhases
  <2> QED
    BY <1>1, <2>1, <2>2, <2>3, <2>4
<1>7. CASE World
  <2>1. CASE RestartFromOutside
    <3>1. /\ api' = NoApi /\ poller' = "asleep" /\ draft'["thread"] = NoDraft
          /\ UNCHANGED <<at, status, statusTmp>>
      BY <1>0, <2>1, WritersKnown DEF RestartFromOutside, MakeRestart, RestartServices
    <3>2. at[r] = "none"
      BY <1>0, <3>1, LockFields DEF Fresh
    <3>3. api.at # "queue"
      BY <1>0, <3>2 DEF OneAdminBase, HandInv, RunLabels
    <3>4. Fresh(r)
      BY <3>2 DEF Fresh
    <3>5. ~(statusTmp.there /\ Active(statusTmp.content))
      BY <1>1, <3>3, <3>4
    <3> QED
      BY <1>1, <3>1, <3>4, <3>5 DEF Quiet, NoDraft
  <2>2. CASE Push \/ StatusPage \/ OperatorLooks \/ OperatorSweeps
    <3>1. UNCHANGED <<at, api, poller, status, statusTmp, draft>>
      BY <2>2 DEF Push, StatusPage, OperatorLooks, OperatorSweeps, files
    <3> QED
      BY <1>1, <3>1 DEF Fresh, Quiet
  <2> QED
    BY <1>7, <2>1, <2>2 DEF World
<1>8. CASE UNCHANGED vars
  <2>1. UNCHANGED <<at, api, poller, status, statusTmp, draft>>
    BY <1>8 DEF vars
  <2> QED
    BY <1>1, <2>1 DEF Fresh, Quiet
<1>9. CASE \E q \in Runs : RunnerStep(q) \/ Kill(q)
  BY <1>1, <1>2, <1>9 DEF Quiet
<1> QED
  BY <1>3, <1>4, <1>5, <1>6, <1>7, <1>8, <1>9 DEF Next

LEMMA OneAdminOwner ==
    ASSUME OneAdminBase, [Next]_vars, NEW r \in Runs, at'[r] \in {"none", "claim"}
    PROVE  /\ background'
           /\ lock'.run = r => lock'.pid \in {"api", r}
           /\ ownerTmp'.run = r => ownerTmp'.pid \in {"api", r}
<1>0. /\ TypeInv /\ RunsTyped /\ \A q \in Runs : q = r
      /\ (api.at \in RunLabels => api.run = r)
  BY DEF OneAdminBase, OneAdmin, OneUpdate, TypeInv, ApiTyped, Apis
<1>1. ASSUME at[r] \in {"none", "claim"}
      PROVE  /\ background
             /\ lock.run = r => lock.pid \in {"api", r}
             /\ ownerTmp.run = r => ownerTmp.pid \in {"api", r}
  BY <1>1 DEF OneAdminBase, OneAdminInv
<1>2. ASSUME NEW q \in Runs, RunnerStep(q) \/ Kill(q) PROVE FALSE
  <2>1. q = r
    BY <1>0
  <2> QED
    BY <1>0, <1>2, <2>1, RunnerEffects, RunnerLocksAny
<1>3. CASE ThreadStep
  <2>1. at[r] \in {"none", "claim"} /\ background' = background
    <3>1. at' = at \/ (api.at = "spawn" /\ api.run \in Runs)
      BY <1>0, <1>3, OutsiderEffects DEF Outsiders
    <3>2. api.at = "spawn" => at[r] = "none"
      BY <1>0 DEF OneAdminBase, LivesInv, RunLabels
    <3>3. background' = background
      BY <1>3 DEF ThreadStep, ThreadReportBegins, ThreadReportEnds, Fetch, MakeLock, SweepLock,
                  WriteOwner, RenameOwner, Spawn, Handoff, DropLock, system
    <3> QED
      BY <3>1, <3>2, <3>3
  <2>2. lock' = lock \/ lock' = Free \/ lock' = Made \/ lock' = ownerTmp
    BY <1>3 DEF ThreadStep, ThreadReportBegins, ThreadReportEnds, Fetch, MakeLock, SweepLock,
                WriteOwner, RenameOwner, Spawn, Handoff, DropLock, RemoveLock, files
  <2>3. \/ ownerTmp' = ownerTmp \/ ownerTmp' = Free
        \/ ownerTmp' = Owned(api.run, "api") \/ ownerTmp' = Owned(api.run, api.run)
    BY <1>3, LockFields
       DEF ThreadStep, ThreadReportBegins, ThreadReportEnds, Fetch, MakeLock, SweepLock,
           WriteOwner, RenameOwner, Spawn, Handoff, DropLock, RemoveLock, files
  <2> QED
    BY <1>1, <2>1, <2>2, <2>3, LockFields, UpdateAssumption
<1>4. CASE AdminAsks \/ PollerStep \/ \E w \in Writers : WriteTmp(w)
  <2>1. UNCHANGED <<at, background, lock, ownerTmp>>
    BY <1>4 DEF AdminAsks, PollerStep, PollerLooks, PollerCalls, PollerReportBegins, PollerReportEnds,
                Begin, WriteTmp, system, files
  <2> QED
    BY <1>1, <2>1
<1>5. CASE World
  <2>1. CASE RestartFromOutside
    <3>1. at' = at /\ background' = TRUE
      BY <2>1 DEF RestartFromOutside, MakeRestart, RestartServices
    <3>2. ~LockHeld /\ MakeRestart
      BY <1>1, <2>1, <3>1 DEF RestartFromOutside
    <3>3. lock' = Free /\ ownerTmp' = Free
      BY <3>2, LockFields DEF MakeRestart, RestartServices
    <3> QED
      BY <3>1, <3>3, LockFields, UpdateAssumption
  <2>2. CASE OperatorSweeps
    <3>1. UNCHANGED <<at, background>> /\ lock' = Free /\ ownerTmp' = Free
      BY <2>2, LockFields DEF OperatorSweeps, RemoveLock, system
    <3> QED
      BY <1>1, <3>1, LockFields, UpdateAssumption
  <2>3. CASE Push \/ StatusPage \/ OperatorLooks
    <3>1. UNCHANGED <<at, background, lock, ownerTmp>>
      BY <2>3 DEF Push, StatusPage, OperatorLooks, system, files
    <3> QED
      BY <1>1, <3>1
  <2> QED
    BY <1>5, <2>1, <2>2, <2>3 DEF World
<1>6. CASE UNCHANGED vars
  <2>1. UNCHANGED <<at, background, lock, ownerTmp>>
    BY <1>6 DEF vars
  <2> QED
    BY <1>1, <2>1
<1> QED
  BY <1>2, <1>3, <1>4, <1>5, <1>6 DEF Next

LEMMA OneAdminStep == OneAdminBase /\ [Next]_vars => OneAdminInv'
  BY OneAdminPoller, OneAdminFresh, OneAdminOwner DEF OneAdminInv

LEMMA OneAdminInit == Init => OneAdminInv
  BY UpdateAssumption, LockFields
     DEF Init, OneAdminInv, NoApi, NoStatus, NoStatusTmp, Active, ActivePhases, Quiet, NoDraft, Writers

(* All that is known in this regime.                                       *)
LEMMA OneAdminInvariant ==
    ASSUME OneAdmin
    PROVE  Spec => [](ReportBase /\ OneAdminInv)
<1>1. Init => OneAdminInv
  BY OneAdminInit
<1>2. TypeInv /\ LivesInv /\ DraftsInv /\ HandInv /\ OneAdminInv /\ [Next]_vars => OneAdminInv'
  BY OneAdminStep DEF OneAdminBase
<1>3. TypeInv /\ LivesInv /\ DraftsInv /\ HandInv /\ OneAdminInv => Sheltered
  BY OneAdminShelters DEF OneAdminBase
<1>4. Init => ReportInv
  BY ReportInit
<1>5. Sheltered /\ TypeInv /\ LivesInv /\ DraftsInv /\ HandInv /\ ReportInv /\ [Next]_vars => ReportInv'
  BY ReportStep DEF ReportBase
<1>6. Spec => []HandInv
  BY HandInvariant DEF OneAdmin
<1>7. ReportBase <=> Sheltered /\ TypeInv /\ LivesInv /\ DraftsInv /\ HandInv /\ ReportInv
  BY DEF ReportBase
<1> QED
  BY <1>1, <1>2, <1>3, <1>4, <1>5, <1>6, <1>7, TypeInvariant, LivesInvariant, DraftsInvariant, PTL DEF Spec

-----------------------------------------------------------------------------
(* One update: the code and the schema belong together                     *)

Waiting == {"none", "claim", "claimed", "preflight", "verify"}
Prepared == {"lockdown", "quiescing", "quiesce", "backup", "dump", "installing", "switch"}
Switched == {"install", "migrating", "migrate"}
Migrated == {"building", "build", "restarting", "restart", "healthcheck", "probe", "reopen"}
Rolling == {"rollback", "downgrade"}
Undoing == {"revert", "repoint", "rebuild", "restore"}
Undone == {"reopenOld", "rolled_back"}
LockedOut == (Prepared \ {"lockdown"}) \cup {"point"} \cup Switched \cup Migrated \cup Rolling
             \cup Undoing \cup {"reopenOld", "stuck"}

(* At each step of a runner: what it remembers of the branch, the tree and *)
(* the database, and how far they are apart.                               *)
RunConsistent(r) ==
    /\ at[r] \in Waiting \cup Prepared => head = code /\ code = schema
    /\ at[r] = "success" => code = schema
    /\ at[r] \in {"resume", "unlock", "refused"} => code = schema \/ Unnoticed(r)
    /\ at[r] \in Waiting \cup Prepared \cup {"point"} => ~work[r].switched /\ ~work[r].migrating
    /\ at[r] \in {"backup", "dump", "installing", "switch", "point"} => work[r].quiesced
    /\ at[r] \in LockedOut => maintenance
    /\ at[r] \in Prepared \cup {"point"} \cup Switched \cup Migrated \cup Rolling \cup Undoing \cup Undone =>
          work[r].previous = work[r].revision
    /\ at[r] \in Prepared \cup {"point"} \cup Switched => schema = work[r].revision
    /\ at[r] \in Switched =>
          /\ work[r].switched /\ ~work[r].migrating
          /\ code = work[r].target /\ head = work[r].target
    /\ at[r] = "point" => code = work[r].target
    /\ at[r] \in Migrated =>
          /\ work[r].switched /\ work[r].migrating
          /\ code = work[r].target /\ schema = work[r].target
    /\ at[r] \in Rolling => work[r].migrating \/ schema = work[r].revision
    /\ at[r] \in Undoing => work[r].failed \/ schema = work[r].revision \/ Unread(r)
    /\ at[r] = "repoint" => code = work[r].previous
    /\ at[r] \in {"rebuild", "restore"} =>
          work[r].failed \/ (head = work[r].previous /\ code = work[r].previous)
    /\ at[r] \in Undone =>
          /\ head = work[r].previous /\ code = work[r].previous
          /\ schema = work[r].revision \/ Unread(r)

ConsistentInv ==
    /\ OpenMeansConsistent
    /\ \A r \in Runs : RunConsistent(r)

LEMMA AfterTable ==
    /\ After["preflight"] = "verify" /\ After["quiescing"] = "quiesce" /\ After["backup"] = "dump"
    /\ After["installing"] = "switch" /\ After["migrating"] = "migrate" /\ After["building"] = "build"
    /\ After["restarting"] = "restart" /\ After["healthcheck"] = "probe"
    /\ After["success"] = "release" /\ After["refused"] = "release" /\ After["rollback"] = "downgrade"
    /\ After["stuck"] = "release" /\ After["rolled_back"] = "release"
  BY DEF After

(* What a runner remembers, field by field. *)
SameFacts(v, w) ==
    v.target = w.target /\ v.previous = w.previous /\ v.revision = w.revision /\ v.known = w.known

SameProgress(v, w) ==
    v.switched = w.switched /\ v.migrating = w.migrating

LEMMA WorkFields ==
    \A w \in Works :
        /\ SameFacts([w EXCEPT !.switched = TRUE], w)
        /\ [w EXCEPT !.switched = TRUE].switched = TRUE
        /\ [w EXCEPT !.switched = TRUE].migrating = w.migrating
        /\ SameFacts([w EXCEPT !.migrating = TRUE], w)
        /\ [w EXCEPT !.migrating = TRUE].migrating = TRUE
        /\ [w EXCEPT !.migrating = TRUE].switched = w.switched
        /\ SameFacts([w EXCEPT !.quiesced = TRUE], w) /\ SameProgress([w EXCEPT !.quiesced = TRUE], w)
        /\ [w EXCEPT !.quiesced = TRUE].quiesced = TRUE
        /\ SameFacts([w EXCEPT !.failed = TRUE], w) /\ SameProgress([w EXCEPT !.failed = TRUE], w)
        /\ [w EXCEPT !.failed = TRUE].failed = TRUE
  BY DEF Works, SameFacts, SameProgress

LEMMA NotedFields ==
    \A w \in Works, p, s \in Versions, k \in BOOLEAN :
        LET v == [w EXCEPT !.previous = p, !.revision = s, !.known = k]
        IN  v.previous = p /\ v.revision = s /\ SameProgress(v, w)
  BY DEF Works, SameProgress

LEMMA ConsistentEarly ==
    ASSUME ReportBase, OpenMeansConsistent, NEW r \in Runs, RunConsistent(r),
           \/ Claim(r) \/ ClaimRename(r) \/ Release(r) \/ ReportBegins(r) \/ ReportEnds(r) \/ Kill(r)
           \/ Verify(r) \/ Lockdown(r) \/ Quiesce(r) \/ Command(r)
    PROVE  OpenMeansConsistent' /\ RunConsistent(r)'
<1>0. RunsTyped /\ SystemTyped /\ work[r] \in Works
  BY DEF ReportBase, TypeInv, RunsTyped
<1> USE DEF Waiting, Prepared, Switched, Migrated, Rolling, Undoing, Undone, LockedOut
<1>1. CASE Claim(r) \/ ClaimRename(r) \/ Release(r) \/ ReportBegins(r) \/ Kill(r)
  <2>1. /\ UNCHANGED <<head, code, schema, maintenance, work>>
        /\ at'[r] = at[r] \/ at'[r] = "ended" \/ (at[r] = "claim" /\ at'[r] = "claimed")
           \/ (at[r] = "claimed" /\ at'[r] = "preflight")
    BY <1>0, <1>1 DEF Claim, ClaimRename, Release, ReportBegins, Kill, End, Goto, system, RunsTyped
  <2> QED
    BY <2>1 DEF RunConsistent, OpenMeansConsistent, Unnoticed, Unread
<1>2. CASE ReportEnds(r)
  <2>1. at[r] \in Reports /\ at'[r] = After[at[r]] /\ UNCHANGED <<head, code, schema, maintenance, work>>
    BY <1>0, <1>2, ReportSucceeds DEF ReportEnds, system, RunsTyped
  <2> QED
    BY <2>1, AfterTable DEF RunConsistent, OpenMeansConsistent, Unnoticed, Unread, Reports
<1>3. CASE Verify(r)
  <2> DEFINE known == schema \in Readable
  <2> DEFINE noted == [work[r] EXCEPT !.previous = head, !.revision = schema, !.known = known]
  <2>1. /\ at[r] = "verify" /\ UNCHANGED <<head, code, schema, maintenance>>
        /\ head = code /\ code = schema /\ ~work[r].switched /\ ~work[r].migrating
    BY <1>3 DEF Verify, system, RunConsistent
  <2>2. \/ work' = work /\ at'[r] = "resume"
        \/ at'[r] \in {"success", "lockdown"} /\ work' = [work EXCEPT ![r] = noted]
    BY <1>0, <1>3, <2>1 DEF Verify, Remember, Goto, Raise, RunsTyped, Handling
  <2>3. /\ noted.previous = head /\ noted.revision = schema
        /\ ~noted.switched /\ ~noted.migrating
    <3>1. known \in BOOLEAN /\ head \in Versions /\ schema \in Versions
      BY <1>0 DEF SystemTyped
    <3> HIDE DEF known
    <3> QED
      BY <1>0, <2>1, <3>1, NotedFields DEF SameProgress
  <2> HIDE DEF noted
  <2>4. at'[r] # "resume" => work'[r] = noted
    BY <1>0, <2>2 DEF RunsTyped
  <2>5. code' = schema' /\ head' = code'
    BY <2>1
  <2>6. CASE at'[r] = "resume"
    BY <2>5, <2>6 DEF RunConsistent, OpenMeansConsistent
  <2>7. CASE at'[r] \in {"success", "lockdown"}
    BY <2>1, <2>3, <2>4, <2>5, <2>7 DEF RunConsistent, OpenMeansConsistent
  <2> QED
    BY <2>2, <2>6, <2>7
<1>4. CASE Lockdown(r)
  <2>1. /\ at[r] = "lockdown" /\ at'[r] = "quiescing" /\ maintenance' = TRUE
        /\ UNCHANGED <<head, code, schema, work>>
    BY <1>0, <1>4 DEF Lockdown, Goto, RunsTyped
  <2> QED
    BY <2>1 DEF RunConsistent, OpenMeansConsistent, Unnoticed, Unread
<1>5. CASE Quiesce(r)
  <2>1. /\ at[r] = "quiesce" /\ UNCHANGED <<head, code, schema, maintenance>> /\ ~work[r].switched
    BY <1>5 DEF Quiesce, RunConsistent
  <2>2. \/ at'[r] = "resume" /\ work' = work
        \/ at'[r] = "backup" /\ work' = [work EXCEPT ![r] = [work[r] EXCEPT !.quiesced = TRUE]]
    BY <1>0, <1>5, <2>1 DEF Quiesce, Remember, Goto, Raise, RunsTyped, Handling
  <2>3. /\ work'[r].previous = work[r].previous /\ work'[r].revision = work[r].revision
        /\ work'[r].switched = work[r].switched /\ work'[r].migrating = work[r].migrating
        /\ at'[r] = "backup" => work'[r].quiesced
    <3>1. \/ work'[r] = work[r] /\ at'[r] = "resume"
          \/ work'[r] = [work[r] EXCEPT !.quiesced = TRUE]
      BY <1>0, <2>2 DEF RunsTyped
    <3>2. CASE work'[r] = work[r] /\ at'[r] = "resume"
      BY <3>2
    <3>3. CASE work'[r] = [work[r] EXCEPT !.quiesced = TRUE]
      BY <1>0, <3>3, WorkFields DEF SameFacts, SameProgress
    <3> QED
      BY <3>1, <3>2, <3>3
  <2> QED
    BY <2>1, <2>2, <2>3 DEF RunConsistent, OpenMeansConsistent, Unnoticed, Unread
<1>6. CASE Command(r)
  <2>1. /\ UNCHANGED <<head, code, schema, maintenance, work>>
        /\ \/ at[r] = "dump" /\ at'[r] = "installing"
           \/ at[r] = "install" /\ at'[r] = "migrating"
           \/ at[r] = "build" /\ at'[r] = "restarting"
           \/ at[r] = "probe" /\ at'[r] = "reopen"
           \/ /\ at[r] \in {"verify", "dump", "install", "build", "restart", "probe"}
              /\ at'[r] = IF work[r].switched THEN "rollback" ELSE "resume"
    BY <1>0, <1>6 DEF Command, Dump, Install, Build, Probe, Goto, Raise, RunsTyped, system, Handling
  <2> QED
    BY <1>0, <2>1, WorksKnown DEF RunConsistent, OpenMeansConsistent, Unnoticed, Unread
<1> QED
  BY <1>1, <1>2, <1>3, <1>4, <1>5, <1>6

LEMMA ConsistentLate ==
    ASSUME ReportBase, OpenMeansConsistent, NEW r \in Runs, RunConsistent(r),
           \/ Switch(r) \/ Point(r) \/ Migrate(r) \/ Restart(r) \/ Reopen(r) \/ Resume(r)
           \/ Downgrade(r) \/ Revert(r) \/ Repoint(r) \/ Rebuild(r) \/ Restore(r)
    PROVE  OpenMeansConsistent' /\ RunConsistent(r)'
<1>0. RunsTyped /\ SystemTyped /\ work[r] \in Works
  BY DEF ReportBase, TypeInv, RunsTyped
<1> USE DEF Waiting, Prepared, Switched, Migrated, Rolling, Undoing, Undone, LockedOut
<1>1. CASE Switch(r)
  <2>1. /\ at[r] = "switch" /\ UNCHANGED <<head, schema, maintenance, work>> /\ ~work[r].switched
        /\ \/ at'[r] = "point" /\ code' = work[r].target
           \/ at'[r] = "resume" /\ code' = code
    BY <1>0, <1>1 DEF Switch, Goto, Raise, RunsTyped, Handling, RunConsistent
  <2> QED
    BY <2>1 DEF RunConsistent, OpenMeansConsistent, Unnoticed, Unread
<1>8. CASE Point(r)
  <2>1. /\ at[r] = "point" /\ UNCHANGED <<code, schema, maintenance>> /\ ~work[r].switched
        /\ \/ /\ at'[r] = "install" /\ head' = work[r].target
              /\ work' = [work EXCEPT ![r] = [work[r] EXCEPT !.switched = TRUE]]
           \/ at'[r] = "resume" /\ work' = work
    BY <1>0, <1>8 DEF Point, Remember, Goto, Raise, RunsTyped, Handling, RunConsistent
  <2>2. CASE at'[r] = "resume" /\ work' = work
    BY <2>1, <2>2 DEF RunConsistent, OpenMeansConsistent, Unnoticed, Unread
  <2>3. CASE /\ at'[r] = "install" /\ head' = work[r].target
             /\ work' = [work EXCEPT ![r] = [work[r] EXCEPT !.switched = TRUE]]
    <3>1. work'[r] = [work[r] EXCEPT !.switched = TRUE]
      BY <1>0, <2>3 DEF RunsTyped
    <3>2. SameFacts(work'[r], work[r])
      BY <1>0, <3>1, WorkFields
    <3>3. work'[r].switched /\ work'[r].migrating = work[r].migrating
      BY <1>0, <3>1, WorkFields
    <3> QED
      BY <2>1, <2>3, <3>2, <3>3 DEF RunConsistent, OpenMeansConsistent, SameFacts
  <2> QED
    BY <2>1, <2>2, <2>3
<1>2. CASE Migrate(r)
  <2>1. /\ at[r] = "migrate" /\ UNCHANGED <<head, code, maintenance>> /\ work[r].switched
        /\ code = work[r].target /\ head = work[r].target
    BY <1>2 DEF Migrate, RunConsistent
  <2>2. /\ work' = [work EXCEPT ![r] = [work[r] EXCEPT !.migrating = TRUE]]
        /\ \/ at'[r] = "building" /\ schema' = work[r].target
           \/ at'[r] = "rollback"
    BY <1>0, <1>2, <2>1 DEF Migrate, Remember, Goto, Raise, RunsTyped, Handling
  <2>3. /\ work'[r].switched /\ work'[r].migrating /\ work'[r].known = work[r].known
        /\ work'[r].previous = work[r].previous /\ work'[r].revision = work[r].revision
        /\ work'[r].target = work[r].target
    <3>1. work'[r] = [work[r] EXCEPT !.migrating = TRUE]
      BY <1>0, <2>2 DEF RunsTyped
    <3> QED
      BY <1>0, <2>1, <3>1, WorkFields DEF SameFacts
  <2> QED
    BY <2>1, <2>2, <2>3 DEF RunConsistent, OpenMeansConsistent, Unnoticed, Unread
<1>3. CASE Restart(r) \/ Resume(r)
  <2>1. /\ UNCHANGED <<head, code, schema, maintenance, work>>
        /\ \/ at[r] = "restart" /\ at'[r] = "healthcheck"
           \/ at[r] = "resume" /\ at'[r] = "unlock"
    BY <1>0, <1>3 DEF Restart, Resume, Goto, RunsTyped
  <2> QED
    BY <2>1 DEF RunConsistent, OpenMeansConsistent, Unnoticed, Unread
<1>4. CASE Reopen(r)
  <2>1. /\ UNCHANGED <<head, code, schema, work>> /\ maintenance' = FALSE
        /\ \/ at[r] = "reopen" /\ at'[r] = "success"
           \/ at[r] = "reopenOld" /\ at'[r] = "rolled_back"
           \/ at[r] = "unlock" /\ at'[r] = "refused"
    BY <1>0, <1>4 DEF Reopen, Goto, RunsTyped
  <2> QED
    BY <2>1 DEF RunConsistent, OpenMeansConsistent, Unnoticed, Unread
<1>5. CASE Downgrade(r)
  <2>1. /\ at[r] = "downgrade" /\ at'[r] = "revert" /\ UNCHANGED <<head, code, maintenance>>
    BY <1>0, <1>5 DEF Downgrade, Goto, RunsTyped
  <2>2. \/ schema' = schema /\ work' = work /\ (schema = work[r].revision \/ Unread(r))
        \/ schema' = work[r].revision /\ work' = [work EXCEPT ![r] = work[r]]
        \/ work' = [work EXCEPT ![r] = [work[r] EXCEPT !.failed = TRUE]]
    BY <1>0, <1>5, <2>1 DEF Downgrade, NeedsDowngrade, Noted, Remember, RunConsistent, Unread
  <2>3. \/ work'[r] = work[r] /\ (schema' = work[r].revision \/ Unread(r))
        \/ work'[r] = [work[r] EXCEPT !.failed = TRUE]
    BY <1>0, <2>2 DEF RunsTyped
  <2>4. CASE work'[r] = work[r] /\ (schema' = work[r].revision \/ Unread(r))
    BY <2>1, <2>4 DEF RunConsistent, OpenMeansConsistent, Unread
  <2>5. CASE work'[r] = [work[r] EXCEPT !.failed = TRUE]
    <3>1. work'[r].previous = work[r].previous /\ work'[r].revision = work[r].revision /\ work'[r].failed
      BY <1>0, <2>5, WorkFields DEF SameFacts
    <3> QED
      BY <2>1, <3>1 DEF RunConsistent, OpenMeansConsistent
  <2> QED
    BY <2>3, <2>4, <2>5
<1>6. CASE Revert(r)
  <2>1. /\ at[r] = "revert" /\ UNCHANGED <<head, schema, maintenance>>
        /\ \/ at'[r] = "repoint" /\ code' = work[r].previous /\ work' = work
           \/ at'[r] = "rebuild" /\ work' = [work EXCEPT ![r] = [work[r] EXCEPT !.failed = TRUE]]
    BY <1>0, <1>6 DEF Revert, Noted, Remember, Goto, RunsTyped
  <2>2. CASE at'[r] = "repoint" /\ code' = work[r].previous /\ work' = work
    BY <2>1, <2>2 DEF RunConsistent, OpenMeansConsistent, Unread
  <2>3. CASE at'[r] = "rebuild" /\ work' = [work EXCEPT ![r] = [work[r] EXCEPT !.failed = TRUE]]
    <3>1. work'[r] = [work[r] EXCEPT !.failed = TRUE]
      BY <1>0, <2>3 DEF RunsTyped
    <3>2. work'[r].previous = work[r].previous /\ work'[r].revision = work[r].revision /\ work'[r].failed
      BY <1>0, <3>1, WorkFields DEF SameFacts
    <3> QED
      BY <2>1, <2>3, <3>2 DEF RunConsistent, OpenMeansConsistent
  <2> QED
    BY <2>1, <2>2, <2>3
<1>9. CASE Repoint(r)
  <2>1. /\ at[r] = "repoint" /\ at'[r] = "rebuild" /\ UNCHANGED <<code, schema, maintenance>>
        /\ \/ head' = work[r].previous /\ work' = [work EXCEPT ![r] = work[r]]
           \/ work' = [work EXCEPT ![r] = [work[r] EXCEPT !.failed = TRUE]]
    BY <1>0, <1>9 DEF Repoint, Noted, Remember, Goto, RunsTyped
  <2>2. \/ work'[r] = work[r] /\ head' = work[r].previous
        \/ work'[r] = [work[r] EXCEPT !.failed = TRUE]
    BY <1>0, <2>1 DEF RunsTyped
  <2>3. CASE work'[r] = work[r] /\ head' = work[r].previous
    BY <2>1, <2>3 DEF RunConsistent, OpenMeansConsistent, Unread
  <2>4. CASE work'[r] = [work[r] EXCEPT !.failed = TRUE]
    <3>1. work'[r].previous = work[r].previous /\ work'[r].revision = work[r].revision /\ work'[r].failed
      BY <1>0, <2>4, WorkFields DEF SameFacts
    <3> QED
      BY <2>1, <3>1 DEF RunConsistent, OpenMeansConsistent
  <2> QED
    BY <2>2, <2>3, <2>4
<1>7. CASE Rebuild(r) \/ Restore(r)
  <2>1. /\ UNCHANGED <<head, code, schema, maintenance>>
        /\ \/ work' = [work EXCEPT ![r] = work[r]]
           \/ work' = [work EXCEPT ![r] = [work[r] EXCEPT !.failed = TRUE]]
        /\ \/ at[r] = "rebuild" /\ at'[r] = "restore"
           \/ at[r] = "restore" /\ at'[r] = "stuck"
           \/ at[r] = "restore" /\ at'[r] = "reopenOld" /\ ~work'[r].failed
    BY <1>0, <1>7 DEF Rebuild, Restore, Noted, Remember, Goto, RunsTyped, system
  <2>2. work'[r] = work[r] \/ work'[r] = [work[r] EXCEPT !.failed = TRUE]
    BY <1>0, <2>1 DEF RunsTyped
  <2>3. CASE work'[r] = work[r]
    BY <2>1, <2>3 DEF RunConsistent, OpenMeansConsistent, Unread
  <2>4. CASE work'[r] = [work[r] EXCEPT !.failed = TRUE]
    <3>1. work'[r].previous = work[r].previous /\ work'[r].revision = work[r].revision /\ work'[r].failed
      BY <1>0, <2>4, WorkFields DEF SameFacts
    <3> QED
      BY <2>1, <3>1 DEF RunConsistent, OpenMeansConsistent
  <2> QED
    BY <2>2, <2>3, <2>4
<1> QED
  BY <1>1, <1>2, <1>3, <1>4, <1>5, <1>6, <1>7, <1>8, <1>9

LEMMA ConsistentStep ==
    ASSUME OneUpdate, ReportBase, ConsistentInv, [Next]_vars
    PROVE  ConsistentInv'
<1>0. TypeInv /\ RunsTyped
  BY DEF ReportBase, TypeInv
<1>1. ASSUME NEW r \in Runs, RunnerStep(r) \/ Kill(r) PROVE ConsistentInv'
  <2>1. OpenMeansConsistent' /\ RunConsistent(r)'
    BY <1>1, ConsistentEarly, ConsistentLate DEF ConsistentInv, RunnerStep
  <2>2. \A q \in Runs : q = r
    BY DEF OneUpdate
  <2> QED
    BY <2>1, <2>2 DEF ConsistentInv
<1>2. CASE Outsiders
  <2>1. UNCHANGED <<head, code, schema, maintenance>>
    BY <1>0, <1>2, OutsiderEffects
  <2>2. CASE UNCHANGED <<at, work>>
    BY <2>1, <2>2 DEF ConsistentInv, RunConsistent, OpenMeansConsistent, Unnoticed, Unread
  <2>3. CASE /\ api.at = "spawn" /\ api.run \in Runs
             /\ at' = [at EXCEPT ![api.run] = "claim"]
             /\ work' = [work EXCEPT ![api.run] = [NoWork EXCEPT !.target = api.latest]]
    <3>1. \A q \in Runs : q = api.run
      BY <2>3 DEF OneUpdate
    <3>2. at[api.run] = "none" /\ at'[api.run] = "claim"
      BY <1>0, <2>3 DEF ReportBase, LivesInv, RunsTyped
    <3>3. ~work'[api.run].switched /\ ~work'[api.run].migrating
      BY <1>0, <2>3 DEF RunsTyped, NoWork
    <3>4. head = code /\ code = schema
      BY <2>3, <3>2 DEF ConsistentInv, RunConsistent, Waiting
    <3>5. OpenMeansConsistent'
      BY <2>1, <3>4 DEF OpenMeansConsistent
    <3>6. ASSUME NEW q \in Runs PROVE RunConsistent(q)'
      <4>1. /\ at'[q] = "claim" /\ ~work'[q].switched /\ ~work'[q].migrating
            /\ head' = code' /\ code' = schema'
        BY <2>1, <3>1, <3>2, <3>3, <3>4
      <4> QED
        BY <4>1 DEF RunConsistent, Waiting, Prepared, Switched, Migrated, Rolling, Undoing, Undone,
                    LockedOut
    <3> QED
      BY <3>5, <3>6 DEF ConsistentInv
  <2> QED
    BY <1>0, <1>2, <2>2, <2>3, OutsiderEffects
<1>3. CASE UNCHANGED vars
  BY <1>3 DEF vars, ConsistentInv, RunConsistent, OpenMeansConsistent, Unnoticed, Unread
<1> QED
  BY <1>1, <1>2, <1>3 DEF Next, Outsiders

LEMMA ConsistentInvariant ==
    ASSUME OneAdmin
    PROVE  Spec => []ConsistentInv
<1>1. Init => ConsistentInv
  BY DEF Init, ConsistentInv, OpenMeansConsistent, RunConsistent, NoWork, Waiting, Prepared, Switched,
         Migrated, Rolling, Undoing, Undone, LockedOut
<1>2. ReportBase /\ ConsistentInv /\ [Next]_vars => ConsistentInv'
  BY ConsistentStep DEF OneAdmin
<1> QED
  BY <1>1, <1>2, OneAdminInvariant, PTL DEF Spec

(* With one update, which the administrator starts, whatever migration ids *)
(* can be read, the business never works with a program and a database     *)
(* that do not belong together: whatever step fails, whenever the runner   *)
(* dies, and however often a make target or a crash interferes; save after *)
(* a reset that failed half way, or a rollback that skipped the downgrade  *)
(* because it could not read the id to go back to.                         *)
THEOREM OpenIsConsistent ==
    ASSUME OneAdmin
    PROVE  Spec => []OpenMeansConsistent
<1>1. ConsistentInv => OpenMeansConsistent
  BY DEF ConsistentInv
<1> QED
  BY <1>1, ConsistentInvariant, PTL

(* In the same circumstances a rollback that opens the business again, or  *)
(* says that the former version is back, has brought back the branch, the  *)
(* tree and, if it could read its id, the schema it found.                 *)
THEOREM RollbackRestores ==
    ASSUME OneAdmin
    PROVE  Spec => []RolledBackRestores
<1>1. ConsistentInv => RolledBackRestores
  BY DEF ConsistentInv, RunConsistent, RolledBackRestores, Undone
<1> QED
  BY <1>1, ConsistentInvariant, PTL

-----------------------------------------------------------------------------
(* Updates on a schedule: the poller and the API's checks                  *)

(* The poller alone begins updates, nothing disturbs the lock.             *)
PollerAlone == Prompt /\ MaxOutside = 0 /\ AdminGoals = {}

(* A runner about to release the lock has said how it ended, and no report *)
(* of the thread or of the poller says otherwise.                          *)
SettledInv ==
    /\ api.at # "free" => api.by = "poller"
    /\ poller = "mark" => Alive = {}
    /\ \A r \in Runs : at[r] = "release" => ~Active(status)
    /\ api.at # "queue" =>
          /\ ~Quiet("thread") => ~Active(draft["thread"].content)
          /\ draft["thread"].stage = "written" => ~Active(statusTmp.content)
    /\ poller = "complain" /\ (\E r \in Runs : at[r] = "release") =>
          /\ draft["poller"].stage = "read" => ~Active(draft["poller"].content)
          /\ draft["poller"].stage = "written" => ~Active(statusTmp.content)

SettledBase == PollerAlone /\ ReportBase /\ LockInv /\ SettledInv

LEMMA PollerShelters ==
    ASSUME PollerAlone, TypeInv, api.at # "free" => api.by = "poller"
    PROVE  Sheltered
  BY DEF PollerAlone, Sheltered, TypeInv, ApiTyped

(* Where a runner is while it is alive. *)
LEMMA AliveSomewhere ==
    ASSUME SettledBase, NEW r \in Alive
    PROVE  Reporting(r) \/ (api.run = r /\ api.at \in RunLabels) \/ at[r] = "release"
<1>1. at[r] \notin {"none", "ended"} /\ at[r] \in Labels /\ r \in Runs
  BY DEF Alive, SettledBase, ReportBase, LivesInv, TypeInv, RunsTyped
<1>2. ASSUME at[r] = "claim", api.run # r PROVE Reporting(r)
  <2>1. Held(r)
    BY <1>1, <1>2 DEF SettledBase, LockInv
  <2> QED
    BY <1>2, <2>1, LockFields DEF Held, Reporting
<1>3. api.run = r => api.at \in RunLabels
  BY <1>1, UpdateAssumption DEF SettledBase, ReportBase, HandInv
<1> QED
  BY <1>1, <1>2, <1>3 DEF Reporting, PreFinal

(* While a runner is about to release the lock, it is the only one.        *)
LEMMA ReleasingAlone ==
    ASSUME SettledBase, NEW r \in Runs, at[r] = "release"
    PROVE  /\ api.at \notin Preparing /\ r \in Alive
           /\ \A q \in Runs : ~Reporting(q) /\ Quiet(q) /\ at[q] \notin Reports
           /\ \A q \in Runs \ {r} : at[q] \in {"none", "ended"}
<1>1. Working(r)
  BY DEF Working
<1>2. /\ api.at \notin Preparing
      /\ \A q \in Runs \ {r} : at[q] \in {"none", "ended"}
  BY <1>1, WorkingAlone DEF SettledBase, ReportBase
<1>3. \A q \in Runs : ~Reporting(q)
  BY <1>2 DEF Reporting, PreFinal
<1>4. r \in Alive
  BY DEF Alive, SettledBase, ReportBase, LivesInv, TypeInv, RunsTyped
<1> QED
  BY <1>2, <1>3, <1>4, NobodyReports DEF SettledBase

(* The thread has the status file to itself, the poller waits for it.      *)
LEMMA ThreadWritesAlone ==
    ASSUME SettledBase, api.at # "free"
    PROVE  /\ poller = "waiting" /\ Quiet("poller")
           /\ \A r \in Runs : ~Reporting(r) /\ Quiet(r)
<1>1. poller = "waiting" /\ Quiet("poller")
  BY DEF SettledBase, SettledInv, ReportBase, DraftsInv
<1>2. \A r \in Runs : ~Reporting(r)
  BY ReportingAlone DEF SettledBase
<1> QED
  BY <1>1, <1>2, NobodyReports DEF SettledBase

LEMMA ReleaseReported ==
    ASSUME ReportBase, NEW r \in Runs, RunnerStep(r), at'[r] = "release"
    PROVE  Reporting(r) /\ ~Active(status')
<1>0. RunsTyped
  BY DEF ReportBase, TypeInv
<1>1. ReportEnds(r)
  <2>1. ~Claim(r) /\ ~ClaimRename(r) /\ ~ReportBegins(r) /\ ~Release(r)
    BY <1>0, ReportTable DEF Claim, ClaimRename, ReportBegins, Release, End, Goto, RunsTyped, Reports
  <2>2. ~(Verify(r) \/ Lockdown(r) \/ Quiesce(r) \/ Command(r) \/ Switch(r) \/ Point(r) \/ Migrate(r))
    BY <1>0 DEF Verify, Lockdown, Quiesce, Command, Dump, Install, Build, Probe, Switch, Point, Migrate, Raise,
                Handling, Goto, RunsTyped
  <2>3. ~(Restart(r) \/ Reopen(r) \/ Resume(r) \/ Downgrade(r) \/ Revert(r) \/ Repoint(r) \/ Rebuild(r) \/ Restore(r))
    BY <1>0 DEF Restart, Reopen, Resume, Downgrade, Revert, Repoint, Rebuild, Restore, Goto, RunsTyped
  <2> QED
    BY <2>1, <2>2, <2>3 DEF RunnerStep
<1>2. at[r] \in Reports /\ After[at[r]] = "release" /\ status' = Reported(r)
  BY <1>0, <1>1, ReportSucceeds DEF RunsTyped
<1>3. \A l \in Reports : After[l] = "release" => Report[l] \notin ActivePhases
  BY DEF Reports, After, Report, ActivePhases
<1>4. status'.phase = Report[at[r]]
  BY <1>2 DEF Reported
<1> QED
  BY <1>2, <1>3, <1>4, ReportsArePreFinal DEF Active

LEMMA AliveKept ==
    ASSUME TypeInv, [Next]_vars
    PROVE  Alive' \subseteq Alive \/ (Outsiders /\ api.at = "spawn" /\ api'.at = "handoff")
<1>0. RunsTyped /\ api \in ApiRecords
  BY DEF TypeInv, ApiTyped, Apis
<1>1. \A r \in Runs : /\ Reaped(proc)[r] = "alive" => proc[r] = "alive"
                      /\ \A q \in Runs : Exited(proc, q)[r] = "alive" => proc[r] = "alive"
  BY <1>0 DEF Reaped, Exited, RunsTyped
<1>2. ASSUME NEW r \in Runs, RunnerStep(r) \/ Kill(r) PROVE Alive' \subseteq Alive
  BY <1>1, <1>2, RunnerEffects DEF Alive
<1>3. CASE Outsiders
  <2>1. CASE proc' = proc \/ proc' = Reaped(proc)
    BY <1>1, <2>1 DEF Alive
  <2>2. CASE api.at = "spawn" /\ api' = [api EXCEPT !.at = "handoff"]
    BY <1>0, <1>3, <2>2 DEF ApiRecords
  <2> QED
    BY <1>3, <2>1, <2>2, OutsiderEffects
<1>4. CASE UNCHANGED vars
  BY <1>4 DEF vars, Alive
<1> QED
  BY <1>2, <1>3, <1>4 DEF Next, Outsiders

LEMMA SettledApi ==
    ASSUME SettledBase, [Next]_vars, api'.at # "free"
    PROVE  api'.by = "poller"
<1>0. /\ TypeInv /\ AdminGoals = {} /\ NoApi.at = "free"
      /\ (api.at # "free" => api.by = "poller")
  BY LockFields DEF SettledBase, ReportBase, SettledInv, PollerAlone
<1>1. ASSUME NEW r \in Runs, RunnerStep(r) \/ Kill(r) PROVE api'.by = "poller"
  BY <1>0, <1>1, RunnerEffects
<1>2. CASE ThreadStep
  <2>1. api.at # "free"
    BY <1>2
       DEF SettledBase, ReportBase, DraftsInv, Quiet, ThreadReports, ThreadStep,
           ThreadReportBegins, ThreadReportEnds, ThreadPhase, Rename, RenameRaises, Fetch, MakeLock,
           SweepLock, WriteOwner, RenameOwner, Spawn, Handoff, DropLock
  <2> QED
    BY <1>0, <1>2, <2>1, ThreadErrand
<1>3. CASE AdminAsks
  BY <1>0, <1>3 DEF AdminAsks
<1>4. CASE PollerStep
  <2>1. api' = api \/ \E goal : Begin("poller", goal)
    BY <1>4 DEF PollerStep, PollerLooks, PollerCalls, PollerReportBegins, PollerReportEnds
  <2> QED
    BY <1>0, <2>1 DEF Begin, NoApi
<1>5. CASE (\E w \in Writers : WriteTmp(w)) \/ World
  BY <1>0, <1>5 DEF WriteTmp, World, Push, StatusPage, OperatorLooks, OperatorSweeps,
                    RestartFromOutside, MakeRestart, RestartServices
<1>6. CASE UNCHANGED vars
  BY <1>0, <1>6 DEF vars
<1> QED
  BY <1>1, <1>2, <1>3, <1>4, <1>5, <1>6 DEF Next

(* The poller finds a dead runner only when every runner is dead.          *)
LEMMA LooksDead ==
    ASSUME SettledBase, PollerLooks, poller' = "mark"
    PROVE  Alive = {}
<1>1. /\ poller = "asleep" /\ Active(status) /\ ~Running(status.pid) /\ api.at = "free"
  BY DEF PollerLooks, SettledBase, SettledInv, ReportBase, DraftsInv
<1>2. ASSUME NEW r \in Alive PROVE FALSE
  <2>1. r \in Runs
    BY <1>2 DEF Alive
  <2>2. ~Reporting(r)
    BY <1>1, <2>1, ReportingAlone DEF SettledBase
  <2>3. at[r] # "release"
    BY <1>1, <2>1 DEF SettledBase, SettledInv
  <2> QED
    BY <1>1, <1>2, <2>2, <2>3, AliveSomewhere DEF RunLabels
<1> QED
  BY <1>2

LEMMA SettledMark ==
    ASSUME SettledBase, [Next]_vars, poller' = "mark"
    PROVE  Alive' = {}
<1>0. TypeInv
  BY DEF SettledBase, ReportBase
<1>1. CASE poller = "mark"
  <2>1. Alive = {} /\ api.by # "poller"
    BY <1>1 DEF SettledBase, SettledInv, ReportBase, DraftsInv
  <2>2. api.at = "free"
    BY <2>1 DEF SettledBase, SettledInv
  <2> QED
    BY <1>0, <2>1, <2>2, AliveKept
<1>2. CASE poller # "mark"
  <2>1. PollerLooks
    <3>1. ASSUME NEW r \in Runs, RunnerStep(r) \/ Kill(r) PROVE FALSE
      BY <1>0, <1>2, <3>1, RunnerDrafts
    <3>2. ~ThreadStep
      BY <1>2 DEF ThreadStep, ThreadReportBegins, ThreadReportEnds, Fetch, MakeLock, SweepLock,
                  WriteOwner, RenameOwner, Spawn, Handoff, DropLock, ThreadRaises, ThreadReturns
    <3>3. ~(AdminAsks \/ (\E w \in Writers : WriteTmp(w)) \/ World \/ UNCHANGED vars)
      BY <1>2 DEF AdminAsks, WriteTmp, World, Push, StatusPage, OperatorLooks, OperatorSweeps,
                  RestartFromOutside, MakeRestart, RestartServices, vars
    <3>4. ~PollerCalls /\ ~PollerReportBegins /\ ~PollerReportEnds
      BY <1>2 DEF PollerCalls, PollerReportBegins, PollerReportEnds
    <3> QED
      BY <3>1, <3>2, <3>3, <3>4 DEF Next, PollerStep
  <2> QED
    BY <2>1, LooksDead DEF PollerLooks, Alive
<1> QED
  BY <1>1, <1>2

(* Who renames status.json.tmp while a runner is about to release the lock. *)
LEMMA SettledRelease ==
    ASSUME SettledBase, [Next]_vars, NEW r \in Runs, at'[r] = "release"
    PROVE  ~Active(status')
<1>0. TypeInv /\ RunsTyped
  BY DEF SettledBase, ReportBase, TypeInv
<1>1. CASE RunnerStep(r)
  BY <1>1, ReleaseReported DEF SettledBase
<1>2. CASE at[r] = "release" /\ ~RunnerStep(r)
  <2>0. /\ api.at \notin Preparing /\ r \in Alive /\ ~Active(status)
        /\ \A q \in Runs \ {r} : at[q] \in {"none", "ended"}
    BY <1>2, ReleasingAlone DEF SettledBase, SettledInv
  <2>1. ASSUME NEW q \in Runs, RunnerStep(q) \/ Kill(q) PROVE ~Active(status')
    <3>1. q = r
      BY <1>0, <2>0, <2>1, RunnerBegun DEF Kill, SettledBase, ReportBase, LivesInv
    <3>2. Kill(r)
      BY <1>2, <2>1, <3>1
    <3> QED
      BY <2>0, <3>2 DEF Kill
  <2>2. CASE ThreadStep
    <3>1. CASE ThreadReportEnds
      <4>1. api.at # "queue"
        BY <2>0 DEF Preparing, RunLabels
      <4> QED
        BY <2>0, <3>1, <4>1 DEF ThreadReportEnds, Rename, RenameRaises, SettledBase, SettledInv
    <3>2. CASE ~ThreadReportEnds
      BY <1>0, <2>0, <2>2, <3>2, ThreadDrafts
    <3> QED
      BY <3>1, <3>2
  <2>3. CASE AdminAsks \/ (\E w \in Writers : WriteTmp(w)) \/ World \/ UNCHANGED vars
    <3>1. status' = status
      BY <2>3 DEF AdminAsks, Begin, WriteTmp, World, Push, StatusPage, OperatorLooks, OperatorSweeps,
                  RestartFromOutside, vars, files
    <3> QED
      BY <2>0, <3>1
  <2>4. CASE PollerStep
    <3>1. CASE PollerReportEnds
      <4>1. poller \in {"mark", "complain"}
        BY <3>1 DEF PollerReportEnds, Rename, RenameRaises, SettledBase, ReportBase, DraftsInv, Quiet
      <4>2. poller = "complain"
        BY <2>0, <4>1 DEF SettledBase, SettledInv
      <4> QED
        BY <1>2, <2>0, <3>1, <4>2 DEF PollerReportEnds, Rename, RenameRaises, SettledBase, SettledInv
    <3>2. CASE ~PollerReportEnds
      <4>1. status' = status
        BY <2>4, <3>2 DEF PollerStep, PollerLooks, PollerCalls, PollerReportBegins, Begin, Reads, files
      <4> QED
        BY <2>0, <4>1
    <3> QED
      BY <3>1, <3>2
  <2> QED
    BY <2>1, <2>2, <2>3, <2>4 DEF Next
<1>3. CASE at[r] # "release" /\ ~RunnerStep(r)
  <2>1. ASSUME NEW q \in Runs, RunnerStep(q) \/ Kill(q) PROVE FALSE
    <3>1. CASE q = r
      BY <1>0, <1>3, <2>1, <3>1 DEF Kill, End, Goto, RunsTyped
    <3>2. CASE q # r
      BY <1>0, <1>3, <2>1, <3>2, RunnerEffects
    <3> QED
      BY <3>1, <3>2
  <2>2. ~Outsiders
    BY <1>0, <1>3, OutsiderEffects DEF RunsTyped
  <2>3. ~UNCHANGED vars
    BY <1>3 DEF vars
  <2> QED
    BY <2>1, <2>2, <2>3 DEF Next, Outsiders
<1> QED
  BY <1>1, <1>2, <1>3

LEMMA SettledThread ==
    ASSUME SettledBase, [Next]_vars, api'.at # "queue"
    PROVE  /\ ~Quiet("thread")' => ~Active(draft'["thread"].content)
           /\ draft'["thread"].stage = "written" => ~Active(statusTmp'.content)
<1>0. /\ TypeInv /\ draft \in [Writers -> Drafts] /\ status \in Statuses
      /\ (~Quiet("thread") => api.at \in ThreadReports)
      /\ (api.at # "queue" /\ ~Quiet("thread") => ~Active(draft["thread"].content))
      /\ (api.at # "queue" /\ draft["thread"].stage = "written" => ~Active(statusTmp.content))
  BY DEF SettledBase, SettledInv, ReportBase, TypeInv, FilesTyped, DraftsInv
<1>q. ASSUME Quiet("thread")'
      PROVE  /\ ~Quiet("thread")' => ~Active(draft'["thread"].content)
             /\ draft'["thread"].stage = "written" => ~Active(statusTmp'.content)
  BY <1>q DEF Quiet
<1>s. ASSUME api' = api, draft'["thread"] = draft["thread"], statusTmp' = statusTmp
      PROVE  /\ ~Quiet("thread")' => ~Active(draft'["thread"].content)
             /\ draft'["thread"].stage = "written" => ~Active(statusTmp'.content)
  BY <1>0, <1>s DEF Quiet
<1>1. ASSUME NEW r \in Runs, RunnerStep(r) \/ Kill(r)
      PROVE  /\ ~Quiet("thread")' => ~Active(draft'["thread"].content)
             /\ draft'["thread"].stage = "written" => ~Active(statusTmp'.content)
  <2>1. CASE api' = api /\ draft'["thread"] = draft["thread"]
    <3>1. CASE ReportEnds(r)
      <4>1. Reporting(r)
        BY <3>1, ReportSucceeds, ReportsArePreFinal DEF SettledBase
      <4>2. Quiet("thread")
        BY <4>1, ReportingAlone DEF SettledBase
      <4> QED
        BY <1>q, <2>1, <4>2 DEF Quiet
    <3>2. CASE ~ReportEnds(r)
      BY <1>0, <1>1, <1>s, <2>1, <3>2, RunnerDrafts
    <3> QED
      BY <3>1, <3>2
  <2>2. CASE draft'["thread"] = NoDraft
    BY <1>q, <2>2 DEF Quiet, NoDraft
  <2> QED
    BY <1>0, <1>1, <2>1, <2>2, RunnerDrafts, WritersKnown
<1>2. CASE ThreadStep
  <2>1. CASE ThreadReportBegins
    <3>1. api' = api /\ api.at # "queue"
      BY <2>1 DEF ThreadReportBegins
    <3>2. PICK l \in DOMAIN ThreadPhase :
            draft'["thread"] = [stage |-> "read", content |-> [status EXCEPT !.phase = ThreadPhase[l]]]
      BY <1>0, <2>1, <3>1, WritersKnown DEF ThreadReportBegins, Reads
    <3>3. ThreadPhase[l] \in {"checking", "idle"}
      BY DEF ThreadPhase
    <3>4. draft'["thread"].stage = "read" /\ draft'["thread"].content.phase \in {"checking", "idle"}
      BY <1>0, <3>2, <3>3 DEF Statuses
    <3> QED
      BY <3>4 DEF Active, ActivePhases
  <2>2. CASE draft'["thread"] = NoDraft
    BY <1>q, <2>2 DEF Quiet, NoDraft
  <2>3. CASE ~ThreadReportBegins /\ draft'["thread"] # NoDraft
    <3>1. api.at \notin ThreadReports /\ draft' = draft
      <4>1. ~ThreadReportEnds
        BY <1>0, <2>3, WritersKnown DEF ThreadReportEnds, Rename, RenameRaises
      <4> QED
        BY <1>2, <2>3, <4>1 DEF ThreadStep, Fetch, MakeLock, SweepLock, WriteOwner, RenameOwner, Spawn,
                                Handoff, DropLock, ThreadReports, files
    <3>2. Quiet("thread")
      BY <1>0, <3>1
    <3> QED
      BY <1>q, <3>1, <3>2 DEF Quiet
  <2> QED
    BY <2>1, <2>2, <2>3
<1>3. ASSUME NEW w \in Writers, WriteTmp(w)
      PROVE  /\ ~Quiet("thread")' => ~Active(draft'["thread"].content)
             /\ draft'["thread"].stage = "written" => ~Active(statusTmp'.content)
  <2>1. CASE w = "thread"
    <3>1. /\ draft'["thread"] = [stage |-> "written", content |-> NoStatus] /\ api' = api
          /\ statusTmp' = [there |-> TRUE, content |-> draft["thread"].content] /\ ~Quiet("thread")
      BY <1>0, <1>3, <2>1, WritersKnown DEF WriteTmp, Quiet
    <3>2. ~Active(NoStatus)
      BY DEF Active, NoStatus, ActivePhases
    <3> QED
      BY <1>0, <3>1, <3>2
  <2>2. CASE w # "thread"
    <3>1. api.at = "free"
      BY <1>3, <2>2, ThreadWritesAlone DEF WriteTmp, Quiet, Writers
    <3>2. Quiet("thread")
      BY <1>0, <3>1 DEF ThreadReports
    <3>3. draft'["thread"] = draft["thread"]
      BY <1>0, <1>3, <2>2, WritersKnown DEF WriteTmp
    <3> QED
      BY <1>q, <3>2, <3>3 DEF Quiet
  <2> QED
    BY <2>1, <2>2
<1>4. CASE PollerStep
  <2>1. CASE PollerLooks
    BY <1>s, <2>1 DEF PollerLooks, files
  <2>2. CASE PollerCalls
    <3>1. Quiet("thread") /\ draft' = draft
      BY <1>0, <2>2 DEF PollerCalls, Begin, ThreadReports, files
    <3> QED
      BY <1>q, <3>1 DEF Quiet
  <2>3. CASE PollerReportBegins
    <3>1. UNCHANGED <<api, statusTmp>> /\ draft'["thread"] = draft["thread"]
      BY <1>0, <2>3, WritersKnown DEF PollerReportBegins, Reads
    <3> QED
      BY <1>s, <3>1
  <2>4. CASE PollerReportEnds
    <3>1. api.at = "free"
      BY <2>4, ThreadWritesAlone DEF PollerReportEnds, Rename, RenameRaises, Quiet
    <3>2. Quiet("thread") /\ draft'["thread"] = draft["thread"]
      BY <1>0, <2>4, <3>1, WritersKnown DEF PollerReportEnds, Rename, RenameRaises, ThreadReports
    <3> QED
      BY <1>q, <3>2 DEF Quiet
  <2> QED
    BY <1>4, <2>1, <2>2, <2>3, <2>4 DEF PollerStep
<1>5. CASE AdminAsks
  BY <1>5 DEF AdminAsks, SettledBase, PollerAlone
<1>6. CASE World \/ UNCHANGED vars
  <2>1. ~RestartFromOutside
    BY <1>0 DEF RestartFromOutside, SettledBase, PollerAlone, TypeInv, ApiTyped
  <2>2. UNCHANGED <<api, draft, statusTmp>>
    BY <1>6, <2>1 DEF World, Push, StatusPage, OperatorLooks, OperatorSweeps, vars, files
  <2> QED
    BY <1>s, <2>2
<1> QED
  BY <1>1, <1>2, <1>3, <1>4, <1>5, <1>6 DEF Next

LEMMA SettledComplain ==
    ASSUME SettledBase, [Next]_vars, poller' = "complain", NEW r \in Runs, at'[r] = "release"
    PROVE  /\ draft'["poller"].stage = "read" => ~Active(draft'["poller"].content)
           /\ draft'["poller"].stage = "written" => ~Active(statusTmp'.content)
<1>0. /\ TypeInv /\ RunsTyped /\ draft \in [Writers -> Drafts] /\ Quiet("poller") \in BOOLEAN
      /\ (~Quiet("poller") => poller \in {"mark", "complain"})
  BY DEF SettledBase, ReportBase, TypeInv, FilesTyped, DraftsInv, Quiet
<1>q. ASSUME Quiet("poller")'
      PROVE  /\ draft'["poller"].stage = "read" => ~Active(draft'["poller"].content)
             /\ draft'["poller"].stage = "written" => ~Active(statusTmp'.content)
  BY <1>q DEF Quiet
<1>r. at[r] = "release"
  <2>1. ASSUME NEW q \in Runs, RunnerStep(q) \/ Kill(q), at[r] # "release" PROVE FALSE
    <3>1. q = r /\ RunnerStep(r)
      BY <1>0, <2>1, RunnerEffects DEF Kill, End, Goto, RunsTyped
    <3>2. Reporting(r)
      BY <3>1, ReleaseReported DEF SettledBase
    <3>3. poller = "asleep"
      BY <3>2, ReportingAlone DEF SettledBase
    <3> QED
      BY <1>0, <3>1, <3>3, RunnerDrafts
  <2>2. Outsiders \/ UNCHANGED vars => at[r] = "release"
    BY <1>0, OutsiderEffects DEF RunsTyped, vars
  <2> QED
    BY <2>1, <2>2 DEF Next, Outsiders
<1>a. /\ api.at \notin Preparing /\ ~Active(status)
      /\ \A q \in Runs : Quiet(q) /\ at[q] \notin Reports
      /\ \A q \in Runs \ {r} : at[q] \in {"none", "ended"}
  BY <1>r, ReleasingAlone DEF SettledBase, SettledInv
<1>b. poller = "complain" =>
        /\ draft["poller"].stage = "read" => ~Active(draft["poller"].content)
        /\ draft["poller"].stage = "written" => ~Active(statusTmp.content)
  BY <1>r DEF SettledBase, SettledInv
<1>s. ASSUME draft'["poller"] = draft["poller"], statusTmp' = statusTmp,
             poller = "complain" \/ Quiet("poller")
      PROVE  /\ draft'["poller"].stage = "read" => ~Active(draft'["poller"].content)
             /\ draft'["poller"].stage = "written" => ~Active(statusTmp'.content)
  BY <1>b, <1>s DEF Quiet
<1>1. ASSUME NEW q \in Runs, RunnerStep(q) \/ Kill(q)
      PROVE  FALSE
  <2>1. q = r
    BY <1>0, <1>1, <1>a, RunnerBegun DEF Kill, SettledBase, ReportBase, LivesInv
  <2>2. ~Kill(r)
    BY <1>0 DEF Kill, End, Goto, RunsTyped
  <2>3. ~Reporting(r)
    BY <1>r DEF Reporting, PreFinal
  <2> QED
    BY <1>1, <2>1, <2>2, <2>3, ReleaseReported DEF SettledBase
<1>2. CASE ThreadStep
  <2>1. api.at # "free"
    BY <1>2
       DEF SettledBase, ReportBase, DraftsInv, Quiet, ThreadReports, ThreadStep,
           ThreadReportBegins, ThreadReportEnds, ThreadPhase, Rename, RenameRaises, Fetch, MakeLock,
           SweepLock, WriteOwner, RenameOwner, Spawn, Handoff, DropLock
  <2>2. Quiet("poller")
    BY <2>1, ThreadWritesAlone
  <2>3. draft'["poller"] = draft["poller"]
    BY <1>0, <1>2, ThreadDrafts, WritersKnown
  <2> QED
    BY <1>q, <2>2, <2>3 DEF Quiet
<1>3. ASSUME NEW w \in Writers, WriteTmp(w)
      PROVE  /\ draft'["poller"].stage = "read" => ~Active(draft'["poller"].content)
             /\ draft'["poller"].stage = "written" => ~Active(statusTmp'.content)
  <2>1. poller = "complain" /\ ~Quiet(w) /\ w \notin Runs
    BY <1>3, <1>a DEF WriteTmp, Quiet
  <2>2. api.at = "free"
    BY <2>1, ThreadWritesAlone
  <2>3. w = "poller"
    BY <2>1, <2>2 DEF SettledBase, ReportBase, DraftsInv, ThreadReports, Writers
  <2>4. /\ draft'["poller"] = [stage |-> "written", content |-> NoStatus] /\ draft["poller"].stage = "read"
        /\ statusTmp' = [there |-> TRUE, content |-> draft["poller"].content]
    BY <1>0, <1>3, <2>3, WritersKnown DEF WriteTmp
  <2> QED
    BY <1>b, <2>1, <2>4
<1>4. CASE PollerStep
  <2>1. CASE PollerLooks
    BY <2>1 DEF PollerLooks
  <2>2. CASE PollerCalls
    <3>1. Quiet("poller") /\ draft' = draft
      BY <1>0, <2>2 DEF PollerCalls, Begin, files
    <3> QED
      BY <1>q, <3>1 DEF Quiet
  <2>3. CASE PollerReportBegins
    <3>1. draft'["poller"] = [stage |-> "read", content |-> status]
      BY <1>0, <2>3, WritersKnown DEF PollerReportBegins, Reads
    <3> QED
      BY <1>a, <3>1
  <2>4. CASE PollerReportEnds
    <3>1. draft'["poller"] = NoDraft
      BY <1>0, <2>4, WritersKnown DEF PollerReportEnds, Rename, RenameRaises
    <3> QED
      BY <1>q, <3>1 DEF Quiet, NoDraft
  <2> QED
    BY <1>4, <2>1, <2>2, <2>3, <2>4 DEF PollerStep
<1>5. CASE AdminAsks
  BY <1>5 DEF AdminAsks, SettledBase, PollerAlone
<1>6. CASE World \/ UNCHANGED vars
  <2>1. ~RestartFromOutside
    BY <1>0 DEF RestartFromOutside, SettledBase, PollerAlone, TypeInv, ApiTyped
  <2>2. UNCHANGED <<poller, draft, statusTmp>>
    BY <1>6, <2>1 DEF World, Push, StatusPage, OperatorLooks, OperatorSweeps, vars, files
  <2> QED
    BY <1>s, <2>2
<1> QED
  BY <1>1, <1>2, <1>3, <1>4, <1>5, <1>6 DEF Next

LEMMA SettledStep == SettledBase /\ [Next]_vars => SettledInv'
<1> SUFFICES ASSUME SettledBase, [Next]_vars PROVE SettledInv'
  OBVIOUS
<1>1. (api.at # "free" => api.by = "poller")'
  BY SettledApi
<1>2. (poller = "mark" => Alive = {})'
  BY SettledMark
<1>3. (\A r \in Runs : at[r] = "release" => ~Active(status))'
  BY SettledRelease DEF Active
<1>4. (api.at # "queue" =>
          /\ ~Quiet("thread") => ~Active(draft["thread"].content)
          /\ draft["thread"].stage = "written" => ~Active(statusTmp.content))'
  BY SettledThread DEF Active
<1>5. (poller = "complain" /\ (\E r \in Runs : at[r] = "release") =>
          /\ draft["poller"].stage = "read" => ~Active(draft["poller"].content)
          /\ draft["poller"].stage = "written" => ~Active(statusTmp.content))'
  BY SettledComplain DEF Active
<1> QED
  BY <1>1, <1>2, <1>3, <1>4, <1>5 DEF SettledInv

LEMMA SettledInit == Init => SettledInv
  BY DEF Init, SettledInv, NoApi, Quiet, NoDraft, Writers

LEMMA SettledInvariant ==
    ASSUME PollerAlone
    PROVE  Spec => []SettledBase
<1>1. Init => SettledInv
  BY SettledInit
<1>2. SettledBase /\ [Next]_vars => SettledInv'
  BY SettledStep
<1>3. TypeInv /\ SettledInv => Sheltered
  BY PollerShelters DEF SettledInv
<1>4. Init => ReportInv
  BY ReportInit
<1>5. ReportBase /\ [Next]_vars => ReportInv'
  BY ReportStep
<1>6. Spec => []HandInv
  BY HandInvariant DEF PollerAlone
<1>7. Spec => []LockInv
  BY LockInvariant DEF PollerAlone, LockUndisturbed
<1>8. /\ ReportBase <=> Sheltered /\ TypeInv /\ LivesInv /\ DraftsInv /\ HandInv /\ ReportInv
      /\ SettledBase <=> ReportBase /\ LockInv /\ SettledInv
  BY DEF ReportBase, SettledBase
<1> QED
  BY <1>1, <1>2, <1>3, <1>4, <1>5, <1>6, <1>7, <1>8, TypeInvariant, LivesInvariant, DraftsInvariant, PTL
     DEF Spec

(* When updates run on the poller's schedule alone, it says that a runner  *)
(* was interrupted only when none runs, however its reading of the status  *)
(* file and its writing interleave with the runners and the checks.        *)
THEOREM PollerMarksOnlyDead == ASSUME PollerAlone PROVE Spec => MarksOnlyDead
<1>1. SettledInv => (poller = "mark" /\ PollerReportEnds => Alive = {})
  BY DEF SettledInv
<1> QED
  BY <1>1, SettledInvariant, PTL DEF MarksOnlyDead, SettledBase

(* In the same circumstances the API's checks never write the status file  *)
(* while a runner reports, though nothing locks that file.                 *)
THEOREM ChecksLeaveReports == ASSUME PollerAlone PROVE Spec => ChecksKeepOff
<1>1. SettledBase => (ThreadReportEnds /\ api.at # "queue" => ~(Active(status) /\ Alive # {}))
  <2> SUFFICES ASSUME SettledBase, ThreadReportEnds, api.at # "queue", Active(status), NEW r \in Alive
               PROVE  FALSE
    OBVIOUS
  <2>1. api.at \in ThreadReports
    BY DEF ThreadReportEnds, Rename, RenameRaises, SettledBase, ReportBase, DraftsInv, Quiet
  <2>2. r \in Runs
    BY DEF Alive
  <2>3. ~Reporting(r)
    BY <2>1, <2>2, ThreadWritesAlone DEF ThreadReports
  <2>4. at[r] # "release"
    BY <2>2 DEF SettledBase, SettledInv
  <2> QED
    BY <2>1, <2>3, <2>4, AliveSomewhere DEF ThreadReports, RunLabels
<1> QED
  BY <1>1, SettledInvariant, PTL DEF ChecksKeepOff

=============================================================================
