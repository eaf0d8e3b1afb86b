---------------------------- MODULE SystemUpdate ----------------------------
(***************************************************************************)
(* The in-place update of a native deployment                              *)
(* (services/system_update_service.py, scripts/system_update_runner.py,    *)
(* scripts/update-guard.sh).                                               *)
(*                                                                         *)
(* Three kinds of actors share files and no memory:                        *)
(*   - the API process: one thread at a time (the module's _LOCK) checks   *)
(*     for a new version or starts an update, and a poller looks at the    *)
(*     status file and marks an update failed whose runner has died;       *)
(*   - a detached runner per update: it claims the lock, verifies, locks   *)
(*     the business out, stops the workers, backs up, switches the code,   *)
(*     migrates, builds, restarts, and rolls back when a step fails;      *)
(*   - the operator, whose make targets pass through update-guard.sh.      *)
(*                                                                         *)
(* The lock is a directory with an owner.json in it, made in two steps.    *)
(* Both owner.json and status.json are changed by reading the file,        *)
(* writing a .tmp file (the same one for all writers) and renaming it:   *)
(* three steps for status.json; for owner.json, where every writer of a    *)
(* run writes the same, reading and writing the .tmp are one.            *)
(***************************************************************************)
EXTENDS Integers, FiniteSets

CONSTANTS
    Runs,          \* ids of the updates that may be started
    Mortal,        \* runs whose runner may be killed
    Versions,      \* releases of the branch, each with its migration
    Readable,      \* versions whose migration id the runner can parse
    AdminGoals,    \* what the administrator asks for: "check", "start"
    PollerGoals,   \* what the poller may do under the settings in force
    Prompt,        \* start_update returns before the runner it spawned has begun
    MaxOutside,    \* bound: make targets and crashes of the API
    NoRun          \* no run id, no pid

ASSUME UpdateAssumption ==
    /\ NoRun \notin Runs
    /\ \A name \in {"api", "former", "thread", "poller"} : name \notin Runs /\ name # NoRun
    /\ Mortal \subseteq Runs
    /\ 0 \in Versions /\ Versions \subseteq Nat
    /\ Readable \subseteq Versions
    /\ AdminGoals \subseteq {"check", "start"} /\ PollerGoals \subseteq {"check", "start"}
    /\ Prompt \in BOOLEAN
    /\ MaxOutside \in Nat

VARIABLES
    remote,        \* version at the head of the followed branch
    head,          \* version the branch of the deployment points at (HEAD)
    code, schema,  \* versions of the working tree and of the database
    maintenance,   \* maintenance.json exists
    background,    \* worker and beat are running
    lock,          \* the lock directory and its owner.json
    ownerTmp,      \* owner.json.tmp
    status,        \* status.json
    statusTmp,     \* status.json.tmp
    draft,         \* per writer, what it is writing to status.json
    proc,          \* per run, the runner process as the API sees its pid
    child,         \* runs spawned by the API process that runs now
    at, work,      \* per run, its next step and what it remembers
    api,           \* the thread that holds _LOCK
    poller,        \* the polling task
    operator,      \* a make target that found the lock stale
    outside        \* make targets and crashes so far

files == <<lock, ownerTmp, status, statusTmp, draft>>
system == <<remote, head, code, schema, maintenance, background>>
vars == <<remote, head, code, schema, maintenance, background, lock, ownerTmp, status, statusTmp,
          draft, proc, child, at, work, api, poller, operator, outside>>

Writers == Runs \cup {"thread", "poller"}
Pids == Runs \cup {"api", "former", NoRun}

Free == [dir |-> FALSE, run |-> NoRun, pid |-> NoRun]
MadeBlank == [dir |-> TRUE, run |-> "", pid |-> ""]   \* mutant: an owner of blanks
Made == [dir |-> TRUE, run |-> NoRun, pid |-> NoRun]
Owned(r, p) == [dir |-> TRUE, run |-> r, pid |-> p]
NoOwnerTmp == Free

ActivePhases == {"queued", "preflight", "backup", "quiescing", "installing", "migrating",
                 "building", "restarting", "healthcheck", "rollback"}
FinalPhases == {"success", "failed", "rolled_back"}
Phases == ActivePhases \cup FinalPhases \cup {"idle", "checking"}

NoStatus == [phase |-> "idle", pid |-> NoRun]
NoStatusTmp == [there |-> FALSE, content |-> NoStatus]
NoDraft == [stage |-> "none", content |-> NoStatus]

NoApi == [at |-> "free", goal |-> "none", by |-> "none", run |-> NoRun,
          current |-> 0, dirty |-> FALSE, latest |-> 0, tries |-> 0]
NoWork == [target |-> 0, previous |-> 0, before |-> 0, revision |-> 0, known |-> FALSE,
           switched |-> FALSE, migrating |-> FALSE, quiesced |-> FALSE, failed |-> FALSE]

Init ==
    /\ \E v \in Versions : remote = v /\ head = v /\ code = v /\ schema = v
    /\ maintenance = FALSE /\ background = TRUE
    /\ lock = Free /\ ownerTmp = NoOwnerTmp
    /\ status = NoStatus /\ statusTmp = NoStatusTmp
    /\ draft = [w \in Writers |-> NoDraft]
    /\ proc = [r \in Runs |-> "unused"] /\ child = {}
    /\ at = [r \in Runs |-> "none"] /\ work = [r \in Runs |-> NoWork]
    /\ api = NoApi /\ poller = "asleep" /\ operator = "away" /\ outside = 0

(* Mutant: only processes that this API has spawned are known.             *)
RunningChildren(p) == p = "api" \/ (p \in child /\ proc[p] \in {"alive", "zombie"})

(* os.kill(pid, 0): a child nobody has waited for still answers.           *)
Running(p) == p = "api" \/ (p \in Runs /\ proc[p] \in {"alive", "zombie"})

Active(s) == s.phase \in ActivePhases
-----------------------------------------------------------------------------
(* Files *)

Reads(w, s) ==
    /\ draft[w].stage = "none"
    /\ draft' = [draft EXCEPT ![w] = [stage |-> "read", content |-> s]]
    /\ UNCHANGED <<status, statusTmp>>

WriteTmp(w) ==
    /\ draft[w].stage = "read"
    /\ draft' = [draft EXCEPT ![w] = [stage |-> "written", content |-> NoStatus]]
    /\ statusTmp' = [there |-> TRUE, content |-> draft[w].content]
    /\ UNCHANGED <<system, lock, ownerTmp, status, proc, child, at, work, api, poller, operator, outside>>

Rename(w) ==
    /\ draft[w].stage = "written" /\ statusTmp.there
    /\ draft' = [draft EXCEPT ![w] = NoDraft]
    /\ status' = statusTmp.content
    /\ statusTmp' = NoStatusTmp

(* Somebody else has renamed the .tmp file: os.replace does not find it.   *)
RenameRaises(w) ==
    /\ draft[w].stage = "written" /\ ~statusTmp.there
    /\ draft' = [draft EXCEPT ![w] = NoDraft]
    /\ UNCHANGED <<status, statusTmp>>

RemoveLock == lock' = Free /\ ownerTmp' = NoOwnerTmp

(* What update-guard.sh finds: a lock whose owner does not run is stale.   *)
LockHeld == lock.dir /\ Running(lock.pid)
GuardPasses(r) == ~LockHeld \/ lock.run = r
HookPasses(r) == LockHeld /\ lock.run = r

-----------------------------------------------------------------------------
(* Processes *)

Exited(ps, r) == [ps EXCEPT ![r] = IF r \in child THEN "zombie" ELSE "gone"]
Reaped(ps) == [r \in Runs |-> IF ps[r] = "zombie" THEN "gone" ELSE ps[r]]

FormerPid(o) == IF o.pid = "api" THEN [o EXCEPT !.pid = "former"] ELSE o

(* launchctl kickstart -k, or launchd after a crash: the API dies wherever *)
(* it is and starts anew with the worker and the beat; its children live   *)
(* on without a parent.  l and o: the lock and the .tmp of its owner.      *)
RestartServices(l, o) ==
    /\ api' = NoApi
    /\ poller' = "asleep"
    /\ child' = {}
    /\ proc' = Reaped(proc)
    /\ background' = TRUE
    /\ draft' = [draft EXCEPT !["thread"] = NoDraft, !["poller"] = NoDraft]
    /\ lock' = FormerPid(l) /\ ownerTmp' = FormerPid(o)

(* make restart, once update-guard.sh has cleared a stale lock away.       *)
MakeRestart ==
    IF LockHeld THEN RestartServices(lock, ownerTmp) ELSE RestartServices(Free, NoOwnerTmp)

-----------------------------------------------------------------------------
(* The runner *)

(* Where the runner writes its status, the phase it writes and what it     *)
(* does next.  Several writes of one phase in a row are one.               *)
Report == [
    preflight |-> "preflight", quiescing |-> "quiescing", backup |-> "backup",
    installing |-> "installing", migrating |-> "migrating", building |-> "building",
    restarting |-> "restarting", healthcheck |-> "healthcheck", success |-> "success",
    refused |-> "failed", rollback |-> "rollback", stuck |-> "failed",
    rolled_back |-> "rolled_back"]

After == [
    preflight |-> "verify", quiescing |-> "quiesce", backup |-> "dump",
    installing |-> "switch", migrating |-> "migrate", building |-> "build",
    restarting |-> "restart", healthcheck |-> "probe", success |-> "release",
    refused |-> "release", rollback |-> "downgrade", stuck |-> "release",
    rolled_back |-> "release"]

Handling == {"resume", "unlock", "refused", "rollback", "downgrade", "revert", "repoint",
             "rebuild", "restore", "reopenOld", "stuck", "rolled_back"}
Labels == DOMAIN Report \cup Handling \cup
    {"none", "claim", "claimed", "verify", "lockdown", "quiesce", "dump", "switch", "point",
     "install", "migrate", "build", "restart", "probe", "reopen", "release", "ended"}

Goto(r, label) == at' = [at EXCEPT ![r] = label]
Remember(r, w) == work' = [work EXCEPT ![r] = w]
End(r) == Goto(r, "ended") /\ proc' = Exited(proc, r)

(* Mutant: a failure after the switch is handled like one before it.       *)
RaiseUnswitched(r) == Goto(r, IF at[r] \in Handling THEN "release" ELSE "resume")

(* An exception in a step goes to the handler of _execute_locked; one in   *)
(* the handler itself leaves execute, which releases the lock.             *)
Raise(r) ==
    Goto(r, IF at[r] \in Handling THEN "release"
            ELSE IF work[r].switched THEN "rollback" ELSE "resume")

Claim(r) ==
    /\ at[r] = "claim"
    /\ Prompt => api.run # r
    /\ IF lock.dir /\ lock.run = r
       THEN ownerTmp' = Owned(r, r) /\ Goto(r, "claimed") /\ UNCHANGED proc
       ELSE End(r) /\ UNCHANGED ownerTmp
    /\ UNCHANGED <<system, lock, status, statusTmp, draft, child, work, api, poller, operator, outside>>

ClaimRename(r) ==
    /\ at[r] = "claimed"
    /\ IF ownerTmp.dir
       THEN lock' = ownerTmp /\ ownerTmp' = NoOwnerTmp /\ Goto(r, "preflight") /\ UNCHANGED proc
       ELSE End(r) /\ UNCHANGED <<lock, ownerTmp>>
    /\ UNCHANGED <<system, status, statusTmp, draft, child, work, api, poller, operator, outside>>

ReportBegins(r) ==
    /\ at[r] \in DOMAIN Report
    /\ Reads(r, [status EXCEPT !.phase = Report[at[r]]])
    /\ UNCHANGED <<system, lock, ownerTmp, proc, child, at, work, api, poller, operator, outside>>

ReportEnds(r) ==
    /\ at[r] \in DOMAIN Report
    /\ \/ Rename(r) /\ Goto(r, After[at[r]])
       \/ RenameRaises(r) /\ Raise(r)
    /\ UNCHANGED <<system, lock, ownerTmp, proc, child, work, api, poller, operator, outside>>

Verify(r) ==
    LET w == work[r] IN
    /\ at[r] = "verify"
    /\ IF remote = w.target /\ head = code /\ head <= w.target
       THEN /\ Remember(r, [w EXCEPT !.previous = head, !.revision = schema,
                                     !.known = schema \in Readable])
            /\ Goto(r, IF head = w.target THEN "success" ELSE "lockdown")
       ELSE Raise(r) /\ UNCHANGED work
    /\ UNCHANGED <<system, files, proc, child, api, poller, operator, outside>>

Lockdown(r) ==
    /\ at[r] = "lockdown"
    /\ maintenance' = TRUE
    /\ Goto(r, "quiescing")
    /\ UNCHANGED <<remote, head, code, schema, background, files, proc, child, work, api, poller, operator, outside>>

Quiesce(r) ==
    /\ at[r] = "quiesce"
    /\ \/ background' = FALSE /\ Remember(r, [work[r] EXCEPT !.quiesced = TRUE]) /\ Goto(r, "backup")
       \/ background' \in {FALSE, background} /\ Raise(r) /\ UNCHANGED work
    /\ UNCHANGED <<remote, head, code, schema, maintenance, files, proc, child, api, poller, operator, outside>>

(* Steps that change nothing modelled; like every command they may fail.   *)
Dump(r) == at[r] = "dump" /\ Goto(r, "installing")
Install(r) == at[r] = "install" /\ Goto(r, "migrating")
Build(r) == at[r] = "build" /\ Goto(r, "restarting")
Probe(r) == at[r] = "probe" /\ Goto(r, "reopen")

Command(r) ==
    /\ \/ Dump(r) \/ Install(r) \/ Build(r) \/ Probe(r)
       \/ at[r] \in {"verify", "dump", "install", "build", "restart", "probe"} /\ Raise(r)
    /\ UNCHANGED <<system, files, proc, child, work, api, poller, operator, outside>>

(* git reset --hard writes the working tree first (a tree written in part  *)
(* counts as written) and then moves the branch.                           *)
Switch(r) ==
    /\ at[r] = "switch"
    /\ \/ code' = work[r].target /\ Goto(r, "point")
       \/ Raise(r) /\ UNCHANGED code
    /\ UNCHANGED <<remote, head, schema, maintenance, background, files, proc, child, work,
                   api, poller, operator, outside>>

(* The hook of a reference transaction: it lets the run pass that owns a   *)
(* living lock, and clears a stale one away.                               *)
Hook == IF LockHeld THEN UNCHANGED <<lock, ownerTmp>> ELSE RemoveLock

(* The command can also fail when the branch has moved: a timeout.         *)
Point(r) ==
    /\ at[r] = "point"
    /\ \/ /\ HookPasses(r)
          /\ head' = work[r].target
          /\ \/ Remember(r, [work[r] EXCEPT !.switched = TRUE]) /\ Goto(r, "install")
             \/ Raise(r) /\ UNCHANGED work
       \/ Raise(r) /\ UNCHANGED <<head, work>>
    /\ Hook
    /\ UNCHANGED <<remote, code, schema, maintenance, background, status, statusTmp, draft, proc,
                   child, api, poller, operator, outside>>

(* Mutant: that the migration has begun is noted once it has succeeded.    *)
MigrateMarkedLate(r) ==
    LET w == work[r] IN
    /\ at[r] = "migrate"
    /\ \/ /\ head = w.target /\ schema <= code
          /\ schema' = code
          /\ Goto(r, "building")
          /\ Remember(r, [w EXCEPT !.migrating = TRUE])
       \/ /\ head = w.target
          /\ schema' \in {v \in Versions : v = schema \/ (schema <= v /\ v <= code)}
          /\ Raise(r) /\ UNCHANGED work
       \/ /\ head # w.target
          /\ Raise(r)
          /\ UNCHANGED <<schema, work>>
    /\ UNCHANGED <<remote, head, code, maintenance, background, files, proc, child, api, poller, operator, outside>>

(* alembic upgrade head: each migration commits, so a failure may leave    *)
(* any prefix of them applied.                                             *)
Migrate(r) ==
    LET w == work[r] IN
    /\ at[r] = "migrate"
    /\ \/ /\ head = w.target /\ schema <= code
          /\ schema' = code
          /\ Goto(r, "building")
          /\ Remember(r, [w EXCEPT !.migrating = TRUE])
       \/ /\ head = w.target
          /\ schema' \in {v \in Versions : v = schema \/ (schema <= v /\ v <= code)}
          /\ Remember(r, [w EXCEPT !.migrating = TRUE])
          /\ Raise(r)
       \/ /\ head # w.target
          /\ Raise(r)
          /\ UNCHANGED <<schema, work>>
    /\ UNCHANGED <<remote, head, code, maintenance, background, files, proc, child, api, poller, operator, outside>>

Restart(r) ==
    /\ at[r] = "restart"
    /\ GuardPasses(r)
    /\ MakeRestart
    /\ Goto(r, "healthcheck")
    /\ UNCHANGED <<remote, head, code, schema, maintenance, status, statusTmp, work, operator, outside>>

(* Mutant: a rollback leaves the business locked out. *)
ReopenNewOnly(r) ==
    /\ \/ at[r] = "reopen" /\ Goto(r, "success") /\ maintenance' = FALSE
       \/ at[r] = "reopenOld" /\ Goto(r, "rolled_back") /\ UNCHANGED maintenance
       \/ at[r] = "unlock" /\ Goto(r, "refused") /\ maintenance' = FALSE
    /\ UNCHANGED <<remote, head, code, schema, background, files, proc, child, work, api, poller, operator, outside>>

Reopen(r) ==
    /\ \/ at[r] = "reopen" /\ Goto(r, "success")
       \/ at[r] = "reopenOld" /\ Goto(r, "rolled_back")
       \/ at[r] = "unlock" /\ Goto(r, "refused")
    /\ maintenance' = FALSE
    /\ UNCHANGED <<remote, head, code, schema, background, files, proc, child, work, api, poller, operator, outside>>

(* Mutant: a failure before the switch is not reported. *)
ResumeSilently(r) ==
    /\ at[r] = "resume"
    /\ Goto(r, "release")
    /\ UNCHANGED <<system, files, proc, child, work, api, poller, operator, outside>>

(* Before the code was switched: bring the workers back and open again.    *)
Resume(r) ==
    /\ at[r] = "resume"
    /\ Goto(r, "unlock")
    /\ \/ /\ work[r].quiesced /\ GuardPasses(r)
          /\ MakeRestart
       \/ UNCHANGED <<api, poller, child, proc, background, draft, lock, ownerTmp>>
    /\ UNCHANGED <<remote, head, code, schema, maintenance, status, statusTmp, work, operator, outside>>

(* After it: each part of the rollback is tried, and failures are noted.   *)
Noted(w, ok) == IF ok THEN w ELSE [w EXCEPT !.failed = TRUE]

NeedsDowngrade(w) ==
    w.migrating /\ w.known /\ (schema \notin Readable \/ schema # w.revision)

Downgrade(r) ==
    LET w == work[r] IN
    /\ at[r] = "downgrade"
    /\ \/ ~NeedsDowngrade(w) /\ UNCHANGED <<schema, work>>
       \/ /\ NeedsDowngrade(w)
          /\ schema' \in {v \in Versions : w.revision <= v /\ v <= schema}
          /\ \E ok \in BOOLEAN : (ok => schema' = w.revision) /\ Remember(r, Noted(w, ok))
    /\ Goto(r, "revert")
    /\ UNCHANGED <<remote, head, code, maintenance, background, files, proc, child, api, poller, operator, outside>>

Revert(r) ==
    /\ at[r] = "revert"
    /\ \/ code' = work[r].previous /\ Goto(r, "repoint") /\ UNCHANGED work
       \/ Remember(r, Noted(work[r], FALSE)) /\ Goto(r, "rebuild") /\ UNCHANGED code
    /\ UNCHANGED <<remote, head, schema, maintenance, background, files, proc, child,
                   api, poller, operator, outside>>

Repoint(r) ==
    /\ at[r] = "repoint"
    /\ \/ /\ HookPasses(r)
          /\ head' = work[r].previous
          /\ \E ok \in BOOLEAN : Remember(r, Noted(work[r], ok))
       \/ Remember(r, Noted(work[r], FALSE)) /\ UNCHANGED head
    /\ Hook
    /\ Goto(r, "rebuild")
    /\ UNCHANGED <<remote, code, schema, maintenance, background, status, statusTmp, draft, proc,
                   child, api, poller, operator, outside>>

Rebuild(r) ==
    /\ at[r] = "rebuild"
    /\ \E ok \in BOOLEAN : Remember(r, Noted(work[r], ok))
    /\ Goto(r, "restore")
    /\ UNCHANGED <<system, files, proc, child, api, poller, operator, outside>>

Restore(r) ==
    /\ at[r] = "restore"
    /\ \E ok \in BOOLEAN :
          /\ Remember(r, Noted(work[r], ok))
          /\ Goto(r, IF Noted(work[r], ok).failed THEN "stuck" ELSE "reopenOld")
          /\ \/ GuardPasses(r) /\ MakeRestart
             \/ ~ok /\ UNCHANGED <<api, poller, child, proc, background, draft, lock, ownerTmp>>
    /\ UNCHANGED <<remote, head, code, schema, maintenance, status, statusTmp, operator, outside>>

Release(r) ==
    /\ at[r] = "release"
    /\ IF lock.dir /\ lock.run = r THEN RemoveLock ELSE UNCHANGED <<lock, ownerTmp>>
    /\ End(r)
    /\ UNCHANGED <<system, status, statusTmp, draft, child, work, api, poller, operator, outside>>

(* The runner is killed; its files stay as they are.                       *)
Kill(r) ==
    /\ r \in Mortal /\ proc[r] = "alive"
    /\ End(r)
    /\ draft' = [draft EXCEPT ![r] = NoDraft]
    /\ UNCHANGED <<system, lock, ownerTmp, status, statusTmp, child, work, api, poller, operator, outside>>

RunnerStep(r) ==
    \/ Claim(r) \/ ClaimRename(r) \/ ReportBegins(r) \/ ReportEnds(r)
    \/ Verify(r) \/ Lockdown(r) \/ Quiesce(r) \/ Command(r) \/ Switch(r) \/ Point(r)
    \/ Migrate(r) \/ Restart(r) \/ Reopen(r) \/ Resume(r)
    \/ Downgrade(r) \/ Revert(r) \/ Repoint(r) \/ Rebuild(r) \/ Restore(r) \/ Release(r)

-----------------------------------------------------------------------------
(* The API thread that holds _LOCK: check_for_updates and start_update     *)

Move(label) == api' = [api EXCEPT !.at = label]
Unused == {r \in Runs : proc[r] = "unused"}
Available == api.latest > api.current

(* The poller goes on to install what its check has found.                 *)
ThreadReturns ==
    /\ api' = NoApi
    /\ poller' \in
          IF api.by # "poller" THEN {poller}
          ELSE {"asleep"} \cup IF api.goal = "check" /\ Available /\ ~api.dirty /\ "start" \in PollerGoals
                               THEN {"install"} ELSE {}

ThreadRaises == api' = NoApi /\ poller' = IF api.by = "poller" THEN "complain" ELSE poller

(* The git commands that come first reap; start_update then asks the       *)
(* status file whether an update runs.                                     *)
Refused(goal) ==
    goal = "start" /\ Active(status) /\ Running(status.pid) /\ proc[status.pid] # "zombie"

Begin(by, goal) ==
    /\ api.at = "free" /\ ~Refused(goal)
    /\ api' = [NoApi EXCEPT !.at = "checking", !.goal = goal, !.by = by, !.current = head,
                              !.dirty = head # code]
    /\ proc' = Reaped(proc)
    /\ UNCHANGED <<system, files, child, at, work, operator, outside>>

AdminAsks == (\E goal \in AdminGoals : Begin("admin", goal)) /\ UNCHANGED poller

ThreadPhase == [checking |-> "checking", result |-> "idle", apology |-> "idle"]

ThreadReportBegins ==
    /\ \/ api.at \in DOMAIN ThreadPhase
          /\ Reads("thread", [status EXCEPT !.phase = ThreadPhase[api.at]])
       \/ api.at = "queue"
          /\ Reads("thread", [phase |-> "queued", pid |-> api.run])
    /\ UNCHANGED <<system, lock, ownerTmp, proc, child, at, work, api, poller, operator, outside>>

ThreadReportEnds ==
    /\ \/ /\ Rename("thread")
          /\ CASE api.at = "checking" -> Move("fetch") /\ UNCHANGED poller
               [] api.at = "result" /\ api.goal = "start" /\ ~api.dirty /\ Available /\ Unused # {} ->
                     Move("mkdir") /\ UNCHANGED poller
               [] api.goal = "start" /\ (api.at = "apology" \/ (api.at = "result" /\ api.dirty)) ->
                     ThreadRaises
               [] OTHER -> ThreadReturns
       \/ /\ RenameRaises("thread")
          /\ IF api.at = "result" THEN Move("apology") /\ UNCHANGED poller ELSE ThreadRaises
    /\ UNCHANGED <<system, lock, ownerTmp, proc, child, at, work, operator, outside>>

(* git fetch, as every subprocess the API starts, reaps dead children; the *)
(* hook, when there are refs to move, clears a stale lock away.            *)
Fetch ==
    /\ api.at = "fetch"
    /\ proc' = Reaped(proc)
    /\ \/ api' = [api EXCEPT !.at = "result", !.latest = remote]
       \/ Move("apology")
    /\ \/ UNCHANGED <<lock, ownerTmp>>
       \/ lock.dir /\ ~LockHeld /\ RemoveLock
    /\ UNCHANGED <<system, status, statusTmp, draft, child, at, work, poller, operator, outside>>

MakeLock ==
    /\ api.at = "mkdir"
    /\ IF api.tries = 2 THEN ThreadRaises /\ UNCHANGED <<lock, ownerTmp>>
       ELSE IF ~lock.dir
       THEN /\ lock' = Made
            /\ \E r \in Unused : api' = [api EXCEPT !.at = "own", !.run = r]
            /\ UNCHANGED <<ownerTmp, poller>>
       ELSE IF LockHeld THEN ThreadRaises /\ UNCHANGED <<lock, ownerTmp>>
       ELSE Move("sweep") /\ UNCHANGED <<lock, ownerTmp, poller>>
    /\ UNCHANGED <<system, status, statusTmp, draft, proc, child, at, work, operator, outside>>

SweepLock ==
    /\ api.at = "sweep"
    /\ RemoveLock
    /\ api' = [api EXCEPT !.at = "mkdir", !.tries = @ + 1]
    /\ UNCHANGED <<system, status, statusTmp, draft, proc, child, at, work, poller, operator, outside>>

(* owner.json: first the API's own pid, later (Handoff) the runner's.      *)
WriteOwner ==
    /\ api.at = "own"
    /\ IF lock.dir
       THEN ownerTmp' = Owned(api.run, "api") /\ Move("owned") /\ UNCHANGED poller
       ELSE ThreadRaises /\ UNCHANGED ownerTmp
    /\ UNCHANGED <<system, lock, status, statusTmp, draft, proc, child, at, work, operator, outside>>

RenameOwner ==
    /\ api.at \in {"owned", "handed"}
    /\ IF ownerTmp.dir
       THEN /\ lock' = ownerTmp /\ ownerTmp' = NoOwnerTmp
            /\ Move(IF api.at = "owned" THEN "spawn" ELSE "queue")
            /\ UNCHANGED poller
       ELSE /\ IF api.at = "owned" THEN ThreadRaises ELSE Move("drop") /\ UNCHANGED poller
            /\ UNCHANGED <<lock, ownerTmp>>
    /\ UNCHANGED <<system, status, statusTmp, draft, proc, child, at, work, operator, outside>>

Spawn ==
    LET r == api.run IN
    /\ api.at = "spawn"
    /\ \/ /\ proc' = [Reaped(proc) EXCEPT ![r] = "alive"]
          /\ child' = child \cup {r}
          /\ Goto(r, "claim")
          /\ Remember(r, [NoWork EXCEPT !.target = api.latest])
          /\ Move("handoff")
       \/ Move("drop") /\ UNCHANGED <<proc, child, at, work>>
    /\ UNCHANGED <<system, files, poller, operator, outside>>

Handoff ==
    LET r == api.run IN
    /\ api.at = "handoff"
    /\ IF lock.dir /\ lock.run = r
       THEN ownerTmp' = Owned(r, r) /\ Move("handed")
       ELSE Move("queue") /\ UNCHANGED ownerTmp
    /\ UNCHANGED <<system, lock, status, statusTmp, draft, proc, child, at, work, poller, operator, outside>>

(* _release_update_lock: the lock goes if it is this run's or nobody's.    *)
DropLock ==
    /\ api.at = "drop"
    /\ IF lock.dir /\ lock.run \in {NoRun, api.run} THEN RemoveLock ELSE UNCHANGED <<lock, ownerTmp>>
    /\ ThreadRaises
    /\ UNCHANGED <<system, status, statusTmp, draft, proc, child, at, work, operator, outside>>

ThreadStep ==
    \/ ThreadReportBegins \/ ThreadReportEnds \/ Fetch
    \/ MakeLock \/ SweepLock \/ WriteOwner \/ RenameOwner \/ Spawn \/ Handoff \/ DropLock

-----------------------------------------------------------------------------
(* poll_loop *)

(* Mutant: the poller checks whatever the status file says. *)
PollerLooksAlways ==
    /\ poller = "asleep" /\ "check" \in PollerGoals /\ poller' = "check"
    /\ UNCHANGED <<system, files, proc, child, at, work, api, operator, outside>>

PollerLooks ==
    /\ poller = "asleep"
    /\ \/ ~Active(status) /\ "check" \in PollerGoals /\ poller' = "check"
       \/ Active(status) /\ ~Running(status.pid) /\ poller' = "mark"
    /\ UNCHANGED <<system, files, proc, child, at, work, api, operator, outside>>

PollerCalls ==
    /\ poller \in {"check", "install"}
    /\ LET goal == IF poller = "check" THEN "check" ELSE "start" IN
       IF Refused(goal)
       THEN /\ api.at = "free" /\ poller' = "complain" /\ proc' = Reaped(proc)
            /\ UNCHANGED <<system, files, child, at, work, api, operator, outside>>
       ELSE Begin("poller", goal) /\ poller' = "waiting"

PollerReportBegins ==
    /\ \/ poller = "mark" /\ Reads("poller", [status EXCEPT !.phase = "failed"])
       \/ poller = "complain" /\ Reads("poller", status)
    /\ UNCHANGED <<system, lock, ownerTmp, proc, child, at, work, api, poller, operator, outside>>

(* The handler of the loop writes the status file too: when that raises,   *)
(* the task ends.                                                          *)
PollerReportEnds ==
    /\ \/ Rename("poller") /\ poller' = "asleep"
       \/ RenameRaises("poller") /\ poller' = IF poller = "mark" THEN "complain" ELSE "dead"
    /\ UNCHANGED <<system, lock, ownerTmp, proc, child, at, work, api, operator, outside>>

PollerStep == PollerLooks \/ PollerCalls \/ PollerReportBegins \/ PollerReportEnds

-----------------------------------------------------------------------------
(* The world *)

Push ==
    /\ \E v \in Versions : v = remote + 1 /\ remote' = v
    /\ UNCHANGED <<head, code, schema, maintenance, background, files, proc, child, at, work, api, poller,
                   operator, outside>>

(* status_payload calls git, and so reaps.                                 *)
StatusPage ==
    /\ \E r \in Runs : proc[r] = "zombie"
    /\ proc' = Reaped(proc)
    /\ UNCHANGED <<system, files, child, at, work, api, poller, operator, outside>>

(* update-guard.sh decides that a lock is stale, and then removes it.      *)
OperatorLooks ==
    /\ operator = "away" /\ lock.dir /\ ~LockHeld
    /\ outside < MaxOutside /\ outside' = outside + 1
    /\ operator' = "sweeping"
    /\ UNCHANGED <<system, files, proc, child, at, work, api, poller>>

OperatorSweeps ==
    /\ operator = "sweeping"
    /\ operator' = "away"
    /\ RemoveLock
    /\ UNCHANGED <<system, status, statusTmp, draft, proc, child, at, work, api, poller, outside>>

(* A make restart that nothing holds up, or a crash of the API: with the   *)
(* workers stopped the start script then ends, and launchd runs it again.  *)
RestartFromOutside ==
    /\ outside < MaxOutside /\ outside' = outside + 1
    /\ \/ ~LockHeld /\ MakeRestart
       \/ ~background /\ RestartServices(lock, ownerTmp)
    /\ UNCHANGED <<remote, head, code, schema, maintenance, status, statusTmp, at, work, operator>>

World == Push \/ StatusPage \/ OperatorLooks \/ OperatorSweeps \/ RestartFromOutside

Next ==
    \/ \E r \in Runs : RunnerStep(r) \/ Kill(r)
    \/ ThreadStep \/ AdminAsks \/ PollerStep
    \/ \E w \in Writers : WriteTmp(w)
    \/ World

Spec == Init /\ [][Next]_vars

(* Every process that is not killed or stopped goes on: no step of these   *)
(* waits for another actor, save a claim that waits for the thread.        *)
FairSpec ==
    /\ Spec
    /\ \A r \in Runs : WF_vars(RunnerStep(r))
    /\ \A w \in Writers : WF_vars(WriteTmp(w))
    /\ WF_vars(ThreadStep) /\ WF_vars(PollerStep)

-----------------------------------------------------------------------------
Locks == [dir : BOOLEAN, run : Runs \cup {NoRun}, pid : Pids]
Statuses == [phase : Phases, pid : Runs \cup {NoRun}]

(* Every variable has its type. *)
TypeOK ==
    /\ {remote, head, code, schema} \subseteq Versions
    /\ {maintenance, background} \subseteq BOOLEAN
    /\ {lock, ownerTmp} \subseteq Locks
    /\ status \in Statuses /\ statusTmp \in [there : BOOLEAN, content : Statuses]
    /\ draft \in [Writers -> [stage : {"none", "read", "written"}, content : Statuses]]
    /\ proc \in [Runs -> {"unused", "alive", "zombie", "gone"}] /\ child \subseteq Runs
    /\ at \in [Runs -> Labels]
    /\ \A r \in Runs : {work[r].target, work[r].previous, work[r].revision} \subseteq Versions
    /\ api.run \in Runs \cup {NoRun} /\ api.latest \in Versions /\ api.tries \in 0 .. 2
    /\ poller \in {"asleep", "check", "install", "waiting", "mark", "complain", "dead"}
    /\ operator \in {"away", "sweeping"} /\ outside \in 0 .. MaxOutside

Alive == {r \in Runs : proc[r] = "alive"}

(* A tree that git reset --hard has moved in a run that failed before it   *)
(* noted so, and a rollback that cannot tell what to downgrade to.         *)
Unnoticed(r) == work[r].quiesced /\ ~work[r].switched /\ code # work[r].previous
Unread(r) == work[r].migrating /\ ~work[r].known

(* The business never works with a program and a database that do not      *)
(* belong together, whatever step fails and whenever the runner dies, save *)
(* after a reset that stopped half way or a rollback that did not know the *)
(* migration to go back to.                                                *)
OpenMeansConsistent ==
    ~maintenance =>
        \/ code = schema
        \/ \E r \in Runs : Unnoticed(r) \/ (Unread(r) /\ code = work[r].previous)

(* A rollback that is about to open the business again, or to say that the *)
(* former version is back, has brought back the branch and the tree, and   *)
(* the database too if its migration id was readable.                      *)
RolledBackRestores ==
    \A r \in Runs : at[r] \in {"reopenOld", "rolled_back"} =>
        /\ head = work[r].previous /\ code = work[r].previous
        /\ schema = work[r].revision \/ Unread(r)

(* From its claim to its end a runner owns the lock.                       *)
RunnerOwnsLock ==
    \A r \in Runs : at[r] \notin {"none", "claim", "claimed", "ended"} =>
        lock.dir /\ lock.run = r

(* The poller says that the runner was interrupted only when none runs.    *)
MarksOnlyDead ==
    [][poller = "mark" /\ PollerReportEnds => Alive = {}]_vars

(* The API's checks keep off the status file while a runner reports.       *)
ChecksKeepOff ==
    [][ThreadReportEnds /\ api.at # "queue" => ~(Active(status) /\ Alive # {})]_vars

(* A runner that is not killed and locks the business out opens it again, *)
(* or reports that its update has failed.                                  *)
LockoutEnds ==
    \A r \in Runs \ Mortal : at[r] = "quiescing" ~> ~maintenance \/ status.phase = "failed"

(* The status of a runner that is not killed does not say for ever that an *)
(* update runs.                                                            *)
StatusSettles == Active(status) /\ status.pid \notin Mortal ~> ~Active(status)

=============================================================================
