------------------------- MODULE VirtualMachineJobs -------------------------
(***************************************************************************)
(* The life of one VirtualMachine row of the web manager: the requests     *)
(* that load, operate on, destroy, reparent and create it, run by several  *)
(* web server processes, against the jobs of the Ganeti cluster.           *)
(*                                                                         *)
(* One HTTP request is one database transaction (TransactionMiddleware):   *)
(* its writes take effect when it finishes, or not at all.  Remote API     *)
(* calls take effect at once and are never undone.  Between the SELECT     *)
(* that loads the row and the writes at the end, other requests run.  A    *)
(* request's writes are all on this one row and its jobs, so that waiting  *)
(* for a row lock only delays the point at which they all take effect.     *)
(*                                                                         *)
(* A request goes  idle -> loaded -> refreshed [-> submitted] -> idle, and *)
(* the destruction of a VM Ganeti does not know  refreshed -> missing.     *)
(***************************************************************************)
EXTENDS CachedClusterObject

CONSTANTS
    Proc,       \* single-threaded web server processes
    View,       \* the views users call: a subset of AllViews
    Outcome,    \* how Ganeti jobs end: a subset of AllOutcomes
    Fault       \* what may go wrong: a subset of AllFaults

AllViews == {"visit", "operate", "destroy", "reparent", "clear", "create"}
AllOutcomes == {"success", "error", "canceled"}
AllFaults == {"rapi", "crash", "archive"}

ASSUME ViewAssumption == View \subseteq AllViews
ASSUME OutcomeAssumption == Outcome \subseteq AllOutcomes
ASSUME FaultAssumption == Fault \subseteq AllFaults

VARIABLES
    vm,         \* the row of the virtualmachines table
    jobs,       \* the Job rows whose obj is this VM, by job id
    grants,     \* the object permissions users hold on the VM are stored
    gjobs,      \* external: the cluster's job table
    instance,   \* external: 0, or the mtime of the instance in Ganeti
    req         \* per process, the request in flight

vars == <<vm, jobs, grants, gjobs, instance, req>>

NoInstance == 0

Write == {"none", "narrow", "full", "delete"}

(* job: what the clear view was asked to clear; copy: the in-memory model  *)
(* instance; write, drop: what its refresh() wrote; reset, undelete: what  *)
(* a narrow write carried; new: the Ganeti jobs the request has submitted. *)
Request == [pc: {"idle", "loaded", "refreshed", "missing", "submitted"},
            view: AllViews, job: JobId \cup {NoJob}, copy: Row, write: Write,
            reset: BOOLEAN, undelete: BOOLEAN,
            drop: SUBSET JobId, new: SUBSET JobId]

Idle == [pc |-> "idle", view |-> "visit", job |-> NoJob, copy |-> NoRow,
         write |-> "none", reset |-> FALSE, undelete |-> FALSE,
         drop |-> {}, new |-> {}]

TypeOK == /\ vm \in Row
          /\ jobs \subseteq JobId
          /\ grants \in BOOLEAN
          /\ gjobs \in [JobId -> GanetiJob]
          /\ instance \in MTime
          /\ req \in [Proc -> Request]

Submitted == {j \in JobId : gjobs[j].status # "none"}
Unanswerable == {j \in jobs : gjobs[j].status = "archived"}

(* A VM imported from the cluster, or an empty table.                      *)
Imported == [NoRow EXCEPT !.present = TRUE]

Init == /\ \/ vm = Imported /\ grants = TRUE /\ instance = 1
           \/ vm = NoRow /\ grants = FALSE /\ instance = NoInstance
        /\ jobs = {}
        /\ gjobs = [j \in JobId |-> [op |-> "none", status |-> "none"]]
        /\ req = [p \in Proc |-> Idle]

----------------------------------------------------------------------------
(* Loading.                                                                *)

(* load_info() refreshes when the cache is bypassed, empty or expired;     *)
(* expired stands for the clock against cached + LAZY_CACHE_REFRESH.       *)
MustRefresh(row, expired) == row.ignoreCache \/ row.mtime = NoTime \/ expired

Loaded(v, j, expired) ==
    [Idle EXCEPT !.view = v, !.job = j, !.copy = vm,
                 !.pc = IF vm.present /\ MustRefresh(vm, expired)
                        THEN "loaded" ELSE "refreshed"]

Open(p, v) ==
    /\ req[p].pc = "idle"
    /\ v \in View \cap {"visit", "operate", "destroy", "reparent"}
    /\ vm.present
    /\ \E expired \in BOOLEAN : req' = [req EXCEPT ![p] = Loaded(v, NoJob, expired)]
    /\ UNCHANGED <<vm, jobs, grants, gjobs, instance>>

(* jobs.views.clear: job.obj loads the VM too, if it still exists.         *)
OpenClear(p, j) ==
    /\ req[p].pc = "idle"
    /\ "clear" \in View
    /\ j \in jobs
    /\ \E expired \in BOOLEAN : req' = [req EXCEPT ![p] = Loaded("clear", j, expired)]
    /\ UNCHANGED <<vm, jobs, grants, gjobs, instance>>

(* template_to_instance has no row to load.  Bound: one VM per behaviour,  *)
(* so only while no job has been submitted.                                *)
OpenCreate(p) ==
    /\ req[p].pc = "idle"
    /\ "create" \in View
    /\ ~vm.present /\ instance = NoInstance /\ Submitted = {}
    /\ req' = [req EXCEPT ![p] = [Idle EXCEPT !.view = "create", !.pc = "refreshed"]]
    /\ UNCHANGED <<vm, jobs, grants, gjobs, instance>>

(* The request dies: an uncaught exception, a killed process.  Its         *)
(* transaction is rolled back, its Ganeti jobs stay submitted.             *)
Discard(p) == req' = [req EXCEPT ![p] = Idle]

(* The jobs a poll may hear nothing of.                                    *)
LossesOf(polled) ==
    IF "rapi" \in Fault
    THEN {L \in SUBSET polled : Unanswerable \subseteq L}
    ELSE {Unanswerable}

(* GetInstance is skipped while the delete is pending; otherwise it raises *)
(* when the instance does not exist, or when the API fails.                *)
InfoRaises(row, apiDown) ==
    ~row.pendingDelete /\ (instance = NoInstance \/ apiDown)

(* The write refresh() ends with.  infoTime is the mtime it compares: its  *)
(* own when no info was fetched.                                           *)
RefreshWrite(row, raised) ==
    LET infoTime == IF row.pendingDelete THEN row.mtime ELSE instance
    IN  IF raised THEN "none"
        ELSE IF WritesWholeRow(row, infoTime) THEN "full" ELSE "narrow"

RefreshedCopy(row, raised) ==
    IF ~raised /\ ~row.pendingDelete /\ WritesWholeRow(row, instance)
    THEN [row EXCEPT !.mtime = instance] ELSE row

(* The request after a refresh() that got data from check_job_status().    *)
Refreshed(q, data, raised) ==
    LET row   == Updated(q.copy, data)
        write == IF data.removals # {} THEN "delete" ELSE RefreshWrite(row, raised)
    IN  [q EXCEPT !.pc = "refreshed",
                  !.copy = RefreshedCopy(row, raised),
                  !.write = write,
                  !.reset = data.reset /\ write = "narrow",
                  !.undelete = data.undelete /\ write = "narrow",
                  !.drop = data.removals]

(* refresh().  When the removal job succeeded the row and that job are     *)
(* deleted; a second delete() of the same object raises, and so does       *)
(* storing the error of a failed GetInstance for an object without a key.  *)
RefreshWith(p, lost, apiDown) ==
    LET data   == CheckJobStatus(req[p].copy, jobs, lost, gjobs)
        raised == InfoRaises(Updated(req[p].copy, data), apiDown)
    IN  IF Cardinality(data.removals) > 1 \/ (data.removals # {} /\ raised)
        THEN Discard(p)
        ELSE req' = [req EXCEPT ![p] = Refreshed(req[p], data, raised)]

Refresh(p) ==
    /\ req[p].pc = "loaded"
    /\ \E lost \in LossesOf(jobs), apiDown \in {d \in BOOLEAN : d => "rapi" \in Fault} :
         RefreshWith(p, lost, apiDown)
    /\ UNCHANGED <<vm, jobs, grants, gjobs, instance>>

----------------------------------------------------------------------------
(* Submitting Ganeti jobs.                                                 *)

(* Mutated form of OpOf: the job is named for the view, not its opcode.    *)
OpOf_View(v) == v

OpOf(v) == CASE v = "destroy" -> "REMOVE" [] v = "create" -> "CREATE" [] OTHER -> "OTHER"

(* instance._refresh() of the destroy view answers 404.                    *)
DestroyFinds404(q) ==
    q.view = "destroy" /\ ~q.copy.pendingDelete /\ instance = NoInstance

FindMissing(p) ==
    /\ req[p].pc = "refreshed" /\ DestroyFinds404(req[p])
    /\ req' = [req EXCEPT ![p].pc = "missing"]
    /\ UNCHANGED <<vm, jobs, grants, gjobs, instance>>

(* shutdown, startup, reboot, migrate, replace_disks, reinstall and modify *)
(* submit one job; rename of a running VM and modify with reboot two.      *)
Submit(p) ==
    LET q == req[p] IN
    /\ \/ q.pc = "refreshed" /\ q.view \in {"operate", "destroy", "create"}
       \/ q.pc = "submitted" /\ q.view = "operate" /\ Cardinality(q.new) = 1
    /\ ~DestroyFinds404(q)
    /\ \E j \in JobId \ Submitted :
         /\ \A k \in JobId \ Submitted : j <= k
         /\ gjobs' = [gjobs EXCEPT ![j] = [op |-> OpOf(q.view), status |-> "pending"]]
         /\ req' = [req EXCEPT ![p] = [q EXCEPT !.pc = "submitted", !.new = @ \cup {j}]]
    /\ UNCHANGED <<vm, jobs, grants, instance>>

(* The submission raises GanetiApiError.  A missing instance is no reason: *)
(* Ganeti accepts the job, which then ends in error.                       *)
(* Bound: so does a first submission when all MaxJobs ids are used.        *)
SubmitRaises(q) ==
    \/ /\ q.pc = "refreshed" /\ q.view \in {"operate", "destroy", "create"}
       /\ "rapi" \in Fault \/ Submitted = JobId
    \/ /\ q.pc = "submitted" /\ q.view = "operate" /\ Cardinality(q.new) = 1
       /\ "rapi" \in Fault

(* What refresh() wrote.                                                   *)
AfterRefresh(q) ==
    CASE q.write = "none"   -> vm
      [] q.write = "narrow" -> NarrowUpdated(vm, q.reset, q.undelete)
      [] q.write = "full"   -> q.copy
      [] q.write = "delete" -> NoRow

(* The writes that fail for want of a key: a Job for an object that        *)
(* refresh() deleted, and a force_update of a row that is gone.            *)
Storable(q) ==
    CASE q.view \in {"operate", "destroy"} -> q.new = {} \/ q.copy.present
      [] q.view = "reparent" -> q.copy.present /\ AfterRefresh(q).present
      [] OTHER -> TRUE

(* The exception ends the request: a submission that raised (reinstall,    *)
(* modify_confirm and _destroy do not catch it), or a write that cannot    *)
(* be made.                                                                *)
Fail(p) ==
    LET q == req[p] IN
    /\ \/ SubmitRaises(q)
       \/ q.pc = "submitted" /\ ~Storable(q)
       \/ q.pc = "refreshed" /\ q.view = "reparent" /\ ~Storable(q)
    /\ Discard(p)
    /\ UNCHANGED <<vm, jobs, grants, gjobs, instance>>

----------------------------------------------------------------------------
(* Ending a request: its writes, in order, on the row as it is now.        *)

(* Commit: the row, the jobs and the permissions become durable together,  *)
(* unless last_job names a job that is gone: then the foreign key check    *)
(* fails the transaction.                                                  *)
Commit(p, row, js, gr) ==
    /\ Discard(p)
    /\ IF row.lastJob \in js \cup {NoJob}
       THEN vm' = row /\ jobs' = js /\ grants' = gr
       ELSE UNCHANGED <<vm, jobs, grants>>
    /\ UNCHANGED <<gjobs, instance>>

(* detail, lists: nothing beyond the refresh.                              *)
FinishVisit(p) ==
    LET q == req[p]  row == AfterRefresh(q) IN
    /\ q.pc = "refreshed" /\ q.view = "visit"
    /\ Commit(p, row, jobs \ q.drop, grants /\ row.present)

(* Mutated form of Tracking: the cache stays on.                           *)
Tracking_NoBypass(row, j) ==
    IF row.present THEN [row EXCEPT !.lastJob = j] ELSE row

(* Job.objects.create, then .update(last_job=job, ignore_cache=True), per  *)
(* submitted job; the last one stays.  A refused submission is answered    *)
(* with its message and the request still commits.                         *)
Tracking(row, j) ==
    IF row.present THEN [row EXCEPT !.lastJob = j, !.ignoreCache = TRUE] ELSE row

FinishOperate(p) ==
    LET q == req[p]  row == AfterRefresh(q) IN
    /\ q.view = "operate"
    /\ q.pc = "submitted" \/ SubmitRaises(q)
    /\ Storable(q)
    /\ Commit(p, IF q.new = {} THEN row ELSE Tracking(row, Max(q.new)),
              (jobs \ q.drop) \cup q.new, grants /\ row.present)

(* VMDeleteView._destroy when Ganeti answered 404: the row goes at once.   *)
FinishDestroyMissing(p) ==
    LET q == req[p] IN
    /\ q.pc = "missing"
    /\ Commit(p, NoRow, jobs \ q.drop, FALSE)

(* VMDeleteView._destroy otherwise: the old jobs are deleted, and with     *)
(* them, by cascade, the row whose last_job is one of them and the         *)
(* permissions on it; the in-memory object is then saved under its key.    *)
FinishDestroy(p) ==
    LET q == req[p]  row == AfterRefresh(q) IN
    /\ q.pc = "submitted" /\ q.view = "destroy"
    /\ Storable(q)
    /\ Commit(p, [q.copy EXCEPT !.present = TRUE, !.lastJob = Max(q.new),
                                !.ignoreCache = TRUE, !.pendingDelete = TRUE],
              q.new, grants /\ row.present /\ row.lastJob = NoJob)

(* reparent: the owner is set and the whole in-memory row saved with       *)
(* force_update.                                                           *)
FinishReparent(p) ==
    LET q == req[p] IN
    /\ q.pc = "refreshed" /\ q.view = "reparent"
    /\ Storable(q)
    /\ Commit(p, q.copy, jobs \ q.drop, grants)

(* Mutated form of FinishClear: the job goes without resetting the VM. *)
FinishClear_NoReset(p) ==
    LET q == req[p]  row == AfterRefresh(q)  cascade == row.lastJob = q.job IN
    /\ q.pc = "refreshed" /\ q.view = "clear"
    /\ Commit(p, IF cascade THEN NoRow ELSE row, jobs \ (q.drop \cup {q.job}),
              grants /\ row.present /\ ~cascade)

(* jobs.views.clear: reset the VM if, in memory, this is its last job;     *)
(* then delete the job, and by cascade a row whose last_job is that job.   *)
FinishClear(p) ==
    LET q       == req[p]
        row     == AfterRefresh(q)
        saved   == IF q.job = q.copy.lastJob
                   THEN [q.copy EXCEPT !.present = TRUE, !.lastJob = NoJob,
                                       !.ignoreCache = FALSE]
                   ELSE row
        cascade == saved.lastJob = q.job
    IN
    /\ q.pc = "refreshed" /\ q.view = "clear"
    /\ Commit(p, IF cascade THEN NoRow ELSE saved, jobs \ (q.drop \cup {q.job}),
              grants /\ row.present /\ ~cascade)

(* template_to_instance after CreateInstance: the row, its job, the grant. *)
FinishCreate(p) ==
    LET q == req[p] IN
    /\ q.pc = "submitted" /\ q.view = "create"
    /\ Commit(p, [Imported EXCEPT !.lastJob = Max(q.new), !.ignoreCache = TRUE],
              jobs \cup q.new, TRUE)

Crash(p) == /\ "crash" \in Fault
            /\ req[p].pc # "idle"
            /\ Discard(p)
            /\ UNCHANGED <<vm, jobs, grants, gjobs, instance>>

----------------------------------------------------------------------------
(* The cluster.                                                            *)

Alive == instance # NoInstance

(* A job ends; only a success changes the instance, and needs it to exist  *)
(* (for a creation, not to).                                               *)
JobEnds(j, outcome) ==
    /\ gjobs[j].status = "pending"
    /\ outcome = "success" => (Alive <=> gjobs[j].op # "CREATE")
    /\ gjobs' = [gjobs EXCEPT ![j].status = outcome]
    /\ instance' = IF outcome # "success" THEN instance
                   ELSE IF gjobs[j].op = "REMOVE" THEN NoInstance
                   ELSE instance + 1
    /\ UNCHANGED <<vm, jobs, grants, req>>

(* Ganeti archives finished jobs; GetJobStatus then answers 404.           *)
JobArchived(j) ==
    /\ "archive" \in Fault
    /\ gjobs[j].status \in AllOutcomes
    /\ gjobs' = [gjobs EXCEPT ![j].status = "archived"]
    /\ UNCHANGED <<vm, jobs, grants, instance, req>>

----------------------------------------------------------------------------
RequestStep(p) ==
    \/ Refresh(p) \/ Submit(p) \/ Fail(p) \/ FinishVisit(p) \/ FinishOperate(p)
    \/ FindMissing(p) \/ FinishDestroyMissing(p) \/ FinishDestroy(p) \/ FinishReparent(p)
    \/ FinishClear(p) \/ FinishCreate(p)

Next ==
    \/ \E p \in Proc :
         \/ \E v \in AllViews : Open(p, v)
         \/ \E j \in JobId : OpenClear(p, j)
         \/ OpenCreate(p)
         \/ RequestStep(p)
         \/ Crash(p)
    \/ \E j \in JobId :
         \/ \E outcome \in Outcome : JobEnds(j, outcome)
         \/ JobArchived(j)

Spec == Init /\ [][Next]_vars

----------------------------------------------------------------------------
(* Properties of every run.                                                *)

(* A row that names a last job bypasses the cache, so that its next load   *)
(* polls the job: no request, however it interleaves with others or fails, *)
(* leaves a tracked job behind a warm cache.  (models.py, the updates      *)
(* last_job=job, ignore_cache=True and their reset.)                       *)
TrackedIsBypassed == vm.lastJob # NoJob => vm.ignoreCache

(* The web manager forgets a VM only when its instance is gone: a row is   *)
(* never deleted while the instance exists in Ganeti, whatever answers the *)
(* polls lose and whichever job last answered.                             *)
DeletesOnlyTheDead == [][vm.present /\ ~vm'.present => ~Alive]_vars

(* Properties of one process with a reliable API.                          *)

Newest(j) == j \in Submitted /\ \A k \in Submitted : k <= j

(* The newest job of the VM is tracked for as long as it is pending and    *)
(* not cleared (virtualmachines/models.py:62, "The last job reference      *)
(* indicates that there is at least one pending job").                     *)
NewestJobTracked ==
    vm.present =>
        \A j \in jobs : Newest(j) /\ gjobs[j].status = "pending" => vm.lastJob = j

(* A VM left flagged for deletion with no job to wait for was left so by a *)
(* removal that did not succeed, or was cleared or archived before that    *)
(* was known, or that a later job, over as well, overtook: nothing else    *)
(* strands the flag (check_job_status looks only at the last job).         *)
Forgotten(j) == j \in Submitted \ jobs \/ gjobs[j].status = "archived"

StrandedDeleteExplained ==
    vm.pendingDelete /\ vm.lastJob = NoJob =>
        \E j \in JobId :
            /\ gjobs[j].op = "REMOVE"
            /\ \/ gjobs[j].status = "error" \/ Forgotten(j)
               \/ \E k \in JobId : k > j /\ (gjobs[k].status \in {"success", "error"} \/ Forgotten(k))

(* What a page releases is over. *)
ReleasesEnded ==
    \A p \in Proc :
        FinishVisit(p) /\ vm.lastJob # NoJob /\ vm'.present /\ vm'.lastJob = NoJob
        => gjobs[vm.lastJob].status # "pending"

(* A page that releases the tracked job releases one that is over: "the    *)
(* job was archived before it's final status was polled" is the only       *)
(* unknown status (virtualmachines/models.py:197).                         *)
ReleasesOnlyEndedJobs == [][ReleasesEnded]_vars

(* A clear leaves an imported VM that exists. *)
ClearKeeps ==
    /\ \E p \in Proc : FinishClear(p)
    /\ vm.present /\ Alive /\ \A j \in JobId : gjobs[j].op # "CREATE"
    => vm'.present

(* jobs/views.py:66, "Remove a job.": with an API that answers, clearing   *)
(* any job of an imported VM leaves the VM in the tables, whatever was     *)
(* polled, archived or cleared before, and although the deletion of the    *)
(* job cascades over the row that names it.  (Of one that was created, a   *)
(* refresh while its instance is not there yet resets last_job in memory   *)
(* only, and the cascade takes the row.)                                   *)
ClearKeepsVM == [][ClearKeeps]_vars

----------------------------------------------------------------------------
(* Fairness: Ganeti finishes its jobs, a process finishes its request, and *)
(* users keep coming back to the page of the VM.                           *)
Fairness ==
    /\ \A j \in JobId : WF_vars(\E outcome \in Outcome : JobEnds(j, outcome))
    /\ \A p \in Proc : WF_vars(RequestStep(p)) /\ SF_vars(Open(p, "visit"))

FairSpec == Spec /\ Fairness

(* Why a job may be tracked for ever: check_job_status() does not count a *)
(* canceled job as ended, nor an archived one that was polled after it     *)
(* with the status it left behind; and refresh() writes nothing when       *)
(* GetInstance has no answer: after a creation that failed, or a removal   *)
(* whose end was archived before it was polled.                            *)
Canceled ==
    \/ gjobs[vm.lastJob].status = "canceled"
    \/ gjobs[vm.lastJob].status = "archived" /\ \E j \in jobs : gjobs[j].status = "canceled"
Unanswered ==
    ~Alive /\ \E j \in JobId :
        \/ gjobs[j].op = "CREATE" /\ gjobs[j].status \in {"error", "canceled"}
        \/ gjobs[j].status = "archived"

(* A tracked job is released in the end and the cache re-enabled           *)
(* (virtualmachines/tests/models.py:228, "cache is reenabled when job is   *)
(* finished"), and only those cases are exceptions.                        *)
TrackingEnds ==
    vm.lastJob # NoJob ~> vm.lastJob = NoJob \/ Canceled \/ Unanswered
=============================================================================
