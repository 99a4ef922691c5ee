---------------------- MODULE VirtualMachineJobs_proofs ----------------------
(***************************************************************************)
(* Proofs about VirtualMachineJobs, for any number of processes and jobs.  *)
(***************************************************************************)
EXTENDS VirtualMachineJobs, WellFoundedInduction, TLAPS

(* The copies in memory obey the rule of the row: a tracked job goes with  *)
(* a bypassed cache, since a full save makes a row of a copy.              *)
CopiesBypassed ==
    \A p \in Proc : req[p].copy.lastJob # NoJob => req[p].copy.ignoreCache

IInv == TypeOK /\ TrackedIsBypassed /\ CopiesBypassed

Bypassed(row) == row.lastJob # NoJob => row.ignoreCache

----------------------------------------------------------------------------
(* Rows.                                                                   *)

(* The null row is a row, and tracks nothing. *)
LEMMA NoRowType == NoRow \in Row /\ Bypassed(NoRow) /\ Imported \in Row
BY DEF NoRow, Row, Bypassed, Imported, NoJob, NoTime, MTime

(* The setattr loop of refresh() and the fetch after it keep a copy a row  *)
(* and keep its cache bypassed while it tracks a job.                      *)
LEMMA RefreshedType ==
    ASSUME NEW row \in Row, Bypassed(row), instance \in MTime,
           NEW data, NEW raised \in BOOLEAN
    PROVE  /\ RefreshedCopy(Updated(row, data), raised) \in Row
           /\ Bypassed(RefreshedCopy(Updated(row, data), raised))
<1>1. Updated(row, data) \in Row
  BY DEF Updated, Row, NoJob
<1>2. Bypassed(Updated(row, data))
  BY DEF Updated, Row, NoJob, Bypassed
<1> QED BY <1>1, <1>2 DEF RefreshedCopy, Row, Bypassed

(* The narrow UPDATE of refresh() and the tracking UPDATE of an operation  *)
(* keep the row a row with its cache bypassed while it tracks a job; the   *)
(* type of the job tracked is Commit's to check.                           *)
LEMMA NarrowType ==
    ASSUME NEW row \in Row, Bypassed(row), NEW reset, NEW undelete
    PROVE  /\ NarrowUpdated(row, reset, undelete) \in Row
           /\ Bypassed(NarrowUpdated(row, reset, undelete))
BY DEF NarrowUpdated, Row, Bypassed, NoJob

(* The UPDATE of last_job and ignore_cache bypasses the cache of the row. *)
LEMMA TrackingType ==
    ASSUME NEW row \in Row, NEW j
    PROVE  /\ Tracking(row, j).lastJob \in JobId \cup {NoJob} => Tracking(row, j) \in Row
           /\ Bypassed(row) => Bypassed(Tracking(row, j))
BY DEF Tracking, Row, Bypassed

(* What refresh() leaves in the table, whichever of its writes it made.    *)
LEMMA AfterRefreshType ==
    ASSUME IInv, NEW p \in Proc
    PROVE  AfterRefresh(req[p]) \in Row /\ Bypassed(AfterRefresh(req[p]))
<1> DEFINE q == req[p]
<1>1. q \in Request BY DEF IInv, TypeOK
<1>2. vm \in Row /\ Bypassed(vm)
  BY DEF IInv, TypeOK, TrackedIsBypassed, Bypassed
<1>3. q.copy \in Row /\ Bypassed(q.copy)
  BY <1>1 DEF IInv, CopiesBypassed, Bypassed, Request
<1>4. q.write \in Write BY <1>1 DEF Request
<1>5. CASE q.write = "none"   BY <1>5, <1>2 DEF AfterRefresh
<1>6. CASE q.write = "narrow" BY <1>6, <1>2, NarrowType DEF AfterRefresh
<1>7. CASE q.write = "full"   BY <1>7, <1>3 DEF AfterRefresh
<1>8. CASE q.write = "delete" BY <1>8, NoRowType DEF AfterRefresh
<1> QED BY <1>4, <1>5, <1>6, <1>7, <1>8 DEF Write

----------------------------------------------------------------------------
(* Requests.                                                               *)

(* An idle process holds a request that tracks nothing. *)
LEMMA IdleType == Idle \in Request /\ Bypassed(Idle.copy)
BY NoRowType DEF Idle, Request, AllViews, Write, NoJob

(* A request may be replaced by any well-typed one whose copy is bypassed. *)
LEMMA RequestStepType ==
    ASSUME IInv, NEW p \in Proc, NEW q \in Request, Bypassed(q.copy),
           req' = [req EXCEPT ![p] = q], UNCHANGED <<vm, jobs, grants, instance>>,
           gjobs' \in [JobId -> GanetiJob]
    PROVE  IInv'
BY DEF IInv, TypeOK, TrackedIsBypassed, CopiesBypassed, Bypassed

(* A request that ends may commit any bypassed row, whose last job Commit  *)
(* checks against the jobs.                                                *)
LEMMA CommitType ==
    ASSUME IInv, NEW p \in Proc, NEW row, NEW js, NEW gr \in BOOLEAN,
           js \subseteq JobId,
           row.lastJob \in JobId \cup {NoJob} => row \in Row /\ Bypassed(row),
           Commit(p, row, js, gr)
    PROVE  IInv'
<1>1. req' \in [Proc -> Request] /\ CopiesBypassed'
  BY IdleType DEF IInv, TypeOK, Commit, Discard, CopiesBypassed, Bypassed
<1>2. vm' \in Row /\ TrackedIsBypassed' /\ jobs' \subseteq JobId /\ grants' \in BOOLEAN
  BY DEF IInv, TypeOK, Commit, TrackedIsBypassed, Bypassed
<1> QED BY <1>1, <1>2 DEF IInv, TypeOK, Commit

----------------------------------------------------------------------------
(* The inductive invariant.                                                *)

(* An imported VM and an empty table satisfy the invariant. *)
LEMMA InitIInv == Init => IInv
<1> SUFFICES ASSUME Init PROVE IInv OBVIOUS
<1>1. vm \in Row /\ Bypassed(vm)
  BY NoRowType DEF Init, Imported, NoRow, Bypassed
<1>2. TypeOK
  <2>1. instance \in MTime
    BY DEF Init, MTime, NoInstance
  <2>2. grants \in BOOLEAN
    BY Zenon DEF Init
  <2>3. gjobs \in [JobId -> GanetiJob]
    BY DEF Init, GanetiJob, JobOp, JobStatus
  <2>4. jobs \subseteq JobId /\ req \in [Proc -> Request]
    BY IdleType DEF Init
  <2> QED BY <1>1, <2>1, <2>2, <2>3, <2>4 DEF TypeOK
<1>3. TrackedIsBypassed /\ CopiesBypassed
  BY <1>1, IdleType DEF Init, TrackedIsBypassed, CopiesBypassed, Bypassed
<1> QED BY <1>2, <1>3 DEF IInv

(* A request that has just loaded the row has a bypassed copy. *)
LEMMA LoadedType ==
    ASSUME IInv, NEW v \in AllViews, NEW j \in JobId \cup {NoJob}, NEW expired
    PROVE  Loaded(v, j, expired) \in Request /\ Bypassed(Loaded(v, j, expired).copy)
BY IdleType DEF IInv, TypeOK, TrackedIsBypassed, Bypassed, Loaded, Idle, Request

(* So has one that has refreshed it. *)
LEMMA RefreshedRequestType ==
    ASSUME IInv, NEW p \in Proc, NEW raised \in BOOLEAN,
           NEW data, data.removals \subseteq JobId
    PROVE  /\ Refreshed(req[p], data, raised) \in Request
           /\ Bypassed(Refreshed(req[p], data, raised).copy)
<1> DEFINE q == req[p]
           copy == RefreshedCopy(Updated(q.copy, data), raised)
           write == IF data.removals # {}
                    THEN "delete" ELSE RefreshWrite(Updated(q.copy, data), raised)
<1>1. q \in Request /\ q.copy \in Row /\ Bypassed(q.copy) /\ instance \in MTime
  BY DEF IInv, TypeOK, CopiesBypassed, Bypassed, Request
<1>2. copy \in Row /\ Bypassed(copy)
  BY <1>1, RefreshedType
<1>3. write \in Write
  BY DEF RefreshWrite, Write
<1>4. Refreshed(q, data, raised) =
        [q EXCEPT !.pc = "refreshed", !.copy = copy, !.write = write,
                  !.reset = data.reset /\ write = "narrow",
                  !.undelete = data.undelete /\ write = "narrow",
                  !.drop = data.removals]
  BY DEF Refreshed
<1> HIDE DEF copy, write
<1> QED BY <1>1, <1>2, <1>3, <1>4 DEF Request

(* refresh() touches only its own request. *)
LEMMA RefreshStep == ASSUME IInv, NEW p \in Proc, Refresh(p) PROVE IInv'
<1>1. PICK lost \in LossesOf(jobs), apiDown \in {d \in BOOLEAN : d => "rapi" \in Fault} :
        RefreshWith(p, lost, apiDown)
  BY DEF Refresh
<1> DEFINE data   == CheckJobStatus(req[p].copy, jobs, lost, gjobs)
           raised == InfoRaises(Updated(req[p].copy, data), apiDown)
<1>2. req' = [req EXCEPT ![p] = Idle]
      \/ req' = [req EXCEPT ![p] = Refreshed(req[p], data, raised)]
  BY <1>1 DEF RefreshWith, Discard
<1>3. UNCHANGED <<vm, jobs, grants, instance>> /\ gjobs' \in [JobId -> GanetiJob]
  BY DEF Refresh, IInv, TypeOK
<1>4. raised \in BOOLEAN
  BY DEF InfoRaises
<1>5. data.removals \subseteq JobId
  BY DEF CheckJobStatus, RemovalsSeen, IInv, TypeOK
<1> HIDE DEF data, raised
<1>6. Refreshed(req[p], data, raised) \in Request
      /\ Bypassed(Refreshed(req[p], data, raised).copy)
  BY <1>4, <1>5, RefreshedRequestType
<1> QED BY <1>2, <1>3, <1>6, IdleType, RequestStepType

(* A submission adds a pending job to the cluster and to the request. *)
LEMMA SubmitStep == ASSUME IInv, NEW p \in Proc, Submit(p) PROVE IInv'
<1>1. PICK j \in JobId :
        /\ gjobs' = [gjobs EXCEPT ![j] = [op |-> OpOf(req[p].view), status |-> "pending"]]
        /\ req' = [req EXCEPT ![p] =
                     [req[p] EXCEPT !.pc = "submitted", !.new = @ \cup {j}]]
  BY DEF Submit
<1> DEFINE r == [req[p] EXCEPT !.pc = "submitted", !.new = @ \cup {j}]
<1>2. req[p] \in Request /\ Bypassed(req[p].copy)
  BY DEF IInv, TypeOK, CopiesBypassed, Bypassed
<1>3. r \in Request /\ Bypassed(r.copy)
  BY <1>2 DEF Request
<1>4. [op |-> OpOf(req[p].view), status |-> "pending"] \in GanetiJob
  BY DEF OpOf, GanetiJob, JobOp, JobStatus
<1>5. gjobs' \in [JobId -> GanetiJob]
  BY <1>1, <1>4 DEF IInv, TypeOK
<1> HIDE DEF r
<1> QED BY <1>1, <1>3, <1>5, RequestStepType DEF Submit, r

(* The full save of _destroy sets last_job and ignore_cache together. *)
LEMMA FinishDestroyStep == ASSUME IInv, NEW p \in Proc, FinishDestroy(p) PROVE IInv'
<1> DEFINE q   == req[p]
           old == AfterRefresh(q)
           row == [q.copy EXCEPT !.present = TRUE, !.lastJob = Max(q.new),
                                 !.ignoreCache = TRUE, !.pendingDelete = TRUE]
           gr  == grants /\ old.present /\ old.lastJob = NoJob
<1>1. Commit(p, row, q.new, gr)
  BY DEF FinishDestroy
<1>2. q.copy \in Row /\ q.new \subseteq JobId
  BY DEF IInv, TypeOK, Request
<1>3. row.lastJob \in JobId \cup {NoJob} => row \in Row /\ Bypassed(row)
  BY <1>2 DEF Row, Bypassed
<1>4. gr \in BOOLEAN OBVIOUS
<1> HIDE DEF row, gr
<1> QED BY <1>1, <1>2, <1>3, <1>4, CommitType

(* The reset of clear unsets last_job and ignore_cache together. *)
LEMMA FinishClearStep == ASSUME IInv, NEW p \in Proc, FinishClear(p) PROVE IInv'
<1> DEFINE q       == req[p]
           old     == AfterRefresh(q)
           reset   == [q.copy EXCEPT !.present = TRUE, !.lastJob = NoJob,
                                     !.ignoreCache = FALSE]
           saved   == IF q.job = q.copy.lastJob THEN reset ELSE old
           cascade == saved.lastJob = q.job
           row     == IF cascade THEN NoRow ELSE saved
           js      == jobs \ (q.drop \cup {q.job})
           gr      == grants /\ old.present /\ ~cascade
<1>1. Commit(p, row, js, gr)
  BY DEF FinishClear
<1>2. reset \in Row /\ Bypassed(reset)
  <2>1. q.copy \in Row BY DEF IInv, TypeOK, Request
  <2> QED BY <2>1 DEF Row, Bypassed, NoJob
<1>3. old \in Row /\ Bypassed(old)
  BY AfterRefreshType
<1>4. row \in Row /\ Bypassed(row)
  BY <1>2, <1>3, NoRowType
<1>5. gr \in BOOLEAN /\ js \subseteq JobId
  BY DEF IInv, TypeOK
<1> HIDE DEF row, gr, js
<1> QED BY <1>1, <1>4, <1>5, CommitType

(* The other ways in which a request commits. *)
LEMMA FinishStep ==
    ASSUME IInv, NEW p \in Proc,
           \/ FinishVisit(p) \/ FinishOperate(p) \/ FinishDestroyMissing(p)
           \/ FinishReparent(p) \/ FinishCreate(p)
    PROVE  IInv'
<1> DEFINE q   == req[p]
           row == AfterRefresh(q)
<1>1. row \in Row /\ Bypassed(row)
  BY AfterRefreshType
<1>2. /\ q.copy \in Row /\ Bypassed(q.copy) /\ q.new \subseteq JobId
      /\ jobs \subseteq JobId /\ grants \in BOOLEAN
  BY DEF IInv, TypeOK, Request, CopiesBypassed, Bypassed
<1>3. CASE FinishVisit(p)
  <2>1. Commit(p, row, jobs \ q.drop, grants /\ row.present)
    BY <1>3 DEF FinishVisit
  <2> QED BY <2>1, <1>1, <1>2, CommitType
<1>4. CASE FinishOperate(p)
  <2> DEFINE tracked == IF q.new = {} THEN row ELSE Tracking(row, Max(q.new))
  <2>1. Commit(p, tracked, (jobs \ q.drop) \cup q.new, grants /\ row.present)
    BY <1>4 DEF FinishOperate
  <2>2. tracked.lastJob \in JobId \cup {NoJob} => tracked \in Row /\ Bypassed(tracked)
    <3> HIDE DEF row
    <3> QED BY <1>1, TrackingType
  <2> HIDE DEF tracked
  <2> QED BY <2>1, <2>2, <1>2, CommitType
<1>5. CASE FinishDestroyMissing(p)
  <2>1. Commit(p, NoRow, jobs \ q.drop, FALSE)
    BY <1>5 DEF FinishDestroyMissing
  <2> QED BY <2>1, <1>2, NoRowType, CommitType
<1>6. CASE FinishReparent(p)
  <2>1. Commit(p, q.copy, jobs \ q.drop, grants)
    BY <1>6 DEF FinishReparent
  <2> QED BY <2>1, <1>2, CommitType
<1>7. CASE FinishCreate(p)
  <2> DEFINE new == [Imported EXCEPT !.lastJob = Max(q.new), !.ignoreCache = TRUE]
  <2>1. Commit(p, new, jobs \cup q.new, TRUE)
    BY <1>7 DEF FinishCreate
  <2>2. new.lastJob \in JobId \cup {NoJob} => new \in Row /\ Bypassed(new)
    BY NoRowType DEF Row, Bypassed
  <2> HIDE DEF new
  <2> QED BY <2>1, <2>2, <1>2, CommitType
<1> QED BY <1>3, <1>4, <1>5, <1>6, <1>7

(* The cluster changes its jobs and its instance only. *)
LEMMA ClusterStep ==
    ASSUME IInv, NEW j \in JobId,
           (\E outcome \in Outcome : JobEnds(j, outcome)) \/ JobArchived(j)
    PROVE  IInv'
<1>1. UNCHANGED <<vm, jobs, grants, req>>
  BY DEF JobEnds, JobArchived
<1>2. gjobs' \in [JobId -> GanetiJob]
  <2>1. PICK status \in JobStatus : gjobs' = [gjobs EXCEPT ![j].status = status]
    BY OutcomeAssumption DEF JobEnds, JobArchived, AllOutcomes, JobStatus
  <2> QED BY <2>1 DEF IInv, TypeOK, GanetiJob
<1>3. instance' \in MTime
  BY DEF JobEnds, JobArchived, MTime, NoInstance, IInv, TypeOK
<1> QED BY <1>1, <1>2, <1>3
        DEF IInv, TypeOK, TrackedIsBypassed, CopiesBypassed

(* The invariant is inductive. *)
LEMMA NextIInv == IInv /\ [Next]_vars => IInv'
<1> SUFFICES ASSUME IInv, [Next]_vars PROVE IInv' OBVIOUS
<1>1. ASSUME NEW p \in Proc, NEW v \in AllViews, Open(p, v) PROVE IInv'
  <2>1. PICK expired \in BOOLEAN : req' = [req EXCEPT ![p] = Loaded(v, NoJob, expired)]
    BY <1>1 DEF Open
  <2>2. UNCHANGED <<vm, jobs, grants, instance>> /\ gjobs' \in [JobId -> GanetiJob]
    BY <1>1 DEF Open, IInv, TypeOK
  <2> QED BY <2>1, <2>2, LoadedType, RequestStepType
<1>2. ASSUME NEW p \in Proc, NEW j \in JobId, OpenClear(p, j) PROVE IInv'
  <2>1. PICK expired \in BOOLEAN : req' = [req EXCEPT ![p] = Loaded("clear", j, expired)]
    BY <1>2 DEF OpenClear
  <2>2. UNCHANGED <<vm, jobs, grants, instance>> /\ gjobs' \in [JobId -> GanetiJob]
    BY <1>2 DEF OpenClear, IInv, TypeOK
  <2>3. "clear" \in AllViews BY DEF AllViews
  <2> QED BY <2>1, <2>2, <2>3, LoadedType, RequestStepType
<1>3. ASSUME NEW p \in Proc, OpenCreate(p) PROVE IInv'
  <2> DEFINE r == [Idle EXCEPT !.view = "create", !.pc = "refreshed"]
  <2>1. r \in Request /\ Bypassed(r.copy)
    BY IdleType DEF Request, AllViews, Bypassed
  <2>2. gjobs' \in [JobId -> GanetiJob]
    BY <1>3 DEF OpenCreate, IInv, TypeOK
  <2> QED BY <1>3, <2>1, <2>2, RequestStepType DEF OpenCreate
<1>4. ASSUME NEW p \in Proc, FindMissing(p) PROVE IInv'
  <2> DEFINE r == [req[p] EXCEPT !.pc = "missing"]
  <2>1. r \in Request /\ Bypassed(r.copy)
    BY DEF IInv, TypeOK, CopiesBypassed, Request, Bypassed
  <2>2. req' = [req EXCEPT ![p] = r] /\ gjobs' \in [JobId -> GanetiJob]
    BY <1>4 DEF FindMissing, IInv, TypeOK
  <2> HIDE DEF r
  <2> QED BY <1>4, <2>1, <2>2, RequestStepType DEF FindMissing
<1>5. ASSUME NEW p \in Proc, Fail(p) \/ Crash(p) PROVE IInv'
  <2>1. UNCHANGED <<vm, jobs, grants, instance>> /\ gjobs' \in [JobId -> GanetiJob]
    BY <1>5 DEF Fail, Crash, IInv, TypeOK
  <2>2. req' = [req EXCEPT ![p] = Idle]
    BY <1>5 DEF Fail, Crash, Discard
  <2> QED BY <2>1, <2>2, IdleType, RequestStepType
<1>6. CASE UNCHANGED vars
  BY <1>6 DEF vars, IInv, TypeOK, TrackedIsBypassed, CopiesBypassed
<1> QED
  BY <1>1, <1>2, <1>3, <1>4, <1>5, <1>6, RefreshStep, SubmitStep, FinishStep,
     FinishDestroyStep, FinishClearStep, ClusterStep
  DEF Next, RequestStep

(* The rows, the jobs and the requests are what the code takes them for:   *)
(* in every reachable state each variable has its type.                    *)
THEOREM TypeCorrect == Spec => []TypeOK
<1>1. IInv => TypeOK BY DEF IInv
<1> QED BY <1>1, InitIInv, NextIInv, PTL DEF Spec

(* However many processes, jobs, views and faults there are, a row that    *)
(* names a last job has its cache bypassed (the updates of ignore_cache    *)
(* and last_job in models.py, views.py and check_job_status()).            *)
THEOREM TrackedBypass == Spec => []TrackedIsBypassed
<1>1. IInv => TrackedIsBypassed BY DEF IInv
<1> QED BY <1>1, InitIInv, NextIInv, PTL DEF Spec

----------------------------------------------------------------------------
(* Deletions.  The claim needs that nobody creates the VM, since _destroy  *)
(* deletes the row of an instance still being created, and that nobody     *)
(* clears jobs, since the cascade of a deleted job takes the row along.    *)

(* Job ids have a greatest element, so Max is one of them. *)
LEMMA MaxOfJobs ==
    ASSUME NEW S, S \subseteq JobId, S # {}
    PROVE  Max(S) \in S /\ \A k \in S : k <= Max(S)
<1> DEFINE T == {MaxJobs - k : k \in S}
           R == OpToRel(<, Nat)
<1>1. T \subseteq Nat
  <2> SUFFICES ASSUME NEW k \in S PROVE MaxJobs - k \in Nat OBVIOUS
  <2> QED BY MaxJobsAssumption DEF JobId
<1>2. T # {} OBVIOUS
<1>3. \A a, b \in Nat : <<a, b>> \in R <=> a < b BY DEF OpToRel
<1>4. IsWellFoundedOn(R, Nat) BY NatLessThanWellFounded
<1> HIDE DEF T, R
<1>5. PICK m \in T : \A t \in T : ~ <<t, m>> \in R BY <1>1, <1>2, <1>4, WFMin
<1>6. ASSUME NEW t \in T PROVE m <= t
  <2>1. m \in Nat /\ t \in Nat BY <1>1
  <2>2. ~(t < m) BY <2>1, <1>5, <1>3
  <2> QED BY <2>1, <2>2
<1>7. PICK x \in S : m = MaxJobs - x BY <1>5 DEF T
<1>8. \A k \in S : x >= k
  <2> TAKE k \in S
  <2>1. MaxJobs - k \in T BY DEF T
  <2> QED BY <2>1, <1>6, <1>7, MaxJobsAssumption DEF JobId
<1> QED BY <1>7, <1>8, MaxJobsAssumption DEF Max, JobId

(* The requests in flight came from the views users call. *)
ViewsCalled == \A p \in Proc : req[p].pc # "idle" => req[p].view \in View

NoCreations == \A j \in JobId : gjobs[j].op # "CREATE"

(* A removal that succeeded was the end of the instance. *)
RemovedIsDead ==
    \A j \in JobId : gjobs[j].op = "REMOVE" /\ gjobs[j].status = "success" => ~Alive

(* A request about to delete the row has seen that the instance is gone. *)
DeletersSawDead ==
    \A p \in Proc : req[p].write = "delete" \/ req[p].pc = "missing" => ~Alive

(* A copy that a full save would write still has its key. *)
WholeCopies == \A p \in Proc : req[p].write = "full" => req[p].copy.present

DInv == /\ IInv
        /\ ViewsCalled
        /\ NoCreations
        /\ RemovedIsDead
        /\ DeletersSawDead
        /\ WholeCopies

UncreatedUncleared == View \cap {"create", "clear"} = {}

(* The job check_job_status() takes a deletion from is a removal that      *)
(* succeeded, even when it hears of it in the iteration of another job.    *)
LEMMA RemovalHeard ==
    ASSUME IInv, RemovedIsDead, NEW row, NEW lost,
           CheckJobStatus(row, jobs, lost, gjobs).removals # {}
    PROVE  ~Alive
<1>1. PICK j \in jobs : /\ OpAt(jobs, lost, gjobs, j) = "REMOVE"
                        /\ StatusAt(jobs, lost, gjobs, j) = "success"
  BY DEF CheckJobStatus, RemovalsSeen
<1> DEFINE heard == HeardBy(jobs, lost, j)
<1>2. heard # {} BY <1>1 DEF OpAt
<1>3. heard \subseteq JobId BY DEF HeardBy, IInv, TypeOK
<1>4. Max(heard) \in JobId BY <1>2, <1>3, MaxOfJobs
<1>5. gjobs[Max(heard)].op = "REMOVE" /\ gjobs[Max(heard)].status = "success"
  BY <1>1, <1>2 DEF OpAt, StatusAt
<1> QED BY <1>4, <1>5 DEF RemovedIsDead

(* Without creations a dead instance stays dead. *)
LEMMA DeadStaysDead ==
    ASSUME DInv, [Next]_vars, ~Alive
    PROVE  ~Alive'
<1>1. CASE instance' = instance BY <1>1 DEF Alive
<1>2. ASSUME NEW j \in JobId, NEW outcome, JobEnds(j, outcome) PROVE instance' = instance
  BY <1>2 DEF JobEnds, DInv, NoCreations
<1> QED BY <1>1, <1>2
        DEF Next, RequestStep, vars, Open, OpenClear, OpenCreate, Refresh, Submit,
            Fail, FindMissing, FinishVisit, FinishOperate, FinishDestroyMissing,
            FinishDestroy, FinishReparent, FinishClear, FinishCreate, Commit, Crash,
            JobArchived

(* No job has been submitted, no request is in flight. *)
LEMMA InitDInv == Init => DInv
<1> SUFFICES ASSUME Init PROVE DInv OBVIOUS
<1>1. IInv BY InitIInv
<1>2. ViewsCalled /\ DeletersSawDead /\ WholeCopies
  BY DEF Init, ViewsCalled, DeletersSawDead, WholeCopies, Idle
<1>3. NoCreations /\ RemovedIsDead
  BY DEF Init, NoCreations, RemovedIsDead
<1> QED BY <1>1, <1>2, <1>3 DEF DInv

(* A step that changes one request, to q, and no job of the cluster. *)
LEMMA RequestDInv ==
    ASSUME DInv, [Next]_vars, NEW p \in Proc, NEW q,
           req' = [req EXCEPT ![p] = q], gjobs' = gjobs,
           q.pc # "idle" => q.view \in View,
           q.write = "delete" \/ q.pc = "missing" => ~Alive,
           q.write = "full" => q.copy.present
    PROVE  DInv'
<1>1. IInv' BY NextIInv DEF DInv
<1>2. req \in [Proc -> Request] BY DEF DInv, IInv, TypeOK
<1>3. ViewsCalled' BY <1>2 DEF DInv, ViewsCalled
<1>4. WholeCopies' BY <1>2 DEF DInv, WholeCopies
<1>5. NoCreations' BY DEF DInv, NoCreations
<1>6. RemovedIsDead' BY DeadStaysDead DEF DInv, RemovedIsDead
<1>7. DeletersSawDead'
  <2> SUFFICES ASSUME NEW r \in Proc, req'[r].write = "delete" \/ req'[r].pc = "missing"
               PROVE  ~Alive'
    BY DEF DeletersSawDead
  <2>1. ~Alive BY <1>2 DEF DInv, DeletersSawDead
  <2> QED BY <2>1, DeadStaysDead
<1> QED BY <1>1, <1>3, <1>4, <1>5, <1>6, <1>7 DEF DInv

(* A refresh() that deletes has heard of a removal that succeeded. *)
LEMMA RefreshDInv ==
    ASSUME DInv, NEW p \in Proc, Refresh(p), [Next]_vars PROVE DInv'
<1>1. PICK lost \in LossesOf(jobs), apiDown \in {d \in BOOLEAN : d => "rapi" \in Fault} :
        RefreshWith(p, lost, apiDown)
  BY DEF Refresh
<1> DEFINE q      == req[p]
           data   == CheckJobStatus(q.copy, jobs, lost, gjobs)
           row    == Updated(q.copy, data)
           raised == InfoRaises(row, apiDown)
           r      == Refreshed(q, data, raised)
<1>2. gjobs' = gjobs /\ q.pc = "loaded" BY DEF Refresh
<1>3. CASE req' = [req EXCEPT ![p] = Idle]
  BY <1>2, <1>3, RequestDInv DEF Idle
<1>4. CASE req' = [req EXCEPT ![p] = r]
  <2>1. q \in Request /\ q.copy \in Row BY DEF DInv, IInv, TypeOK, Request
  <2>2. /\ r.pc = "refreshed" /\ r.view = q.view
        /\ r.copy = RefreshedCopy(row, raised)
        /\ r.write = IF data.removals # {} THEN "delete" ELSE RefreshWrite(row, raised)
    <3> HIDE DEF data, raised
    <3> QED BY <2>1 DEF Refreshed, Request
  <2>3. r.view \in View BY <1>2, <2>2 DEF DInv, ViewsCalled
  <2>4. r.write = "delete" => ~Alive
    <3> SUFFICES ASSUME r.write = "delete" PROVE data.removals # {}
      BY RemovalHeard DEF DInv
    <3> QED BY <2>2 DEF RefreshWrite
  <2>5. r.write = "full" => r.copy.present
    <3> SUFFICES ASSUME r.write = "full" PROVE r.copy.present OBVIOUS
    <3>1. row.present BY <2>2 DEF RefreshWrite, WritesWholeRow
    <3> HIDE DEF data, raised
    <3>2. row \in Row BY <2>1 DEF Updated, Row, NoJob
    <3> HIDE DEF row
    <3> QED BY <2>2, <3>1, <3>2 DEF RefreshedCopy, Row
  <2> HIDE DEF r
  <2> QED BY <1>2, <1>4, <2>2, <2>3, <2>4, <2>5, RequestDInv
<1> QED BY <1>1, <1>3, <1>4 DEF RefreshWith, Discard

(* A submission is no creation, and ends nothing. *)
LEMMA SubmitDInv ==
    ASSUME DInv, UncreatedUncleared, NEW p \in Proc, Submit(p), [Next]_vars PROVE DInv'
<1>1. PICK j \in JobId :
        /\ gjobs' = [gjobs EXCEPT ![j] = [op |-> OpOf(req[p].view), status |-> "pending"]]
        /\ req' = [req EXCEPT ![p] =
                     [req[p] EXCEPT !.pc = "submitted", !.new = @ \cup {j}]]
  BY DEF Submit
<1>2. IInv' BY NextIInv DEF DInv
<1>3. req \in [Proc -> Request] /\ gjobs \in [JobId -> GanetiJob]
  BY DEF DInv, IInv, TypeOK
<1>4. req[p].view \in View /\ req[p].view # "create" BY DEF DInv, ViewsCalled, Submit, UncreatedUncleared
<1>5. /\ req'[p].view = req[p].view /\ req'[p].write = req[p].write
      /\ req'[p].copy = req[p].copy /\ req'[p].pc = "submitted"
      /\ \A r \in Proc : r # p => req'[r] = req[r]
  BY <1>1, <1>3 DEF Request
<1>6. ViewsCalled' BY <1>4, <1>5 DEF DInv, ViewsCalled
<1>7. WholeCopies' BY <1>5 DEF DInv, WholeCopies
<1>8. instance' = instance BY DEF Submit
<1>9. DeletersSawDead' BY <1>5, <1>8 DEF DInv, DeletersSawDead, Alive
<1>10. OpOf(req[p].view) # "CREATE" BY <1>4 DEF OpOf
<1>11. NoCreations' BY <1>1, <1>3, <1>10 DEF DInv, NoCreations
<1>12. RemovedIsDead' BY <1>1, <1>3, <1>8 DEF DInv, RemovedIsDead, Alive
<1> QED BY <1>2, <1>6, <1>7, <1>9, <1>11, <1>12 DEF DInv

(* A removal that succeeds leaves no instance, and nothing brings it back. *)
LEMMA ClusterDInv ==
    ASSUME DInv, NEW j \in JobId, [Next]_vars,
           (\E outcome \in Outcome : JobEnds(j, outcome)) \/ JobArchived(j)
    PROVE  DInv'
<1>1. IInv' BY NextIInv DEF DInv
<1>2. gjobs \in [JobId -> GanetiJob] BY DEF DInv, IInv, TypeOK
<1>3. \A k \in JobId : gjobs'[k].op = gjobs[k].op
  BY <1>2 DEF JobEnds, JobArchived, GanetiJob
<1>4. NoCreations' BY <1>3 DEF DInv, NoCreations
<1>5. req' = req BY DEF JobEnds, JobArchived
<1>6. ViewsCalled' /\ WholeCopies' BY <1>5 DEF DInv, ViewsCalled, WholeCopies
<1>7. DeletersSawDead' BY <1>5, DeadStaysDead DEF DInv, DeletersSawDead
<1>8. RemovedIsDead'
  <2> SUFFICES ASSUME NEW k \in JobId, gjobs'[k].op = "REMOVE", gjobs'[k].status = "success"
               PROVE  ~Alive'
    BY DEF RemovedIsDead
  <2>1. CASE gjobs[k].status = "success"
    BY <2>1, <1>3, DeadStaysDead DEF DInv, RemovedIsDead
  <2>2. CASE gjobs[k].status # "success"
    <3>1. PICK outcome \in Outcome : JobEnds(j, outcome)
      BY <2>2, <1>2 DEF JobArchived, GanetiJob
    <3>2. k = j /\ outcome = "success" BY <2>2, <3>1, <1>2 DEF JobEnds, GanetiJob
    <3> QED BY <3>1, <3>2, <1>3 DEF JobEnds, Alive
  <2> QED BY <2>1, <2>2
<1> QED BY <1>1, <1>4, <1>6, <1>7, <1>8 DEF DInv

(* The stronger invariant is inductive, without creations and clears. *)
LEMMA NextDInv == UncreatedUncleared /\ DInv /\ [Next]_vars => DInv'
<1> SUFFICES ASSUME UncreatedUncleared, DInv, [Next]_vars PROVE DInv' OBVIOUS
<1>1. ASSUME NEW p \in Proc, NEW v \in AllViews, Open(p, v) PROVE DInv'
  <2>1. PICK expired \in BOOLEAN : req' = [req EXCEPT ![p] = Loaded(v, NoJob, expired)]
    BY <1>1 DEF Open
  <2> DEFINE r == Loaded(v, NoJob, expired)
  <2>2. r.view = v /\ r.write = "none" /\ r.pc # "missing"
    BY DEF Loaded, Idle
  <2>3. v \in View /\ gjobs' = gjobs BY <1>1 DEF Open
  <2> HIDE DEF r
  <2> QED BY <2>1, <2>2, <2>3, RequestDInv DEF r
<1>2. ASSUME NEW p \in Proc, OpenCreate(p) PROVE FALSE
  BY <1>2 DEF OpenCreate, UncreatedUncleared
<1>3. ASSUME NEW p \in Proc, NEW j \in JobId, OpenClear(p, j) PROVE FALSE
  BY <1>3 DEF OpenClear, UncreatedUncleared
<1>4. ASSUME NEW p \in Proc, FindMissing(p) PROVE DInv'
  <2> DEFINE r == [req[p] EXCEPT !.pc = "missing"]
  <2>1. req[p] \in Request BY DEF DInv, IInv, TypeOK
  <2>2. /\ r.view = req[p].view /\ r.write = req[p].write /\ r.copy = req[p].copy
    BY <2>1 DEF Request
  <2>3. ~Alive BY <1>4 DEF FindMissing, DestroyFinds404, Alive
  <2>4. req[p].view \in View BY <1>4 DEF FindMissing, DInv, ViewsCalled
  <2>5. r.write = "full" => r.copy.present BY <2>2 DEF DInv, WholeCopies
  <2>6. req' = [req EXCEPT ![p] = r] /\ gjobs' = gjobs BY <1>4 DEF FindMissing
  <2> HIDE DEF r
  <2> QED BY <2>2, <2>3, <2>4, <2>5, <2>6, RequestDInv
<1>5. ASSUME NEW p \in Proc,
             \/ Fail(p) \/ Crash(p) \/ FinishVisit(p) \/ FinishOperate(p)
             \/ FinishDestroyMissing(p) \/ FinishDestroy(p) \/ FinishReparent(p)
             \/ FinishClear(p) \/ FinishCreate(p)
      PROVE  DInv'
  <2>1. req' = [req EXCEPT ![p] = Idle] /\ gjobs' = gjobs
    BY <1>5 DEF Fail, Crash, FinishVisit, FinishOperate, FinishDestroyMissing,
                FinishDestroy, FinishReparent, FinishClear, FinishCreate, Commit, Discard
  <2> QED BY <2>1, RequestDInv DEF Idle
<1>6. CASE UNCHANGED vars
  BY <1>6, NextIInv DEF vars, DInv, ViewsCalled, NoCreations, RemovedIsDead,
                        DeletersSawDead, WholeCopies, Alive
<1> QED
  BY <1>1, <1>2, <1>3, <1>4, <1>5, <1>6, RefreshDInv, SubmitDInv, ClusterDInv
  DEF Next, RequestStep

(* What a request leaves of the row: only NoRow and the NoRow written by a *)
(* deleting refresh() have no key.                                         *)
LEMMA DeletionSeen ==
    ASSUME UncreatedUncleared, DInv, [Next]_vars, vm.present, ~vm'.present
    PROVE  ~Alive
<1>1. PICK p \in Proc :
        \/ FinishVisit(p) \/ FinishOperate(p) \/ FinishDestroyMissing(p)
        \/ FinishDestroy(p) \/ FinishReparent(p) \/ FinishClear(p) \/ FinishCreate(p)
  BY DEF Next, RequestStep, vars, Open, OpenClear, OpenCreate, Refresh, Submit, Fail,
         FindMissing, Crash, JobEnds, JobArchived
<1> DEFINE q   == req[p]
           row == AfterRefresh(q)
<1>2. q.copy \in Row /\ q.write \in Write /\ vm \in Row
  BY DEF DInv, IInv, TypeOK, Request
<1>3. row.present \/ ~Alive
  <2>1. CASE q.write = "none" BY <2>1 DEF AfterRefresh
  <2>2. CASE q.write = "narrow"
    BY <2>2, <1>2 DEF AfterRefresh, NarrowUpdated, Row
  <2>3. CASE q.write = "full" BY <2>3 DEF AfterRefresh, DInv, WholeCopies
  <2>4. CASE q.write = "delete" BY <2>4 DEF DInv, DeletersSawDead
  <2> QED BY <1>2, <2>1, <2>2, <2>3, <2>4 DEF Write
<1>4. CASE FinishVisit(p)
  BY <1>3, <1>4 DEF FinishVisit, Commit
<1>5. CASE FinishOperate(p)
  <2>1. row \in Row BY AfterRefreshType DEF DInv
  <2>2. vm' = vm \/ vm' = row \/ vm' = Tracking(row, Max(q.new))
    BY <1>5 DEF FinishOperate, Commit
  <2> HIDE DEF row
  <2>3. Tracking(row, Max(q.new)).present = row.present BY <2>1 DEF Tracking, Row
  <2> QED BY <1>3, <2>2, <2>3
<1>6. CASE FinishDestroyMissing(p)
  BY <1>6 DEF FinishDestroyMissing, DInv, DeletersSawDead
<1>7. CASE FinishDestroy(p)
  BY <1>2, <1>7 DEF FinishDestroy, Commit, Row
<1>8. CASE FinishReparent(p)
  BY <1>8 DEF FinishReparent, Storable, Commit
<1>9. CASE FinishClear(p)
  <2>1. q.view = "clear" /\ q.view \in View
    BY <1>9 DEF FinishClear, DInv, ViewsCalled
  <2> QED BY <2>1 DEF UncreatedUncleared
<1>10. CASE FinishCreate(p)
  <2>1. q.view = "create" /\ q.view \in View
    BY <1>10 DEF FinishCreate, DInv, ViewsCalled
  <2> QED BY <2>1 DEF UncreatedUncleared
<1> QED BY <1>1, <1>4, <1>5, <1>6, <1>7, <1>8, <1>9, <1>10

(* A VM that exists in Ganeti never loses its row to a visit, an           *)
(* operation, a destruction or a reparenting, however many run at once and *)
(* whatever the API loses (check_job_status(), refresh() and _destroy).    *)
THEOREM DeletionsSafe ==
    ASSUME UncreatedUncleared
    PROVE  Spec => DeletesOnlyTheDead
<1>1. DInv /\ [Next]_vars => [vm.present /\ ~vm'.present => ~Alive]_vars
  BY DeletionSeen
<1>2. DInv /\ [Next]_vars => DInv'
  BY NextDInv
<1> QED BY <1>1, <1>2, InitDInv, PTL DEF Spec, DeletesOnlyTheDead

----------------------------------------------------------------------------
(* One process and an API that answers.  No other request runs between the *)
(* load of a request and its writes, and a poll goes unanswered only for a *)
(* job that was archived.  The invariant relates the request q in flight   *)
(* to the row and to the jobs: it has the newest jobs, `kept' are the jobs *)
(* that are the VM's or will be.                                           *)

(* Jobs are numbered in the order of submission, and those of the request  *)
(* in flight are the newest.                                               *)
Numbered(q) ==
    /\ \A j \in Submitted, k \in JobId : k < j => k \in Submitted
    /\ \A j \in JobId \ Submitted : gjobs[j].op = "none"
    /\ jobs \cup q.new \subseteq Submitted
    /\ \A n \in q.new, k \in Submitted \ q.new : k < n
    /\ jobs \cap q.new = {}
    /\ q.new # {} <=> q.pc = "submitted"

(* The row tracks the last of its jobs.                                    *)
LastIsNewest ==
    /\ vm.lastJob \in jobs \cup {NoJob}
    /\ vm.lastJob # NoJob => vm.present /\ \A k \in jobs : k <= vm.lastJob
    /\ NewestJobTracked

(* Two rows that track the same job, unless the second has released it.    *)
SameJob(row, copy) ==
    \/ copy.lastJob = row.lastJob
    \/ /\ copy.lastJob = NoJob /\ row.lastJob # NoJob
       /\ gjobs[row.lastJob].status # "pending"

(* The copy in memory, and what refresh() wrote, follow the row.           *)
Follows(q) == q.pc # "idle" =>
    /\ q.pc = "loaded" => q.copy = vm /\ vm.present
    /\ q.pc = "loaded" => q.write = "none" /\ q.new = {}
    /\ SameJob(vm, q.copy)
    /\ q.copy.pendingDelete => vm.pendingDelete
    /\ q.copy.present => vm.present
    /\ q.write # "none" => vm.present
    /\ q.write \in {"narrow", "full"} => q.copy.present
    /\ q.write = "narrow" => /\ AfterRefresh(q).lastJob = q.copy.lastJob
                             /\ AfterRefresh(q).pendingDelete <=> q.copy.pendingDelete
    /\ q.view = "clear" => q.job \in JobId

(* A pending deletion has a removal job to wait for, or an explanation.    *)
Lost(j, kept) == j \in Submitted \ kept \/ gjobs[j].status = "archived"
Over(j, kept) == gjobs[j].status = "error" \/ Lost(j, kept)

Explained(kept, new) ==
    \E d \in JobId \ new :
        /\ gjobs[d].op = "REMOVE"
        /\ \/ Over(d, kept)
           \/ \E k \in JobId : k > d /\ (gjobs[k].status = "success" \/ Over(k, kept))

Awaited(row, new) == \E d \in JobId \ new : gjobs[d].op = "REMOVE" /\ d <= row.lastJob

Due(row, kept, new) ==
    row.pendingDelete =>
        IF row.lastJob = NoJob THEN Explained(kept, new) ELSE Awaited(row, new)

DueRows(q) ==
    /\ Due(vm, jobs \cup q.new, q.new)
    /\ q.copy.present => Due(q.copy, jobs \cup q.new, q.new)
    /\ q.view = "destroy" => \A n \in q.new : gjobs[n].op = "REMOVE"

(* Unless the VM is created, the row and the copy are lost only when the   *)
(* instance is.                                                            *)
Kept(q) == NoCreations =>
    /\ RemovedIsDead
    /\ q.write = "delete" => ~Alive
    /\ q.pc # "idle" /\ q.write = "none" /\ q.copy.lastJob # vm.lastJob => ~Alive

SInv(q) == Numbered(q) /\ LastIsNewest /\ Follows(q) /\ DueRows(q) /\ Kept(q)

Single(p) == p \in Proc /\ Proc = {p} /\ "rapi" \notin Fault

(* A request that has written nothing leaves nothing to follow.            *)
LEMMA IdleSeq ==
    /\ Idle.pc = "idle" /\ Idle.new = {} /\ Idle.write = "none"
    /\ Idle.copy.present = FALSE /\ Idle.view = "visit"
BY DEF Idle, NoRow

LEMMA InitSInv == ASSUME NEW p, Single(p), Init PROVE SInv(req[p])
<1>1. req[p] = Idle /\ jobs = {} /\ Submitted = {} /\ \A j \in JobId : gjobs[j].op = "none"
  BY DEF Init, Single, Submitted
<1>2. vm.lastJob = NoJob /\ ~vm.pendingDelete
  BY DEF Init, Imported, NoRow
<1>3. Numbered(req[p]) BY <1>1, IdleSeq DEF Numbered
<1>4. LastIsNewest BY <1>1, <1>2 DEF LastIsNewest, NewestJobTracked
<1>5. Follows(req[p]) BY <1>1, IdleSeq DEF Follows
<1>6. DueRows(req[p]) BY <1>1, <1>2, IdleSeq DEF DueRows, Due
<1>7. Kept(req[p]) BY <1>1, IdleSeq DEF Kept, RemovedIsDead
<1> QED BY <1>3, <1>4, <1>5, <1>6, <1>7 DEF SInv

----------------------------------------------------------------------------
(* The explanation of a pending deletion is not taken back.                *)
LEMMA ExplainedStays ==
    ASSUME IInv, NEW kept, NEW new, NEW left, NEW coming,
           \A j \in JobId : gjobs[j].op = "REMOVE" /\ j \notin new
               => gjobs'[j].op = "REMOVE" /\ j \notin coming,
           \A j \in JobId : Over(j, kept) => Over(j, left)',
           \A j \in JobId : gjobs[j].status = "success"
               => gjobs'[j].status = "success" \/ Over(j, left)'
    PROVE  /\ Explained(kept, new) => Explained(left, coming)'
           /\ \A row \in Row : Awaited(row, new) => Awaited(row, coming)'
<1>1. Explained(kept, new) => Explained(left, coming)'
  <2> SUFFICES ASSUME Explained(kept, new) PROVE Explained(left, coming)' OBVIOUS
  <2>1. PICK d \in JobId \ new :
          /\ gjobs[d].op = "REMOVE"
          /\ \/ Over(d, kept)
             \/ \E k \in JobId : k > d /\ (gjobs[k].status = "success" \/ Over(k, kept))
    BY DEF Explained
  <2>2. d \in JobId \ coming /\ gjobs'[d].op = "REMOVE" BY <2>1
  <2>3. CASE Over(d, kept) BY <2>2, <2>3 DEF Explained
  <2>4. ASSUME NEW k \in JobId, k > d, gjobs[k].status = "success" \/ Over(k, kept)
        PROVE  Explained(left, coming)'
    <3>1. gjobs'[k].status = "success" \/ Over(k, left)' BY <2>4
    <3> QED BY <3>1, <2>2, <2>4 DEF Explained
  <2> QED BY <2>1, <2>3, <2>4
<1>2. ASSUME NEW row \in Row, Awaited(row, new) PROVE Awaited(row, coming)'
  BY <1>2 DEF Awaited
<1> QED BY <1>1, <1>2

(* Nor by losing jobs.                                                     *)
LEMMA DueShrinks ==
    ASSUME NEW row, NEW kept, NEW new, NEW left, NEW coming,
           left \subseteq kept, coming \subseteq new, Due(row, kept, new)
    PROVE  Due(row, left, coming)
<1>1. \A j \in JobId : Over(j, kept) => Over(j, left)
  BY DEF Over, Lost
<1>2. Explained(kept, new) => Explained(left, coming)
  BY <1>1 DEF Explained
<1>3. Awaited(row, new) => Awaited(row, coming)
  BY DEF Awaited
<1> QED BY <1>2, <1>3 DEF Due

----------------------------------------------------------------------------
(* Steps of a request that leave the tables and the cluster alone.         *)
LEMMA RequestSeq ==
    ASSUME IInv, NEW p, Single(p), NEW r, SInv(r), req' = [req EXCEPT ![p] = r],
           UNCHANGED <<vm, jobs, gjobs, instance>>
    PROVE  SInv(req[p])'
<1>1. req'[p] = r BY DEF IInv, TypeOK, Single
<1>2. Numbered(req[p])' /\ LastIsNewest'
  BY <1>1 DEF SInv, Numbered, Submitted, LastIsNewest, NewestJobTracked, Newest
<1>3. Follows(req[p])'
  BY <1>1 DEF SInv, Follows, SameJob, AfterRefresh
<1>4. DueRows(req[p])'
  BY <1>1 DEF SInv, DueRows, Due, Explained, Awaited, Over, Lost, Submitted
<1>5. Kept(req[p])'
  BY <1>1 DEF SInv, Kept, NoCreations, RemovedIsDead, Alive
<1> QED BY <1>2, <1>3, <1>4, <1>5 DEF SInv

(* A request that ends without writing. *)
LEMMA DiscardSeq ==
    ASSUME IInv, NEW p, Single(p), SInv(req[p]), Discard(p),
           UNCHANGED <<vm, jobs, gjobs, instance>>
    PROVE  SInv(req[p])'
<1> DEFINE q == req[p]
<1>1. Numbered(Idle) BY IdleSeq DEF SInv, Numbered
<1>2. LastIsNewest BY DEF SInv
<1>3. Follows(Idle) BY IdleSeq DEF Follows
<1>4. Due(vm, jobs \cup Idle.new, Idle.new)
  <2>1. Idle.new \subseteq q.new /\ jobs \cup Idle.new \subseteq jobs \cup q.new BY IdleSeq
  <2>2. Due(vm, jobs \cup q.new, q.new) BY DEF SInv, DueRows
  <2> QED BY <2>1, <2>2, DueShrinks
<1>5. DueRows(Idle) BY <1>4, IdleSeq DEF DueRows
<1>6. Kept(Idle) BY IdleSeq DEF SInv, Kept
<1>7. SInv(Idle) BY <1>1, <1>2, <1>3, <1>5, <1>6 DEF SInv
<1> QED BY <1>7, RequestSeq DEF Discard

(* A request that opens has the row as its copy, or no row to have. *)
LEMMA OpenSeq ==
    ASSUME IInv, NEW p, Single(p), SInv(req[p]), req[p].pc = "idle",
           NEW r, req' = [req EXCEPT ![p] = r], UNCHANGED <<vm, jobs, gjobs, instance>>,
           r.new = {}, r.write = "none", r.pc \in {"loaded", "refreshed"},
           r.copy = vm \/ (~vm.present /\ r.copy = NoRow),
           r.pc = "loaded" => r.copy = vm /\ vm.present,
           r.view = "clear" => r.job \in JobId
    PROVE  SInv(req[p])'
<1>1. req[p].new = {} BY DEF SInv, Numbered
<1>2. Numbered(r) BY <1>1 DEF SInv, Numbered
<1>3. LastIsNewest BY DEF SInv
<1>4. r.copy.lastJob = vm.lastJob BY <1>3 DEF LastIsNewest, NoRow
<1>5. Follows(r) BY <1>4 DEF Follows, SameJob, NoRow
<1>6. DueRows(r) BY <1>1 DEF SInv, DueRows, NoRow
<1>7. Kept(r) BY <1>4 DEF SInv, Kept
<1> HIDE DEF SInv
<1> QED BY <1>2, <1>3, <1>5, <1>6, <1>7, RequestSeq DEF SInv

LEMMA OpensSeq ==
    ASSUME IInv, NEW p, Single(p), SInv(req[p]),
           \/ \E v \in AllViews : Open(p, v)
           \/ \E j \in JobId : OpenClear(p, j)
           \/ OpenCreate(p)
    PROVE  SInv(req[p])'
<1>1. ASSUME NEW v \in AllViews, NEW j \in JobId \cup {NoJob}, NEW expired,
             req[p].pc = "idle", v = "clear" => j \in JobId,
             req' = [req EXCEPT ![p] = Loaded(v, j, expired)],
             UNCHANGED <<vm, jobs, gjobs, instance>>
      PROVE  SInv(req[p])'
  <2> DEFINE r == Loaded(v, j, expired)
  <2>1. /\ r.new = {} /\ r.write = "none" /\ r.pc \in {"loaded", "refreshed"}
        /\ r.copy = vm /\ r.view = v /\ r.job = j
        /\ r.pc = "loaded" => vm.present
    BY DEF Loaded, Idle
  <2> HIDE DEF r
  <2>2. req' = [req EXCEPT ![p] = r] BY <1>1 DEF r
  <2> QED BY <1>1, <2>1, <2>2, OpenSeq
<1>2. ASSUME NEW v \in AllViews, Open(p, v) PROVE SInv(req[p])'
  <2>1. PICK expired \in BOOLEAN : req' = [req EXCEPT ![p] = Loaded(v, NoJob, expired)]
    BY <1>2 DEF Open
  <2> QED BY <1>1, <1>2, <2>1 DEF Open
<1>3. ASSUME NEW j \in JobId, OpenClear(p, j) PROVE SInv(req[p])'
  <2>1. PICK expired \in BOOLEAN : req' = [req EXCEPT ![p] = Loaded("clear", j, expired)]
    BY <1>3 DEF OpenClear
  <2> QED BY <1>1, <1>3, <2>1 DEF OpenClear, AllViews
<1>4. CASE OpenCreate(p)
  <2> DEFINE r == [Idle EXCEPT !.view = "create", !.pc = "refreshed"]
  <2>1. /\ r.new = {} /\ r.write = "none" /\ r.pc = "refreshed"
        /\ r.copy = NoRow /\ r.view = "create"
    BY DEF Idle
  <2> HIDE DEF r
  <2>2. req' = [req EXCEPT ![p] = r] BY <1>4 DEF OpenCreate, r
  <2> QED BY <1>4, <2>1, <2>2, OpenSeq DEF OpenCreate
<1> QED BY <1>2, <1>3, <1>4

(* A destruction that finds no instance writes nothing yet. *)
LEMMA FindMissingSeq ==
    ASSUME IInv, NEW p, Single(p), SInv(req[p]), FindMissing(p)
    PROVE  SInv(req[p])'
<1> DEFINE q == req[p]
           r == [q EXCEPT !.pc = "missing"]
<1>1. q \in Request BY DEF IInv, TypeOK, Single
<1>2. /\ r.pc = "missing" /\ r.copy = q.copy /\ r.new = q.new /\ r.write = q.write
      /\ r.view = q.view /\ r.job = q.job /\ r.reset = q.reset /\ r.undelete = q.undelete
  BY <1>1 DEF Request
<1>3. q.pc = "refreshed" /\ req' = [req EXCEPT ![p] = r] /\ UNCHANGED <<vm, jobs, gjobs, instance>>
  BY DEF FindMissing
<1> HIDE DEF r
<1>4. Numbered(r) BY <1>2, <1>3 DEF SInv, Numbered
<1>5. Follows(r) BY <1>2, <1>3 DEF SInv, Follows, AfterRefresh
<1>6. DueRows(r) BY <1>2 DEF SInv, DueRows
<1>7. Kept(r) BY <1>2, <1>3 DEF SInv, Kept
<1>8. SInv(r) BY <1>4, <1>5, <1>6, <1>7 DEF SInv
<1> QED BY <1>3, <1>8, RequestSeq

(* Of a job that was not archived, a poll hears; and it hears last of the  *)
(* newest job that it hears of.                                            *)
LEMMA LastHeard ==
    ASSUME IInv, NEW j \in jobs, HeardBy(jobs, Unanswerable, j) # {}
    PROVE  \E h \in jobs :
             /\ gjobs[h].status # "archived" /\ h <= j
             /\ StatusAt(jobs, Unanswerable, gjobs, j) = gjobs[h].status
             /\ OpAt(jobs, Unanswerable, gjobs, j) = gjobs[h].op
             /\ \A k \in jobs : k <= j /\ gjobs[k].status # "archived" => k <= h
<1> DEFINE heard == HeardBy(jobs, Unanswerable, j)
<1>1. heard \subseteq JobId /\ heard \subseteq jobs BY DEF HeardBy, IInv, TypeOK
<1>2. Max(heard) \in heard /\ \A k \in heard : k <= Max(heard) BY <1>1, MaxOfJobs
<1>3. \A k \in heard : k <= j /\ gjobs[k].status # "archived" BY DEF HeardBy, Unanswerable
<1>4. \A k \in jobs : k <= j /\ gjobs[k].status # "archived" => k \in heard
  BY DEF HeardBy, Unanswerable
<1> QED BY <1>1, <1>2, <1>3, <1>4 DEF StatusAt, OpAt

(* A job heard of in its own iteration. *)
LEMMA OwnHeard ==
    ASSUME IInv, NEW j \in jobs, gjobs[j].status # "archived"
    PROVE  /\ StatusAt(jobs, Unanswerable, gjobs, j) = gjobs[j].status
           /\ OpAt(jobs, Unanswerable, gjobs, j) = gjobs[j].op
<1>1. jobs \subseteq Nat BY DEF IInv, TypeOK, JobId
<1>2. j \in HeardBy(jobs, Unanswerable, j) BY <1>1 DEF HeardBy, Unanswerable
<1>3. PICK h \in jobs :
        /\ h <= j /\ j <= h
        /\ StatusAt(jobs, Unanswerable, gjobs, j) = gjobs[h].status
        /\ OpAt(jobs, Unanswerable, gjobs, j) = gjobs[h].op
  BY <1>1, <1>2, LastHeard
<1>4. h = j BY <1>1, <1>3
<1> QED BY <1>3, <1>4

(* A poll that releases the row's job heard that the newest job heard of   *)
(* is over; and when it neither deletes the VM nor takes the deletion      *)
(* back, a pending deletion is explained.                                  *)
LEMMA PollReleases ==
    ASSUME IInv, NEW p, Single(p), SInv(req[p]), req[p].pc = "loaded",
           vm.lastJob # NoJob, ResetsTracking(jobs, Unanswerable, gjobs)
    PROVE  /\ gjobs[vm.lastJob].status # "pending"
           /\ \/ ~vm.pendingDelete
              \/ ClearsPendingDelete(jobs, Unanswerable, gjobs)
              \/ RemovalsSeen(jobs, Unanswerable, gjobs) # {}
              \/ Explained(jobs, {})
<1>0. PICK last : last = vm.lastJob OBVIOUS
<1>1. jobs \subseteq JobId /\ gjobs \in [JobId -> GanetiJob] /\ req[p].new = {}
  BY DEF IInv, TypeOK, SInv, Follows
<1>2. last \in jobs /\ \A k \in jobs : k <= last BY <1>0 DEF SInv, LastIsNewest
<1>3. Max(jobs) = last
  <2>1. Max(jobs) \in jobs /\ \A k \in jobs : k <= Max(jobs) BY <1>1, <1>2, MaxOfJobs
  <2>2. PICK m : m = Max(jobs) OBVIOUS
  <2>3. m \in jobs /\ m <= last /\ last <= m BY <2>1, <2>2, <1>2
  <2>4. m \in Nat /\ last \in Nat BY <2>3, <1>1, <1>2 DEF JobId
  <2> QED BY <2>2, <2>3, <2>4
<1>4. StatusAt(jobs, Unanswerable, gjobs, last) \in Completed
  BY <1>2, <1>3 DEF ResetsTracking
<1>5. gjobs[last].status # "pending"
  BY <1>2, <1>4, OwnHeard DEF Completed
<1>6. ASSUME vm.pendingDelete, ~ClearsPendingDelete(jobs, Unanswerable, gjobs),
             RemovalsSeen(jobs, Unanswerable, gjobs) = {}
      PROVE  Explained(jobs, {})
  <2>1. StatusAt(jobs, Unanswerable, gjobs, last) \in {"success", "error"}
    BY <1>2, <1>4, <1>6 DEF ClearsPendingDelete, Completed
  <2>2. HeardBy(jobs, Unanswerable, last) # {} BY <2>1 DEF StatusAt
  <2>3. PICK h \in jobs :
          /\ gjobs[h].status \in {"success", "error"}
          /\ \A k \in jobs : k <= last /\ gjobs[k].status # "archived" => k <= h
    BY <2>1, <2>2, <1>2, LastHeard
  <2>4. PICK d \in JobId : gjobs[d].op = "REMOVE" /\ d <= last
    BY <1>0, <1>6 DEF SInv, DueRows, Due, Awaited
  <2>5. d \in Submitted BY <2>4 DEF SInv, Numbered
  <2>6. CASE d \notin jobs BY <2>4, <2>5, <2>6 DEF Explained, Over, Lost
  <2>7. CASE gjobs[d].status = "archived" BY <2>4, <2>7 DEF Explained, Over, Lost
  <2>8. CASE d \in jobs /\ gjobs[d].status # "archived"
    <3>1. d <= h BY <2>3, <2>4, <2>8
    <3>2. CASE d # h
      <4>1. h \in Nat /\ d \in Nat /\ h \in JobId BY <1>1 DEF JobId
      <4>2. h > d BY <3>1, <3>2, <4>1
      <4> QED BY <4>1, <4>2, <2>3, <2>4 DEF Explained, Over
    <3>3. CASE d = h /\ gjobs[h].status = "error"
      BY <3>3, <2>4 DEF Explained, Over
    <3>4. CASE d = h /\ gjobs[h].status = "success"
      <4>1. d \in RemovalsSeen(jobs, Unanswerable, gjobs)
        BY <3>4, <2>4, <2>8, OwnHeard DEF RemovalsSeen
      <4> QED BY <4>1, <1>6
    <3> QED BY <2>3, <3>2, <3>3, <3>4
  <2> QED BY <2>6, <2>7, <2>8
<1> QED BY <1>0, <1>5, <1>6

(* What the setattr loop of refresh() leaves of a row, and what it decides *)
(* by.                                                                     *)
LEMMA UpdatedParts ==
    ASSUME NEW row \in Row, NEW data
    PROVE  /\ Updated(row, data) \in Row
           /\ Updated(row, data).present <=> row.present /\ data.removals = {}
           /\ Updated(row, data).lastJob = IF data.reset THEN NoJob ELSE row.lastJob
           /\ Updated(row, data).pendingDelete <=> row.pendingDelete /\ ~data.undelete
BY DEF Updated, Row, NoJob

LEMMA NarrowParts ==
    ASSUME NEW row \in Row, row.present, NEW reset, NEW undelete
    PROVE  LET after == NarrowUpdated(row, reset, undelete) IN
           /\ after.present
           /\ after.lastJob = IF reset THEN NoJob ELSE row.lastJob
           /\ after.pendingDelete <=> row.pendingDelete /\ ~undelete
BY DEF NarrowUpdated, Row, NoJob

LEMMA DataParts ==
    ASSUME NEW row, NEW polled, NEW lost, NEW table
    PROVE  LET data == CheckJobStatus(row, polled, lost, table) IN
           /\ data.reset <=> row.lastJob # NoJob /\ ResetsTracking(polled, lost, table)
           /\ data.undelete <=> row.lastJob # NoJob /\ ClearsPendingDelete(polled, lost, table)
           /\ data.removals = IF row.lastJob = NoJob THEN {} ELSE RemovalsSeen(polled, lost, table)
<1>1. CASE row.lastJob = NoJob BY <1>1 DEF CheckJobStatus
<1>2. CASE row.lastJob # NoJob
  <2> DEFINE data == CheckJobStatus(row, polled, lost, table)
  <2>1. data = [reset |-> ResetsTracking(polled, lost, table),
                undelete |-> ClearsPendingDelete(polled, lost, table),
                removals |-> RemovalsSeen(polled, lost, table)]
    BY <1>2 DEF CheckJobStatus
  <2> HIDE DEF data
  <2>2. /\ data.reset = ResetsTracking(polled, lost, table)
        /\ data.undelete = ClearsPendingDelete(polled, lost, table)
        /\ data.removals = RemovalsSeen(polled, lost, table)
    BY <2>1
  <2> QED BY <1>2, <2>2 DEF data
<1> QED BY <1>1, <1>2

(* A refresh() leaves a copy that follows the row. *)
LEMMA RefreshSeq ==
    ASSUME IInv, NEW p, Single(p), SInv(req[p]), Refresh(p)
    PROVE  SInv(req[p])'
<1> DEFINE q      == req[p]
           data   == CheckJobStatus(q.copy, jobs, Unanswerable, gjobs)
           row    == Updated(q.copy, data)
           raised == InfoRaises(row, FALSE)
           r      == Refreshed(q, data, raised)
<1>1. q.pc = "loaded" /\ UNCHANGED <<vm, jobs, gjobs, instance>> BY DEF Refresh
<1>2. PICK lost \in LossesOf(jobs), apiDown \in {d \in BOOLEAN : d => "rapi" \in Fault} :
        RefreshWith(p, lost, apiDown)
  BY DEF Refresh
<1>3. lost = Unanswerable /\ apiDown = FALSE BY <1>2 DEF LossesOf, Single
<1>4. Discard(p) \/ req' = [req EXCEPT ![p] = r]
  BY <1>2, <1>3 DEF RefreshWith
<1>5. CASE Discard(p) BY <1>1, <1>5, DiscardSeq
<1>6. CASE req' = [req EXCEPT ![p] = r]
  <2>1. /\ q \in Request /\ vm \in Row /\ q.copy = vm /\ vm.present
        /\ q.new = {} /\ q.write = "none"
        /\ q.view = "clear" => q.job \in JobId
    BY <1>1 DEF IInv, TypeOK, Single, SInv, Follows
  <2>2. /\ data.reset <=> vm.lastJob # NoJob /\ ResetsTracking(jobs, Unanswerable, gjobs)
        /\ data.undelete <=> /\ vm.lastJob # NoJob
                             /\ ClearsPendingDelete(jobs, Unanswerable, gjobs)
        /\ data.removals = IF vm.lastJob = NoJob THEN {}
                           ELSE RemovalsSeen(jobs, Unanswerable, gjobs)
    BY <2>1, DataParts
  <2>4. data.reset => /\ vm.lastJob # NoJob /\ gjobs[vm.lastJob].status # "pending"
                      /\ \/ ~vm.pendingDelete \/ data.undelete \/ data.removals # {}
                         \/ Explained(jobs, {})
    BY <1>1, <2>2, PollReleases
  <2>5. NoCreations /\ data.removals # {} => ~Alive
    BY RemovalHeard DEF SInv, Kept
  <2>6. raised => ~Alive BY DEF InfoRaises, Alive
  <2> HIDE DEF data, raised
  <2>7. /\ row \in Row /\ (row.present <=> data.removals = {})
        /\ row.lastJob = (IF data.reset THEN NoJob ELSE vm.lastJob)
        /\ row.pendingDelete <=> vm.pendingDelete /\ ~data.undelete
    BY <2>1, UpdatedParts
  <2> HIDE DEF row
  <2>8. /\ r.pc = "refreshed" /\ r.view = q.view /\ r.job = q.job /\ r.new = q.new
        /\ r.copy = RefreshedCopy(row, raised)
        /\ r.write = IF data.removals # {} THEN "delete" ELSE RefreshWrite(row, raised)
        /\ r.write = "narrow" => (r.reset <=> data.reset) /\ (r.undelete <=> data.undelete)
    BY <2>1 DEF Refreshed, Request, row
  <2> HIDE DEF r
  <2>9. /\ (r.copy.present <=> row.present) /\ r.copy.lastJob = row.lastJob
        /\ r.copy.pendingDelete <=> row.pendingDelete
    BY <2>7, <2>8 DEF RefreshedCopy, Row
  <2>10. /\ r.write = "none" => raised
         /\ r.write = "delete" => data.removals # {}
         /\ r.write \in {"narrow", "full"} => data.removals = {}
    BY <2>8 DEF RefreshWrite
  <2>11. SameJob(vm, r.copy) BY <2>4, <2>7, <2>9 DEF SameJob
  <2>12. Numbered(r) BY <1>1, <2>1, <2>8 DEF SInv, Numbered
  <2>13. Follows(r)
    <3>1. r.write = "narrow" => AfterRefresh(r) = NarrowUpdated(vm, r.reset, r.undelete)
      BY DEF AfterRefresh
    <3>2. r.write = "narrow" => /\ AfterRefresh(r).lastJob = r.copy.lastJob
                                /\ AfterRefresh(r).pendingDelete <=> r.copy.pendingDelete
      BY <3>1, <2>1, <2>7, <2>8, <2>9, NarrowParts
    <3> QED BY <3>2, <2>1, <2>7, <2>8, <2>9, <2>10, <2>11 DEF Follows
  <2>14. DueRows(r)
    <3>1. Due(vm, jobs, {}) BY <2>1 DEF SInv, DueRows
    <3>2. r.copy.present => Due(r.copy, jobs, {})
      <4> SUFFICES ASSUME r.copy.present, r.copy.pendingDelete PROVE Due(r.copy, jobs, {})
        BY DEF Due
      <4>1. CASE data.reset BY <4>1, <2>4, <2>7, <2>9 DEF Due
      <4>2. CASE ~data.reset BY <4>2, <3>1, <2>7, <2>9 DEF Due, Awaited
      <4> QED BY <4>1, <4>2, <2>2
    <3> QED BY <3>1, <3>2, <2>1, <2>8 DEF DueRows
  <2>15. Kept(r) BY <2>5, <2>6, <2>10 DEF SInv, Kept
  <2>16. SInv(r) BY <2>12, <2>13, <2>14, <2>15 DEF SInv
  <2> QED BY <1>1, <1>6, <2>16, RequestSeq
<1> QED BY <1>4, <1>5, <1>6

----------------------------------------------------------------------------
(* Steps that change the cluster's job table.                              *)

(* The newest job comes with its request, and is nobody's explanation. *)
LEMMA SubmitSeq ==
    ASSUME IInv, NEW p, Single(p), SInv(req[p]), Submit(p)
    PROVE  SInv(req[p])'
<1> DEFINE q == req[p]
<1>1. PICK j \in JobId \ Submitted :
        /\ \A k \in JobId \ Submitted : j <= k
        /\ gjobs' = [gjobs EXCEPT ![j] = [op |-> OpOf(q.view), status |-> "pending"]]
        /\ req' = [req EXCEPT ![p] = [q EXCEPT !.pc = "submitted", !.new = @ \cup {j}]]
  BY DEF Submit
<1>2. /\ UNCHANGED <<vm, jobs, instance>> /\ q.pc \in {"refreshed", "submitted"}
  BY DEF Submit
<1>3. /\ q \in Request /\ vm \in Row /\ jobs \subseteq JobId
      /\ req \in [Proc -> Request] /\ gjobs \in [JobId -> GanetiJob]
      /\ q.new \subseteq JobId
  BY DEF IInv, TypeOK, Single, Request
<1>4. /\ req'[p].pc = "submitted" /\ req'[p].new = q.new \cup {j} /\ req'[p].copy = q.copy /\ req'[p].write = q.write
      /\ req'[p].view = q.view /\ req'[p].job = q.job /\ req'[p].reset = q.reset /\ req'[p].undelete = q.undelete
  BY <1>1, <1>3 DEF Request, Single
<1>5. /\ gjobs'[j] = [op |-> OpOf(q.view), status |-> "pending"]
      /\ \A k \in JobId : k # j => gjobs'[k] = gjobs[k]
      /\ gjobs[j].op = "none"
  BY <1>1, <1>3 DEF SInv, Numbered
<1>6. Submitted' = Submitted \cup {j} BY <1>1, <1>5 DEF Submitted
<1>7. \A k \in Submitted : k < j
  <2> SUFFICES ASSUME NEW k \in Submitted, ~(k < j) PROVE FALSE OBVIOUS
  <2>1. k \in JobId /\ j \in JobId /\ k # j BY <1>1 DEF Submitted
  <2>2. j < k BY <2>1 DEF JobId
  <2> QED BY <2>1, <2>2, <1>1 DEF SInv, Numbered
<1>8. Numbered(req[p])'
  <2>1. \A a \in Submitted', b \in JobId : b < a => b \in Submitted'
    <3> SUFFICES ASSUME NEW b \in JobId, b < j PROVE b \in Submitted
      BY <1>6 DEF SInv, Numbered
    <3> QED BY <1>1 DEF JobId
  <2>2. \A k \in JobId \ Submitted' : gjobs'[k].op = "none"
    BY <1>5, <1>6 DEF SInv, Numbered
  <2>3. jobs' \cup req'[p].new \subseteq Submitted' /\ jobs' \cap req'[p].new = {}
    BY <1>1, <1>2, <1>4, <1>6 DEF SInv, Numbered
  <2>4. \A n \in req'[p].new, k \in Submitted' \ req'[p].new : k < n
    BY <1>4, <1>6, <1>7 DEF SInv, Numbered
  <2> QED BY <2>1, <2>2, <2>3, <2>4, <1>4 DEF Numbered
<1>9. LastIsNewest'
  <2>1. \A k \in jobs : ~Newest(k)'
    BY <1>1, <1>3, <1>6, <1>7 DEF Newest, SInv, Numbered, JobId
  <2>2. (vm.lastJob \in jobs \cup {NoJob} /\ (vm.lastJob # NoJob => vm.present /\ \A k \in jobs : k <= vm.lastJob))'
    BY <1>2 DEF SInv, LastIsNewest
  <2> QED BY <1>2, <2>1, <2>2 DEF LastIsNewest, NewestJobTracked
<1>10. Follows(req[p])'
  <2>1. SameJob(vm, q.copy) BY <1>2 DEF SInv, Follows
  <2>2. SameJob(vm, req[p].copy)'
    BY <1>1, <1>2, <1>3, <1>4, <1>5, <2>1 DEF SameJob, SInv, LastIsNewest, Numbered
  <2> QED BY <1>2, <1>4, <2>2 DEF SInv, Follows, AfterRefresh
<1>11. DueRows(req[p])'
  <2>1. \A k \in JobId : gjobs[k].op = "REMOVE" /\ k \notin q.new
                           => gjobs'[k].op = "REMOVE" /\ k \notin req'[p].new
    BY <1>4, <1>5
  <2>2. \A k \in JobId : Over(k, jobs \cup q.new) => Over(k, jobs \cup req[p].new)'
    BY <1>1, <1>2, <1>4, <1>5, <1>6 DEF Over, Lost, Submitted
  <2>3. \A k \in JobId : gjobs[k].status = "success" => gjobs'[k].status = "success"
    BY <1>1, <1>5 DEF Submitted
  <2>4. ASSUME NEW row \in Row, Due(row, jobs \cup q.new, q.new)
        PROVE  row.pendingDelete => IF row.lastJob = NoJob THEN Explained(jobs \cup req[p].new, req[p].new)'
                                    ELSE Awaited(row, req[p].new)'
    <3>1. Explained(jobs \cup q.new, q.new) => Explained(jobs \cup req[p].new, req[p].new)'
      BY <2>1, <2>2, <2>3 DEF Explained
    <3>2. Awaited(row, q.new) => Awaited(row, req[p].new)'
      BY <2>1 DEF Awaited
    <3> QED BY <2>4, <3>1, <3>2 DEF Due
  <2>5. Due(vm, jobs \cup req[p].new, req[p].new)'
    BY <1>2, <1>3, <2>4 DEF SInv, DueRows, Due, Awaited
  <2>6. (req[p].copy.present => Due(req[p].copy, jobs \cup req[p].new, req[p].new))'
    <3>1. q.copy \in Row BY <1>3 DEF Request
    <3> QED BY <3>1, <1>4, <2>4 DEF SInv, DueRows, Due, Awaited
  <2>7. (req[p].view = "destroy" => \A n \in req[p].new : gjobs[n].op = "REMOVE")'
    BY <1>3, <1>4, <1>5 DEF SInv, DueRows, OpOf
  <2> QED BY <2>5, <2>6, <2>7 DEF DueRows
<1>12. Kept(req[p])'
  <2>1. NoCreations' => NoCreations
    BY <1>5 DEF NoCreations
  <2>2. (NoCreations /\ RemovedIsDead) => RemovedIsDead'
    BY <1>2, <1>5 DEF RemovedIsDead, Alive
  <2> QED BY <1>2, <1>4, <2>1, <2>2 DEF SInv, Kept, Alive
<1> QED BY <1>8, <1>9, <1>10, <1>11, <1>12 DEF SInv

(* A job that ends or is archived takes no explanation back, and only the  *)
(* end of a removal takes the instance away.                               *)
LEMMA ClusterSeq ==
    ASSUME IInv, NEW p, Single(p), SInv(req[p]), NEW j \in JobId,
           (\E outcome \in Outcome : JobEnds(j, outcome)) \/ JobArchived(j)
    PROVE  SInv(req[p])'
<1> DEFINE q == req[p]
<1>1. UNCHANGED <<vm, jobs, req>> BY DEF JobEnds, JobArchived
<1>2. gjobs \in [JobId -> GanetiJob] /\ vm \in Row /\ q \in Request /\ q.copy \in Row
  BY DEF IInv, TypeOK, Single, Request
<1>3. PICK s \in AllOutcomes \cup {"archived"} :
        /\ gjobs' = [gjobs EXCEPT ![j].status = s]
        /\ gjobs[j].status = "pending" \/ (gjobs[j].status \in AllOutcomes /\ s = "archived")
        /\ s # "success" => instance' = instance
        /\ s = "success" => JobEnds(j, "success")
  BY OutcomeAssumption DEF JobEnds, JobArchived, AllOutcomes
<1>4. /\ \A k \in JobId : gjobs'[k].op = gjobs[k].op
      /\ \A k \in JobId : k # j => gjobs'[k].status = gjobs[k].status
      /\ gjobs'[j].status = s /\ s \notin {"none", "pending"}
      /\ gjobs[j].status \notin {"none", "archived"}
  BY <1>2, <1>3 DEF GanetiJob, AllOutcomes
<1>5. Submitted' = Submitted BY <1>4 DEF Submitted
<1>6. Numbered(req[p])' BY <1>1, <1>4, <1>5 DEF SInv, Numbered
<1>7. LastIsNewest'
  BY <1>1, <1>4, <1>5 DEF SInv, LastIsNewest, NewestJobTracked, Newest, Submitted, Numbered
<1>8. Follows(req[p])'
  <2>1. SameJob(vm, q.copy) => SameJob(vm, req[p].copy)'
    BY <1>1, <1>2, <1>4 DEF SameJob, Row
  <2> QED BY <1>1, <2>1 DEF SInv, Follows, AfterRefresh
<1>9. DueRows(req[p])'
  <2> DEFINE kept == jobs \cup q.new
  <2>1. \A k \in JobId : Over(k, kept) => Over(k, kept)'
    BY <1>1, <1>3, <1>4, <1>5 DEF Over, Lost, AllOutcomes
  <2>2. \A k \in JobId : gjobs[k].status = "success"
                           => gjobs'[k].status = "success" \/ Over(k, kept)'
    BY <1>3, <1>4 DEF Over, Lost
  <2>3. Explained(kept, q.new) => Explained(kept, q.new)'
    BY <1>1, <1>4, <2>1, <2>2 DEF Explained
  <2>4. /\ Awaited(vm, q.new) => Awaited(vm, q.new)'
        /\ Awaited(q.copy, q.new) => Awaited(q.copy, q.new)'
    BY <1>1, <1>4 DEF Awaited
  <2>5. \A n \in q.new : gjobs'[n].op = gjobs[n].op
    BY <1>2, <1>4 DEF Request
  <2> QED BY <1>1, <2>3, <2>4, <2>5 DEF SInv, DueRows, Due
<1>10. Kept(req[p])'
  <2> SUFFICES ASSUME NoCreations' PROVE Kept(req[p])' BY DEF Kept
  <2>1. NoCreations BY <1>4 DEF NoCreations
  <2>2. ~Alive => ~Alive'
    BY <1>3, <2>1 DEF JobEnds, NoCreations, Alive
  <2>3. RemovedIsDead'
    <3> SUFFICES ASSUME NEW k \in JobId, gjobs'[k].op = "REMOVE", gjobs'[k].status = "success"
                 PROVE  ~Alive'
      BY DEF RemovedIsDead
    <3>1. CASE gjobs[k].status = "success"
      BY <3>1, <1>4, <2>1, <2>2 DEF SInv, Kept, RemovedIsDead
    <3>2. CASE gjobs[k].status # "success"
      <4>1. k = j /\ JobEnds(j, "success") BY <3>2, <1>3, <1>4
      <4> QED BY <4>1, <1>4 DEF JobEnds, Alive
    <3> QED BY <3>1, <3>2
  <2> QED BY <1>1, <2>1, <2>2, <2>3 DEF SInv, Kept
<1> QED BY <1>6, <1>7, <1>8, <1>9, <1>10 DEF SInv

----------------------------------------------------------------------------
(* Commits.                                                                *)

(* What a commit has to leave of the row and its jobs. *)
LEMMA CommitSeq ==
    ASSUME IInv, NEW p, Single(p), SInv(req[p]), NEW row, NEW js, NEW gr, Commit(p, row, js, gr),
           js \subseteq jobs \cup req[p].new,
           row.lastJob # NoJob => row.present /\ \A k \in js : k <= row.lastJob,
           row.present => \A j \in js : Newest(j) /\ gjobs[j].status = "pending"
                                          => row.lastJob = j,
           Due(row, js, {})
    PROVE  SInv(req[p])'
<1> DEFINE q == req[p]
<1>1. req'[p] = Idle /\ UNCHANGED <<gjobs, instance>>
  BY DEF Commit, Discard, IInv, TypeOK, Single
<1>2. CASE row.lastJob \notin js \cup {NoJob}
  BY <1>1, <1>2, DiscardSeq DEF Commit
<1>3. CASE row.lastJob \in js \cup {NoJob}
  <2>1. vm' = row /\ jobs' = js BY <1>3 DEF Commit
  <2>2. Submitted' = Submitted BY <1>1 DEF Submitted
  <2>3. Numbered(req[p])' BY <1>1, <2>1, <2>2, IdleSeq DEF SInv, Numbered
  <2>4. LastIsNewest'
    BY <1>1, <1>3, <2>1, <2>2 DEF LastIsNewest, NewestJobTracked, Newest
  <2>5. Follows(req[p])' BY <1>1, IdleSeq DEF Follows
  <2>6. DueRows(req[p])'
    <3>1. js \cup Idle.new = js /\ Idle.new = {} BY IdleSeq
    <3>2. Due(vm, jobs \cup req[p].new, req[p].new)'
      BY <1>1, <2>1, <2>2, <3>1 DEF Due, Explained, Awaited, Over, Lost
    <3> QED BY <1>1, <3>2, IdleSeq DEF DueRows
  <2>7. Kept(req[p])' BY <1>1, IdleSeq DEF SInv, Kept, NoCreations, RemovedIsDead, Alive
  <2> QED BY <2>3, <2>4, <2>5, <2>6, <2>7 DEF SInv
<1> QED BY <1>2, <1>3

(* A row that follows the one in the tables.                               *)
Successor(row, q) ==
    /\ row.present => vm.present /\ SameJob(vm, row)
    /\ row.lastJob # NoJob => row.present
    /\ Due(row, jobs \cup q.new, q.new)

LEMMA NoRowSuccessor == ASSUME NEW q PROVE Successor(NoRow, q)
BY DEF Successor, NoRow, Due

(* The row that refresh() leaves. *)
LEMMA AfterRefreshSuccessor ==
    ASSUME IInv, NEW p, Single(p), SInv(req[p]), req[p].pc # "idle"
    PROVE  Successor(AfterRefresh(req[p]), req[p])
<1> DEFINE q == req[p]  row == AfterRefresh(q)
<1>1. q.write \in Write /\ vm \in Row /\ q.copy \in Row
  BY DEF IInv, TypeOK, Single, Request
<1>2. CASE q.write = "none"
  BY <1>2 DEF AfterRefresh, Successor, SInv, LastIsNewest, SameJob, DueRows
<1>3. CASE q.write = "narrow"
  <2>1. row = NarrowUpdated(vm, q.reset, q.undelete) /\ vm.present
    BY <1>3 DEF AfterRefresh, SInv, Follows
  <2>2. row.present BY <2>1, <1>1, NarrowParts
  <2>3. /\ row.lastJob = q.copy.lastJob /\ (row.pendingDelete <=> q.copy.pendingDelete)
        /\ q.copy.present /\ SameJob(vm, q.copy)
    BY <1>3 DEF SInv, Follows
  <2>4. SameJob(vm, row) BY <2>3 DEF SameJob
  <2>5. Due(q.copy, jobs \cup q.new, q.new) BY <2>3 DEF SInv, DueRows
  <2> HIDE DEF row
  <2>6. Due(row, jobs \cup q.new, q.new) BY <2>3, <2>5 DEF Due, Awaited
  <2> QED BY <2>1, <2>2, <2>4, <2>6 DEF Successor, row
<1>4. CASE q.write = "full"
  BY <1>4 DEF AfterRefresh, Successor, SInv, Follows, DueRows
<1>5. CASE q.write = "delete"
  BY <1>5, NoRowSuccessor DEF AfterRefresh
<1> QED BY <1>1, <1>2, <1>3, <1>4, <1>5 DEF Write

(* A successor is committed with old jobs. *)
LEMMA SuccessorSeq ==
    ASSUME IInv, NEW p, Single(p), SInv(req[p]), NEW row, NEW js, NEW gr, Commit(p, row, js, gr),
           js \subseteq jobs, Successor(row, req[p])
    PROVE  SInv(req[p])'
<1>1. row.lastJob # NoJob => row.present /\ row.lastJob = vm.lastJob
  BY DEF Successor, SameJob
<1>2. \A k \in js : row.lastJob # NoJob => k <= row.lastJob
  BY <1>1 DEF SInv, LastIsNewest
<1>3. row.present => \A j \in js : Newest(j) /\ gjobs[j].status = "pending" => row.lastJob = j
  BY DEF Successor, SameJob, SInv, LastIsNewest, NewestJobTracked
<1>4. Due(row, js, {})
  <2>1. Due(row, jobs \cup req[p].new, req[p].new) BY DEF Successor
  <2>2. js \subseteq jobs \cup req[p].new /\ {} \subseteq req[p].new OBVIOUS
  <2> QED BY <2>1, <2>2, DueShrinks
<1> QED BY <1>1, <1>2, <1>3, <1>4, CommitSeq

(* The jobs that a request submitted are newer than its VM's. *)
LEMMA NewJobs ==
    ASSUME IInv, NEW p, Single(p), SInv(req[p]), req[p].new # {}
    PROVE  /\ Max(req[p].new) \in req[p].new /\ Max(req[p].new) \in JobId
           /\ \A k \in jobs \cup req[p].new : k <= Max(req[p].new)
           /\ \A k \in Submitted \ req[p].new : k < Max(req[p].new)
           /\ \A k \in Submitted : Newest(k) => k = Max(req[p].new)
<1> DEFINE new == req[p].new
<1>1. new \subseteq JobId BY DEF IInv, TypeOK, Single, Request
<1>2. PICK m : m = Max(new) OBVIOUS
<1>3. m \in new /\ \A k \in new : k <= m BY <1>1, <1>2, MaxOfJobs
<1>4. \A k \in Submitted \ new : k < m BY <1>3 DEF SInv, Numbered
<1>5. jobs \subseteq Submitted \ new /\ new \subseteq Submitted BY DEF SInv, Numbered
<1>6. Submitted \subseteq Nat /\ m \in Nat BY <1>1, <1>3 DEF Submitted, JobId
<1>7. \A k \in jobs \cup new : k <= m BY <1>3, <1>4, <1>5, <1>6
<1>8. ASSUME NEW k \in Submitted, Newest(k) PROVE k = m
  <2>1. m <= k /\ k <= m BY <1>3, <1>4, <1>5, <1>6, <1>8 DEF Newest
  <2> QED BY <2>1, <1>6
<1> QED BY <1>1, <1>2, <1>3, <1>4, <1>7, <1>8

(* A row that tracks the last of the request's jobs is committed with them. *)
LEMMA TrackerSeq ==
    ASSUME IInv, NEW p, Single(p), SInv(req[p]), NEW row, NEW js, NEW gr, Commit(p, row, js, gr),
           js \subseteq jobs \cup req[p].new, req[p].new # {}, row.present,
           row.lastJob = Max(req[p].new),
           row.pendingDelete => \E d \in JobId : gjobs[d].op = "REMOVE"
    PROVE  SInv(req[p])'
<1> DEFINE new == req[p].new
<1>1. /\ Max(new) \in new /\ Max(new) \in JobId
      /\ \A k \in jobs \cup new : k <= Max(new)
      /\ \A k \in Submitted \ new : k < Max(new)
      /\ \A k \in Submitted : Newest(k) => k = Max(new)
  BY NewJobs
<1>2. \A j \in js : Newest(j) => j = Max(new)
  BY <1>1 DEF SInv, Numbered
<1>3. Due(row, js, {})
  <2> SUFFICES ASSUME row.pendingDelete PROVE Awaited(row, {})
    BY <1>1 DEF Due, NoJob, JobId
  <2>1. PICK d \in JobId : gjobs[d].op = "REMOVE" OBVIOUS
  <2>2. d \in Submitted BY <2>1 DEF SInv, Numbered
  <2>3. d <= Max(new)
    <3>1. PICK m : m = Max(new) OBVIOUS
    <3>2. d < m \/ d <= m BY <1>1, <2>2, <3>1
    <3>3. d \in Nat /\ m \in Nat BY <1>1, <3>1 DEF JobId
    <3> QED BY <3>1, <3>2, <3>3
  <2> QED BY <2>1, <2>3 DEF Awaited
<1>4. \A k \in js : k <= row.lastJob BY <1>1
<1> QED BY <1>2, <1>3, <1>4, CommitSeq

(* A visit commits what refresh() left. *)
LEMMA FinishVisitSeq ==
    ASSUME IInv, NEW p, Single(p), SInv(req[p]), FinishVisit(p)
    PROVE  SInv(req[p])'
<1>1. Successor(AfterRefresh(req[p]), req[p]) BY AfterRefreshSuccessor DEF FinishVisit
<1>2. jobs \ req[p].drop \subseteq jobs OBVIOUS
<1> QED BY <1>1, <1>2, SuccessorSeq DEF FinishVisit

(* So does an operation that was refused; another tracks its newest job. *)
LEMMA FinishOperateSeq ==
    ASSUME IInv, NEW p, Single(p), SInv(req[p]), FinishOperate(p)
    PROVE  SInv(req[p])'
<1> DEFINE q == req[p]  row == AfterRefresh(q)  js == (jobs \ q.drop) \cup q.new
<1>1. q.pc # "idle" /\ Storable(q) /\ q.view = "operate"
      /\ Commit(p, IF q.new = {} THEN row ELSE Tracking(row, Max(q.new)), js,
                grants /\ row.present)
  BY DEF FinishOperate, SubmitRaises
<1>2. Successor(row, q) BY <1>1, AfterRefreshSuccessor
<1>3. row \in Row BY AfterRefreshType DEF Single
<1> HIDE DEF row
<1>4. CASE q.new = {}
  <2>1. js \subseteq jobs BY <1>4
  <2>2. Commit(p, row, js, grants /\ row.present) BY <1>1, <1>4
  <2> QED BY <2>1, <2>2, <1>2, SuccessorSeq
<1>5. CASE q.new # {} /\ row.present
  <2> DEFINE tracking == Tracking(row, Max(q.new))
  <2>1. /\ tracking.present /\ tracking.lastJob = Max(q.new)
        /\ tracking.pendingDelete = row.pendingDelete
    BY <1>3, <1>5 DEF Tracking, Row
  <2>2. row.pendingDelete => \E d \in JobId : gjobs[d].op = "REMOVE"
    BY <1>2 DEF Successor, Due, Explained, Awaited
  <2>3. Commit(p, tracking, js, grants /\ row.present) BY <1>1, <1>5
  <2>4. js \subseteq jobs \cup q.new OBVIOUS
  <2> HIDE DEF tracking, js
  <2> QED BY <2>1, <2>2, <2>3, <2>4, <1>5, TrackerSeq
<1>6. CASE q.new # {} /\ ~row.present
  <2>1. row.lastJob = NoJob BY <1>2, <1>6 DEF Successor
  <2>2. Tracking(row, Max(q.new)) = row BY <1>6 DEF Tracking
  <2>3. Commit(p, row, js, grants /\ row.present) BY <1>1, <1>6, <2>2
  <2>4. Due(row, js, {})
    <3>1. Due(row, jobs \cup q.new, q.new) BY <1>2 DEF Successor
    <3>2. js \subseteq jobs \cup q.new /\ {} \subseteq q.new OBVIOUS
    <3> QED BY <3>1, <3>2, DueShrinks
  <2>5. js \subseteq jobs \cup q.new OBVIOUS
  <2> HIDE DEF js
  <2> QED BY <2>1, <2>3, <2>4, <2>5, <1>6, CommitSeq
<1> QED BY <1>4, <1>5, <1>6

(* A destruction leaves no row, or one that waits for its own removal. *)
LEMMA FinishDestroysSeq ==
    ASSUME IInv, NEW p, Single(p), SInv(req[p]),
           FinishDestroyMissing(p) \/ FinishDestroy(p)
    PROVE  SInv(req[p])'
<1> DEFINE q == req[p]
<1>1. CASE FinishDestroyMissing(p)
  <2>1. jobs \ q.drop \subseteq jobs /\ Successor(NoRow, q) BY NoRowSuccessor
  <2> QED BY <1>1, <2>1, SuccessorSeq DEF FinishDestroyMissing
<1>2. CASE FinishDestroy(p)
  <2> DEFINE saved == [q.copy EXCEPT !.present = TRUE, !.lastJob = Max(q.new),
                                     !.ignoreCache = TRUE, !.pendingDelete = TRUE]
             row   == AfterRefresh(q)
  <2>1. q.pc = "submitted" /\ q.view = "destroy"
        /\ Commit(p, saved, q.new, grants /\ row.present /\ row.lastJob = NoJob)
    BY <1>2 DEF FinishDestroy
  <2>2. q.new # {} /\ \A n \in q.new : gjobs[n].op = "REMOVE"
    BY <2>1 DEF SInv, Numbered, DueRows
  <2>3. q.copy \in Row BY DEF IInv, TypeOK, Single, Request
  <2>4. saved.present /\ saved.lastJob = Max(q.new) BY <2>3 DEF Row
  <2>5. \E d \in JobId : gjobs[d].op = "REMOVE" BY <2>2, NewJobs
  <2>6. q.new \subseteq jobs \cup q.new OBVIOUS
  <2> HIDE DEF saved, row
  <2> QED BY <2>1, <2>2, <2>4, <2>5, <2>6, TrackerSeq
<1> QED BY <1>1, <1>2

(* A reparenting saves the copy, which follows the row. *)
LEMMA FinishReparentSeq ==
    ASSUME IInv, NEW p, Single(p), SInv(req[p]), FinishReparent(p)
    PROVE  SInv(req[p])'
<1> DEFINE q == req[p]
<1>1. q.pc = "refreshed" /\ q.copy.present /\ Commit(p, q.copy, jobs \ q.drop, grants)
  BY DEF FinishReparent, Storable
<1>2. Successor(q.copy, q) BY <1>1 DEF Successor, SInv, Follows, DueRows
<1>3. jobs \ q.drop \subseteq jobs OBVIOUS
<1> QED BY <1>1, <1>2, <1>3, SuccessorSeq

(* Clearing the tracked job leaves a row that tracks none, and whose       *)
(* deletion is explained by the job that was cleared.                      *)
LEMMA FinishClearSeq ==
    ASSUME IInv, NEW p, Single(p), SInv(req[p]), FinishClear(p)
    PROVE  SInv(req[p])'
<1> DEFINE q   == req[p]
           row == AfterRefresh(q)
           freed == [q.copy EXCEPT !.present = TRUE, !.lastJob = NoJob, !.ignoreCache = FALSE]
           saved == IF q.job = q.copy.lastJob THEN freed ELSE row
           cascade == saved.lastJob = q.job
           js == jobs \ (q.drop \cup {q.job})
<1>1. q.pc = "refreshed" /\ q.view = "clear"
      /\ Commit(p, IF cascade THEN NoRow ELSE saved, js, grants /\ row.present /\ ~cascade)
  BY DEF FinishClear
<1>2. q.job \in JobId /\ q.new = {} BY <1>1 DEF SInv, Follows, Numbered
<1>3. q.copy \in Row /\ NoJob \notin JobId BY DEF IInv, TypeOK, Single, Request, NoJob, JobId
<1>4. js \subseteq jobs OBVIOUS
<1> HIDE DEF js
<1>5. CASE cascade
  <2> DEFINE gr == grants /\ row.present /\ ~cascade
  <2>1. Commit(p, NoRow, js, gr) BY <1>1, <1>5
  <2> HIDE DEF gr
  <2> QED BY <2>1, <1>4, NoRowSuccessor, SuccessorSeq
<1>6. CASE ~cascade /\ q.job # q.copy.lastJob
  <2> DEFINE gr == grants /\ row.present /\ ~cascade
  <2>1. Commit(p, row, js, gr) BY <1>1, <1>6
  <2>2. Successor(row, q) BY <1>1, AfterRefreshSuccessor
  <2> HIDE DEF gr, row
  <2> QED BY <2>1, <2>2, <1>4, SuccessorSeq
<1>7. CASE q.job = q.copy.lastJob
  <2> DEFINE gr == grants /\ row.present /\ ~cascade
  <2>1. /\ freed.lastJob = NoJob /\ freed.present
        /\ freed.pendingDelete = q.copy.pendingDelete
    BY <1>3 DEF Row
  <2>2. ~cascade BY <1>2, <1>3, <1>7, <2>1
  <2>3. Commit(p, freed, js, gr) BY <1>1, <1>7, <2>2
  <2>4. vm.lastJob = q.job /\ vm.lastJob # NoJob
    BY <1>1, <1>2, <1>3, <1>7 DEF SInv, Follows, SameJob
  <2>5. vm.present /\ q.job \in jobs BY <2>4 DEF SInv, LastIsNewest
  <2>6. \A j \in js : ~(Newest(j) /\ gjobs[j].status = "pending")
    BY <1>4, <2>4, <2>5 DEF js, SInv, LastIsNewest, NewestJobTracked
  <2>7. Due(freed, js, {})
    <3> SUFFICES ASSUME freed.pendingDelete PROVE Explained(js, {}) BY <2>1 DEF Due
    <3>1. vm.pendingDelete BY <1>1, <2>1 DEF SInv, Follows
    <3>2. PICK d \in JobId : gjobs[d].op = "REMOVE" /\ d <= q.job
      BY <3>1, <2>4 DEF SInv, DueRows, Due, Awaited
    <3>3. Over(q.job, js)
      <4>1. q.job \in Submitted /\ q.job \notin js BY <2>5 DEF SInv, Numbered, js
      <4> QED BY <4>1 DEF Over, Lost
    <3>4. CASE d = q.job BY <3>2, <3>3, <3>4 DEF Explained
    <3>5. CASE d # q.job
      <4>1. q.job > d BY <3>2, <3>5, <1>2 DEF JobId
      <4> QED BY <4>1, <3>2, <3>3, <1>2 DEF Explained
    <3> QED BY <3>4, <3>5
  <2> HIDE DEF freed, gr
  <2> QED BY <2>1, <2>3, <2>6, <2>7, <1>4, CommitSeq
<1> QED BY <1>5, <1>6, <1>7

(* A VM that was created tracks the job that creates it. *)
LEMMA FinishCreateSeq ==
    ASSUME IInv, NEW p, Single(p), SInv(req[p]), FinishCreate(p)
    PROVE  SInv(req[p])'
<1> DEFINE q == req[p]
           row == [Imported EXCEPT !.lastJob = Max(q.new), !.ignoreCache = TRUE]
<1>1. q.pc = "submitted" /\ Commit(p, row, jobs \cup q.new, TRUE)
  BY DEF FinishCreate
<1>2. q.new # {} BY <1>1 DEF SInv, Numbered
<1>3. row.present /\ row.lastJob = Max(q.new) /\ ~row.pendingDelete
  BY DEF Imported, NoRow
<1>4. jobs \cup q.new \subseteq jobs \cup q.new OBVIOUS
<1> HIDE DEF row
<1> QED BY <1>1, <1>2, <1>3, <1>4, TrackerSeq

(* The invariant of one process with an API that answers is inductive. *)
LEMMA NextSInv ==
    ASSUME NEW p, Single(p), IInv, SInv(req[p]), [Next]_vars
    PROVE  SInv(req[p])'
<1>1. CASE UNCHANGED vars
  <2>1. req \in [Proc -> Request] /\ req' = [req EXCEPT ![p] = req[p]]
    BY <1>1 DEF IInv, TypeOK, vars
  <2> QED BY <1>1, <2>1, RequestSeq DEF vars
<1>2. ASSUME Fail(p) \/ Crash(p) PROVE SInv(req[p])'
  BY <1>2, DiscardSeq DEF Fail, Crash
<1>3. ASSUME NEW j \in JobId, (\E outcome \in Outcome : JobEnds(j, outcome)) \/ JobArchived(j)
      PROVE  SInv(req[p])'
  BY <1>3, ClusterSeq
<1>4. ASSUME Next PROVE SInv(req[p])'
  <2>1. CASE \E j \in JobId : (\E outcome \in Outcome : JobEnds(j, outcome)) \/ JobArchived(j)
    BY <2>1, <1>3
  <2>2. CASE (\E v \in AllViews : Open(p, v)) \/ (\E j \in JobId : OpenClear(p, j))
             \/ OpenCreate(p)
    BY <2>2, OpensSeq
  <2>3. CASE RequestStep(p)
    BY <2>3, <1>2, RefreshSeq, SubmitSeq, FindMissingSeq, FinishVisitSeq, FinishOperateSeq,
       FinishDestroysSeq, FinishReparentSeq, FinishClearSeq, FinishCreateSeq DEF RequestStep
  <2>4. CASE Crash(p) BY <2>4, <1>2
  <2> QED BY <1>4, <2>1, <2>2, <2>3, <2>4 DEF Next, Single
<1> QED BY <1>1, <1>4

(* Together with the types, for PTL. *)
LEMMA SInvHolds ==
    ASSUME NEW p, Single(p)
    PROVE  /\ Init => IInv /\ SInv(req[p])
           /\ IInv /\ SInv(req[p]) /\ [Next]_vars => (IInv /\ SInv(req[p]))'
BY InitIInv, InitSInv, NextIInv, NextSInv

(* With one process and an API that answers, the newest job of the VM is   *)
(* tracked for as long as it is pending and not cleared (virtualmachines/  *)
(* models.py:62), whatever the process crashes in and Ganeti archives.     *)
THEOREM NewestTracked ==
    ASSUME NEW p, Single(p)
    PROVE  Spec => []NewestJobTracked
<1>1. SInv(req[p]) => NewestJobTracked BY DEF SInv, LastIsNewest
<1>2. /\ Init => IInv /\ SInv(req[p])
      /\ IInv /\ SInv(req[p]) /\ [Next]_vars => (IInv /\ SInv(req[p]))'
  BY SInvHolds
<1> QED BY <1>1, <1>2, PTL DEF Spec

(* A pending deletion that waits for no job was left by a removal that did *)
(* not succeed, that nobody heard of, or that a later job overtook         *)
(* (check_job_status(), _complete_job() and _destroy).                     *)
THEOREM StrandedExplained ==
    ASSUME NEW p, Single(p)
    PROVE  Spec => []StrandedDeleteExplained
<1>1. SInv(req[p]) => StrandedDeleteExplained
  <2> SUFFICES ASSUME SInv(req[p]), vm.pendingDelete, vm.lastJob = NoJob
               PROVE  StrandedDeleteExplained
    BY DEF StrandedDeleteExplained
  <2>1. Explained(jobs \cup req[p].new, req[p].new) BY DEF SInv, DueRows, Due
  <2> QED BY <2>1 DEF Explained, Over, Lost, StrandedDeleteExplained, Forgotten
<1>2. /\ Init => IInv /\ SInv(req[p])
      /\ IInv /\ SInv(req[p]) /\ [Next]_vars => (IInv /\ SInv(req[p]))'
  BY SInvHolds
<1> QED BY <1>1, <1>2, PTL DEF Spec

(* A page that releases the tracked job releases one that is over          *)
(* (virtualmachines/models.py:197).                                        *)
THEOREM ReleasesOnlyEnded ==
    ASSUME NEW p, Single(p)
    PROVE  Spec => ReleasesOnlyEndedJobs
<1>1. ASSUME IInv, SInv(req[p]), FinishVisit(p), vm.lastJob # NoJob, vm'.present,
             vm'.lastJob = NoJob
      PROVE  gjobs[vm.lastJob].status # "pending"
  <2> DEFINE row == AfterRefresh(req[p])
  <2>1. Successor(row, req[p]) BY <1>1, AfterRefreshSuccessor DEF FinishVisit
  <2>2. vm' = row BY <1>1 DEF FinishVisit, Commit
  <2> QED BY <1>1, <2>1, <2>2 DEF Successor, SameJob
<1>2. IInv /\ SInv(req[p]) => ReleasesEnded
  BY <1>1 DEF ReleasesEnded, Single
<1>3. /\ Init => IInv /\ SInv(req[p])
      /\ IInv /\ SInv(req[p]) /\ [Next]_vars => (IInv /\ SInv(req[p]))'
  BY SInvHolds
<1> QED BY <1>2, <1>3, PTL DEF Spec, ReleasesOnlyEndedJobs

(* Clearing any job of an imported VM leaves the VM in the tables          *)
(* (jobs/views.py:66), although the deletion of the job cascades.          *)
THEOREM ClearsKeepVM ==
    ASSUME NEW p, Single(p)
    PROVE  Spec => ClearKeepsVM
<1>1. ASSUME IInv, SInv(req[p]), FinishClear(p), vm.present, Alive, NoCreations
      PROVE  vm'.present
  <2> DEFINE q == req[p]  row == AfterRefresh(q)
  <2>1. q.pc = "refreshed" /\ q.view = "clear" /\ q.job \in JobId
    BY <1>1 DEF FinishClear, SInv, Follows
  <2>2. q.copy \in Row /\ vm \in Row /\ q.write \in Write /\ NoJob \notin JobId
    BY <1>1 DEF IInv, TypeOK, Single, Request, NoJob, JobId
  <2>3. CASE q.job = q.copy.lastJob
    BY <1>1, <2>1, <2>2, <2>3 DEF FinishClear, Commit, Row
  <2>4. CASE q.job # q.copy.lastJob
    <3>1. row.present /\ row.lastJob = q.copy.lastJob
      <4>1. CASE q.write = "none" BY <1>1, <2>1, <4>1 DEF AfterRefresh, SInv, Kept
      <4>2. CASE q.write = "narrow"
        <5>1. row = NarrowUpdated(vm, q.reset, q.undelete) BY <4>2 DEF AfterRefresh
        <5>2. row.present BY <5>1, <1>1, <2>2, NarrowParts
        <5> QED BY <5>2, <4>2, <1>1, <2>1 DEF SInv, Follows
      <4>3. CASE q.write = "full" BY <1>1, <2>1, <4>3 DEF AfterRefresh, SInv, Follows
      <4>4. CASE q.write = "delete" BY <1>1, <4>4 DEF SInv, Kept
      <4> QED BY <2>2, <4>1, <4>2, <4>3, <4>4 DEF Write
    <3> HIDE DEF row
    <3>2. vm' = row \/ vm' = vm BY <1>1, <2>4, <3>1 DEF FinishClear, Commit, row
    <3> QED BY <3>1, <3>2, <1>1
  <2> QED BY <2>3, <2>4
<1>2. IInv /\ SInv(req[p]) => ClearKeeps
  BY <1>1 DEF ClearKeeps, Single, NoCreations
<1>3. /\ Init => IInv /\ SInv(req[p])
      /\ IInv /\ SInv(req[p]) /\ [Next]_vars => (IInv /\ SInv(req[p]))'
  BY SInvHolds
<1> QED BY <1>2, <1>3, PTL DEF Spec, ClearKeepsVM
=============================================================================
