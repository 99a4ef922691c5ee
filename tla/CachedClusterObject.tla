------------------------ MODULE CachedClusterObject ------------------------
(***************************************************************************)
(* What one load of a cached object decides: CachedClusterObject.refresh() *)
(* and check_job_status() of clusters/models.py, as operators over the     *)
(* answers the Ganeti remote API gave.  No state: the modules of the       *)
(* objects that inherit this code supply the row, the jobs and the RAPI.   *)
(*                                                                         *)
(* The loop of check_job_status() keeps `status` and `op` across its       *)
(* iterations: they are set once before the loop and overwritten only when *)
(* GetJobStatus answers.  An iteration whose poll raised therefore sees    *)
(* the answer of the latest earlier job that was heard, or 'unknown' when  *)
(* none was.  HeardBy says exactly that, without the loop.                 *)
(***************************************************************************)
EXTENDS Naturals, FiniteSets, FiniteSetsExt

CONSTANT MaxJobs            \* bound: job ids Ganeti hands out for one object
ASSUME MaxJobsAssumption == MaxJobs \in Nat

JobId == 1 .. MaxJobs       \* Ganeti numbers jobs in submission order
NoJob == 0                  \* last_job is NULL
NoTime == 0                 \* mtime is NULL
MTime == Nat

(* The columns of a cached row that job tracking reads and writes.         *)
(* present is FALSE for a deleted row, and for an in-memory object whose   *)
(* delete() has set its primary key to None.                               *)
Row == [present: BOOLEAN, lastJob: JobId \cup {NoJob}, ignoreCache: BOOLEAN,
        pendingDelete: BOOLEAN, mtime: MTime]

NoRow == [present |-> FALSE, lastJob |-> NoJob, ignoreCache |-> FALSE,
          pendingDelete |-> FALSE, mtime |-> NoTime]

JobStatus == {"none", "pending", "success", "error", "canceled", "archived"}
JobOp == {"none", "CREATE", "REMOVE", "OTHER"}
GanetiJob == [op: JobOp, status: JobStatus]

(* Mutated forms of Completed: errored jobs never end; canceled ones do. *)
Completed_NoError == {"success", "unknown"}
Completed_Canceled == {"success", "error", "unknown", "canceled"}

(* The statuses check_job_status() treats as the end of a job.             *)
Completed == {"success", "error", "unknown"}

----------------------------------------------------------------------------
(* polled: the jobs of the object, in id order; lost: those whose          *)
(* GetJobStatus raised GanetiApiError, an archived job's 404 included;     *)
(* gjobs: the Ganeti job table.                                            *)
HeardBy(polled, lost, j) == {k \in polled \ lost : k <= j}

StatusAt(polled, lost, gjobs, j) ==
    LET heard == HeardBy(polled, lost, j)
    IN  IF heard = {} THEN "unknown" ELSE gjobs[Max(heard)].status

OpAt(polled, lost, gjobs, j) ==
    LET heard == HeardBy(polled, lost, j)
    IN  IF heard = {} THEN "none" ELSE gjobs[Max(heard)].op

(* Mutated form of ResetsTracking: any finished job will do. *)
ResetsTracking_AnyJob(polled, lost, gjobs) ==
    \/ polled = {}
    \/ \E j \in polled : StatusAt(polled, lost, gjobs, j) \in Completed

(* `updates` gains ignore_cache=False and last_job=None: the object has no *)
(* jobs, or the status left by the last iteration ends a job.              *)
ResetsTracking(polled, lost, gjobs) ==
    \/ polled = {}
    \/ StatusAt(polled, lost, gjobs, Max(polled)) \in Completed

(* VirtualMachine._complete_job('unknown') clears pending_delete.          *)
ClearsPendingDelete(polled, lost, gjobs) ==
    \E j \in polled : StatusAt(polled, lost, gjobs, j) = "unknown"

(* Mutated form of RemovalsSeen: an errored removal counts. *)
RemovalsSeen_AnyEnd(polled, lost, gjobs) ==
    {j \in polled : /\ OpAt(polled, lost, gjobs, j) = "REMOVE"
                    /\ StatusAt(polled, lost, gjobs, j) \in Completed}

(* The jobs for which VirtualMachine._complete_job answers 'deleted'.      *)
RemovalsSeen(polled, lost, gjobs) ==
    {j \in polled : /\ OpAt(polled, lost, gjobs, j) = "REMOVE"
                    /\ StatusAt(polled, lost, gjobs, j) = "success"}

(* check_job_status() as the record of what it decides; an object without  *)
(* a last_job polls nothing and decides nothing.                           *)
CheckJobStatus(row, polled, lost, gjobs) ==
    IF row.lastJob = NoJob
    THEN [reset |-> FALSE, undelete |-> FALSE, removals |-> {}]
    ELSE [reset    |-> ResetsTracking(polled, lost, gjobs),
          undelete |-> ClearsPendingDelete(polled, lost, gjobs),
          removals |-> RemovalsSeen(polled, lost, gjobs)]

(* The setattr loop at the head of refresh(): the in-memory object after   *)
(* check_job_status(), before the object itself is fetched.                *)
Updated(row, data) ==
    [row EXCEPT !.present = @ /\ data.removals = {},
                !.lastJob = IF data.reset THEN NoJob ELSE @,
                !.ignoreCache = @ /\ ~data.reset,
                !.pendingDelete = @ /\ ~data.undelete]

(* The same updates sent as a narrow UPDATE to the row of the database,    *)
(* which may have changed since it was read.                               *)
NarrowUpdated(row, reset, undelete) ==
    IF row.present
    THEN [row EXCEPT !.lastJob = IF reset THEN NoJob ELSE @,
                     !.ignoreCache = @ /\ ~reset,
                     !.pendingDelete = @ /\ ~undelete]
    ELSE row

(* refresh() writes the whole row when the object has never been fetched   *)
(* or Ganeti's copy is newer, and otherwise only cached and the updates.   *)
WritesWholeRow(row, infoTime) ==
    row.present /\ (row.mtime = NoTime \/ infoTime > row.mtime)
=============================================================================
