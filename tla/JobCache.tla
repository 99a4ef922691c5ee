------------------------------ MODULE JobCache ------------------------------
(***************************************************************************)
(* One row of the jobs table: what the web manager records of a Ganeti job *)
(* while several processes load, poll and save it, and users clear it.     *)
(*                                                                         *)
(* A Job polls in its constructor, so that every request which loads the   *)
(* job, or the object it belongs to, may be one of the requests here.  Its *)
(* save() writes the whole row, and inserts it again when it is gone.  The *)
(* write of a request takes effect when the request commits.               *)
(***************************************************************************)
EXTENDS Naturals

CONSTANTS
    Proc,       \* web server processes
    Outcome,    \* how the Ganeti job may end
    Fault       \* what may go wrong

AllOutcomes == {"success", "error", "canceled"}
AllFaults == {"rapi", "crash", "archive"}

ASSUME OutcomeAssumption == Outcome \subseteq AllOutcomes
ASSUME FaultAssumption == Fault \subseteq AllFaults

VARIABLES
    row,        \* the row of the jobs table
    gjob,       \* external: the job in Ganeti's queue
    req         \* per process, the request in flight

vars == <<row, gjob, req>>

(* known: info is set, by a GetJobStatus that answered.  A job never       *)
(* polled has no status yet.                                               *)
RowStatus == {"new", "pending", "unknown"} \cup AllOutcomes
Row == [present: BOOLEAN, status: RowStatus, ignoreCache: BOOLEAN, known: BOOLEAN]
NoRow == [present |-> FALSE, status |-> "new", ignoreCache |-> FALSE, known |-> FALSE]

GanetiJob == [status: {"none", "pending"} \cup AllOutcomes, archived: BOOLEAN]

(* stale: another request has written or deleted the row since this one    *)
(* loaded it; a history, which no step of a request reads.                 *)
Request == [pc: {"idle", "loaded", "ready"}, view: {"show", "list", "clear"},
            copy: Row, saves: BOOLEAN, stale: BOOLEAN]
Idle == [pc |-> "idle", view |-> "show", copy |-> NoRow, saves |-> FALSE, stale |-> FALSE]

TypeOK == row \in Row /\ gjob \in GanetiJob /\ req \in [Proc -> Request]

Init == /\ row = NoRow
        /\ gjob = [status |-> "none", archived |-> FALSE]
        /\ req = [p \in Proc |-> Idle]

----------------------------------------------------------------------------
(* Mutated form of Answered: an errored job is polled again. *)
Answered_KeepsPolling(copy, status) ==
    [copy EXCEPT !.status = status, !.known = TRUE,
                 !.ignoreCache = @ /\ status # "success"]

(* parse_persistent_info(): only success and error end the polling.        *)
Answered(copy, status) ==
    [copy EXCEPT !.status = status, !.known = TRUE,
                 !.ignoreCache = @ /\ status \notin {"success", "error"}]

(* JobManager.create, after the submission; most views call job.refresh()  *)
(* before they answer.                                                     *)
Create ==
    /\ gjob.status = "none"
    /\ gjob' = [gjob EXCEPT !.status = "pending"]
    /\ LET created == [NoRow EXCEPT !.present = TRUE, !.ignoreCache = TRUE]
       IN  row' \in {created, Answered(created, "pending")}
    /\ UNCHANGED req

(* The request of p ends, and the row changed under those in flight if it  *)
(* changed at all.                                                         *)
Ended(p) == req' = [q \in Proc |->
    IF q = p THEN Idle
    ELSE [req[q] EXCEPT !.stale = @ \/ (req[q].pc # "idle" /\ row' # row)]]

(* Mutated form of MustPoll: a job that was heard of once is cached. *)
MustPoll_Once(job) == ~job.known

(* Job.load_info().                                                        *)
MustPoll(job) == job.ignoreCache \/ ~job.known

(* Mutated form of Found: the pages take a job they do not find for a new  *)
(* one, as get_or_create would.                                            *)
Found_OrNew(job) == gjob.status # "none"

(* get_object_or_404, of the page of a job and of its raw status.          *)
Found(job) == job.present

(* job_status(), the running jobs on the page of a virtual machine: the    *)
(* rows are chosen by the status that is stored, and each is polled as it  *)
(* is loaded.  A job that was never heard of is not among them.            *)
Listed(job) == job.present /\ job.status \in {"pending", "error"}

Open(p, view) ==
    /\ req[p].pc = "idle"
    /\ IF view = "list" THEN Listed(row) ELSE Found(row)
    /\ req' = [req EXCEPT ![p] = [pc |-> IF MustPoll(row) THEN "loaded" ELSE "ready",
                                  view |-> view, copy |-> row, saves |-> FALSE,
                                  stale |-> FALSE]]
    /\ UNCHANGED <<row, gjob>>

Polled(p, copy, saves) ==
    /\ req[p].pc = "loaded"
    /\ req' = [req EXCEPT ![p].pc = "ready", ![p].copy = copy, ![p].saves = saves]
    /\ UNCHANGED <<row, gjob>>

PollAnswered(p) == /\ ~gjob.archived
                   /\ Polled(p, Answered(req[p].copy, gjob.status), TRUE)

(* Mutated form of PollArchived: any failed poll makes the job unknown. *)
PollArchived_AnyError(p) == /\ gjob.archived \/ "rapi" \in Fault
                            /\ Polled(p, [req[p].copy EXCEPT !.status = "unknown"], TRUE)

(* 404: the outcome is unknown; ignore_cache keeps its value.              *)
PollArchived(p) == /\ gjob.archived
                   /\ Polled(p, [req[p].copy EXCEPT !.status = "unknown"], TRUE)

(* Any other error is ignored.                                             *)
PollFailed(p) == "rapi" \in Fault /\ Polled(p, req[p].copy, FALSE)

Show(p) ==
    /\ req[p].pc = "ready" /\ req[p].view # "clear"
    /\ row' = IF req[p].saves THEN [req[p].copy EXCEPT !.present = TRUE] ELSE row
    /\ Ended(p)
    /\ UNCHANGED gjob

(* jobs.views.clear deletes the job it has loaded, and perhaps saved.      *)
Clear(p) ==
    /\ req[p].pc = "ready" /\ req[p].view = "clear"
    /\ row' = NoRow
    /\ Ended(p)
    /\ UNCHANGED gjob

Crash(p) == /\ "crash" \in Fault
            /\ req[p].pc # "idle"
            /\ req' = [req EXCEPT ![p] = Idle]
            /\ UNCHANGED <<row, gjob>>

----------------------------------------------------------------------------
JobEnds(outcome) == /\ gjob.status = "pending"
                    /\ gjob' = [gjob EXCEPT !.status = outcome]
                    /\ UNCHANGED <<row, req>>

JobArchived == /\ "archive" \in Fault
               /\ gjob.status \in AllOutcomes /\ ~gjob.archived
               /\ gjob' = [gjob EXCEPT !.archived = TRUE]
               /\ UNCHANGED <<row, req>>

RequestStep(p) == \/ PollAnswered(p) \/ PollArchived(p) \/ PollFailed(p)
                  \/ Show(p) \/ Clear(p)

Next == \/ Create
        \/ \E p \in Proc : \/ \E view \in {"show", "list", "clear"} : Open(p, view)
                           \/ RequestStep(p)
                           \/ Crash(p)
        \/ \E outcome \in Outcome : JobEnds(outcome)
        \/ JobArchived

Spec == Init /\ [][Next]_vars

----------------------------------------------------------------------------
(* The row never claims an outcome that the job did not have, and says     *)
(* unknown only of a job that Ganeti archived: no poll that failed, came   *)
(* late or was overtaken makes one up.                                     *)
RecordsTheTruth ==
    /\ row.status \in AllOutcomes => gjob.status = row.status
    /\ row.status = "unknown" => gjob.archived

Hear(p) == req[p].view = "show" /\ (PollAnswered(p) \/ PollArchived(p))
Save(p) == req[p].saves /\ Show(p)

(* A request writes what it heard over what others wrote meanwhile.        *)
StaleSave == \E p \in Proc : req[p].stale /\ Save(p)

(* "Job's run once then become immutable" (jobs/models.py:28): a row with  *)
(* a complete status changes only by being cleared, or by the save of a    *)
(* request that was overtaken while it polled.                             *)
Immutable ==
    [][row.status \in {"success", "error"} => row' = row \/ ~row'.present \/ StaleSave]_vars

(* "Clear" the job (jobs/views.py:95): a cleared job does not come back,   *)
(* however it is looked at, unless a request that had loaded it before     *)
(* heard of it and saves it.                                               *)
ClearedStaysCleared ==
    [][gjob.status # "none" /\ ~row.present /\ row'.present => StaleSave]_vars

(* Ganeti finishes the job, requests end, and users keep looking at the    *)
(* job; the API does not fail for ever, and not every request dies that    *)
(* has heard of the job.                                                   *)
Fairness == /\ WF_vars(\E outcome \in Outcome : JobEnds(outcome))
            /\ \A p \in Proc : /\ WF_vars(RequestStep(p)) /\ SF_vars(Open(p, "show"))
                              /\ SF_vars(Hear(p)) /\ SF_vars(Save(p))

FairSpec == Spec /\ Fairness

(* What became of a job is recorded in the end, if it is not cleared,      *)
(* though polls fail, processes die and Ganeti archives the job meanwhile. *)
OutcomeRecorded ==
    gjob.status # "none" ~> ~row.present \/ row.status \in AllOutcomes \cup {"unknown"}
=============================================================================
