--------------------------- MODULE JobCache_proofs ---------------------------
(* Proofs about JobCache, for any number of processes.                     *)
EXTENDS JobCache, TLAPS

(* What a recorded status may claim of the job as it is now. *)
Truthful(status) == /\ status \in AllOutcomes => gjob.status = status
                    /\ status = "unknown" => gjob.archived

(* The copies in memory are as truthful as the row, since any of them may  *)
(* become the row; an archived job has ended; nothing is known, or asked,  *)
(* of a job before its submission.                                         *)
TInv == /\ TypeOK
        /\ Truthful(row.status)
        /\ \A p \in Proc : Truthful(req[p].copy.status)
        /\ gjob.archived => gjob.status \in AllOutcomes
        /\ row.present => gjob.status # "none"
        /\ \A p \in Proc : req[p].pc # "idle" => gjob.status # "none"

(* No job has been submitted and nothing is claimed of it. *)
LEMMA InitTInv == Init => TInv
BY DEF Init, TInv, TypeOK, Truthful, Row, NoRow, RowStatus, GanetiJob, Request, Idle, AllOutcomes

(* The cluster only ends a pending job and archives an ended one, and      *)
(* neither makes a truthful status lie.                                    *)
LEMMA ClusterStep ==
    ASSUME TInv, (\E outcome \in Outcome : JobEnds(outcome)) \/ JobArchived
    PROVE  TInv'
<1>1. UNCHANGED <<row, req>> BY DEF JobEnds, JobArchived
<1>2. gjob' \in GanetiJob /\ (gjob'.archived => gjob'.status \in AllOutcomes)
  BY OutcomeAssumption DEF TInv, TypeOK, GanetiJob, JobEnds, JobArchived, AllOutcomes
<1>3. gjob'.status # "none"
  BY OutcomeAssumption DEF JobEnds, JobArchived, TInv, TypeOK, GanetiJob, AllOutcomes
<1>4. ASSUME NEW status, Truthful(status) PROVE Truthful(status)'
  BY <1>4 DEF Truthful, JobEnds, JobArchived, TInv, TypeOK, GanetiJob, AllOutcomes
<1>5. Truthful(row.status)' BY <1>1, <1>4 DEF TInv, Truthful
<1>6. (\A p \in Proc : Truthful(req[p].copy.status))' BY <1>1, <1>4 DEF TInv, Truthful
<1> QED BY <1>1, <1>2, <1>3, <1>5, <1>6 DEF TInv, TypeOK

(* A request that takes a truthful copy, or writes its own, keeps the rest. *)
LEMMA RequestChange ==
    ASSUME TInv, NEW p \in Proc, NEW r \in Request, req' = [req EXCEPT ![p] = r],
           r.pc # "idle" => gjob.status # "none", row'.present => gjob.status # "none",
           Truthful(r.copy.status), row' \in Row, Truthful(row'.status), gjob' = gjob
    PROVE  TInv'
BY DEF TInv, TypeOK, Truthful

(* The end of a request leaves the copies of the others.                   *)
LEMMA EndedStep ==
    ASSUME TInv, NEW p \in Proc, Ended(p), row' \in Row, Truthful(row'.status),
           row'.present => gjob.status # "none", gjob' = gjob
    PROVE  TInv'
<1>1. Idle \in Request /\ Truthful(Idle.copy.status)
  BY DEF Idle, NoRow, Request, Row, RowStatus, Truthful, AllOutcomes
<1>2. ASSUME NEW q \in Proc
      PROVE  /\ req'[q] \in Request /\ Truthful(req'[q].copy.status)
             /\ req'[q].pc # "idle" => gjob.status # "none"
  <2>1. CASE q = p BY <1>1, <2>1 DEF Ended, Idle
  <2>2. CASE q # p
    BY <2>2 DEF Ended, TInv, TypeOK, Request
  <2> QED BY <2>1, <2>2
<1>3. req' \in [Proc -> Request] BY <1>2 DEF Ended
<1> QED BY <1>2, <1>3 DEF TInv, TypeOK, Truthful

(* A submission claims no outcome. *)
LEMMA CreateStep == ASSUME TInv, Create PROVE TInv'
<1>1. row' \in Row /\ row'.status \in {"new", "pending"}
  BY DEF Create, Answered, NoRow, Row, RowStatus
<1>2. gjob' \in GanetiJob /\ gjob.status = "none" /\ gjob'.archived = gjob.archived
  BY DEF Create, TInv, TypeOK, GanetiJob
<1>3. \A p \in Proc : req'[p].copy.status \notin AllOutcomes \cup {"unknown"}
  BY <1>2 DEF Create, TInv, Truthful, AllOutcomes
<1> QED BY <1>1, <1>2, <1>3 DEF Create, TInv, TypeOK, Truthful, AllOutcomes, GanetiJob

(* A poll that leaves a truthful copy touches only its own request. *)
LEMMA PolledStep ==
    ASSUME TInv, NEW p \in Proc, NEW copy \in Row, Truthful(copy.status),
           NEW saves \in BOOLEAN, Polled(p, copy, saves)
    PROVE  TInv'
<1> DEFINE r == [req[p] EXCEPT !.pc = "ready", !.copy = copy, !.saves = saves]
<1>1. req[p] \in Request BY DEF TInv, TypeOK
<1>2. r \in Request /\ r.copy = copy BY <1>1 DEF Request
<1>3. req' = [req EXCEPT ![p] = r] BY DEF Polled
<1>4. gjob.status # "none" BY DEF Polled, TInv
<1>5. row' \in Row /\ Truthful(row'.status) BY DEF Polled, TInv, TypeOK
<1> HIDE DEF r
<1> QED BY <1>2, <1>3, <1>4, <1>5, RequestChange DEF Polled

(* Each answer of GetJobStatus, and each failure, leaves a truthful copy. *)
LEMMA PollStep ==
    ASSUME TInv, NEW p \in Proc, PollAnswered(p) \/ PollArchived(p) \/ PollFailed(p)
    PROVE  TInv'
<1> DEFINE q       == req[p]
           heard   == Answered(q.copy, gjob.status)
           unknown == [q.copy EXCEPT !.status = "unknown"]
<1>1. q.copy \in Row /\ Truthful(q.copy.status) /\ gjob \in GanetiJob
  BY DEF TInv, TypeOK, Request
<1>2. CASE PollAnswered(p)
  <2>1. gjob.status # "none" /\ Polled(p, heard, TRUE)
    BY <1>2 DEF PollAnswered, Polled, TInv
  <2>2. heard \in Row /\ heard.status = gjob.status
    BY <1>1, <2>1 DEF Answered, Row, RowStatus, GanetiJob
  <2>3. Truthful(heard.status)
    BY <1>1, <2>2 DEF Truthful, GanetiJob, AllOutcomes
  <2> HIDE DEF heard
  <2> QED BY <2>1, <2>2, <2>3, PolledStep
<1>3. CASE PollArchived(p)
  <2>1. unknown \in Row /\ unknown.status = "unknown"
    BY <1>1 DEF Row, RowStatus
  <2>2. gjob.archived /\ Polled(p, unknown, TRUE)
    BY <1>3 DEF PollArchived
  <2>3. Truthful(unknown.status) BY <2>1, <2>2 DEF Truthful, AllOutcomes
  <2> HIDE DEF unknown
  <2> QED BY <2>1, <2>2, <2>3, PolledStep
<1>4. CASE PollFailed(p)
  BY <1>1, <1>4, PolledStep DEF PollFailed
<1> QED BY <1>2, <1>3, <1>4

(* The invariant is inductive. *)
LEMMA NextTInv == TInv /\ [Next]_vars => TInv'
<1> SUFFICES ASSUME TInv, [Next]_vars PROVE TInv' OBVIOUS
<1>1. Idle \in Request /\ NoRow \in Row /\ Truthful(Idle.copy.status) /\ Truthful(NoRow.status)
  BY DEF Idle, NoRow, Request, Row, RowStatus, Truthful, AllOutcomes
<1>2. ASSUME NEW p \in Proc, NEW view \in {"show", "list", "clear"}, Open(p, view) PROVE TInv'
  <2> DEFINE r == [pc |-> IF MustPoll(row) THEN "loaded" ELSE "ready",
                   view |-> view, copy |-> row, saves |-> FALSE, stale |-> FALSE]
  <2>1. r \in Request /\ r.copy = row BY DEF TInv, TypeOK, Request
  <2>2. /\ gjob.status # "none" /\ Truthful(row.status)
        /\ row' = row /\ gjob' = gjob /\ row \in Row
    BY <1>2 DEF Open, Found, Listed, TInv, TypeOK
  <2>3. req' = [req EXCEPT ![p] = r] BY <1>2 DEF Open
  <2> HIDE DEF r
  <2> QED BY <2>1, <2>2, <2>3, RequestChange
<1>3. ASSUME NEW p \in Proc, Show(p) \/ Clear(p) PROVE TInv'
  <2>1. req[p].copy \in Row /\ Truthful(req[p].copy.status) /\ gjob.status # "none"
    BY <1>3 DEF Show, Clear, TInv, TypeOK, Request
  <2>2. row' \in {row, [req[p].copy EXCEPT !.present = TRUE], NoRow} BY <1>3 DEF Show, Clear
  <2>3. row' \in Row /\ Truthful(row'.status)
    BY <1>1, <2>1, <2>2 DEF TInv, TypeOK, Row
  <2>4. Ended(p) /\ gjob' = gjob BY <1>3 DEF Show, Clear
  <2> QED BY <2>1, <2>3, <2>4, EndedStep
<1>4. ASSUME NEW p \in Proc, Crash(p) PROVE TInv'
  <2>1. row' = row /\ gjob' = gjob /\ req' = [req EXCEPT ![p] = Idle]
    BY <1>4 DEF Crash
  <2> QED BY <1>1, <2>1, RequestChange DEF Idle, TInv, TypeOK
<1>5. CASE UNCHANGED vars
  BY <1>5 DEF vars, TInv, TypeOK, Truthful
<1> QED BY <1>2, <1>3, <1>4, <1>5, CreateStep, PollStep, ClusterStep DEF Next, RequestStep

(* However many processes poll, save and clear it, and whatever the API    *)
(* loses, a job row claims no outcome its job did not have.                *)
THEOREM JobsTruthful == Spec => []RecordsTheTruth
<1>1. TInv => RecordsTheTruth BY DEF TInv, Truthful, RecordsTheTruth
<1> QED BY <1>1, InitTInv, NextTInv, PTL DEF Spec

----------------------------------------------------------------------------
(* A complete status comes with information and without the order to       *)
(* bypass the cache, so that the job is not polled again.  A request that  *)
(* nobody overtook has the row it loaded, and polls only what is not       *)
(* complete.                                                               *)
Complete == {"success", "error"}
Settled(job) == job.status \in Complete => ~MustPoll(job)

InFlight(r) ==
    /\ Settled(r.copy)
    /\ r.pc # "idle" /\ ~r.stale => row.present
    /\ r.pc = "loaded" => MustPoll(r.copy) /\ (r.stale \/ r.copy = row)
    /\ r.pc = "ready" /\ r.saves /\ ~r.stale => row.status \notin Complete

FInv == TInv /\ Settled(row) /\ \A p \in Proc : InFlight(req[p])

LEMMA InitFInv == Init => FInv
BY InitTInv DEF FInv, InFlight, Init, Settled, MustPoll, Complete, NoRow, Idle

(* A poll leaves the row alone, and a copy that is settled.                *)
LEMMA PollFInv ==
    ASSUME FInv, NEW p \in Proc, PollAnswered(p) \/ PollArchived(p) \/ PollFailed(p)
    PROVE  FInv'
<1> DEFINE copy    == req[p].copy
           heard   == Answered(copy, gjob.status)
           unknown == [copy EXCEPT !.status = "unknown"]
<1>1. /\ req \in [Proc -> Request] /\ req[p] \in Request /\ copy \in Row /\ row' = row
      /\ req[p].pc = "loaded" /\ MustPoll(copy) /\ (req[p].stale \/ (copy = row /\ row.present))
  BY DEF FInv, InFlight, TInv, TypeOK, Request, PollAnswered, PollArchived, PollFailed, Polled
<1>2. copy.status \notin Complete
  BY <1>1 DEF FInv, InFlight, Settled
<1>3. Settled(heard) /\ Settled(unknown) /\ Settled(copy)
  BY <1>1, <1>2 DEF Settled, MustPoll, Answered, Complete, Row
<1>4. \E c \in {heard, unknown, copy}, saves \in BOOLEAN : Polled(p, c, saves)
  <2> HIDE DEF heard, unknown
  <2> QED BY DEF PollAnswered, PollArchived, PollFailed, heard, unknown
<1>5. PICK c \in {heard, unknown, copy}, saves \in BOOLEAN : Polled(p, c, saves)
  BY <1>4
<1>6. /\ req'[p].pc = "ready" /\ req'[p].copy = c /\ req'[p].stale = req[p].stale
      /\ \A q \in Proc \ {p} : req'[q] = req[q]
  BY <1>1, <1>5 DEF Polled, Request
<1>7. Settled(c)
  <2> HIDE DEF heard, unknown
  <2> QED BY <1>3
<1>8. InFlight(req[p])'
  BY <1>1, <1>2, <1>6, <1>7 DEF InFlight, Settled, MustPoll, FInv
<1>9. \A q \in Proc \ {p} : InFlight(req[q])'
  BY <1>1, <1>6 DEF InFlight, Settled, MustPoll, FInv
<1>10. TInv' /\ Settled(row)'
  BY <1>1, PollStep DEF FInv, Settled, MustPoll
<1> QED BY <1>8, <1>9, <1>10 DEF FInv

(* Whatever the end of a request writes, those still in flight know of it. *)
LEMMA EndedFInv == ASSUME FInv, TInv', NEW p \in Proc, Ended(p), Settled(row)' PROVE FInv'
<1>1. req \in [Proc -> Request] BY DEF FInv, TInv, TypeOK
<1>2. ASSUME NEW q \in Proc PROVE InFlight(req[q])'
  <2>1. CASE q = p
    BY <2>1 DEF Ended, Idle, NoRow, InFlight, Settled, MustPoll, Complete
  <2>2. CASE q # p
    <3>1. /\ req'[q].pc = req[q].pc /\ req'[q].copy = req[q].copy /\ req'[q].saves = req[q].saves
          /\ req'[q].stale = (req[q].stale \/ (req[q].pc # "idle" /\ row' # row))
      BY <1>1, <2>2 DEF Ended, Request
    <3>2. InFlight(req[q]) BY DEF FInv
    <3> QED BY <3>1, <3>2 DEF InFlight, Settled, MustPoll
  <2> QED BY <2>1, <2>2
<1> QED BY <1>2 DEF FInv

LEMMA NextFInv == FInv /\ [Next]_vars => FInv'
<1> SUFFICES ASSUME FInv, [Next]_vars PROVE FInv' OBVIOUS
<1>1. TInv'
  BY NextTInv DEF FInv
<1>2. req \in [Proc -> Request] /\ row \in Row
  BY DEF FInv, TInv, TypeOK
<1>3. CASE Create
  <2>1. req' = req /\ \A p \in Proc : req[p].pc = "idle"
    BY <1>3 DEF Create, FInv, TInv
  <2> DEFINE created == [NoRow EXCEPT !.present = TRUE, !.ignoreCache = TRUE]
  <2>2. row'.status \notin Complete
    <3>1. row' \in {created, Answered(created, "pending")}
      BY <1>3 DEF Create
    <3>2. created.status = "new" /\ Answered(created, "pending").status = "pending"
      BY DEF Answered, NoRow
    <3> HIDE DEF created
    <3> QED BY <3>1, <3>2 DEF Complete
  <2> QED BY <1>1, <2>1, <2>2 DEF FInv, InFlight, Settled, MustPoll
<1>4. ASSUME NEW p \in Proc, NEW view \in {"show", "list", "clear"}, Open(p, view) PROVE FInv'
  <2>1. /\ row' = row /\ row.present /\ req'[p].copy = row /\ ~req'[p].saves
        /\ req'[p].pc = (IF MustPoll(row) THEN "loaded" ELSE "ready")
        /\ \A q \in Proc \ {p} : req'[q] = req[q]
    BY <1>2, <1>4 DEF Open, Found, Listed
  <2>2. Settled(row)' BY <2>1 DEF FInv, Settled, MustPoll
  <2>3. InFlight(req[p])' BY <2>1, <2>2 DEF InFlight, Settled, MustPoll
  <2>4. \A q \in Proc \ {p} : InFlight(req[q])' BY <2>1 DEF FInv, InFlight, Settled, MustPoll
  <2> QED BY <1>1, <2>2, <2>3, <2>4 DEF FInv
<1>5. ASSUME NEW p \in Proc, PollAnswered(p) \/ PollArchived(p) \/ PollFailed(p) PROVE FInv'
  BY <1>5, PollFInv
<1>6. ASSUME NEW p \in Proc, Show(p) \/ Clear(p) PROVE FInv'
  <2>1. Ended(p) /\ row' \in {row, [req[p].copy EXCEPT !.present = TRUE], NoRow}
    BY <1>6 DEF Show, Clear
  <2>2. Settled(req[p].copy) /\ req[p].copy \in Row /\ Settled(row) /\ Settled(NoRow)
    BY DEF FInv, InFlight, TInv, TypeOK, Request, Settled, Complete, NoRow
  <2>3. Settled(row)'
    BY <1>2, <2>1, <2>2 DEF Settled, MustPoll, Row
  <2> QED BY <1>1, <2>1, <2>3, EndedFInv
<1>7. ASSUME NEW p \in Proc, Crash(p) PROVE FInv'
  <2>1. row' = row /\ req'[p] = Idle /\ \A q \in Proc \ {p} : req'[q] = req[q]
    BY <1>2, <1>7 DEF Crash
  <2>2. InFlight(req[p])' BY <2>1 DEF InFlight, Idle, NoRow, Settled, Complete
  <2>3. \A q \in Proc \ {p} : InFlight(req[q])' BY <2>1 DEF FInv, InFlight, Settled, MustPoll
  <2> QED BY <1>1, <2>1, <2>2, <2>3 DEF FInv, Settled, MustPoll
<1>8. CASE (\E outcome \in Outcome : JobEnds(outcome)) \/ JobArchived \/ UNCHANGED vars
  BY <1>1, <1>8 DEF JobEnds, JobArchived, vars, FInv, InFlight, Settled, MustPoll
<1> QED BY <1>3, <1>4, <1>5, <1>6, <1>7, <1>8 DEF Next, RequestStep

FinalStep == row.status \in {"success", "error"} => row' = row \/ ~row'.present \/ StaleSave
ClearedStep == gjob.status # "none" /\ ~row.present /\ row'.present => StaleSave

(* What the two action properties say of a step.                           *)
LEMMA StepFinal == ASSUME FInv, [Next]_vars PROVE [FinalStep /\ ClearedStep]_vars
<1>1. CASE Create
  <2>1. gjob.status = "none" /\ row.status \notin {"success", "error"}
    BY <1>1 DEF Create, FInv, TInv, Truthful, AllOutcomes
  <2> QED BY <2>1 DEF FinalStep, ClearedStep
<1>2. ASSUME NEW p \in Proc, Show(p) PROVE FinalStep /\ ClearedStep
  <2>1. CASE ~req[p].saves
    BY <1>2, <2>1 DEF Show, FinalStep, ClearedStep
  <2>2. CASE req[p].saves /\ req[p].stale
    BY <1>2, <2>2 DEF StaleSave, Save, FinalStep, ClearedStep
  <2>3. CASE req[p].saves /\ ~req[p].stale
    <3>1. row.present /\ row.status \notin Complete
      BY <1>2, <2>3 DEF Show, FInv, InFlight
    <3> QED BY <3>1 DEF FinalStep, ClearedStep, Complete
  <2>4. req[p].saves \in BOOLEAN /\ req[p].stale \in BOOLEAN
    BY DEF FInv, TInv, TypeOK, Request
  <2> QED BY <2>1, <2>2, <2>3, <2>4
<1>3. ASSUME NEW p \in Proc, Clear(p) PROVE FinalStep /\ ClearedStep
  BY <1>3 DEF Clear, NoRow, FinalStep, ClearedStep
<1>4. CASE row' = row
  BY <1>4 DEF FinalStep, ClearedStep
<1> QED BY <1>1, <1>2, <1>3, <1>4 DEF Next, RequestStep, Open, PollAnswered, PollArchived, PollFailed,
                                Polled, Crash, JobEnds, JobArchived, vars

(* "Job's run once then become immutable" (jobs/models.py:28), for any     *)
(* number of processes: a complete status is written again only by a       *)
(* request that another one overtook while it polled.                      *)
THEOREM CompleteIsFinal == Spec => Immutable
<1>1. FInv /\ [Next]_vars => [row.status \in {"success", "error"} => row' = row \/ ~row'.present \/ StaleSave]_vars
  BY StepFinal DEF FinalStep
<1> QED BY <1>1, InitFInv, NextFInv, PTL DEF Spec, Immutable

(* For any number of processes, a job that a user cleared (jobs/views.py:  *)
(* 95) comes back only with the save of a request that had loaded it       *)
(* before, whatever is polled, archived or cut off.                        *)
THEOREM ClearedForGood == Spec => ClearedStaysCleared
<1>1. FInv /\ [Next]_vars => [gjob.status # "none" /\ ~row.present /\ row'.present => StaleSave]_vars
  BY StepFinal DEF ClearedStep
<1> QED BY <1>1, InitFInv, NextFInv, PTL DEF Spec, ClearedStaysCleared
=============================================================================
