----------------------------- MODULE NodeCache -----------------------------
(***************************************************************************)
(* The lazy cache at work on one node, or on the cluster object itself:    *)
(* load_info() with its clock, refresh() with its comparison of mtimes     *)
(* (clusters/models.py), the operations that start a job on it and track   *)
(* it (nodes/models.py, Cluster.redistribute_config), and refreshcache.    *)
(*                                                                         *)
(* Requests of several processes interleave between the row they read, the *)
(* poll of the jobs, the answer of the cluster and the write.  Nodes and   *)
(* clusters inherit _complete_job(), which does nothing, so a poll only    *)
(* ever ends the tracking.  What the rows of virtual machines do on top is *)
(* in VirtualMachineJobs; deletion of rows is in ClusterSync.              *)
(*                                                                         *)
(* Times are only compared with the present, so they are kept as ages:     *)
(* `cached` is how long ago the column's time is, TooOld standing for all  *)
(* that have expired and for NULL.  The number of a version of the node is *)
(* also the mtime the cluster gives it.                                    *)
(***************************************************************************)
EXTENDS CachedClusterObject

CONSTANTS Proc,         \* the web server's processes
          Expiry,       \* LAZY_CACHE_REFRESH
          MaxVersion,   \* bound: how often the node changes, plus one
          Fault         \* the faults that happen: "poll", "fetch", "crash", "archive"

ASSUME CacheAssumption ==
    /\ Expiry \in Nat /\ MaxVersion \in Nat \ {0}
    /\ Fault \subseteq {"poll", "fetch", "crash", "archive"}

VARIABLES version,  \* external: the contents the cluster has of the node
          gjobs,    \* external: the jobs of the cluster
          node,     \* the row of the node
          jobs,     \* the rows of its jobs
          req,      \* the request each process serves
          page,     \* what it shows
          age,      \* history: how long ago the cluster last had each version
          raced     \* history: the row was written by a refresh that was overtaken

world == <<version, gjobs, age>>
vars == <<world, node, jobs, req, page, raced>>

Version == 1 .. MaxVersion
Age == 0 .. Expiry + 1
TooOld == Expiry + 1
NoInfo == 0                 \* serialized_info was never fetched
NoPage == MaxVersion + 1
ErrorPage == MaxVersion + 2

(* The columns of a row, and the attributes of an object made from it.     *)
NodeRow == [mtime : 0 .. MaxVersion, info : Version \cup {NoInfo},
            cached : Age, ignoreCache : BOOLEAN, lastJob : JobId \cup {NoJob}]

(* loaded: the row as it was read; obj: the object made of it; reset: what *)
(* check_job_status() returned; whole: save() rather than update();        *)
(* overtaken: history, another request has written since.                  *)
Phase == {"idle", "poll", "fetch", "write", "shown", "track"}
Request == [phase : Phase, obj : NodeRow, reset : BOOLEAN, whole : BOOLEAN,
            job : JobId \cup {NoJob}, overtaken : BOOLEAN]

NewRow == [mtime |-> 0, info |-> NoInfo, cached |-> TooOld,
           ignoreCache |-> FALSE, lastJob |-> NoJob]
Idle == [phase |-> "idle", obj |-> NewRow, reset |-> FALSE, whole |-> FALSE,
         job |-> NoJob, overtaken |-> FALSE]
Shown == [Idle EXCEPT !.phase = "shown"]    \* the object is not saved again

Job == [op : {"none", "ROLE", "MOVE"}, status : JobStatus]

TypeOK == /\ version \in Version
          /\ gjobs \in [JobId -> Job]
          /\ node \in NodeRow
          /\ jobs \subseteq JobId
          /\ req \in [Proc -> Request]
          /\ page \in [Proc -> Version \cup {NoPage, ErrorPage}]
          /\ age \in [Version -> Age]
          /\ raced \in BOOLEAN

Init == /\ version = 1
        /\ gjobs = [j \in JobId |-> [op |-> "none", status |-> "none"]]
        /\ node = NewRow
        /\ jobs = {}
        /\ req = [p \in Proc |-> Idle]
        /\ page = [p \in Proc |-> NoPage]
        /\ age = [v \in Version |-> IF v = version THEN 0 ELSE TooOld]
        /\ raced = FALSE

----------------------------------------------------------------------------
(* Loading the node.                                                       *)

(* Mutated forms of Expired: the job's flag is not looked at; a row that   *)
(* was never fetched is shown. *)
Expired_Tracked(row) == row.cached = TooOld
Expired_Unfetched(row) == row.ignoreCache \/ (row.cached = TooOld /\ row.info # NoInfo)

Expired(row) == row.ignoreCache \/ row.cached = TooOld

(* The requests after a write to the row: those under way are overtaken.   *)
Overtake(p) ==
    [q \in Proc |-> IF q # p /\ req[q].phase \in {"poll", "fetch", "write"}
                    THEN [req[q] EXCEPT !.overtaken = TRUE] ELSE req[q]]

(* load_info(): the object shows its cached info, or is refreshed.         *)
LoadInfo(p) ==
    /\ req[p].phase = "idle"
    /\ req' = [req EXCEPT ![p] = IF Expired(node)
                                 THEN [Idle EXCEPT !.phase = "poll", !.obj = node] ELSE Shown]
    /\ page' = [page EXCEPT ![p] = IF Expired(node) THEN NoPage ELSE node.info]
    /\ UNCHANGED <<world, node, jobs, raced>>

(* check_job_status(): an archived job's poll raises, any may fail.        *)
Lost == {j \in jobs : gjobs[j].status = "archived"}
LostPolls == IF "poll" \in Fault THEN {S \in SUBSET jobs : Lost \subseteq S} ELSE {Lost}

Polled(r, reset) ==
    [r EXCEPT !.phase = "fetch", !.reset = reset,
              !.obj = [r.obj EXCEPT !.lastJob = IF reset THEN NoJob ELSE @,
                                    !.ignoreCache = @ /\ ~reset]]

(* What the polls add to the write: nodes and clusters have nothing of     *)
(* their own to do for a job that ended.                                   *)
Updates(obj, lost) == CheckJobStatus(obj, jobs, lost, gjobs).reset

CheckJobs(p) ==
    /\ req[p].phase = "poll"
    /\ \E lost \in LostPolls :
         req' = [req EXCEPT ![p] = Polled(@, Updates(@.obj, lost))]
    /\ UNCHANGED <<world, node, jobs, page, raced>>

(* Mutated form of HasUpdate: the comparison is turned around. *)
HasUpdate_Older(obj) == obj.mtime = 0 \/ version < obj.mtime

(* refresh(): mtime was never stored, or the cluster's is greater.         *)
HasUpdate(obj) == obj.mtime = 0 \/ version > obj.mtime

(* Mutated form of Fetched: the time is stored with the old info. *)
Fetched_KeepsInfo(obj) == [obj EXCEPT !.cached = 0, !.mtime = version]

Fetched(obj) ==
    IF HasUpdate(obj)
    THEN [obj EXCEPT !.cached = 0, !.info = version, !.mtime = version]
    ELSE [obj EXCEPT !.cached = 0]

(* The cluster answers _refresh().                                         *)
Refresh(p) ==
    /\ req[p].phase = "fetch"
    /\ LET obj == Fetched(req[p].obj)
       IN  /\ req' = [req EXCEPT ![p].phase = "write", ![p].obj = obj,
                                 ![p].whole = HasUpdate(req[p].obj)]
           /\ page' = [page EXCEPT ![p] = obj.info]
    /\ UNCHANGED <<world, node, jobs, raced>>

(* It does not: the error is stored and shown, what the poll said is not   *)
(* written.                                                                *)
RefreshFails(p) ==
    /\ "fetch" \in Fault
    /\ req[p].phase = "fetch"
    /\ req' = [req EXCEPT ![p] = Shown]
    /\ page' = [page EXCEPT ![p] = ErrorPage]
    /\ UNCHANGED <<world, node, jobs, raced>>

(* save() writes every column as the object has it; update() only cached   *)
(* and what the poll returned.                                             *)
Saved(r) ==
    IF r.whole THEN r.obj
    ELSE [node EXCEPT !.cached = r.obj.cached,
                      !.lastJob = IF r.reset THEN NoJob ELSE @,
                      !.ignoreCache = @ /\ ~r.reset]

Save(p) ==
    /\ req[p].phase = "write"
    /\ node' = Saved(req[p])
    /\ req' = [Overtake(p) EXCEPT ![p] = Shown]
    /\ raced' = req[p].overtaken
    /\ UNCHANGED <<world, jobs, page>>

Close(p) ==
    /\ req[p].phase = "shown"
    /\ req' = [req EXCEPT ![p] = Idle]
    /\ page' = [page EXCEPT ![p] = NoPage]
    /\ UNCHANGED <<world, node, jobs, raced>>

(* The process is killed; what it has not written is lost.                 *)
Crash(p) ==
    /\ "crash" \in Fault
    /\ req[p].phase # "idle"
    /\ req' = [req EXCEPT ![p] = Idle]
    /\ page' = [page EXCEPT ![p] = NoPage]
    /\ UNCHANGED <<world, node, jobs, raced>>

----------------------------------------------------------------------------
(* Operations.  The views submit the job once the node is loaded; its id   *)
(* is tracked at the end of the request.                                   *)

Free == {j \in JobId : gjobs[j].status = "none"}

Submit(p, op) ==
    /\ req[p].phase = "shown"
    /\ \E j \in Free :
         /\ \A k \in Free : j <= k
         /\ gjobs' = [gjobs EXCEPT ![j] = [op |-> op, status |-> "pending"]]
         /\ req' = [req EXCEPT ![p].phase = "track", ![p].job = j]
    /\ UNCHANGED <<version, age, node, jobs, page, raced>>

(* A change of role modifies the node.                                     *)
SetRole(p) == Submit(p, "ROLE")

(* Evacuation and migration move instances and leave the node as it is;    *)
(* so does redistributing the configuration for a cluster.                 *)
Evacuate(p) == Submit(p, "MOVE")

(* Mutated form of Track: the cache is not bypassed. *)
Track_Cached(p) ==
    /\ req[p].phase = "track"
    /\ jobs' = jobs \cup {req[p].job}
    /\ node' = [node EXCEPT !.lastJob = req[p].job]
    /\ req' = [Overtake(p) EXCEPT ![p] = Idle]
    /\ page' = [page EXCEPT ![p] = NoPage]
    /\ UNCHANGED <<world, raced>>

(* Job.objects.create() and the update of ignore_cache and last_job.       *)
Track(p) ==
    /\ req[p].phase = "track"
    /\ jobs' = jobs \cup {req[p].job}
    /\ node' = [node EXCEPT !.lastJob = req[p].job, !.ignoreCache = TRUE]
    /\ req' = [Overtake(p) EXCEPT ![p] = Idle]
    /\ page' = [page EXCEPT ![p] = NoPage]
    /\ UNCHANGED <<world, raced>>

(* refreshcache: Node.objects.all().update(mtime=None); the objects it     *)
(* then loads are LoadInfo steps like any others.                          *)
ForgetTime ==
    /\ node.mtime # 0
    /\ node' = [node EXCEPT !.mtime = 0]
    /\ UNCHANGED <<world, jobs, req, page, raced>>

----------------------------------------------------------------------------
(* The cluster and the clock.                                              *)

Older(a) == IF a = TooOld THEN TooOld ELSE a + 1

Tick == /\ age' = [v \in Version |-> IF v = version THEN 0 ELSE Older(age[v])]
        /\ node' = [node EXCEPT !.cached = Older(@)]
        /\ req' = [p \in Proc |-> [req[p] EXCEPT !.obj.cached = Older(@)]]
        /\ UNCHANGED <<version, gjobs, jobs, page, raced>>

Modified == /\ version' = version + 1
            /\ age' = [age EXCEPT ![version'] = 0]

(* An administrator changes the node; so does a change of role that        *)
(* succeeds.  Every change gives it a later mtime.                         *)
NodeChanges ==
    /\ version < MaxVersion
    /\ Modified
    /\ UNCHANGED <<gjobs, node, jobs, req, page, raced>>

JobEnds(j, outcome) ==
    /\ gjobs[j].status = "pending"
    /\ gjobs' = [gjobs EXCEPT ![j].status = outcome]
    /\ IF gjobs[j].op = "ROLE" /\ outcome = "success"
       THEN version < MaxVersion /\ Modified
       ELSE UNCHANGED <<version, age>>
    /\ UNCHANGED <<node, jobs, req, page, raced>>

JobArchived(j) ==
    /\ "archive" \in Fault
    /\ gjobs[j].status \in {"success", "error", "canceled"}
    /\ gjobs' = [gjobs EXCEPT ![j].status = "archived"]
    /\ UNCHANGED <<version, age, node, jobs, req, page, raced>>

Next ==
    \/ \E p \in Proc : \/ LoadInfo(p) \/ CheckJobs(p) \/ Refresh(p) \/ RefreshFails(p)
                       \/ Save(p) \/ Close(p) \/ Crash(p)
                       \/ SetRole(p) \/ Evacuate(p) \/ Track(p)
    \/ ForgetTime \/ Tick \/ NodeChanges
    \/ \E j \in JobId : \/ \E o \in {"success", "error", "canceled"} : JobEnds(j, o)
                        \/ JobArchived(j)

Spec == Init /\ [][Next]_vars

----------------------------------------------------------------------------
(* Properties.                                                             *)

(* The lazy cache keeps the promise of module LazyCache: a page shows what *)
(* the node is, or was at most LAZY_CACHE_REFRESH ago and no job pending,  *)
(* unless refreshes overtook each other (load_info, refresh).              *)
Promise == INSTANCE LazyCache WITH truth <- version,
                                   pending <- node.lastJob # NoJob,
                                   excused <- raced
KeepsPromise == Promise!Spec
=============================================================================
