-------------------------- MODULE NodeCache_proofs --------------------------
(***************************************************************************)
(* NodeCache implements LazyCache, for any number of processes, versions   *)
(* and jobs and any LAZY_CACHE_REFRESH.                                    *)
(*                                                                         *)
(* The inductive invariant relates three copies of the node's contents:    *)
(* the cluster's, the row's and that of each request under way.  A refresh *)
(* that decides to keep the old info decides on its own copy, so the row   *)
(* must still hold the same one when the narrow update is sent: that is    *)
(* what `overtaken` records.                                               *)
(***************************************************************************)
EXTENDS NodeCache, TLAPS

(* mtime is the time of the info, unless refreshcache forgot it; the cache *)
(* is bypassed exactly while a job is tracked.                             *)
Coherent(row) == /\ row.mtime \in {0, row.info}
                 /\ row.info <= version
                 /\ row.ignoreCache <=> row.lastJob # NoJob

RequestOK(r) ==
    /\ r.phase \in {"poll", "fetch", "write"} => Coherent(r.obj)
    /\ r.phase \in {"fetch", "write"} /\ r.reset => r.obj.lastJob = NoJob
    /\ r.phase = "write" => /\ r.obj.info \in Version
                            /\ age[r.obj.info] <= r.obj.cached
    /\ (r.phase \in {"poll", "fetch"} \/ (r.phase = "write" /\ ~r.whole))
       => r.overtaken \/ r.obj.info = node.info
    /\ r.phase \in {"poll", "fetch", "write"} /\ r.obj.info # NoInfo
       => (r.phase = "write" /\ r.whole) \/ node.info \in Version
    /\ r.phase = "track" => r.job \in JobId

IInv == /\ TypeOK
        /\ Coherent(node)
        /\ age[version] = 0
        /\ \A p \in Proc : RequestOK(req[p])
        /\ node.cached # TooOld => node.info \in Version
        /\ node.cached # TooOld => raced \/ age[node.info] <= node.cached

USE DEF Version, Age, TooOld, NoInfo, NoJob, NoPage, ErrorPage

----------------------------------------------------------------------------
LEMMA OlderAge ==
    ASSUME CacheAssumption, NEW a \in Age
    PROVE  /\ Older(a) \in Age
           /\ a <= Older(a)
           /\ \A b \in Age : a <= b => Older(a) <= Older(b)
  BY DEF CacheAssumption, Older

LEMMA RowTypes ==
    ASSUME CacheAssumption
    PROVE  /\ NewRow \in NodeRow
           /\ Idle \in Request
           /\ Shown \in Request
<1>1. NewRow \in NodeRow
  BY DEF CacheAssumption, NewRow, NodeRow
<1>2. Idle \in Request
  BY <1>1 DEF Idle, Request, Phase
<1>3. Shown \in Request
  BY <1>2 DEF Shown, Request, Phase
<1> QED  BY <1>1, <1>2, <1>3

LEMMA InitInv == CacheAssumption /\ Init => IInv
<1> SUFFICES ASSUME CacheAssumption, Init PROVE IInv
  OBVIOUS
<1>1. TypeOK
  <2>1. gjobs \in [JobId -> Job]
    BY DEF Init, Job, JobStatus
  <2>2. age \in [Version -> Age]
    <3>1. 0 \in Age /\ TooOld \in Age
      BY DEF CacheAssumption
    <3> QED  BY <3>1 DEF Init
  <2>3. page \in [Proc -> Version \cup {NoPage, ErrorPage}]
    BY DEF Init
  <2>4. version \in Version
    BY DEF Init, CacheAssumption
  <2> QED  BY <2>1, <2>2, <2>3, <2>4, RowTypes DEF Init, TypeOK
<1>2. Coherent(node) /\ node.cached = TooOld
  BY DEF Init, NewRow, Coherent
<1>3. \A p \in Proc : RequestOK(req[p])
  BY DEF Init, Idle, RequestOK
<1>4. age[version] = 0
  BY DEF Init, CacheAssumption
<1> QED  BY <1>1, <1>2, <1>3, <1>4 DEF IInv

(* A request that another one overtakes keeps what is true of it.          *)
LEMMA Overtaken ==
    ASSUME TypeOK, NEW p \in Proc, NEW new \in Request,
           NEW reqs, reqs = [Overtake(p) EXCEPT ![p] = new]
    PROVE  /\ reqs \in [Proc -> Request]
           /\ reqs[p] = new
           /\ \A q \in Proc : q # p =>
                /\ reqs[q].phase = req[q].phase
                /\ reqs[q].obj = req[q].obj
                /\ reqs[q].reset = req[q].reset
                /\ reqs[q].whole = req[q].whole
                /\ reqs[q].job = req[q].job
                /\ reqs[q].phase \in {"poll", "fetch", "write"} => reqs[q].overtaken
<1>1. Overtake(p) \in [Proc -> Request]
  BY DEF TypeOK, Overtake, Request
<1>2. reqs \in [Proc -> Request] /\ reqs[p] = new
  BY <1>1
<1>3. ASSUME NEW q \in Proc, q # p
      PROVE  reqs[q] = IF req[q].phase \in {"poll", "fetch", "write"}
                       THEN [req[q] EXCEPT !.overtaken = TRUE] ELSE req[q]
  BY <1>3 DEF Overtake
<1> QED  BY <1>2, <1>3 DEF TypeOK, Request

----------------------------------------------------------------------------
(* The steps.                                                              *)

(* Steps of a request that leave the row and the cluster alone.            *)
LEMMA RequestStep ==
    ASSUME CacheAssumption, IInv, NEW p \in Proc,
           NEW r \in Request, RequestOK(r),
           req' = [req EXCEPT ![p] = r],
           page' \in [Proc -> Version \cup {NoPage, ErrorPage}],
           UNCHANGED <<world, node, raced>>, jobs' = jobs
    PROVE  IInv'
<1>1. UNCHANGED <<version, age, gjobs>>
  BY DEF world
<1>2. TypeOK'
  BY <1>1 DEF IInv, TypeOK
<1>3. ASSUME NEW q \in Proc PROVE RequestOK(req[q])'
  <2>1. req'[q] = IF q = p THEN r ELSE req[q]
    BY DEF IInv, TypeOK
  <2>2. RequestOK(req'[q])
    BY <2>1 DEF IInv
  <2> QED  BY <1>1, <2>2 DEF RequestOK, Coherent
<1> QED  BY <1>1, <1>2, <1>3 DEF IInv, Coherent

LEMMA PageType ==
    ASSUME TypeOK, NEW p \in Proc, NEW x \in Version \cup {NoPage, ErrorPage}
    PROVE  [page EXCEPT ![p] = x] \in [Proc -> Version \cup {NoPage, ErrorPage}]
  BY DEF TypeOK

LEMMA RestingOK ==
    ASSUME NEW r \in Request, r.phase \in {"idle", "shown"}
    PROVE  RequestOK(r)
  BY DEF RequestOK

LEMMA Resting == Idle.phase = "idle" /\ Shown.phase = "shown"
  BY DEF Idle, Shown

LEMMA LoadStep == ASSUME CacheAssumption, IInv, NEW p \in Proc, LoadInfo(p) PROVE IInv'
<1> DEFINE r == IF Expired(node) THEN [Idle EXCEPT !.phase = "poll", !.obj = node] ELSE Shown
<1>1. CASE Expired(node)
  <2>1. /\ r \in Request
        /\ r.phase = "poll" /\ r.obj = node
    BY <1>1, RowTypes DEF IInv, TypeOK, Request, Phase
  <2>2. RequestOK(r)
    BY <2>1 DEF RequestOK, IInv, TypeOK, NodeRow
  <2>3. page' = [page EXCEPT ![p] = NoPage]
    BY <1>1 DEF LoadInfo
  <2>4. req' = [req EXCEPT ![p] = r]
    BY DEF LoadInfo
  <2>5. page' \in [Proc -> Version \cup {NoPage, ErrorPage}]
    BY <2>3, PageType DEF IInv
  <2>6. UNCHANGED <<world, node, raced>> /\ jobs' = jobs
    BY DEF LoadInfo
  <2> HIDE DEF r
  <2> QED  BY <2>1, <2>2, <2>4, <2>5, <2>6, RequestStep
<1>2. CASE ~Expired(node)
  <2>1. r \in Request /\ RequestOK(r)
    BY <1>2, RowTypes, Resting, RestingOK
  <2>2. node.info \in Version
    BY <1>2 DEF IInv, Expired
  <2>3. page' = [page EXCEPT ![p] = node.info]
    BY <1>2 DEF LoadInfo
  <2>4. req' = [req EXCEPT ![p] = r]
    BY DEF LoadInfo
  <2>5. page' \in [Proc -> Version \cup {NoPage, ErrorPage}]
    BY <2>2, <2>3, PageType DEF IInv
  <2>6. UNCHANGED <<world, node, raced>> /\ jobs' = jobs
    BY DEF LoadInfo
  <2> HIDE DEF r
  <2> QED  BY <2>1, <2>4, <2>5, <2>6, RequestStep
<1> QED  BY <1>1, <1>2

LEMMA PollStep == ASSUME CacheAssumption, IInv, NEW p \in Proc, CheckJobs(p) PROVE IInv'
<1>1. PICK lost \in LostPolls :
        req' = [req EXCEPT ![p] =
                  Polled(req[p], Updates(req[p].obj, lost))]
  BY DEF CheckJobs, IInv, TypeOK
<1> DEFINE reset == Updates(req[p].obj, lost)
<1>2. reset \in BOOLEAN
  BY DEF Updates, CheckJobStatus, ResetsTracking
<1>3. req[p] \in Request /\ RequestOK(req[p]) /\ req[p].phase = "poll"
  BY DEF IInv, TypeOK, CheckJobs
<1> HIDE DEF reset
<1> DEFINE obj == [req[p].obj EXCEPT !.lastJob = IF reset THEN NoJob ELSE @,
                                     !.ignoreCache = @ /\ ~reset]
           r == [req[p] EXCEPT !.phase = "fetch", !.reset = reset, !.obj = obj]
<1>4. req' = [req EXCEPT ![p] = r]
  BY <1>1 DEF Polled, reset
<1>5. obj \in NodeRow /\ obj.info = req[p].obj.info /\ obj.mtime = req[p].obj.mtime
      /\ (obj.ignoreCache <=> obj.lastJob # NoJob)
      /\ (reset => obj.lastJob = NoJob)
  BY <1>2, <1>3 DEF Request, NodeRow, RequestOK, Coherent
<1>6. r \in Request
  <2> HIDE DEF obj
  <2> QED  BY <1>2, <1>3, <1>5 DEF Request, Phase
<1>7. /\ r.phase = "fetch" /\ r.obj = obj /\ r.reset = reset
      /\ r.overtaken = req[p].overtaken
  BY <1>3 DEF Request
<1> HIDE DEF r, obj
<1>8. RequestOK(r)
  BY <1>3, <1>5, <1>7 DEF RequestOK, Coherent
<1> QED  BY <1>4, <1>6, <1>8, RequestStep DEF CheckJobs, IInv, TypeOK

(* What a refresh shows is what the cluster has.                           *)
LEMMA FetchedFacts ==
    ASSUME CacheAssumption, IInv, NEW obj \in NodeRow, Coherent(obj),
           NEW new, new = Fetched(obj)
    PROVE  /\ new \in NodeRow
           /\ Coherent(new)
           /\ new.info = version
           /\ new.cached = 0
           /\ new.lastJob = obj.lastJob
           /\ ~HasUpdate(obj) => new.info = obj.info
<1>1. version \in Version /\ version \in 0 .. MaxVersion
  BY DEF CacheAssumption, IInv, TypeOK
<1>2. 0 \in Age
  BY DEF CacheAssumption
<1>3. CASE HasUpdate(obj)
  <2>1. new = [obj EXCEPT !.cached = 0, !.info = version, !.mtime = version]
    BY <1>3 DEF Fetched
  <2>2. new \in NodeRow
    BY <1>1, <1>2, <2>1 DEF NodeRow
  <2>3. /\ new.cached = 0 /\ new.info = version /\ new.mtime = version
        /\ new.lastJob = obj.lastJob /\ new.ignoreCache = obj.ignoreCache
    BY <2>1 DEF NodeRow
  <2> QED  BY <1>1, <1>3, <2>2, <2>3 DEF Coherent
<1>4. CASE ~HasUpdate(obj)
  <2>1. new = [obj EXCEPT !.cached = 0]
    BY <1>4 DEF Fetched
  <2>2. obj.info = version
    BY <1>1, <1>4 DEF HasUpdate, Coherent, NodeRow
  <2>3. new \in NodeRow
    BY <1>2, <2>1 DEF NodeRow
  <2>4. /\ new.cached = 0 /\ new.info = obj.info /\ new.mtime = obj.mtime
        /\ new.lastJob = obj.lastJob /\ new.ignoreCache = obj.ignoreCache
    BY <2>1 DEF NodeRow
  <2> QED  BY <1>1, <1>4, <2>2, <2>3, <2>4 DEF Coherent
<1> QED  BY <1>3, <1>4

LEMMA FetchStep ==
    ASSUME CacheAssumption, IInv, NEW p \in Proc, Refresh(p)
    PROVE  IInv' /\ page' = [page EXCEPT ![p] = version]
<1> DEFINE new == Fetched(req[p].obj)
           r == [req[p] EXCEPT !.phase = "write", !.obj = new, !.whole = HasUpdate(req[p].obj)]
<1>1. req[p] \in Request /\ RequestOK(req[p]) /\ req[p].phase = "fetch"
  BY DEF IInv, TypeOK, Refresh
<1>2. req[p].obj \in NodeRow /\ Coherent(req[p].obj)
  BY <1>1 DEF Request, RequestOK
<1>3. HasUpdate(req[p].obj) \in BOOLEAN
  BY DEF HasUpdate
<1> HIDE DEF new
<1>4. /\ new \in NodeRow /\ Coherent(new) /\ new.info = version /\ new.cached = 0
      /\ new.lastJob = req[p].obj.lastJob
      /\ ~HasUpdate(req[p].obj) => new.info = req[p].obj.info
  BY <1>2, FetchedFacts DEF new
<1>5. r \in Request
  BY <1>1, <1>3, <1>4 DEF Request, Phase
<1>6. req' = [req EXCEPT ![p] = r]
  BY DEF Refresh, new, IInv, TypeOK, Request
<1>7. /\ r.phase = "write" /\ r.obj = new /\ r.whole = HasUpdate(req[p].obj)
      /\ r.reset = req[p].reset /\ r.overtaken = req[p].overtaken
  BY <1>1 DEF Request
<1> HIDE DEF r
<1>8. RequestOK(r)
  BY <1>1, <1>4, <1>7 DEF RequestOK, IInv, TypeOK
<1>9. page' = [page EXCEPT ![p] = version]
  BY <1>4 DEF Refresh, new
<1>10. version \in Version
  BY DEF IInv, TypeOK
<1>11. page' \in [Proc -> Version \cup {NoPage, ErrorPage}]
  BY <1>9, <1>10, PageType DEF IInv
<1>12. UNCHANGED <<world, node, raced>> /\ jobs' = jobs
  BY DEF Refresh
<1> QED  BY <1>5, <1>6, <1>8, <1>9, <1>11, <1>12, RequestStep

LEMMA IdleStep ==
    ASSUME CacheAssumption, IInv, NEW p \in Proc,
           RefreshFails(p) \/ Close(p) \/ Crash(p)
    PROVE  IInv'
<1>1. PICK r \in {Idle, Shown}, x \in {NoPage, ErrorPage} :
        req' = [req EXCEPT ![p] = r] /\ page' = [page EXCEPT ![p] = x]
  BY DEF RefreshFails, Close, Crash
<1>2. r \in Request /\ RequestOK(r)
  BY RowTypes, Resting, RestingOK
<1>3. UNCHANGED <<world, node, jobs, raced>>
  BY DEF RefreshFails, Close, Crash
<1> QED  BY <1>1, <1>2, <1>3, PageType, RequestStep DEF IInv

(* Steps of a request that write the row.                                  *)
LEMMA WriteStep ==
    ASSUME CacheAssumption, IInv, NEW p \in Proc,
           NEW r \in Request, RequestOK(r), r.phase \in {"idle", "shown"},
           req' = [Overtake(p) EXCEPT ![p] = r],
           node' \in NodeRow, Coherent(node'),
           node'.cached # TooOld => node'.info \in Version,
           node.info \in Version => node'.info \in Version,
           node'.cached # TooOld => raced' \/ age[node'.info] <= node'.cached,
           page' \in [Proc -> Version \cup {NoPage, ErrorPage}],
           jobs' \subseteq JobId, raced' \in BOOLEAN, UNCHANGED world
    PROVE  IInv'
<1>1. UNCHANGED <<version, age, gjobs>>
  BY DEF world
<1>2. req' \in [Proc -> Request]
  BY Overtaken DEF IInv
<1>3. TypeOK'
  BY <1>1, <1>2 DEF IInv, TypeOK
<1>4. ASSUME NEW q \in Proc PROVE RequestOK(req[q])'
  <2>1. CASE q = p
    BY <1>1, <2>1, Overtaken DEF IInv, RequestOK
  <2>2. CASE q # p
    <3>1. /\ req'[q].phase = req[q].phase
          /\ req'[q].obj = req[q].obj
          /\ req'[q].reset = req[q].reset
          /\ req'[q].whole = req[q].whole
          /\ req'[q].job = req[q].job
          /\ req'[q].phase \in {"poll", "fetch", "write"} => req'[q].overtaken
      BY <2>2, Overtaken DEF IInv
    <3>2. RequestOK(req[q])
      BY DEF IInv
    <3> QED  BY <1>1, <3>1, <3>2 DEF RequestOK, Coherent
  <2> QED  BY <2>1, <2>2
<1> QED  BY <1>1, <1>3, <1>4 DEF IInv, Coherent

LEMMA SaveStep == ASSUME CacheAssumption, IInv, NEW p \in Proc, Save(p) PROVE IInv'
<1> DEFINE r == req[p]
<1>1. r \in Request /\ RequestOK(r) /\ r.phase = "write"
  BY DEF IInv, TypeOK, Save
<1>2. r.obj \in NodeRow /\ Coherent(r.obj) /\ r.obj.info \in Version
      /\ age[r.obj.info] <= r.obj.cached
  BY <1>1 DEF Request, RequestOK
<1>3. node \in NodeRow /\ Coherent(node)
  BY DEF IInv, TypeOK
<1>4. node' = Saved(r) /\ raced' = r.overtaken
  BY DEF Save
<1> HIDE DEF r
<1> DEFINE Good == /\ node' \in NodeRow /\ Coherent(node')
                   /\ node'.info \in Version
                   /\ node'.cached # TooOld => raced' \/ age[node'.info] <= node'.cached
<1>5. ASSUME r.whole PROVE Good
  <2>1. node' = r.obj
    BY <1>4, <1>5 DEF Saved
  <2> QED  BY <1>2, <2>1
<1>6. ASSUME ~r.whole PROVE Good
  <2>1. node' = [node EXCEPT !.cached = r.obj.cached,
                             !.lastJob = IF r.reset THEN NoJob ELSE @,
                             !.ignoreCache = @ /\ ~r.reset]
    BY <1>4, <1>6 DEF Saved
  <2>2. /\ node' \in NodeRow
        /\ node'.info = node.info /\ node'.mtime = node.mtime
        /\ node'.cached = r.obj.cached
        /\ node'.ignoreCache <=> node'.lastJob # NoJob
    BY <1>1, <1>2, <1>3, <2>1 DEF NodeRow, Request, Coherent
  <2>3. r.overtaken \/ r.obj.info = node.info
    BY <1>1, <1>6 DEF RequestOK
  <2>4. node'.cached # TooOld => raced' \/ age[node'.info] <= node'.cached
    BY <1>2, <1>4, <2>2, <2>3
  <2>5. node'.info \in Version
    BY <1>1, <1>2, <1>6, <2>2 DEF RequestOK
  <2> QED  BY <1>3, <2>2, <2>4, <2>5 DEF Coherent
<1>7. Shown \in Request /\ RequestOK(Shown) /\ Shown.phase \in {"idle", "shown"}
  BY RowTypes, Resting, RestingOK
<1>8. req' = [Overtake(p) EXCEPT ![p] = Shown] /\ UNCHANGED <<world, jobs, page>>
  BY DEF Save
<1>9. Good
  BY <1>5, <1>6
<1>10. /\ page' \in [Proc -> Version \cup {NoPage, ErrorPage}]
       /\ jobs' \subseteq JobId /\ raced' \in BOOLEAN /\ UNCHANGED world
  BY <1>1, <1>4, <1>8 DEF IInv, TypeOK, Request
<1> QED  BY <1>7, <1>8, <1>9, <1>10, WriteStep

LEMMA TrackStep == ASSUME CacheAssumption, IInv, NEW p \in Proc, Track(p) PROVE IInv'
<1>1. req[p] \in Request /\ RequestOK(req[p]) /\ req[p].phase = "track"
  BY DEF IInv, TypeOK, Track
<1>2. req[p].job \in JobId /\ req[p].job # NoJob
  BY <1>1 DEF RequestOK, JobId
<1>3. node' = [node EXCEPT !.lastJob = req[p].job, !.ignoreCache = TRUE]
  BY DEF Track
<1>4. /\ node' \in NodeRow
      /\ node'.info = node.info /\ node'.mtime = node.mtime /\ node'.cached = node.cached
      /\ node'.ignoreCache /\ node'.lastJob # NoJob
  BY <1>2, <1>3 DEF IInv, TypeOK, NodeRow
<1>5. Coherent(node')
  BY <1>4 DEF IInv, Coherent
<1>6. Idle \in Request /\ RequestOK(Idle) /\ Idle.phase \in {"idle", "shown"}
  BY RowTypes, Resting, RestingOK
<1>7. /\ req' = [Overtake(p) EXCEPT ![p] = Idle]
      /\ page' = [page EXCEPT ![p] = NoPage]
      /\ UNCHANGED <<world, raced>>
  BY DEF Track
<1>8. page' \in [Proc -> Version \cup {NoPage, ErrorPage}]
  BY <1>7, PageType DEF IInv
<1>9. jobs' \subseteq JobId /\ raced' \in BOOLEAN
  BY <1>2, <1>7 DEF IInv, TypeOK, Track
<1>10. /\ node'.cached # TooOld => node'.info \in Version
       /\ node.info \in Version => node'.info \in Version
       /\ node'.cached # TooOld => raced' \/ age[node'.info] <= node'.cached
  BY <1>4, <1>7 DEF IInv
<1> QED  BY <1>4, <1>5, <1>6, <1>7, <1>8, <1>9, <1>10, WriteStep

LEMMA SubmitStep ==
    ASSUME CacheAssumption, IInv, NEW p \in Proc,
           NEW op \in {"ROLE", "MOVE"}, Submit(p, op)
    PROVE  IInv'
<1>1. req[p] \in Request
  BY DEF IInv, TypeOK
<1>2. PICK j \in JobId :
        /\ gjobs' = [gjobs EXCEPT ![j] = [op |-> op, status |-> "pending"]]
        /\ req' = [req EXCEPT ![p].phase = "track", ![p].job = j]
  BY DEF Submit, Free
<1> DEFINE r == [req[p] EXCEPT !.phase = "track", !.job = j]
<1>3. req' = [req EXCEPT ![p] = r] /\ UNCHANGED <<version, age, node, jobs, page, raced>>
  BY <1>2 DEF Submit, IInv, TypeOK, Request
<1>4. r \in Request /\ r.phase = "track" /\ r.job \in JobId
  BY <1>1, <1>2 DEF Request, Phase
<1>5. RequestOK(r)
  BY <1>4 DEF RequestOK
<1> HIDE DEF r
<1>6. TypeOK'
  <2>1. [op |-> op, status |-> "pending"] \in Job
    BY DEF Job, JobStatus
  <2>2. gjobs' \in [JobId -> Job]
    BY <1>2, <2>1 DEF IInv, TypeOK
  <2> QED  BY <1>3, <1>4, <2>2 DEF IInv, TypeOK
<1>7. ASSUME NEW q \in Proc PROVE RequestOK(req[q])'
  <2>1. req'[q] = IF q = p THEN r ELSE req[q]
    BY <1>3 DEF IInv, TypeOK
  <2>2. RequestOK(req'[q])
    BY <1>5, <2>1 DEF IInv
  <2> QED  BY <1>3, <2>2 DEF RequestOK, Coherent
<1> QED  BY <1>3, <1>6, <1>7 DEF IInv, Coherent

(* The cluster's side: time passes, or the node changes.                   *)
LEMMA AgesGrow ==
    ASSUME CacheAssumption, TypeOK, age[version] = 0, Tick
    PROVE  /\ age' \in [Version -> Age]
           /\ age'[version'] = 0
           /\ \A v \in Version, a \in Age : age[v] <= a => age'[v] <= Older(a)
<1>1. \A v \in Version : age'[v] = IF v = version THEN 0 ELSE Older(age[v])
  BY DEF Tick
<1>2. 0 \in Age /\ version \in Version /\ version' = version
  BY DEF CacheAssumption, TypeOK, Tick
<1>3. age' \in [Version -> Age]
  BY <1>2, OlderAge DEF TypeOK, Tick
<1>4. ASSUME NEW v \in Version, NEW a \in Age, age[v] <= a PROVE age'[v] <= Older(a)
  <2>1. age[v] \in Age /\ Older(a) \in Age /\ Older(age[v]) <= Older(a)
    BY <1>4, OlderAge DEF TypeOK
  <2> QED  BY <1>1, <2>1
<1> QED  BY <1>1, <1>2, <1>3, <1>4

LEMMA TickStep == ASSUME CacheAssumption, IInv, Tick PROVE IInv'
<1>1. /\ TypeOK /\ Coherent(node) /\ age[version] = 0
      /\ UNCHANGED <<version, gjobs, jobs, page, raced>>
      /\ node' = [node EXCEPT !.cached = Older(@)]
  BY DEF IInv, Tick
<1>2. /\ age' \in [Version -> Age]
      /\ age'[version'] = 0
      /\ \A v \in Version, a \in Age : age[v] <= a => age'[v] <= Older(a)
  BY <1>1, AgesGrow
<1>3. /\ node' \in NodeRow
      /\ node'.cached = Older(node.cached) /\ node.cached \in Age
      /\ node'.info = node.info /\ node'.mtime = node.mtime
      /\ node'.ignoreCache = node.ignoreCache /\ node'.lastJob = node.lastJob
  BY <1>1, OlderAge DEF TypeOK, NodeRow
<1>4. ASSUME NEW q \in Proc
      PROVE  /\ req'[q] \in Request
             /\ req'[q] = [req[q] EXCEPT !.obj.cached = Older(@)]
             /\ RequestOK(req[q])'
  <2>1. req[q] \in Request /\ RequestOK(req[q]) /\ req[q].obj \in NodeRow
    BY DEF IInv, TypeOK, Request
  <2>2. req'[q] = [req[q] EXCEPT !.obj.cached = Older(@)]
    BY DEF Tick
  <2> DEFINE obj == [req[q].obj EXCEPT !.cached = Older(@)]
  <2>3. /\ obj \in NodeRow
        /\ obj.cached = Older(req[q].obj.cached) /\ req[q].obj.cached \in Age
        /\ obj.info = req[q].obj.info /\ obj.mtime = req[q].obj.mtime
        /\ obj.ignoreCache = req[q].obj.ignoreCache /\ obj.lastJob = req[q].obj.lastJob
    BY <2>1, OlderAge DEF NodeRow
  <2>4. req'[q] = [req[q] EXCEPT !.obj = obj]
    BY <2>1, <2>2 DEF Request, NodeRow
  <2> HIDE DEF obj
  <2>5. /\ req'[q] \in Request /\ req'[q].obj = obj
        /\ req'[q].phase = req[q].phase /\ req'[q].reset = req[q].reset
        /\ req'[q].whole = req[q].whole /\ req'[q].overtaken = req[q].overtaken
        /\ req'[q].job = req[q].job
    BY <2>1, <2>3, <2>4 DEF Request
  <2>6. RequestOK(req[q])'
    BY <1>1, <1>2, <1>3, <2>1, <2>3, <2>5 DEF RequestOK, Coherent
  <2> QED  BY <2>2, <2>5, <2>6
<1>5. req' \in [Proc -> Request]
  BY <1>4 DEF Tick
<1>6. TypeOK'
  BY <1>1, <1>2, <1>3, <1>5 DEF TypeOK
<1>7. Coherent(node)'
  BY <1>1, <1>3 DEF Coherent
<1>8. node'.cached # TooOld => node.cached # TooOld
  BY <1>3 DEF Older
<1> QED  BY <1>1, <1>2, <1>3, <1>4, <1>6, <1>7, <1>8 DEF IInv

LEMMA ModifiedStep ==
    ASSUME CacheAssumption, IInv, version < MaxVersion, Modified,
           gjobs' \in [JobId -> Job], UNCHANGED <<node, jobs, req, page, raced>>
    PROVE  IInv'
<1>1. /\ version' = version + 1 /\ version' \in Version /\ version \in Version
      /\ age' = [age EXCEPT ![version'] = 0]
  BY DEF Modified, IInv, TypeOK, CacheAssumption
<1>2. 0 \in Age
  BY DEF CacheAssumption
<1>3. /\ age' \in [Version -> Age] /\ age'[version'] = 0
      /\ \A v \in Version, a \in Age : age[v] <= a => age'[v] <= a
  BY <1>1, <1>2 DEF IInv, TypeOK
<1>4. TypeOK'
  BY <1>1, <1>3 DEF IInv, TypeOK
<1>5. ASSUME NEW row \in NodeRow, Coherent(row) PROVE Coherent(row)'
  BY <1>1, <1>5 DEF Coherent, NodeRow
<1>6. ASSUME NEW q \in Proc PROVE RequestOK(req[q])'
  <2>1. RequestOK(req[q]) /\ req[q].obj \in NodeRow /\ req[q].obj.cached \in Age
    BY DEF IInv, TypeOK, Request, NodeRow
  <2>2. Coherent(req[q].obj) => Coherent(req[q].obj)'
    BY <1>1, <2>1 DEF Coherent, NodeRow
  <2> QED  BY <1>3, <2>1, <2>2 DEF RequestOK
<1>7. Coherent(node)' /\ node.cached \in Age
  BY <1>1 DEF IInv, TypeOK, Coherent, NodeRow
<1> QED  BY <1>3, <1>4, <1>6, <1>7 DEF IInv

LEMMA JobStep ==
    ASSUME CacheAssumption, IInv, gjobs' \in [JobId -> Job],
           UNCHANGED <<version, age, node, jobs, req, page, raced>>
    PROVE  IInv'
  BY DEF IInv, TypeOK, RequestOK, Coherent

LEMMA ForgetStep == ASSUME CacheAssumption, IInv, ForgetTime PROVE IInv'
<1>1. /\ node' = [node EXCEPT !.mtime = 0]
      /\ UNCHANGED <<version, age, gjobs, jobs, req, page, raced>>
  BY DEF ForgetTime, world
<1>2. /\ node' \in NodeRow /\ node'.mtime = 0
      /\ node'.info = node.info /\ node'.cached = node.cached
      /\ node'.ignoreCache = node.ignoreCache /\ node'.lastJob = node.lastJob
  <2>1. 0 \in 0 .. MaxVersion
    BY DEF CacheAssumption
  <2> QED  BY <1>1, <2>1 DEF IInv, TypeOK, NodeRow
<1>3. \A q \in Proc : RequestOK(req[q])'
  BY <1>1, <1>2 DEF IInv, RequestOK, Coherent
<1> QED  BY <1>1, <1>2, <1>3 DEF IInv, TypeOK, Coherent

----------------------------------------------------------------------------
LEMMA NextInv == ASSUME CacheAssumption, IInv, [Next]_vars PROVE IInv'
<1>1. CASE UNCHANGED vars
  BY <1>1, JobStep DEF vars, world, IInv, TypeOK
<1>2. ASSUME NEW p \in Proc, SetRole(p) \/ Evacuate(p) PROVE IInv'
  BY <1>2, SubmitStep DEF SetRole, Evacuate
<1>3. ASSUME NEW p \in Proc,
             \/ LoadInfo(p) \/ CheckJobs(p) \/ Refresh(p) \/ RefreshFails(p)
             \/ Save(p) \/ Close(p) \/ Crash(p) \/ Track(p)
      PROVE  IInv'
  BY <1>3, LoadStep, PollStep, FetchStep, IdleStep, SaveStep, TrackStep
<1>4. CASE NodeChanges
  BY <1>4, ModifiedStep DEF NodeChanges, IInv, TypeOK
<1>5. ASSUME NEW j \in JobId, NEW o \in {"success", "error", "canceled"}, JobEnds(j, o)
      PROVE  IInv'
  <2>1. gjobs' \in [JobId -> Job]
    BY <1>5 DEF JobEnds, IInv, TypeOK, Job, JobStatus
  <2>2. CASE gjobs[j].op = "ROLE" /\ o = "success"
    BY <1>5, <2>1, <2>2, ModifiedStep DEF JobEnds
  <2>3. CASE ~(gjobs[j].op = "ROLE" /\ o = "success")
    BY <1>5, <2>1, <2>3, JobStep DEF JobEnds
  <2> QED  BY <2>2, <2>3
<1>6. ASSUME NEW j \in JobId, JobArchived(j) PROVE IInv'
  <2>1. gjobs' \in [JobId -> Job]
    BY <1>6 DEF JobArchived, IInv, TypeOK, Job, JobStatus
  <2> QED  BY <1>6, <2>1, JobStep DEF JobArchived
<1> QED  BY <1>1, <1>2, <1>3, <1>4, <1>5, <1>6, ForgetStep, TickStep DEF Next

LEMMA Inductive == Spec => []IInv
  BY InitInv, NextInv, CacheAssumption, PTL DEF Spec

(* The row, the jobs and the requests of a node keep their types.          *)
THEOREM TypeCorrect == Spec => []TypeOK
<1>1. IInv => TypeOK
  BY DEF IInv
<1> QED  BY <1>1, Inductive, PTL

----------------------------------------------------------------------------
(* The refinement: every step of NodeCache is a step of LazyCache, or none.*)

LEMMA AbstractTime == Promise!TooOld = TooOld /\ \A a \in Age : Promise!Older(a) = Older(a)
  BY DEF Promise!TooOld, Promise!Older, Older

LEMMA InitRefines == CacheAssumption /\ Init => Promise!Init
  BY DEF CacheAssumption, Init, NewRow, Promise!Init, Promise!TooOld

(* Steps the page and the promise do not see.                              *)
LEMMA Hidden ==
    ASSUME UNCHANGED <<version, age, page, raced>>, node'.lastJob = node.lastJob
    PROVE  UNCHANGED Promise!vars
  BY DEF Promise!vars

LEMMA ManageRefines ==
    ASSUME NEW p \in Proc, UNCHANGED <<version, age>>, raced' \in BOOLEAN,
           page' = page \/ page' = [page EXCEPT ![p] = NoPage]
    PROVE  Promise!Next
<1>1. (node.lastJob # NoJob)' \in BOOLEAN
  OBVIOUS
<1>2. page' \in {page, [page EXCEPT ![p] = NoPage]}
  OBVIOUS
<1>3. Promise!Manage
  BY <1>1, <1>2 DEF Promise!Manage
<1> QED  BY <1>3 DEF Promise!Next

(* A page that is served from the cache is excused or recent enough; one   *)
(* that was fetched shows what the cluster has.                            *)
LEMMA LoadRefines ==
    ASSUME CacheAssumption, IInv, NEW p \in Proc, LoadInfo(p)
    PROVE  [Promise!Next]_(Promise!vars)
<1>1. UNCHANGED <<version, age, node, raced>>
  BY DEF LoadInfo, world
<1>2. CASE Expired(node)
  <2>1. Promise!Close(p)
    BY <1>1, <1>2 DEF LoadInfo, Promise!Close
  <2> QED  BY <2>1 DEF Promise!Next
<1>3. CASE ~Expired(node)
  <2>1. /\ node.cached # TooOld /\ node.cached \in Age
        /\ node.lastJob = NoJob
        /\ node.info \in Version /\ age[node.info] \in Age
        /\ raced \/ age[node.info] <= node.cached
    BY <1>3 DEF Expired, IInv, TypeOK, NodeRow, Coherent
  <2>2. raced \/ age[node.info] <= Expiry
    BY <2>1 DEF CacheAssumption
  <2>3. page' = [page EXCEPT ![p] = node.info]
    BY <1>3 DEF LoadInfo
  <2>4. Promise!Show(p)
    BY <1>1, <2>1, <2>2, <2>3 DEF Promise!Show
  <2> QED  BY <2>4 DEF Promise!Next
<1> QED  BY <1>2, <1>3

LEMMA FetchRefines ==
    ASSUME CacheAssumption, IInv, NEW p \in Proc, Refresh(p)
    PROVE  Promise!Next
<1>1. page' = [page EXCEPT ![p] = version] /\ version \in Version
  BY FetchStep DEF IInv, TypeOK
<1>2. UNCHANGED <<version, age, node, raced>>
  BY DEF Refresh, world
<1>3. Promise!Show(p)
  BY <1>1, <1>2 DEF Promise!Show
<1> QED  BY <1>3 DEF Promise!Next

LEMMA StepRefines ==
    ASSUME CacheAssumption, IInv, [Next]_vars
    PROVE  [Promise!Next]_(Promise!vars)
<1>1. CASE UNCHANGED vars
  BY <1>1, Hidden DEF vars, world
<1>2. ASSUME NEW p \in Proc, CheckJobs(p) \/ SetRole(p) \/ Evacuate(p)
      PROVE  [Promise!Next]_(Promise!vars)
  BY <1>2, Hidden DEF CheckJobs, SetRole, Evacuate, Submit, world
<1>3. ASSUME NEW p \in Proc, Save(p) \/ Track(p)
      PROVE  [Promise!Next]_(Promise!vars)
  <2>1. UNCHANGED <<version, age>> /\ raced' \in BOOLEAN
    BY <1>3 DEF Save, Track, world, IInv, TypeOK, Request
  <2>2. page' = page \/ page' = [page EXCEPT ![p] = NoPage]
    BY <1>3 DEF Save, Track
  <2> QED  BY <2>1, <2>2, ManageRefines
<1>4. ASSUME NEW p \in Proc, RefreshFails(p) PROVE [Promise!Next]_(Promise!vars)
  <2>1. Promise!Apologise(p)
    BY <1>4 DEF RefreshFails, world, Promise!Apologise
  <2> QED  BY <2>1 DEF Promise!Next
<1>5. ASSUME NEW p \in Proc, Close(p) \/ Crash(p) PROVE [Promise!Next]_(Promise!vars)
  <2>1. Promise!Close(p)
    BY <1>5 DEF Close, Crash, world, Promise!Close
  <2> QED  BY <2>1 DEF Promise!Next
<1>6. CASE ForgetTime
  <2>1. node'.lastJob = node.lastJob
    BY <1>6 DEF ForgetTime, IInv, TypeOK, NodeRow
  <2> QED  BY <1>6, <2>1, Hidden DEF ForgetTime, world
<1>7. CASE Tick
  <2>1. age' = [v \in Version |-> IF v = version THEN 0 ELSE Promise!Older(age[v])]
    BY <1>7, AbstractTime DEF Tick, IInv, TypeOK
  <2>2. node'.lastJob = node.lastJob
    BY <1>7 DEF Tick, IInv, TypeOK, NodeRow
  <2>3. Promise!Tick
    BY <1>7, <2>1, <2>2 DEF Tick, Promise!Tick
  <2> QED  BY <2>3 DEF Promise!Next
<1>8. ASSUME version < MaxVersion, Modified, UNCHANGED <<node, page, raced>>
      PROVE  [Promise!Next]_(Promise!vars)
  <2>1. version' \in Version
    BY <1>8 DEF Modified, IInv, TypeOK, CacheAssumption
  <2>2. Promise!Change
    BY <1>8, <2>1 DEF Modified, Promise!Change
  <2> QED  BY <2>2 DEF Promise!Next
<1>9. CASE NodeChanges
  BY <1>8, <1>9 DEF NodeChanges
<1>10. ASSUME NEW j \in JobId, NEW o \in {"success", "error", "canceled"},
              JobEnds(j, o) \/ JobArchived(j)
       PROVE  [Promise!Next]_(Promise!vars)
  BY <1>8, <1>10, Hidden DEF JobEnds, JobArchived
<1> QED  BY <1>1, <1>2, <1>3, <1>4, <1>5, <1>6, <1>7, <1>9, <1>10, LoadRefines, FetchRefines
         DEF Next

(* A page of a node shows what the node is, or was at most                 *)
(* LAZY_CACHE_REFRESH ago with no job pending, unless refreshes overtook   *)
(* each other: load_info() and refresh() implement LazyCache.              *)
THEOREM Implements == Spec => KeepsPromise
<1>1. Init => Promise!Init
  BY InitRefines, CacheAssumption
<1>2. IInv /\ [Next]_vars => [Promise!Next]_(Promise!vars)
  BY StepRefines, CacheAssumption
<1> QED  BY <1>1, <1>2, Inductive, PTL DEF Spec, KeepsPromise, Promise!Spec
=============================================================================
