----------------------------- MODULE RapiCache -----------------------------
(***************************************************************************)
(* The clients of the remote API: every process caches one per cluster,    *)
(* under the hash of the credentials, and a virtual machine, node or job   *)
(* finds it by the hash its own row carries.  The row has it from the      *)
(* cluster at its creation and whenever the cluster is saved.              *)
(*                                                                         *)
(* A save() writes the whole row; it takes effect when its request         *)
(* commits.  A query in the middle of a request reads what is committed    *)
(* at that time, and the request's own writes.                             *)
(***************************************************************************)
EXTENDS Naturals

CONSTANTS
    Proc,       \* web server processes
    Cluster,    \* keys of the clusters table
    Cred,       \* credentials: records of user name, password and host name
    Hash,       \* their hashes
    HashOf,     \* create_hash()
    NoCred, NoHash

ASSUME ClusterAssumption == Cluster # {}
ASSUME CredAssumption ==
    \A cred \in Cred :
        cred = [user |-> cred.user, password |-> cred.password, host |-> cred.host]
ASSUME HashAssumption == HashOf \in [Cred -> Hash]
ASSUME NullAssumption == NoCred \notin Cred /\ NoHash \notin Hash

VARIABLES
    cluster,    \* the credentials of each cluster, NoCred when it has no row
    child,      \* the cluster_hash of an object of each cluster (bound: one)
    cache,      \* RAPI_CACHE of each process
    hashes,     \* RAPI_CACHE_HASHES of each process
    keys,       \* the keys the table has handed out; none is handed out twice
    req         \* per process, the request in flight

vars == <<cluster, child, cache, hashes, keys, req>>

(* of: the cluster; hash: the one in the memory of the object loaded;      *)
(* cred: the credentials of a cluster loaded; saved: save() was called;    *)
(* since: what the credentials were when the request began.                *)
Request == [view: {"none", "child", "cluster"}, of: Cluster, hash: Hash \cup {NoHash},
            cred: Cred \cup {NoCred}, saved: BOOLEAN, since: Cred \cup {NoCred}]

Idle == [view |-> "none", of |-> CHOOSE c \in Cluster : TRUE, hash |-> NoHash,
         cred |-> NoCred, saved |-> FALSE, since |-> NoCred]

TypeOK == /\ cluster \in [Cluster -> Cred \cup {NoCred}]
          /\ child \in [Cluster -> Hash \cup {NoHash}]
          /\ cache \in [Proc -> [Hash -> Cred \cup {NoCred}]]
          /\ hashes \in [Proc -> [Cluster -> Hash \cup {NoHash}]]
          /\ keys \subseteq Cluster
          /\ req \in [Proc -> Request]

Init == /\ cluster = [c \in Cluster |-> NoCred]
        /\ child = [c \in Cluster |-> NoHash]
        /\ cache = [p \in Proc |-> [h \in Hash |-> NoCred]]
        /\ hashes = [p \in Proc |-> [c \in Cluster |-> NoHash]]
        /\ keys = {}
        /\ req = [p \in Proc |-> Idle]

----------------------------------------------------------------------------
(* Credentials.                                                            *)

NoText == ""

(* The constructor of the client raises for half of the credentials.  A    *)
(* password that is the word None is none, too, when get_rapi() calls it.  *)
Rejected ==
    {cred \in Cred : (cred.user = NoText) # (cred.password \in {NoText, "None"})}

(* EditClusterForm.clean(): a blank password is the old one as long as the *)
(* user name stays; one without the other is refused.                      *)
KeepsPassword(old, typed) ==
    old # NoCred /\ typed.user # NoText /\ typed.password = NoText /\ typed.user = old.user

Cleaned(old, typed) ==
    IF KeepsPassword(old, typed) THEN [typed EXCEPT !.password = old.password] ELSE typed

FormAccepts(old, typed) ==
    (typed.user = NoText) <=> (Cleaned(old, typed).password = NoText)

(* What may be typed: the password of an existing cluster is not shown.    *)
Typed == Cred \cup {[cred EXCEPT !.password = NoText] : cred \in Cred}

----------------------------------------------------------------------------
(* get_rapi().                                                             *)

Cached(p, h) == h \in Hash /\ cache[p][h] # NoCred

(* The credentials a query of this request reads.                          *)
Fresh(q) == IF q.saved THEN q.cred ELSE cluster[q.of]

(* A new client: the one the cluster had is dropped from the cache first,  *)
(* and that raises KeyError when the cache does not have it.               *)
Evicted(p, c) == hashes[p][c]
EvictFails(p, c) == Evicted(p, c) # NoHash /\ ~Cached(p, Evicted(p, c))

(* Mutated form of EvictedCache: old clients stay. *)
EvictedCache_Keeps(p, c) == cache[p]

EvictedCache(p, c) == [h \in Hash |-> IF h = Evicted(p, c) THEN NoCred ELSE cache[p][h]]

Misses(p) == LET q == req[p] IN
    /\ ~Cached(p, q.hash)
    /\ Fresh(q) # NoCred => ~Cached(p, HashOf[Fresh(q)])

(* Nothing is cached for a cluster without a row: the query for its        *)
(* credentials finds none and raises.                                      *)
Builds(p) == Misses(p) /\ Fresh(req[p]) # NoCred /\ ~EvictFails(p, req[p].of)

(* Mutated form of NewKey: the client is kept under the hash it was asked for. *)
NewKey_Asked(q) == q.hash

NewKey(q) == HashOf[Fresh(q)]

(* The credentials of the client that the request gets.                    *)
Client(p) == LET q == req[p] IN
    IF Cached(p, q.hash) THEN cache[p][q.hash]
    ELSE IF Fresh(q) = NoCred THEN NoCred
    ELSE IF Cached(p, HashOf[Fresh(q)]) THEN cache[p][HashOf[Fresh(q)]]
    ELSE Fresh(q)

(* A client that is cached already changes nothing.                        *)
GetRapi(p) ==
    LET q == req[p]  c == q.of IN
    /\ q.view # "none"
    /\ Builds(p) /\ Fresh(q) \notin Rejected
    /\ cache' = [cache EXCEPT ![p] = [EvictedCache(p, c) EXCEPT ![NewKey(q)] = Fresh(q)]]
    /\ hashes' = [hashes EXCEPT ![p][c] = NewKey(q)]
    /\ UNCHANGED <<cluster, child, keys, req>>

(* The constructor raises after the old client is gone; so does the        *)
(* eviction, or the query.  The request dies.                              *)
GetRapiRaises(p) ==
    LET q == req[p] IN
    /\ q.view # "none"
    /\ Misses(p)
    /\ \/ Builds(p) /\ Fresh(q) \in Rejected
          /\ cache' = [cache EXCEPT ![p] = EvictedCache(p, q.of)]
       \/ ~Builds(p) /\ UNCHANGED cache
    /\ req' = [req EXCEPT ![p] = Idle]
    /\ UNCHANGED <<cluster, child, hashes, keys>>

----------------------------------------------------------------------------
(* Requests.                                                               *)

OpenChild(p, c) ==
    /\ req[p].view = "none" /\ child[c] # NoHash
    /\ req' = [req EXCEPT ![p] = [Idle EXCEPT !.view = "child", !.of = c, !.hash = child[c],
                                              !.since = cluster[c]]]
    /\ UNCHANGED <<cluster, child, cache, hashes, keys>>

OpenCluster(p, c) ==
    /\ req[p].view = "none" /\ cluster[c] # NoCred
    /\ req' = [req EXCEPT ![p] = [Idle EXCEPT !.view = "cluster", !.of = c,
                                              !.hash = HashOf[cluster[c]],
                                              !.cred = cluster[c], !.since = cluster[c]]]
    /\ UNCHANGED <<cluster, child, cache, hashes, keys>>

(* The host name of a cluster is unique.                                   *)
Free(c, cred) == \A d \in Cluster \ {c} : cluster[d] # NoCred => cluster[d].host # cred.host

(* save(): once for a refresh, and perhaps again for an edit.              *)
SaveCluster(p, cred) ==
    /\ req[p].view = "cluster"
    /\ req[p].saved => req[p].cred = req[p].since
    /\ Free(req[p].of, cred)
    /\ req' = [req EXCEPT ![p].cred = cred, ![p].hash = HashOf[cred], ![p].saved = TRUE]
    /\ UNCHANGED <<cluster, child, cache, hashes, keys>>

(* The save() of a refresh, with the credentials the request has loaded.   *)
RefreshCluster(p) == req[p].cred # NoCred /\ SaveCluster(p, req[p].cred)

(* The save() of the form.                                                 *)
EditCluster(p, typed) ==
    /\ FormAccepts(req[p].cred, typed)
    /\ Cleaned(req[p].cred, typed) \in Cred
    /\ SaveCluster(p, Cleaned(req[p].cred, typed))

(* The form of a new cluster; a key is not reused after a rollback.        *)
AddCluster(p, c, cred) ==
    /\ req[p].view = "none" /\ c \notin keys
    /\ FormAccepts(NoCred, cred) /\ Free(c, cred)
    /\ keys' = keys \cup {c}
    /\ req' = [req EXCEPT ![p] = [Idle EXCEPT !.view = "cluster", !.of = c, !.cred = cred,
                                              !.hash = HashOf[cred], !.saved = TRUE]]
    /\ UNCHANGED <<cluster, child, cache, hashes>>

(* Mutated form of SignalledHash: update_cluster_hash is not connected. *)
SignalledHash_None(q) == {child[q.of]}

(* Mutated form of SignalledHash: the objects get the hash from before. *)
SignalledHash_Old(q) ==
    IF child[q.of] # NoHash THEN {HashOf[q.since]} ELSE {NoHash, q.hash}

(* update_cluster_hash writes the objects of a cluster that was saved; a   *)
(* new one takes the hash of the cluster the request has loaded.           *)
SignalledHash(q) == IF child[q.of] # NoHash THEN {q.hash} ELSE {NoHash, q.hash}

CommitCluster(p) ==
    LET q == req[p] IN
    /\ q.view = "cluster" /\ q.saved /\ Free(q.of, q.cred)
    /\ cluster' = [cluster EXCEPT ![q.of] = q.cred]
    /\ \E h \in SignalledHash(q) : child' = [child EXCEPT ![q.of] = h]
    /\ req' = [req EXCEPT ![p] = Idle]
    /\ UNCHANGED <<cache, hashes, keys>>

(* save() of a new virtual machine, node or job.                           *)
NewHash(q) == q.hash

CommitNewChild(p) ==
    LET q == req[p] IN
    /\ q.view = "cluster" /\ ~q.saved
    /\ child[q.of] = NoHash /\ cluster[q.of] # NoCred
    /\ child' = [child EXCEPT ![q.of] = NewHash(q)]
    /\ req' = [req EXCEPT ![p] = Idle]
    /\ UNCHANGED <<cluster, cache, hashes, keys>>

(* The whole row of a child that Ganeti has changed.                       *)
CommitChild(p) ==
    LET q == req[p] IN
    /\ q.view = "child" /\ cluster[q.of] # NoCred
    /\ child' = [child EXCEPT ![q.of] = q.hash]
    /\ req' = [req EXCEPT ![p] = Idle]
    /\ UNCHANGED <<cluster, cache, hashes, keys>>

(* A request that writes neither, or that dies.                            *)
Finish(p) == /\ req[p].view # "none"
             /\ req' = [req EXCEPT ![p] = Idle]
             /\ UNCHANGED <<cluster, child, cache, hashes, keys>>

(* The DELETE of the cluster's page; its objects go with it.               *)
DeleteCluster(p) ==
    LET q == req[p] IN
    /\ q.view = "cluster"
    /\ cluster' = [cluster EXCEPT ![q.of] = NoCred]
    /\ child' = [child EXCEPT ![q.of] = NoHash]
    /\ req' = [req EXCEPT ![p] = Idle]
    /\ UNCHANGED <<cache, hashes, keys>>

(* The server recycles the process.                                        *)
Restart(p) == /\ cache' = [cache EXCEPT ![p] = [h \in Hash |-> NoCred]]
              /\ hashes' = [hashes EXCEPT ![p] = [c \in Cluster |-> NoHash]]
              /\ req' = [req EXCEPT ![p] = Idle]
              /\ UNCHANGED <<cluster, child, keys>>

Next == \E p \in Proc :
          \/ \E c \in Cluster : \/ OpenChild(p, c) \/ OpenCluster(p, c)
                                \/ \E cred \in Cred : AddCluster(p, c, cred)
          \/ RefreshCluster(p)
          \/ \E typed \in Typed : EditCluster(p, typed)
          \/ GetRapi(p) \/ GetRapiRaises(p)
          \/ CommitCluster(p) \/ CommitNewChild(p) \/ CommitChild(p)
          \/ Finish(p) \/ DeleteCluster(p) \/ Restart(p)

Spec == Init /\ [][Next]_vars

----------------------------------------------------------------------------
(* The form lets nobody save a user name without a password, or a password *)
(* without a user name, though a blank password may stand for the old one. *)
Whole(cred) == (cred.user = NoText) <=> (cred.password = NoText)

CredentialsWhole ==
    /\ \A c \in Cluster : cluster[c] # NoCred => Whole(cluster[c])
    /\ \A p \in Proc : req[p].cred # NoCred => Whole(req[p].cred)

(* No client is left behind: each is still the one that RAPI_CACHE_HASHES  *)
(* has for some cluster, so that the next new client of that cluster will  *)
(* replace it, whatever fails between the del and the assignments.         *)
NoClientLeaks ==
    \A p \in Proc, h \in Hash : cache[p][h] # NoCred => \E c \in Cluster : hashes[p][c] = h

(* The two dictionaries agree, if no constructor raises: a process caches  *)
(* exactly one client for each cluster it has an entry for, and no other,  *)
(* so that the del of an old client (utils/__init__.py:87) finds it.       *)
CacheIndexed ==
    \A p \in Proc :
        /\ \A h \in Hash : cache[p][h] # NoCred <=> \E c \in Cluster : hashes[p][c] = h
        /\ \A c, d \in Cluster : hashes[p][c] = hashes[p][d] /\ c # d => hashes[p][c] = NoHash

(* A client is cached under the hash of its own credentials, though it is  *)
(* often asked for by a hash that is out of date, and even when it was     *)
(* built for a save that was rolled back.                                  *)
CacheKeyed ==
    \A p \in Proc, h \in Hash : cache[p][h] # NoCred => HashOf[cache[p][h]] = h

(* "Updates the Cluster hash for all of it's VirtualMachines, Nodes, and   *)
(* Jobs" (ganeti_web/models.py:71): a row carries its cluster's hash.      *)
RowsCurrent ==
    \A c \in Cluster : child[c] # NoHash => cluster[c] # NoCred /\ child[c] = HashOf[cluster[c]]

(* "it ensures we are retrieving the latest credentials.  This helps avoid *)
(* stale credentials" (utils/__init__.py:65): the client a request gets    *)
(* has credentials that held at some time since the request began.         *)
ClientCurrent ==
    \A p \in Proc : req[p].view # "none" =>
        Client(p) \in {NoCred, req[p].since, cluster[req[p].of], Fresh(req[p])}
=============================================================================
