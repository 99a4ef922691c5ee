-------------------------- MODULE RapiCache_proofs --------------------------
(* Proofs about RapiCache, for any number of processes and clusters, any   *)
(* credentials and any hash function, one with collisions included; and    *)
(* about the client it hands out, RapiClient, for any calls and any number *)
(* of attempts.                                                            *)
EXTENDS RapiCache, RapiClient, FiniteSetTheorems, FunctionTheorems, TLAPS

(* The dictionaries of one process.                                        *)
Indexed(cached, index) ==
    /\ \A h \in Hash : cached[h] # NoCred <=> \E c \in Cluster : index[c] = h
    /\ \A c, d \in Cluster : index[c] = index[d] /\ c # d => index[c] = NoHash

Keyed(cached) == \A h \in Hash : cached[h] # NoCred => HashOf[cached[h]] = h

EmptyCache == [h \in Hash |-> NoCred]
EmptyIndex == [c \in Cluster |-> NoHash]

(* The record of a process with no request.                                *)
LEMMA IdleType == Idle \in Request
BY ClusterAssumption DEF Idle, Request

(* Empty dictionaries agree and hold no wrong key.                         *)
LEMMA EmptyDictionaries ==
    /\ EmptyCache \in [Hash -> Cred \cup {NoCred}]
    /\ EmptyIndex \in [Cluster -> Hash \cup {NoHash}]
    /\ Indexed(EmptyCache, EmptyIndex) /\ Keyed(EmptyCache)
BY NullAssumption DEF EmptyCache, EmptyIndex, Indexed, Keyed

(* At the start everything is empty.                                       *)
LEMMA InitType == Init => TypeOK
BY IdleType DEF Init, TypeOK

(* What a query reads are credentials, or nothing.                         *)
LEMMA FreshType ==
    ASSUME TypeOK, NEW p \in Proc
    PROVE  /\ req[p] \in Request /\ req[p].of \in Cluster
           /\ Fresh(req[p]) \in Cred \cup {NoCred}
           /\ Fresh(req[p]) # NoCred => NewKey(req[p]) \in Hash
           /\ EvictedCache(p, req[p].of) \in [Hash -> Cred \cup {NoCred}]
<1>1. req[p] \in Request BY DEF TypeOK
<1>2. req[p].of \in Cluster /\ Fresh(req[p]) \in Cred \cup {NoCred}
  BY <1>1 DEF Request, Fresh, TypeOK
<1>3. EvictedCache(p, req[p].of) \in [Hash -> Cred \cup {NoCred}]
  BY DEF EvictedCache, TypeOK
<1> QED BY <1>1, <1>2, <1>3, HashAssumption DEF NewKey

(* Every variable keeps its type.                                          *)
LEMMA NextType == TypeOK /\ [Next]_vars => TypeOK'
<1> SUFFICES ASSUME TypeOK, [Next]_vars PROVE TypeOK' OBVIOUS
<1>1. ASSUME NEW p \in Proc, NEW c \in Cluster, OpenChild(p, c) \/ OpenCluster(p, c) PROVE TypeOK'
  <2>1. CASE OpenChild(p, c)
    <3>1. [Idle EXCEPT !.view = "child", !.of = c, !.hash = child[c], !.since = cluster[c]]
            \in Request
      BY IdleType DEF TypeOK, Request
    <3> QED BY <2>1, <3>1 DEF OpenChild, TypeOK
  <2>2. CASE OpenCluster(p, c)
    <3>1. cluster[c] \in Cred /\ HashOf[cluster[c]] \in Hash
      BY <2>2, HashAssumption DEF OpenCluster, TypeOK
    <3>2. [Idle EXCEPT !.view = "cluster", !.of = c, !.hash = HashOf[cluster[c]],
                       !.cred = cluster[c], !.since = cluster[c]] \in Request
      BY <3>1, IdleType DEF Request
    <3> QED BY <2>2, <3>2 DEF OpenCluster, TypeOK
  <2> QED BY <1>1, <2>1, <2>2
<1>2. ASSUME NEW p \in Proc, NEW c \in Cluster, NEW cred \in Cred, AddCluster(p, c, cred) PROVE TypeOK'
  <2>1. HashOf[cred] \in Hash BY HashAssumption
  <2>2. [Idle EXCEPT !.view = "cluster", !.of = c, !.cred = cred, !.hash = HashOf[cred],
                     !.saved = TRUE] \in Request
    BY <2>1, IdleType DEF Request
  <2> QED BY <1>2, <2>2 DEF AddCluster, TypeOK
<1>3. ASSUME NEW p \in Proc, NEW cred \in Cred, SaveCluster(p, cred) PROVE TypeOK'
  <2>1. HashOf[cred] \in Hash /\ req[p] \in Request BY HashAssumption DEF TypeOK
  <2>2. [req[p] EXCEPT !.cred = cred, !.hash = HashOf[cred], !.saved = TRUE] \in Request
    BY <2>1 DEF Request
  <2>3. req' = [req EXCEPT ![p] = [req[p] EXCEPT !.cred = cred, !.hash = HashOf[cred],
                                                 !.saved = TRUE]]
    BY <1>3 DEF SaveCluster
  <2> QED BY <1>3, <2>2, <2>3 DEF SaveCluster, TypeOK
<1>10. ASSUME NEW p \in Proc,
              RefreshCluster(p) \/ \E typed \in Typed : EditCluster(p, typed)
       PROVE  TypeOK'
  <2>1. req[p] \in Request BY DEF TypeOK
  <2>2. req[p].cred # NoCred => req[p].cred \in Cred BY <2>1 DEF Request
  <2>3. \E cred \in Cred : SaveCluster(p, cred)
    BY <1>10, <2>2 DEF RefreshCluster, EditCluster
  <2> QED BY <1>3, <2>3
<1>4. ASSUME NEW p \in Proc, GetRapi(p) PROVE TypeOK'
  <2>1. /\ Fresh(req[p]) \in Cred /\ NewKey(req[p]) \in Hash
        /\ EvictedCache(p, req[p].of) \in [Hash -> Cred \cup {NoCred}]
    BY <1>4, FreshType DEF GetRapi, Builds
  <2> QED BY <1>4, <2>1, FreshType DEF GetRapi, TypeOK
<1>5. ASSUME NEW p \in Proc, GetRapiRaises(p) PROVE TypeOK'
  BY <1>5, FreshType, IdleType DEF GetRapiRaises, TypeOK
<1>6. ASSUME NEW p \in Proc, CommitCluster(p) \/ DeleteCluster(p) PROVE TypeOK'
  <2>1. req[p] \in Request BY DEF TypeOK
  <2>2. req[p].hash \in Hash \cup {NoHash} /\ req[p].cred \in Cred \cup {NoCred}
    BY <2>1 DEF Request
  <2>3. CASE CommitCluster(p)
    <3>1. PICK h \in SignalledHash(req[p]) : child' = [child EXCEPT ![req[p].of] = h]
      BY <2>3 DEF CommitCluster
    <3>2. h \in Hash \cup {NoHash} BY <2>2 DEF SignalledHash
    <3>3. child' \in [Cluster -> Hash \cup {NoHash}] BY <3>1, <3>2 DEF TypeOK
    <3>4. cluster' \in [Cluster -> Cred \cup {NoCred}]
      BY <2>2, <2>3 DEF CommitCluster, TypeOK
    <3> QED BY <2>3, <3>3, <3>4, IdleType DEF CommitCluster, TypeOK
  <2>4. CASE DeleteCluster(p)
    BY <2>4, IdleType DEF DeleteCluster, TypeOK
  <2> QED BY <1>6, <2>3, <2>4
<1>7. ASSUME NEW p \in Proc, CommitNewChild(p) \/ CommitChild(p) PROVE TypeOK'
  <2>1. req[p] \in Request BY DEF TypeOK
  <2>2. req[p].hash \in Hash \cup {NoHash} BY <2>1 DEF Request
  <2>3. /\ child' = [child EXCEPT ![req[p].of] = req[p].hash]
        /\ req' = [req EXCEPT ![p] = Idle]
        /\ UNCHANGED <<cluster, cache, hashes, keys>>
    BY <1>7 DEF CommitNewChild, CommitChild, NewHash
  <2> QED BY <2>2, <2>3, IdleType DEF TypeOK
<1>8. ASSUME NEW p \in Proc, Finish(p) \/ Restart(p) PROVE TypeOK'
  <2>1. CASE Finish(p) BY <2>1, IdleType DEF Finish, TypeOK
  <2>2. CASE Restart(p)
    <3>1. /\ cache' = [cache EXCEPT ![p] = EmptyCache]
          /\ hashes' = [hashes EXCEPT ![p] = EmptyIndex]
      BY <2>2 DEF Restart, EmptyCache, EmptyIndex
    <3> QED BY <2>2, <3>1, IdleType, EmptyDictionaries DEF Restart, TypeOK
  <2> QED BY <1>8, <2>1, <2>2
<1>9. CASE UNCHANGED vars BY <1>9 DEF vars, TypeOK
<1> QED BY <1>1, <1>2, <1>10, <1>4, <1>5, <1>6, <1>7, <1>8, <1>9 DEF Next

(* A new client goes under the hash of its credentials, even when the      *)
(* request asked with another.                                             *)
LEMMA KeyedStep == TypeOK /\ CacheKeyed /\ [Next]_vars => CacheKeyed'
<1> SUFFICES ASSUME TypeOK, CacheKeyed, [Next]_vars, NEW r \in Proc PROVE Keyed(cache'[r])
  BY DEF CacheKeyed, Keyed
<1>1. Keyed(cache[r]) BY DEF CacheKeyed, Keyed
<1>2. \A c : Keyed(EvictedCache(r, c)) BY <1>1 DEF Keyed, EvictedCache
<1>3. ASSUME NEW p \in Proc, GetRapi(p) PROVE Keyed(cache'[r])
  <2> DEFINE q == req[p]
             new == [EvictedCache(p, q.of) EXCEPT ![NewKey(q)] = Fresh(q)]
  <2>1. NewKey(q) \in Hash /\ HashOf[Fresh(q)] = NewKey(q) /\ DOMAIN EvictedCache(p, q.of) = Hash
    BY <1>3, FreshType DEF GetRapi, Builds, NewKey, EvictedCache
  <2>2. p = r => Keyed(new)
    BY <1>2, <2>1 DEF Keyed
  <2>3. cache'[r] = IF p = r THEN new ELSE cache[r]
    BY <1>3 DEF GetRapi, TypeOK
  <2> QED BY <1>1, <2>2, <2>3
<1>4. ASSUME NEW p \in Proc, GetRapiRaises(p) PROVE Keyed(cache'[r])
  <2>1. cache'[r] = cache[r] \/ cache'[r] = EvictedCache(r, req[p].of)
    BY <1>4 DEF GetRapiRaises, TypeOK
  <2> QED BY <1>1, <1>2, <2>1
<1>5. ASSUME NEW p \in Proc, Restart(p) PROVE Keyed(cache'[r])
  <2>1. cache'[r] \in {cache[r], EmptyCache} BY <1>5 DEF Restart, TypeOK, EmptyCache
  <2> QED BY <1>1, <2>1, EmptyDictionaries
<1>6. ASSUME UNCHANGED cache PROVE Keyed(cache'[r])
  BY <1>1, <1>6
<1> QED BY <1>3, <1>4, <1>5, <1>6
        DEF Next, vars, OpenChild, OpenCluster, AddCluster, RefreshCluster, EditCluster,
            SaveCluster, CommitCluster,
            CommitNewChild, CommitChild, Finish, DeleteCluster

(* The client of a cluster leaves the cache before its entry is replaced.  *)
LEMMA LeakStep == TypeOK /\ NoClientLeaks /\ [Next]_vars => NoClientLeaks'
<1> SUFFICES ASSUME TypeOK, NoClientLeaks, [Next]_vars, NEW r \in Proc, NEW h \in Hash,
                    cache'[r][h] # NoCred
             PROVE  \E c \in Cluster : hashes'[r][c] = h
  BY DEF NoClientLeaks
<1>1. cache[r][h] # NoCred => \E c \in Cluster : hashes[r][c] = h BY DEF NoClientLeaks
<1>2. ASSUME NEW p \in Proc, GetRapi(p) PROVE \E c \in Cluster : hashes'[r][c] = h
  <2> DEFINE q == req[p]
             c == q.of
             key == NewKey(q)
  <2>1. c \in Cluster /\ key \in Hash /\ Fresh(q) # NoCred
    BY <1>2, FreshType DEF GetRapi, Builds
  <2>2. CASE p = r
    <3>1. /\ cache'[r][h] = IF h = key THEN Fresh(q)
                            ELSE IF h = hashes[r][c] THEN NoCred ELSE cache[r][h]
          /\ \A d \in Cluster : hashes'[r][d] = IF d = c THEN key ELSE hashes[r][d]
      BY <1>2, <2>1, <2>2 DEF GetRapi, EvictedCache, Evicted, TypeOK
    <3> HIDE DEF q, c, key
    <3>2. CASE h = key BY <2>1, <3>1, <3>2
    <3>3. CASE h # key
      <4>1. PICK d \in Cluster : hashes[r][d] = h BY <1>1, <3>1, <3>3
      <4>2. d # c BY <3>1, <3>3, <4>1
      <4> QED BY <3>1, <4>1, <4>2
    <3> QED BY <3>2, <3>3
  <2>3. CASE p # r
    <3>1. cache'[r] = cache[r] /\ hashes'[r] = hashes[r] BY <1>2, <2>3 DEF GetRapi, TypeOK
    <3> QED BY <1>1, <3>1
  <2> QED BY <2>2, <2>3
<1>3. ASSUME NEW p \in Proc, GetRapiRaises(p) PROVE \E c \in Cluster : hashes'[r][c] = h
  <2>1. cache'[r] = cache[r] \/ cache'[r] = EvictedCache(r, req[p].of)
    BY <1>3 DEF GetRapiRaises, TypeOK
  <2>2. cache[r][h] # NoCred BY <2>1 DEF EvictedCache
  <2>3. hashes' = hashes BY <1>3 DEF GetRapiRaises
  <2> QED BY <1>1, <2>2, <2>3
<1>4. ASSUME NEW p \in Proc, Restart(p) PROVE \E c \in Cluster : hashes'[r][c] = h
  <2>1. \/ cache'[r] = EmptyCache
        \/ cache'[r] = cache[r] /\ hashes'[r] = hashes[r]
    BY <1>4 DEF Restart, TypeOK, EmptyCache
  <2> QED BY <1>1, <2>1 DEF EmptyCache
<1>5. ASSUME UNCHANGED <<cache, hashes>> PROVE \E c \in Cluster : hashes'[r][c] = h
  BY <1>1, <1>5
<1> QED BY <1>2, <1>3, <1>4, <1>5
        DEF Next, vars, OpenChild, OpenCluster, AddCluster, RefreshCluster, EditCluster,
            SaveCluster, CommitCluster,
            CommitNewChild, CommitChild, Finish, DeleteCluster

(* While no constructor raises, an eviction and the insertion after it     *)
(* keep the dictionaries in step.                                          *)
LEMMA IndexedStep ==
    ASSUME Rejected = {}, TypeOK, CacheIndexed, [Next]_vars
    PROVE  CacheIndexed'
<1> SUFFICES ASSUME NEW r \in Proc PROVE Indexed(cache'[r], hashes'[r])
  BY DEF CacheIndexed, Indexed
<1>1. Indexed(cache[r], hashes[r]) BY DEF CacheIndexed, Indexed
<1>2. ASSUME NEW p \in Proc, GetRapi(p) PROVE Indexed(cache'[r], hashes'[r])
  <2> DEFINE q == req[p]
             c == q.of
             key == NewKey(q)
             cached == [EvictedCache(p, c) EXCEPT ![key] = Fresh(q)]
             index == [hashes[p] EXCEPT ![c] = key]
  <2>1. /\ c \in Cluster /\ key \in Hash /\ Fresh(q) # NoCred /\ ~Cached(p, key)
        /\ ~EvictFails(p, c)
    BY <1>2, FreshType DEF GetRapi, Builds, Misses, NewKey
  <2>2. cache'[r] = (IF p = r THEN cached ELSE cache[r])
        /\ hashes'[r] = (IF p = r THEN index ELSE hashes[r])
    BY <1>2 DEF GetRapi, TypeOK
  <2>3. CASE p = r
    <3>1. \A h \in Hash : cached[h] = IF h = key THEN Fresh(q)
                                      ELSE IF h = hashes[r][c] THEN NoCred ELSE cache[r][h]
      BY <2>1, <2>3 DEF EvictedCache, Evicted
    <3>2. \A d \in Cluster : index[d] = IF d = c THEN key ELSE hashes[r][d]
      BY <2>1, <2>3 DEF TypeOK
    <3>3. cache[r][key] = NoCred BY <2>1, <2>3 DEF Cached
    <3>4. \A d \in Cluster : hashes[r][d] # key BY <1>1, <2>1, <3>3 DEF Indexed
    <3> HIDE DEF cached, index, key, q, c
    <3>5. ASSUME NEW h \in Hash PROVE cached[h] # NoCred <=> \E d \in Cluster : index[d] = h
      <4>1. CASE h = key BY <2>1, <3>1, <3>2, <4>1
      <4>2. CASE h # key /\ h = hashes[r][c]
        <5>1. \A d \in Cluster : d # c => hashes[r][d] # h
          BY <1>1, <2>1, <4>2, NullAssumption DEF Indexed
        <5> QED BY <3>1, <3>2, <4>2, <5>1
      <4>3. CASE h # key /\ h # hashes[r][c]
        <5>1. cached[h] = cache[r][h] BY <3>1, <4>3
        <5>2. (\E d \in Cluster : index[d] = h) <=> (\E d \in Cluster : hashes[r][d] = h)
          BY <2>1, <3>2, <4>3
        <5> QED BY <1>1, <5>1, <5>2 DEF Indexed
      <4> QED BY <4>1, <4>2, <4>3
    <3>6. \A d, e \in Cluster : index[d] = index[e] /\ d # e => index[d] = NoHash
      BY <1>1, <3>2, <3>4 DEF Indexed
    <3> QED BY <2>2, <2>3, <3>5, <3>6 DEF Indexed
  <2> QED BY <1>1, <2>2, <2>3
<1>3. ASSUME NEW p \in Proc, GetRapiRaises(p) PROVE Indexed(cache'[r], hashes'[r])
  <2>1. UNCHANGED <<cache, hashes>> BY <1>3 DEF GetRapiRaises
  <2> QED BY <1>1, <2>1
<1>4. ASSUME NEW p \in Proc, Restart(p) PROVE Indexed(cache'[r], hashes'[r])
  <2>1. \/ cache'[r] = cache[r] /\ hashes'[r] = hashes[r]
        \/ cache'[r] = EmptyCache /\ hashes'[r] = EmptyIndex
    BY <1>4 DEF Restart, TypeOK, EmptyCache, EmptyIndex
  <2> QED BY <1>1, <2>1, EmptyDictionaries
<1>5. ASSUME UNCHANGED <<cache, hashes>> PROVE Indexed(cache'[r], hashes'[r])
  BY <1>1, <1>5
<1> QED BY <1>2, <1>3, <1>4, <1>5
        DEF Next, vars, OpenChild, OpenCluster, AddCluster, RefreshCluster, EditCluster,
            SaveCluster, CommitCluster,
            CommitNewChild, CommitChild, Finish, DeleteCluster

(* What the form accepts is whole.                                         *)
LEMMA AcceptedWhole ==
    ASSUME NEW old, NEW typed \in Typed, FormAccepts(old, typed)
    PROVE  Whole(Cleaned(old, typed))
<1>1. typed = [user |-> typed.user, password |-> typed.password, host |-> typed.host]
  <2>1. CASE typed \in Cred BY <2>1, CredAssumption
  <2>2. CASE \E cred \in Cred : typed = [cred EXCEPT !.password = NoText]
    <3>1. PICK cred \in Cred : typed = [cred EXCEPT !.password = NoText] BY <2>2
    <3>2. cred = [user |-> cred.user, password |-> cred.password, host |-> cred.host]
      BY CredAssumption
    <3>3. typed = [user |-> cred.user, password |-> NoText, host |-> cred.host]
      BY <3>1, <3>2
    <3> QED BY <3>3
  <2> QED BY <2>1, <2>2 DEF Typed
<1>2. Cleaned(old, typed).user = typed.user
  BY <1>1 DEF Cleaned
<1> QED BY <1>2 DEF FormAccepts, Whole

(* Requests carry whole credentials from the form to the table.            *)
LEMMA WholeStep == TypeOK /\ CredentialsWhole /\ [Next]_vars => CredentialsWhole'
<1> SUFFICES ASSUME TypeOK, CredentialsWhole, [Next]_vars PROVE CredentialsWhole'
  OBVIOUS
<1> USE DEF CredentialsWhole, TypeOK
<1>1. ASSUME NEW p \in Proc, NEW c \in Cluster, OpenChild(p, c) \/ OpenCluster(p, c)
      PROVE  CredentialsWhole'
  <2>1. PICK q \in {[Idle EXCEPT !.view = "child", !.of = c, !.hash = child[c],
                                  !.since = cluster[c]],
                    [Idle EXCEPT !.view = "cluster", !.of = c, !.hash = HashOf[cluster[c]],
                                 !.cred = cluster[c], !.since = cluster[c]]} :
               req' = [req EXCEPT ![p] = q] /\ cluster' = cluster
    BY <1>1 DEF OpenChild, OpenCluster
  <2>2. q.cred \in {NoCred, cluster[c]} BY <2>1 DEF Idle
  <2>3. q.cred # NoCred => Whole(q.cred) BY <2>2
  <2>4. \A r \in Proc : req'[r] \in {req[r], q} BY <2>1
  <2> QED BY <2>1, <2>3, <2>4
<1>2. ASSUME NEW p \in Proc, NEW c \in Cluster, NEW cred \in Cred, AddCluster(p, c, cred)
      PROVE  CredentialsWhole'
  <2>1. cred \in Typed /\ Cleaned(NoCred, cred) = cred
    BY DEF Typed, Cleaned, KeepsPassword
  <2>2. Whole(cred) BY <1>2, <2>1, AcceptedWhole DEF AddCluster
  <2> QED BY <1>2, <2>2 DEF AddCluster, Idle
<1>3. ASSUME NEW p \in Proc, NEW cred, Whole(cred), SaveCluster(p, cred) PROVE CredentialsWhole'
  <2>1. req' = [req EXCEPT ![p] = [req[p] EXCEPT !.cred = cred, !.hash = HashOf[cred],
                                                 !.saved = TRUE]]
    BY <1>3 DEF SaveCluster
  <2>2. req[p] \in Request OBVIOUS
  <2>3. req'[p].cred = cred BY <2>1, <2>2 DEF Request
  <2>4. \A r \in Proc \ {p} : req'[r] = req[r] BY <2>1
  <2>5. cluster' = cluster BY <1>3 DEF SaveCluster
  <2> QED BY <1>3, <2>3, <2>4, <2>5
<1>4. ASSUME NEW p \in Proc, RefreshCluster(p) PROVE CredentialsWhole'
  BY <1>3, <1>4 DEF RefreshCluster
<1>5. ASSUME NEW p \in Proc, NEW typed \in Typed, EditCluster(p, typed) PROVE CredentialsWhole'
  BY <1>3, <1>5, AcceptedWhole DEF EditCluster
<1>6. ASSUME NEW p \in Proc, CommitCluster(p) PROVE CredentialsWhole'
  <2>1. req[p].of \in Cluster /\ req[p].cred \in Cred \cup {NoCred} BY DEF Request
  <2>2. cluster' = [cluster EXCEPT ![req[p].of] = req[p].cred] BY <1>6 DEF CommitCluster
  <2>3. req' = [req EXCEPT ![p] = Idle] BY <1>6 DEF CommitCluster
  <2> QED BY <2>1, <2>2, <2>3 DEF Idle
<1>7. ASSUME NEW p \in Proc,
             \/ GetRapi(p) \/ GetRapiRaises(p) \/ CommitNewChild(p) \/ CommitChild(p)
             \/ Finish(p) \/ DeleteCluster(p) \/ Restart(p)
      PROVE  CredentialsWhole'
  <2>1. \A c \in Cluster : cluster'[c] \in {cluster[c], NoCred}
    BY <1>7 DEF GetRapi, GetRapiRaises, CommitNewChild, CommitChild, Finish, DeleteCluster, Restart
  <2>2. req' = req \/ req' = [req EXCEPT ![p] = Idle]
    BY <1>7 DEF GetRapi, GetRapiRaises, CommitNewChild, CommitChild, Finish, DeleteCluster, Restart
  <2>3. \A r \in Proc : req'[r] \in {req[r], Idle} BY <2>2
  <2>4. Idle.cred = NoCred BY DEF Idle
  <2> QED BY <2>1, <2>3, <2>4
<1>8. CASE UNCHANGED vars BY <1>8 DEF vars
<1> QED BY <1>1, <1>2, <1>4, <1>5, <1>6, <1>7, <1>8 DEF Next

(* No cluster is saved with half of its credentials (EditClusterForm), so  *)
(* that the client refuses a cluster for a password of None only.          *)
THEOREM SavedWhole == Spec => []CredentialsWhole
<1>1. Init => CredentialsWhole
  BY DEF Init, Idle, CredentialsWhole
<1> QED BY <1>1, InitType, NextType, WholeStep, PTL DEF Spec

(* Clients are always cached under the hash of their own credentials.      *)
THEOREM ClientsKeyed == Spec => []CacheKeyed
<1>1. Init => CacheKeyed
  BY EmptyDictionaries DEF Init, CacheKeyed
<1> QED BY <1>1, InitType, NextType, KeyedStep, PTL DEF Spec

(* get_rapi() leaves no client behind that it will not find again, even    *)
(* when the constructor of the next one raises.                            *)
THEOREM ClientsKept == Spec => []NoClientLeaks
<1>1. Init => NoClientLeaks
  BY EmptyDictionaries DEF Init, NoClientLeaks
<1> QED BY <1>1, InitType, NextType, LeakStep, PTL DEF Spec

(* RAPI_CACHE and RAPI_CACHE_HASHES agree, and the del of get_rapi() never *)
(* raises KeyError, if the client's constructor raises for no credentials. *)
THEOREM ClientsIndexed == ASSUME Rejected = {} PROVE Spec => []CacheIndexed
<1>1. ASSUME Init, NEW p \in Proc PROVE Indexed(cache[p], hashes[p])
  <2>1. cache[p] = EmptyCache /\ hashes[p] = EmptyIndex
    BY <1>1 DEF Init, EmptyCache, EmptyIndex
  <2> QED BY <2>1, EmptyDictionaries
<1>2. TypeOK /\ CacheIndexed /\ [Next]_vars => CacheIndexed' BY IndexedStep
<1>3. Init => CacheIndexed BY <1>1 DEF CacheIndexed, Indexed
<1> QED BY <1>2, <1>3, InitType, NextType, PTL DEF Spec

----------------------------------------------------------------------------
(* One process.  The hash that a request carries is the one of the         *)
(* credentials it has loaded or saved, or of its cluster as it is.         *)
OnlyRequest(q) ==
    /\ q.view = "child" => ~q.saved /\ child[q.of] # NoHash /\ q.hash = child[q.of]
    /\ q.view = "cluster" => /\ q.cred # NoCred /\ q.hash = HashOf[q.cred]
                             /\ ~q.saved => cluster[q.of] = q.cred

AInv(p) == TypeOK /\ RowsCurrent /\ OnlyRequest(req[p])

LEMMA InitAlone == ASSUME NEW p, Proc = {p}, Init PROVE AInv(p)
BY InitType DEF Init, AInv, RowsCurrent, OnlyRequest, Idle

(* Loading a row, and saving it in the memory of the request.              *)
LEMMA LoadAlone ==
    ASSUME NEW p, Proc = {p}, AInv(p), [Next]_vars, NEW c \in Cluster, NEW cred \in Cred,
           \/ OpenChild(p, c) \/ OpenCluster(p, c) \/ AddCluster(p, c, cred)
           \/ SaveCluster(p, cred)
    PROVE  AInv(p)'
<1>1. TypeOK' /\ req[p] \in Request /\ req \in [Proc -> Request]
  BY NextType DEF AInv, TypeOK
<1>2. RowsCurrent' /\ UNCHANGED <<cluster, child>>
  BY DEF OpenChild, OpenCluster, AddCluster, SaveCluster, AInv, RowsCurrent
<1>3. CASE OpenChild(p, c)
  <2>1. req'[p] = [Idle EXCEPT !.view = "child", !.of = c, !.hash = child[c], !.since = cluster[c]]
    BY <1>1, <1>3 DEF OpenChild
  <2>2. req'[p].view = "child" /\ req'[p].of = c /\ req'[p].hash = child[c] /\ ~req'[p].saved
    BY <2>1 DEF Idle
  <2> QED BY <1>1, <1>2, <1>3, <2>2 DEF AInv, OnlyRequest, OpenChild
<1>4. CASE OpenCluster(p, c)
  <2>1. req'[p] = [Idle EXCEPT !.view = "cluster", !.of = c, !.hash = HashOf[cluster[c]],
                               !.cred = cluster[c], !.since = cluster[c]]
    BY <1>1, <1>4 DEF OpenCluster
  <2>2. /\ req'[p].view = "cluster" /\ req'[p].of = c
        /\ req'[p].cred = cluster[c] /\ req'[p].hash = HashOf[cluster[c]]
    BY <2>1 DEF Idle
  <2> QED BY <1>1, <1>2, <1>4, <2>2 DEF AInv, OnlyRequest, OpenCluster
<1>5. CASE AddCluster(p, c, cred)
  <2>1. req'[p] = [Idle EXCEPT !.view = "cluster", !.of = c, !.cred = cred,
                               !.hash = HashOf[cred], !.saved = TRUE]
    BY <1>1, <1>5 DEF AddCluster
  <2>2. /\ req'[p].view = "cluster" /\ req'[p].saved
        /\ req'[p].cred = cred /\ req'[p].hash = HashOf[cred]
    BY <2>1 DEF Idle
  <2> QED BY <1>1, <1>2, <2>2, NullAssumption DEF AInv, OnlyRequest
<1>6. CASE SaveCluster(p, cred)
  <2>1. req'[p] = [req[p] EXCEPT !.cred = cred, !.hash = HashOf[cred], !.saved = TRUE]
    BY <1>1, <1>6 DEF SaveCluster
  <2>2. /\ req'[p].view = "cluster" /\ req'[p].saved
        /\ req'[p].cred = cred /\ req'[p].hash = HashOf[cred]
    BY <1>1, <1>6, <2>1 DEF Request, SaveCluster
  <2> QED BY <1>1, <1>2, <2>2, NullAssumption DEF AInv, OnlyRequest
<1> QED BY <1>3, <1>4, <1>5, <1>6

(* A commit writes a hash and credentials that belong together.            *)
LEMMA CommitAlone ==
    ASSUME NEW p, Proc = {p}, AInv(p), [Next]_vars,
           CommitCluster(p) \/ CommitNewChild(p) \/ CommitChild(p) \/ DeleteCluster(p)
    PROVE  AInv(p)'
<1> DEFINE q == req[p]
<1>1. TypeOK' /\ q \in Request /\ q.of \in Cluster
  BY NextType DEF AInv, TypeOK, Request
<1>2. cluster \in [Cluster -> Cred \cup {NoCred}] /\ child \in [Cluster -> Hash \cup {NoHash}]
  BY DEF AInv, TypeOK
<1>3. req'[p].view = "none"
  BY DEF AInv, TypeOK, Idle, CommitCluster, CommitNewChild, CommitChild, DeleteCluster
<1>4. \A c \in Cluster \ {q.of} : cluster'[c] = cluster[c] /\ child'[c] = child[c]
  BY <1>2 DEF CommitCluster, CommitNewChild, CommitChild, DeleteCluster
<1>5. child'[q.of] # NoHash => cluster'[q.of] # NoCred /\ child'[q.of] = HashOf[cluster'[q.of]]
  <2>1. CASE CommitCluster(p)
    <3>1. cluster'[q.of] = q.cred /\ child'[q.of] \in {NoHash, q.hash}
      BY <1>1, <1>2, <2>1 DEF CommitCluster, SignalledHash
    <3> QED BY <2>1, <3>1 DEF CommitCluster, AInv, OnlyRequest
  <2>2. CASE CommitNewChild(p)
    <3>1. cluster' = cluster /\ child'[q.of] = q.hash
      BY <1>1, <1>2, <2>2 DEF CommitNewChild, NewHash
    <3> QED BY <2>2, <3>1 DEF CommitNewChild, AInv, OnlyRequest
  <2>3. CASE CommitChild(p)
    <3>1. cluster' = cluster /\ child'[q.of] = q.hash
      BY <1>1, <1>2, <2>3 DEF CommitChild
    <3> QED BY <1>1, <2>3, <3>1 DEF CommitChild, AInv, OnlyRequest, RowsCurrent
  <2>4. CASE DeleteCluster(p)
    BY <1>1, <1>2, <2>4 DEF DeleteCluster
  <2> QED BY <2>1, <2>2, <2>3, <2>4
<1>6. RowsCurrent'
  BY <1>4, <1>5 DEF AInv, RowsCurrent
<1> QED BY <1>1, <1>3, <1>6 DEF AInv, OnlyRequest

LEMMA StepAlone == ASSUME NEW p, Proc = {p}, AInv(p), [Next]_vars PROVE AInv(p)'
<1>1. TypeOK' /\ req[p] \in Request /\ req \in [Proc -> Request]
  BY NextType DEF AInv, TypeOK
<1>2. ASSUME NEW c \in Cluster,
             \/ OpenChild(p, c) \/ OpenCluster(p, c)
             \/ \E cred \in Cred : AddCluster(p, c, cred)
      PROVE  AInv(p)'
  <2>1. CASE \E cred \in Cred : AddCluster(p, c, cred)
    BY <2>1, LoadAlone
  <2>2. CASE OpenChild(p, c) /\ Cred # {}
    BY <2>2, LoadAlone
  <2>3. CASE OpenChild(p, c) /\ Cred = {}
    BY <2>3 DEF OpenChild, AInv, RowsCurrent, TypeOK
  <2>4. CASE OpenCluster(p, c)
    <3>1. cluster[c] \in Cred
      BY <2>4 DEF OpenCluster, AInv, TypeOK
    <3> QED BY <2>4, <3>1, LoadAlone
  <2> QED BY <1>2, <2>1, <2>2, <2>3, <2>4
<1>3. CASE RefreshCluster(p) \/ \E typed \in Typed : EditCluster(p, typed)
  <2>1. \E cred \in Cred : SaveCluster(p, cred)
    BY <1>1, <1>3 DEF RefreshCluster, EditCluster, Request
  <2> QED BY <2>1, ClusterAssumption, LoadAlone
<1>4. CASE CommitCluster(p) \/ CommitNewChild(p) \/ CommitChild(p) \/ DeleteCluster(p)
  BY <1>4, CommitAlone
<1>5. CASE GetRapi(p) \/ GetRapiRaises(p) \/ Finish(p) \/ Restart(p) \/ UNCHANGED vars
  <2>1. UNCHANGED <<cluster, child>> /\ (req' = req \/ req'[p] = Idle)
    BY <1>1, <1>5 DEF GetRapi, GetRapiRaises, Finish, Restart, vars
  <2>2. OnlyRequest(req[p])'
    BY <2>1 DEF AInv, OnlyRequest, Idle
  <2> QED BY <1>1, <2>1, <2>2 DEF AInv, RowsCurrent
<1> QED BY <1>2, <1>3, <1>4, <1>5 DEF Next

(* With one process every row has the hash of its cluster, whatever is     *)
(* edited, refreshed, rolled back or deleted (ganeti_web/models.py:71).    *)
THEOREM RowsStayCurrent == ASSUME NEW p, Proc = {p} PROVE Spec => []RowsCurrent
<1>1. Init => AInv(p)
  BY InitAlone
<1>2. AInv(p) /\ [Next]_vars => AInv(p)'
  BY StepAlone
<1>3. AInv(p) => RowsCurrent
  BY DEF AInv
<1> QED BY <1>1, <1>2, <1>3, PTL DEF Spec

(* The hash tells all credentials apart.                                   *)
Collides == \E cred, other \in Cred : cred # other /\ HashOf[cred] = HashOf[other]

(* A client found under a hash is the one of the credentials with it.      *)
LEMMA FoundClient ==
    ASSUME ~Collides, TypeOK, CacheKeyed, NEW p \in Proc, NEW cred \in Cred, Cached(p, HashOf[cred])
    PROVE  cache[p][HashOf[cred]] = cred
<1>1. cache[p][HashOf[cred]] \in Cred /\ HashOf[cache[p][HashOf[cred]]] = HashOf[cred]
  BY HashAssumption DEF TypeOK, CacheKeyed, Cached
<1> QED BY <1>1 DEF Collides

(* With one process and a hash without collisions, a request is given a    *)
(* client with credentials that hold (utils/__init__.py:65).               *)
THEOREM ClientsStayCurrent ==
    ASSUME NEW p, Proc = {p}, ~Collides PROVE Spec => []ClientCurrent
<1>1. Init => AInv(p)
  BY InitAlone
<1>2. AInv(p) /\ [Next]_vars => AInv(p)'
  BY StepAlone
<1>3. AInv(p) /\ CacheKeyed => ClientCurrent
  <2> SUFFICES ASSUME AInv(p), CacheKeyed, req[p].view # "none"
               PROVE  Client(p) \in {NoCred, cluster[req[p].of], Fresh(req[p])}
    BY DEF ClientCurrent
  <2> DEFINE q == req[p]
  <2>1. /\ TypeOK /\ q \in Request /\ q.of \in Cluster /\ q.view \in {"child", "cluster"}
        /\ Fresh(q) \in Cred \cup {NoCred}
    BY FreshType DEF AInv, TypeOK, Request
  <2>2. CASE Cached(p, q.hash)
    <3>1. \E cred \in Cred : q.hash = HashOf[cred] /\ cred \in {cluster[q.of], Fresh(q)}
      <4>1. CASE q.view = "child"
        BY <2>1, <4>1 DEF AInv, OnlyRequest, RowsCurrent, TypeOK
      <4>2. CASE q.view = "cluster"
        <5>1. q.cred \in Cred /\ q.hash = HashOf[q.cred] /\ q.cred \in {cluster[q.of], Fresh(q)}
          BY <2>1, <4>2 DEF AInv, OnlyRequest, Request, Fresh
        <5> QED BY <5>1
      <4> QED BY <2>1, <4>1, <4>2
    <3>2. PICK cred \in Cred : q.hash = HashOf[cred] /\ cred \in {cluster[q.of], Fresh(q)}
      BY <3>1
    <3>3. cache[p][q.hash] = cred
      BY <2>1, <2>2, <3>2, FoundClient
    <3> QED BY <2>2, <3>2, <3>3 DEF Client
  <2>3. CASE ~Cached(p, q.hash)
    BY <2>1, <2>3, FoundClient DEF Client
  <2> QED BY <2>2, <2>3
<1>4. Spec => []CacheKeyed
  BY ClientsKeyed
<1> QED BY <1>1, <1>2, <1>3, <1>4, PTL DEF Spec

-----------------------------------------------------------------------------
(* The calls of a client.                                                  *)
USE BoundsAssumption

----------------------------------------------------------------------------
(* What is done twice was timed out.                                       *)

(* A request that was sent is the only one of its click: on its way, or    *)
(* carried out, but not both.                                              *)
Sent == wire \cup effects

OnePerTry ==
    /\ \A x, y \in wire : x.try = y.try => x = y
    /\ \A x, y \in effects : x.try = y.try => x = y
    /\ \A x \in wire, y \in effects : x.try # y.try

(* The clicks of which a request is on its way or was carried out; those   *)
(* among them whose caller has given up.                                   *)
Tries == {x.try : x \in Sent}
Waiting == call.at \in {"sent", "returned"}
Abandoned == IF Waiting THEN Tries \ {call.try} ELSE Tries

Doubts == call.timeouts + call.unread

Counts == /\ {"name", "asked", "given", "at", "features", "try", "timeouts", "unread"}
               \subseteq DOMAIN call
          /\ call.try \in Nat /\ call.timeouts \in Nat /\ call.unread \in Nat
          /\ call.at \in Stages
          /\ answer \in {"none", "ok", "refused"}

TriesInv ==
    /\ Counts
    /\ Tries \subseteq 1 .. call.try
    /\ call.at \in {"idle", "features", "request"} => answer = "none" /\ call.try \notin Tries
    /\ answer = "refused" => call.at \in {"sent", "raised"}
    /\ call.at = "sent" /\ answer = "refused" => call.try \notin Tries
    /\ call.at = "sent" /\ answer = "ok" => \A r \in wire : r.try # call.try
    /\ call.at = "idle" <=> call.try = 0
    /\ call.at = "idle" => Sent = {}
    /\ OnePerTry
    /\ Cardinality(Abandoned) <= Doubts

LEMMA FiniteTries ==
    ASSUME Counts, Tries \subseteq 1 .. call.try
    PROVE  IsFiniteSet(Tries)
<1>1. call.try \in Int /\ 1 \in Int BY DEF Counts
<1>2. IsFiniteSet(1 .. call.try) BY <1>1, FS_Interval
<1> QED BY <1>2, FS_Subset

(* Every effect has a click of its own. *)
LEMMA OneEffectPerTry ==
    ASSUME TriesInv
    PROVE  IsFiniteSet(effects) /\ Cardinality(effects) <= Cardinality(Tries)
<1> DEFINE f == [e \in effects |-> e.try]
<1>1. f \in Injection(effects, Tries)
  BY DEF TriesInv, OnePerTry, Tries, Sent, Injection, IsInjective
<1> QED BY <1>1, FiniteTries, FS_Injection DEF TriesInv

LEMMA TriesSuffice == TriesInv => EffectsNeedDoubt
<1> SUFFICES ASSUME TriesInv PROVE EffectsNeedDoubt OBVIOUS
<1>1. IsFiniteSet(Tries) BY FiniteTries DEF TriesInv
<1>2. Cardinality(effects) \in Nat /\ Cardinality(effects) <= Cardinality(Tries)
  BY OneEffectPerTry, FS_CardinalityType
<1>3. Cardinality(Tries) \in Nat BY <1>1, FS_CardinalityType
<1>4. Cardinality(Tries) <= Cardinality(Abandoned) + (IF Waiting THEN 1 ELSE 0)
  BY <1>1, <1>3, FS_RemoveElement DEF Abandoned
<1>5. Waiting => call.at # "raised" BY DEF Waiting
<1>6. Cardinality(Abandoned) \in Nat
  BY <1>1, FS_RemoveElement, FS_CardinalityType DEF Abandoned
<1>7. Cardinality(Abandoned) <= Doubts /\ Doubts \in Nat BY DEF TriesInv, Counts, Doubts
<1> QED BY <1>2, <1>3, <1>4, <1>5, <1>6, <1>7 DEF EffectsNeedDoubt, Doubts

LEMMA InitTries == ClientInit => TriesInv
<1> SUFFICES ASSUME ClientInit PROVE TriesInv OBVIOUS
<1>1. Tries = {} /\ Abandoned = {} BY DEF ClientInit, Tries, Sent, Abandoned
<1> QED BY <1>1, FS_EmptySet DEF ClientInit, TriesInv, Counts, Doubts, Stages, OnePerTry, Sent

(* A step in which no request leaves and no caller gives up.               *)
LEMMA NoneGivenUp ==
    ASSUME TriesInv, Tries' \subseteq Tries, Abandoned' \subseteq Abandoned,
           Doubts' = Doubts
    PROVE  Cardinality(Abandoned') <= Doubts'
<1>1. IsFiniteSet(Abandoned) BY FiniteTries, FS_RemoveElement DEF TriesInv, Abandoned
<1>2. IsFiniteSet(Abandoned') /\ Cardinality(Abandoned') <= Cardinality(Abandoned)
  BY <1>1, FS_Subset
<1>3. Cardinality(Abandoned) \in Nat /\ Cardinality(Abandoned') \in Nat
  BY <1>1, <1>2, FS_CardinalityType
<1> QED BY <1>2, <1>3 DEF TriesInv, Counts, Doubts

LEMMA CallTries ==
    ASSUME TriesInv, NEW name, NEW asked, NEW given, Call(name, asked, given)
    PROVE  TriesInv'
<1>1. call'.at \in {"raised", "features", "request"} /\ call'.try = 1
  BY DEF Call, FirstStage, TriesInv, Counts
<1>2. Counts' BY <1>1 DEF Call, TriesInv, Counts, Stages
<1>3. Tries = {} /\ Tries' = {} /\ Abandoned' = {}
  BY DEF Call, TriesInv, Tries, Sent, Abandoned
<1>4. Doubts' = Doubts BY DEF Doubts, Call, TriesInv, Counts
<1> QED BY <1>1, <1>2, <1>3, <1>4, NoneGivenUp DEF Call, TriesInv, OnePerTry, Sent

LEMMA RetryTries == ASSUME TriesInv, Retry PROVE TriesInv'
<1>1. call'.at \in {"raised", "features", "request"} /\ call'.try = call.try + 1
  BY DEF Retry, FirstStage, TriesInv, Counts
<1>2. Counts' BY <1>1 DEF Retry, TriesInv, Counts, Stages
<1>3. Tries' = Tries /\ Abandoned' = Abandoned
  BY <1>1 DEF Retry, TriesInv, Tries, Sent, Abandoned, Waiting
<1>4. Doubts' = Doubts BY DEF Doubts, Retry, TriesInv, Counts
<1>5. /\ Tries' \subseteq 1 .. call'.try /\ call'.try \notin Tries'
      /\ call'.try # 0 /\ call'.at # "idle"
  BY <1>1, <1>3 DEF TriesInv, Counts
<1>6. Cardinality(Abandoned') <= Doubts' BY <1>3, <1>4, NoneGivenUp
<1>7. OnePerTry' /\ answer' = "none" BY DEF Retry, TriesInv, OnePerTry
<1> QED BY <1>1, <1>2, <1>5, <1>6, <1>7 DEF TriesInv

LEMMA FeaturesTries == ASSUME TriesInv, NEW status, GetFeatures(status) PROVE TriesInv'
<1>1. /\ call'.at \in {"raised", "request"} /\ call'.try = call.try
      /\ Doubts' = Doubts /\ UNCHANGED <<wire, answer, effects>>
  BY DEF Doubts, GetFeatures, Raised, TriesInv, Counts
<1>2. Counts' BY <1>1 DEF GetFeatures, Raised, TriesInv, Counts, Stages
<1>3. call.at = "features" BY DEF GetFeatures
<1>4. Tries' = Tries /\ Abandoned' = Abandoned
  BY <1>1, <1>3 DEF Tries, Sent, Abandoned, Waiting
<1> QED BY <1>1, <1>2, <1>3, <1>4, NoneGivenUp DEF TriesInv, OnePerTry

LEMMA SendTries == ASSUME TriesInv, Send PROVE TriesInv'
<1>1. call.at = "request" /\ UNCHANGED <<answer, effects>> BY DEF Send
<1>2. CASE UNCHANGED wire /\ call' = Raised
  <2>1. Counts' /\ call'.try = call.try /\ call'.at = "raised" /\ Doubts' = Doubts
    BY <1>1, <1>2 DEF Raised, TriesInv, Counts, Stages, Doubts
  <2>2. Tries' = Tries /\ Abandoned' = Abandoned
    BY <1>1, <1>2, <2>1 DEF Tries, Sent, Abandoned, Waiting
  <2> QED BY <1>1, <1>2, <2>1, <2>2, NoneGivenUp DEF TriesInv, OnePerTry
<1>3. ASSUME NEW r, r.try = call.try, wire' = wire \cup {r}, call' = [call EXCEPT !.at = "sent"]
      PROVE  TriesInv'
  <2>1. Counts' /\ call'.try = call.try /\ call'.at = "sent" /\ Doubts' = Doubts
    BY <1>1, <1>3 DEF TriesInv, Counts, Stages, Doubts
  <2>2. Tries' = Tries \cup {call.try} BY <1>1, <1>3 DEF Tries, Sent
  <2>3. call.try \notin Tries /\ answer = "none" BY <1>1 DEF TriesInv
  <2>4. Abandoned' = Abandoned /\ Abandoned = Tries
    BY <1>1, <2>1, <2>2, <2>3 DEF Abandoned, Waiting
  <2>5. Tries' \subseteq 1 .. call'.try
    <3>1. call.try # 0 BY <1>1 DEF TriesInv
    <3>2. call.try \in 1 .. call.try BY <3>1 DEF TriesInv, Counts
    <3>3. Tries \subseteq 1 .. call.try BY DEF TriesInv
    <3> QED BY <2>1, <2>2, <3>2, <3>3
  <2>6. \A x \in Sent : x.try # call.try BY <2>3 DEF Tries
  <2>7. OnePerTry' BY <1>1, <1>3, <2>6 DEF TriesInv, OnePerTry, Sent
  <2> QED BY <1>1, <2>1, <2>3, <2>4, <2>5, <2>7 DEF TriesInv
<1> QED BY <1>2, <1>3 DEF Send

LEMMA ReceiveTries == ASSUME TriesInv, Receive PROVE TriesInv'
<1>1. /\ call.at = "sent" /\ UNCHANGED <<wire, answer, effects>>
      /\ call'.at = (IF answer = "ok" THEN "returned" ELSE "raised")
      /\ call'.try = call.try /\ Doubts' = Doubts
  BY DEF Doubts, Receive, TriesInv, Counts
<1>2. Counts' BY <1>1 DEF Receive, TriesInv, Counts, Stages
<1>3. answer # "ok" => answer = "refused" /\ call.try \notin Tries
  BY <1>1 DEF Receive, TriesInv, Counts
<1>4. Tries' = Tries /\ Abandoned' = Abandoned
  BY <1>1, <1>3 DEF Tries, Sent, Abandoned, Waiting
<1> QED BY <1>1, <1>2, <1>3, <1>4, NoneGivenUp DEF TriesInv, OnePerTry

(* A caller gives up on the one request that it has not given up before.   *)
LEMMA OneGivenUp ==
    ASSUME TriesInv, Waiting, UNCHANGED <<wire, effects>>, ~Waiting', Doubts' = Doubts + 1
    PROVE  Tries' = Tries /\ Cardinality(Abandoned') <= Doubts'
<1>1. Tries' = Tries /\ Abandoned' = Tries /\ Abandoned = Tries \ {call.try}
  BY DEF Tries, Sent, Abandoned
<1>2. IsFiniteSet(Tries) /\ Cardinality(Tries) \in Nat
  BY FiniteTries, FS_CardinalityType DEF TriesInv
<1>3. Cardinality(Tries) <= Cardinality(Abandoned) + 1 /\ Cardinality(Abandoned) \in Nat
  <2>1. /\ IsFiniteSet(Tries \ {call.try})
        /\ Cardinality(Tries \ {call.try}) =
             IF call.try \in Tries THEN Cardinality(Tries) - 1 ELSE Cardinality(Tries)
    BY <1>2, FS_RemoveElement
  <2>2. Cardinality(Tries \ {call.try}) \in Nat BY <2>1, FS_CardinalityType
  <2> QED BY <1>1, <1>2, <2>1, <2>2
<1>4. Doubts \in Nat /\ Cardinality(Abandoned) <= Doubts BY DEF TriesInv, Counts, Doubts
<1>5. Cardinality(Abandoned') = Cardinality(Tries) BY <1>1
<1> QED BY <1>1, <1>2, <1>3, <1>4, <1>5

LEMMA TimeOutTries == ASSUME TriesInv, TimeOut PROVE TriesInv'
<1>1. /\ call.at = "sent" /\ UNCHANGED <<wire, answer, effects>>
      /\ call'.at = "raised" /\ call'.try = call.try /\ Doubts' = Doubts + 1
  BY DEF TimeOut, Raised, TriesInv, Counts, Doubts
<1>2. Counts' BY <1>1 DEF TimeOut, Raised, TriesInv, Counts, Stages
<1>3. Tries' = Tries /\ Cardinality(Abandoned') <= Doubts'
  BY <1>1, OneGivenUp DEF Waiting
<1> QED BY <1>1, <1>2, <1>3 DEF TriesInv, OnePerTry

LEMMA RefreshTries == ASSUME TriesInv, RefreshFails PROVE TriesInv'
<1>1. /\ call.at = "returned" /\ UNCHANGED <<wire, answer, effects>>
      /\ call'.at = "raised" /\ call'.try = call.try /\ Doubts' = Doubts + 1
  BY DEF RefreshFails, Raised, TriesInv, Counts, Doubts
<1>2. Counts' BY <1>1 DEF RefreshFails, Raised, TriesInv, Counts, Stages
<1>3. Tries' = Tries /\ Cardinality(Abandoned') <= Doubts'
  BY <1>1, OneGivenUp DEF Waiting
<1> QED BY <1>1, <1>2, <1>3 DEF TriesInv, OnePerTry

LEMMA ServeTries == ASSUME TriesInv, NEW r \in wire, NEW refuses \in BOOLEAN, Serve(r, refuses)
                    PROVE  TriesInv'
<1>1. call' = call /\ wire' = wire \ {r} BY DEF Serve
<1>2. \A x \in effects' : x \in effects \/ x.try = r.try BY DEF Serve
<1>3. r.try \in Tries BY DEF Tries, Sent
<1>4. Tries' \subseteq Tries BY <1>1, <1>2, <1>3 DEF Tries, Sent
<1>5. Abandoned' \subseteq Abandoned BY <1>1, <1>4 DEF Abandoned, Waiting
<1>6. Cardinality(Abandoned') <= Doubts' BY <1>1, <1>4, <1>5, NoneGivenUp DEF Doubts
<1>7. \A x \in effects, y \in effects' : x.try = y.try => x = y
  BY DEF Serve, TriesInv, OnePerTry
<1>8. OnePerTry'
  BY <1>1, <1>2, <1>7 DEF Serve, TriesInv, OnePerTry
<1>9. \A x \in wire' : x.try # r.try BY <1>1 DEF TriesInv, OnePerTry
<1>10. answer' = answer \/ (call.at = "sent" /\ r.try = call.try
                            /\ answer' = IF refuses THEN "refused" ELSE "ok")
  BY DEF Serve
<1>11. refuses => effects' = effects BY DEF Serve
<1>12. r.try \notin Tries' \/ ~refuses
  BY <1>1, <1>9, <1>11 DEF TriesInv, OnePerTry, Tries, Sent
<1>13. Counts' BY <1>1, <1>10 DEF TriesInv, Counts
<1>14. call.at # "idle" BY DEF TriesInv, Sent
<1> QED BY <1>1, <1>4, <1>6, <1>8, <1>9, <1>10, <1>12, <1>13, <1>14 DEF TriesInv

LEMMA LoseTries == ASSUME TriesInv, NEW r \in wire, Lose(r) PROVE TriesInv'
<1>1. call' = call /\ wire' = wire \ {r} /\ UNCHANGED <<answer, effects>> BY DEF Lose
<1>2. Tries' \subseteq Tries BY <1>1 DEF Tries, Sent
<1>3. Abandoned' \subseteq Abandoned BY <1>1, <1>2 DEF Abandoned, Waiting
<1>4. Cardinality(Abandoned') <= Doubts' BY <1>1, <1>2, <1>3, NoneGivenUp DEF Doubts
<1>5. Counts' BY <1>1 DEF TriesInv, Counts
<1> QED BY <1>1, <1>2, <1>4, <1>5 DEF TriesInv, OnePerTry, Sent

LEMMA StepTries == TriesInv /\ [ClientNext]_clientVars => TriesInv'
<1> SUFFICES ASSUME TriesInv, [ClientNext]_clientVars PROVE TriesInv' OBVIOUS
<1>1. CASE UNCHANGED <<call, wire, answer, effects>>
  BY <1>1 DEF TriesInv, Counts, Doubts, OnePerTry, Tries, Sent, Abandoned, Waiting
<1>2. CASE CallerStep
  BY <1>2, FeaturesTries, SendTries, ReceiveTries, TimeOutTries DEF CallerStep
<1>3. CASE \E name, asked, given : Call(name, asked, given)
  BY <1>3, CallTries
<1>4. CASE \E r \in wire : Lose(r) \/ \E refuses \in BOOLEAN : Serve(r, refuses)
  BY <1>4, LoseTries, ServeTries
<1> QED BY <1>1, <1>2, <1>3, <1>4, RetryTries, RefreshTries DEF ClientNext, Click, Change, clientVars

(* What the cluster did beyond what was asked, it did because an error was *)
(* shown for a request that was carried out: one effect for each time-out  *)
(* (_SendRequest, its errors without a code) and each job that was         *)
(* submitted and could not be read (views.py:388), and one more for a call *)
(* that has not failed.                                                    *)
THEOREM TwiceNeedsDoubt == ClientSpec => []EffectsNeedDoubt
BY InitTries, StepTries, TriesSuffice, PTL DEF ClientSpec

----------------------------------------------------------------------------
(* What was asked is done, or nothing is.                                  *)

(* The table of the calls, of which those with a form are looked at: what  *)
(* a call requires it also sends, and it sends nothing of its own.         *)
SendsAll(calls) ==
    \A name \in DOMAIN calls :
        /\ calls[name].needs \subseteq calls[name].query \cup calls[name].body
        /\ calls[name].sets = {}

FormSends(calls) ==
    /\ "MigrateInstance" \in DOMAIN calls => "mode" \in calls["MigrateInstance"].body
    /\ "SetNodeRole" \in DOMAIN calls => "role" \in calls["SetNodeRole"].body
    /\ "ReplaceInstanceDisks" \in DOMAIN calls =>
         {"mode", "new_secondary", "disks", "characters", "remote_node", "iallocator"}
           \subseteq calls["ReplaceInstanceDisks"].query

Plain(calls) ==
    SendsAll(calls) /\ FormSends(calls) /\ DOMAIN calls \cap DOMAIN FeatureOf = {}

LEMMA TablesPlain == \A table \in Tables : Plain(table)
<1> USE DEF Plain, SendsAll, FormSends, FeatureOf, Asks, Reads, AddsTags, DropsTags
<1>1. Plain(ClusterCalls) BY DEF ClusterCalls
<1>2. Plain(InstanceCalls) BY DEF InstanceCalls
<1>3. Plain(InstanceDiskCalls) BY DEF InstanceDiskCalls
<1>4. Plain(InstanceTagCalls) BY DEF InstanceTagCalls
<1>5. Plain(PowerCalls) BY DEF PowerCalls
<1>6. Plain(InstanceMoveCalls) BY DEF InstanceMoveCalls
<1>7. Plain(ReplaceInstanceDisks) BY DEF ReplaceInstanceDisks
<1>8. Plain(JobCalls) BY DEF JobCalls
<1>9. Plain(NodeCalls) BY DEF NodeCalls
<1>10. Plain(NodeRoleCalls) BY DEF NodeRoleCalls
<1>11. Plain(NodeStorageCalls) BY DEF NodeStorageCalls
<1>12. Plain(NodeTagCalls) BY DEF NodeTagCalls
<1>13. Plain(GroupCalls) BY DEF GroupCalls
<1>14. Plain(GroupTagCalls) BY DEF GroupTagCalls
<1>15. Plain(QueryCalls) BY DEF QueryCalls
<1> HIDE DEF Plain
<1> QED
  BY <1>1, <1>2, <1>3, <1>4, <1>5, <1>6, <1>7, <1>8, <1>9, <1>10, <1>11, <1>12, <1>13,
     <1>14, <1>15 DEF Tables

LEMMA PlainPlain == Plain(PlainCalls)
<1>1. \A name \in DOMAIN PlainCalls :
         TableOf(name) \in Tables /\ name \in DOMAIN TableOf(name)
         /\ PlainCalls[name] = TableOf(name)[name]
  BY DEF PlainCalls, TableOf
<1>2. \A name \in DOMAIN PlainCalls : Plain(TableOf(name)) BY <1>1, TablesPlain
<1>3. SendsAll(PlainCalls) BY <1>1, <1>2 DEF Plain, SendsAll
<1>4. FormSends(PlainCalls) BY <1>1, <1>2 DEF Plain, FormSends
<1>5. DOMAIN PlainCalls \cap DOMAIN FeatureOf = {} BY <1>1, <1>2 DEF Plain
<1> QED BY <1>3, <1>4, <1>5 DEF Plain

LEMMA FeatureRequests ==
    ASSUME NEW features
    PROVE  /\ Requests(features)["CreateInstance"] = CreateInstance
           /\ Requests(features)["ReinstallInstance"] = ReinstallInstance(features)
           /\ Requests(features)["EvacuateNode"] = EvacuateNode(features)
           /\ Requests(features)["MigrateNode"] = MigrateNode(features)
BY DEF Requests, FeatureOf

LEMMA PlainRequests ==
    ASSUME NEW features, NEW name \in DOMAIN PlainCalls
    PROVE  Requests(features)[name] = PlainCalls[name]
<1>1. name \notin DOMAIN FeatureOf BY PlainPlain DEF Plain
<1> QED BY <1>1 DEF Requests, FeatureOf

LEMMA AllNames == Names = DOMAIN PlainCalls \cup DOMAIN FeatureOf
BY DEF Names, Requests

LEMMA FormNames ==
    {"MigrateInstance", "SetNodeRole", "ReplaceInstanceDisks"} \subseteq DOMAIN PlainCalls
<1>1. /\ "MigrateInstance" \in DOMAIN InstanceMoveCalls
      /\ "SetNodeRole" \in DOMAIN NodeRoleCalls
      /\ "ReplaceInstanceDisks" \in DOMAIN ReplaceInstanceDisks
  BY DEF InstanceMoveCalls, NodeRoleCalls, ReplaceInstanceDisks
<1>2. {InstanceMoveCalls, NodeRoleCalls, ReplaceInstanceDisks} \subseteq Tables BY DEF Tables
<1> QED BY <1>1, <1>2 DEF PlainCalls

(* What a page or another caller passes to a call.                         *)
Direct(name, asked, given) == name \in Names /\ asked = given /\ given \in Givens(name)

Ticked(name, asked, given) ==
    name \in DOMAIN Forms /\ asked \in Forms[name].boxes /\ given = Forms[name].passes[asked]

Honest(name, asked, given) == Direct(name, asked, given) \/ Ticked(name, asked, given)

(* A request on the wire is that of a call that did not raise.             *)
Formed(r) ==
    \E given :
        /\ Honest(r.name, r.asked, given)
        /\ ~RaisesAtOnce(r.name, given) /\ ~RaisesUnsent(r.name, given, r.features)
        /\ r.features \in Releases
        /\ r.query = Prepared(Requests(r.features)[r.name], given)
        /\ r.body = Requests(r.features)[r.name].body \cap given

Reaches(e) ==
    /\ "dry_run" \in e.asked => "dry_run" \in e.got
    /\ Downgraded(e) \/ e.asked \ Dropped(e) \subseteq e.got

(* A plain call takes no argument that it does not send, but the one that  *)
(* makes it raise.                                                         *)
LEMMA DirectPlain ==
    ASSUME NEW name \in DOMAIN PlainCalls, NEW given \in Givens(name),
           ~RaisesAtOnce(name, given)
    PROVE  given \subseteq PlainCalls[name].query \cup PlainCalls[name].body
<1> DEFINE sends == PlainCalls[name].query \cup PlainCalls[name].body
<1>1. \A features : Requests(features)[name] = PlainCalls[name] BY PlainRequests
<1>2. given \subseteq Requests({})[name].needs \cup Arguments(name) BY DEF Givens
<1>3. name \notin {"CreateInstance", "EvacuateNode"} BY PlainPlain DEF Plain, FeatureOf
<1>4. Arguments(name) \subseteq sends \cup (IF name = "RebootInstance" THEN {"bad_type"} ELSE {})
  BY <1>1, <1>3 DEF Arguments
<1>5. PlainCalls[name].needs \subseteq sends BY PlainPlain DEF Plain, SendsAll
<1> QED BY <1>1, <1>2, <1>4, <1>5 DEF RaisesAtOnce

(* The request a call sends, and what the cluster makes of it.             *)
Effect(e, r, has) ==
    /\ e.name = r.name /\ e.asked = r.asked /\ e.features = r.features
    /\ e.release = has /\ e.got = Got(r, has)

LEMMA PlainReaches ==
    ASSUME NEW r, NEW e, NEW has, Effect(e, r, has), Formed(r), "characters" \notin r.query,
           r.name \in DOMAIN PlainCalls
    PROVE  Reaches(e)
<1> DEFINE sends == PlainCalls[r.name].query \cup PlainCalls[r.name].body
<1>1. PICK given : /\ Honest(r.name, r.asked, given) /\ ~RaisesAtOnce(r.name, given)
                   /\ r.query = Prepared(Requests(r.features)[r.name], given)
                   /\ r.body = Requests(r.features)[r.name].body \cap given
  BY DEF Formed
<1>2. r.name \notin DOMAIN FeatureOf BY PlainPlain DEF Plain
<1>3. e.got = sends \cap given
  <2>1. PlainCalls[r.name].sets = {} BY PlainPlain DEF Plain, SendsAll
  <2> QED BY <1>1, <1>2, <2>1, PlainRequests DEF Effect, Got, Prepared
<1>4. CASE Direct(r.name, r.asked, given)
  <2>1. given \subseteq sends BY <1>1, <1>4, DirectPlain DEF Direct
  <2> QED BY <1>3, <1>4, <2>1 DEF Direct, Reaches, Effect
<1>5. CASE Ticked(r.name, r.asked, given)
  <2>1. r.name \in {"MigrateInstance", "SetNodeRole", "ReplaceInstanceDisks"}
    BY <1>2, <1>5 DEF Ticked, Forms, FeatureOf
  <2>2. CASE r.name = "MigrateInstance"
    <3>1. "mode" \in sends BY <2>2, PlainPlain DEF Plain, FormSends
    <3>2. r.asked \subseteq {"mode", "cleanup_box"} /\ given = r.asked \ {"cleanup_box"}
      BY <1>5, <2>2 DEF Ticked, Forms, MigrateForm
    <3> QED BY <1>3, <3>1, <3>2 DEF Reaches, Effect, Dropped
  <2>3. CASE r.name = "SetNodeRole"
    <3>1. "role" \in sends BY <2>3, PlainPlain DEF Plain, FormSends
    <3>2. r.asked \subseteq {"role", "force_box"} /\ given = r.asked \ {"force_box"}
      BY <1>5, <2>3 DEF Ticked, Forms, RoleForm
    <3> QED BY <1>3, <3>1, <3>2 DEF Reaches, Effect, Dropped
  <2>4. CASE r.name = "ReplaceInstanceDisks"
    <3>1. {"mode", "new_secondary", "disks", "characters", "remote_node", "iallocator"}
            \subseteq PlainCalls[r.name].query
      BY <2>4, PlainPlain DEF Plain, FormSends
    <3>2. "characters" \notin given BY <1>1, <3>1, PlainRequests DEF Prepared
    <3> DEFINE all == SUBSET {"mode", "new_secondary", "disks", "several", "remote_node",
                              "iallocator", "no_allocator", "unannounced"}
    <3>12. r.asked \in ReplaceDisksForm.boxes /\ given = ReplaceDisksForm.passes[r.asked]
      BY <1>5, <2>4 DEF Ticked, Forms
    <3>3. r.asked \in all
          /\ ({"no_allocator", "unannounced"} \cap r.asked # {} => "iallocator" \in r.asked)
      <4>1. ReplaceDisksForm.boxes \subseteq
              {t \in all : {"no_allocator", "unannounced"} \cap t # {} => "iallocator" \in t}
        BY ZenonT(30) DEF ReplaceDisksForm
      <4> QED BY <3>12, <4>1
    <3>4. given =
            (r.asked \ ((IF "several" \in r.asked THEN {"disks", "several"} ELSE {})
                        \cup (IF DefaultAllocator(r.asked) = "None"
                              THEN {"iallocator", "unannounced"} ELSE {})))
            \cup (IF "several" \in r.asked THEN {"characters"} ELSE {})
      <4>1. ReplaceDisksForm.passes = [ticked \in all |->
              (ticked \ ((IF "several" \in ticked THEN {"disks", "several"} ELSE {})
                         \cup (IF DefaultAllocator(ticked) = "None"
                               THEN {"iallocator", "unannounced"} ELSE {})))
              \cup (IF "several" \in ticked THEN {"characters"} ELSE {})]
        BY DEF ReplaceDisksForm
      <4> QED BY <3>12, <3>3, <4>1
    <3>5. "several" \notin r.asked BY <3>2, <3>4
    <3>6. given = r.asked \ (IF "unannounced" \in r.asked
                             THEN {"iallocator", "unannounced"} ELSE {})
      BY <3>4, <3>5 DEF DefaultAllocator
    <3>7. ~({"iallocator", "no_allocator"} \subseteq given) BY <1>1, <2>4 DEF RaisesAtOnce
    <3>8. "no_allocator" \notin r.asked \/ "unannounced" \in r.asked BY <3>3, <3>6, <3>7
    <3>9. r.asked \ Dropped(e) \subseteq given BY <3>5, <3>6, <3>8 DEF Dropped, Effect
    <3>10. "dry_run" \notin r.asked BY <3>3
    <3>11. given \ Dropped(e) \subseteq sends BY <3>1, <3>3, <3>5, <3>6, <3>8 DEF Dropped
    <3> QED BY <1>3, <3>9, <3>10, <3>11 DEF Reaches, Effect
  <2> QED BY <2>1, <2>2, <2>3, <2>4
<1> QED BY <1>1, <1>4, <1>5 DEF Honest

(* The four calls that ask for the features: what a caller may pass them,  *)
(* the required arguments included.                                        *)
LEMMA FeatureArguments ==
    /\ \A given \in Givens("CreateInstance") :
          given \subseteq {"instance", "dry_run", "no_install", "params", "conflict"}
    /\ \A given \in Givens("ReinstallInstance") :
          given \subseteq {"no_startup", "os", "osparams"}
    /\ \A given \in Givens("EvacuateNode") :
          given \subseteq {"dry_run", "iallocator", "remote_node", "early_release", "mode",
                          "secondary", "accept_old"}
    /\ \A given \in Givens("MigrateNode") :
          given \subseteq {"dry_run", "mode", "iallocator", "target_node"}
<1>1. \A name : \A given \in Givens(name) : given \subseteq Requests({})[name].needs \cup Arguments(name)
  BY DEF Givens
<1>2. /\ Requests({})["CreateInstance"].needs = {"instance"}
      /\ Requests({})["ReinstallInstance"].needs = {}
      /\ Requests({})["EvacuateNode"].needs = {}
      /\ Requests({})["MigrateNode"].needs = {}
  BY FeatureRequests DEF CreateInstance, ReinstallInstance, EvacuateNode, MigrateNode, Asks
<1>3. Arguments("CreateInstance")
        \subseteq {"instance", "dry_run", "no_install", "params", "conflict"}
  BY FeatureRequests DEF Arguments, CreateInstance, Asks
<1>4. Arguments("ReinstallInstance") \subseteq {"no_startup", "os", "osparams"}
  BY FeatureRequests DEF Arguments, ReinstallInstance, Asks
<1>5. Arguments("EvacuateNode")
        \subseteq {"dry_run", "iallocator", "remote_node", "early_release", "mode",
                   "secondary", "accept_old"}
  BY FeatureRequests DEF Arguments, EvacuateNode, Asks
<1>6. Arguments("MigrateNode") \subseteq {"dry_run", "mode", "iallocator", "target_node"}
  BY FeatureRequests DEF Arguments, MigrateNode, Asks
<1>7. \A given \in Givens("CreateInstance") :
        given \subseteq {"instance", "dry_run", "no_install", "params", "conflict"}
  BY <1>1, <1>2, <1>3
<1>8. \A given \in Givens("ReinstallInstance") :
        given \subseteq {"no_startup", "os", "osparams"}
  BY <1>1, <1>2, <1>4
<1>9. \A given \in Givens("EvacuateNode") :
        given \subseteq {"dry_run", "iallocator", "remote_node", "early_release", "mode",
                        "secondary", "accept_old"}
  BY <1>1, <1>2, <1>5
<1>10. \A given \in Givens("MigrateNode") :
        given \subseteq {"dry_run", "mode", "iallocator", "target_node"}
  BY <1>1, <1>2, <1>6
<1> QED BY <1>7, <1>8, <1>9, <1>10

(* A call of the features that is sent in one format and read by a server  *)
(* that has lost the feature is one of the downgrades.                     *)
LEMMA FeatureReaches ==
    ASSUME NEW r, NEW e, NEW has, Effect(e, r, has), Formed(r), r.name \in DOMAIN FeatureOf
    PROVE  Reaches(e)
<1>1. PICK given : /\ Honest(r.name, r.asked, given) /\ ~RaisesAtOnce(r.name, given)
                   /\ ~RaisesUnsent(r.name, given, r.features)
                   /\ r.query = Prepared(Requests(r.features)[r.name], given)
                   /\ r.body = Requests(r.features)[r.name].body \cap given
  BY DEF Formed
<1> DEFINE needs == FeatureOf[r.name]
           form == Requests(r.features)[r.name]
<1>2. /\ needs \in r.features /\ needs \notin has => Downgraded(e)
      /\ e.got = form.sets \cup (IF needs \in has THEN (form.query \cup form.body) \cap given
                               ELSE form.query \cap given)
  BY <1>1 DEF Downgraded, Effect, Got, Prepared
<1>3. r.name \in {"CreateInstance", "ReinstallInstance", "EvacuateNode", "MigrateNode"}
  BY DEF FeatureOf
<1>4. CASE r.name = "CreateInstance"
  <2>1. r.asked = given /\ given \in Givens("CreateInstance")
    BY <1>1, <1>4 DEF Honest, Direct, Ticked, Forms
  <2>2. given \subseteq {"instance", "dry_run", "no_install", "params", "conflict"}
    BY <2>1, FeatureArguments
  <2>3. needs \in r.features /\ "conflict" \notin given
    BY <1>1, <1>4 DEF RaisesUnsent, CreateRaises, FeatureOf
  <2>4. form.query = {"dry_run", "no_install"} /\ form.body = {"instance", "no_install", "params"}
    BY <1>4, FeatureRequests DEF CreateInstance, Asks
  <2>5. CASE needs \in has BY <1>2, <2>1, <2>2, <2>3, <2>4, <2>5 DEF Reaches, Effect
  <2>6. CASE needs \notin has BY <1>2, <2>1, <2>3, <2>4, <2>6 DEF Reaches, Effect
  <2> QED BY <2>5, <2>6
<1>5. CASE r.name = "ReinstallInstance"
  <2>1. r.asked = given /\ given \in Givens("ReinstallInstance")
    BY <1>1, <1>5 DEF Honest, Direct, Ticked, Forms
  <2>2. given \subseteq {"no_startup", "os", "osparams"} BY <2>1, FeatureArguments
  <2>3. CASE needs \in r.features
    <3>1. form.query = {} /\ form.body = {"no_startup", "os", "osparams"}
      BY <1>5, <2>3, FeatureRequests DEF ReinstallInstance, Asks, FeatureOf
    <3> QED BY <1>2, <2>1, <2>2, <2>3, <3>1 DEF Reaches, Effect
  <2>4. CASE needs \notin r.features
    <3>1. form.query = {"no_startup", "os"} /\ form.body = {}
      BY <1>5, <2>4, FeatureRequests DEF ReinstallInstance, Asks, FeatureOf
    <3>2. "osparams" \notin given
      BY <1>1, <1>5, <2>4 DEF RaisesUnsent, ReinstallRaises, FeatureOf
    <3> QED BY <1>2, <2>1, <2>2, <3>1, <3>2 DEF Reaches, Effect
  <2> QED BY <2>3, <2>4
<1>6. CASE r.name = "EvacuateNode"
  <2>1. CASE needs \in r.features
    <3>1. /\ form.query = {"dry_run", "iallocator", "remote_node"}
          /\ form.body = {"early_release", "iallocator", "blank", "remote_node", "mode", "secondary"}
      BY <1>6, <2>1, FeatureRequests DEF EvacuateNode, Asks, FeatureOf
    <3>2. CASE Direct(r.name, r.asked, given)
      <4>1. r.asked = given
            /\ given \subseteq {"dry_run", "iallocator", "remote_node", "early_release", "mode",
                               "secondary", "accept_old"}
        BY <1>6, <3>2, FeatureArguments DEF Direct
      <4> QED BY <1>2, <2>1, <3>1, <4>1 DEF Reaches, Effect, Dropped
    <3>3. CASE Ticked(r.name, r.asked, given)
      <4>1. /\ r.asked \subseteq {"iallocator", "no_allocator", "unannounced", "remote_node"}
            /\ given = IF "iallocator" \notin r.asked THEN r.asked \cap {"remote_node"}
                       ELSE IF DefaultAllocator(r.asked) = "named" THEN {"iallocator"} ELSE {"blank"}
        <5>1. r.asked \in EvacuateForm.boxes /\ given = EvacuateForm.passes[r.asked]
          BY <1>6, <3>3 DEF Ticked, Forms
        <5>2. EvacuateForm.boxes \subseteq
                SUBSET {"iallocator", "no_allocator", "unannounced", "remote_node"}
          BY ZenonT(30) DEF EvacuateForm
        <5> QED BY <5>1, <5>2 DEF EvacuateForm
      <4>2. "dry_run" \notin r.asked BY <4>1
      <4>3. given \subseteq form.query \cup form.body BY <3>1, <4>1
      <4>4. r.asked \ Dropped(e) \subseteq given
        BY <1>6, <4>1 DEF Dropped, Effect, DefaultAllocator
      <4> QED BY <1>2, <2>1, <4>2, <4>3, <4>4 DEF Reaches, Effect
    <3> QED BY <1>1, <3>2, <3>3 DEF Honest
  <2>2. CASE needs \notin r.features
    <3>1. /\ form.query = {"dry_run", "iallocator", "remote_node"} /\ form.body = {}
          /\ form.sets = {"early_release"}
      BY <1>6, <2>2, FeatureRequests DEF EvacuateNode, Asks, FeatureOf
    <3>2. "accept_old" \in given /\ "mode" \notin given
      BY <1>1, <1>6, <2>2 DEF RaisesUnsent, EvacuateRaises, FeatureOf
    <3>3. ~Ticked(r.name, r.asked, given) BY <1>6, <3>2 DEF Ticked, Forms, EvacuateForm
    <3>4. r.asked = given
          /\ given \subseteq {"dry_run", "iallocator", "remote_node", "early_release", "mode",
                             "secondary", "accept_old"}
      BY <1>1, <1>6, <3>3, FeatureArguments DEF Honest, Direct
    <3>5. r.asked \ Dropped(e) \subseteq form.query \cup form.sets
      BY <1>6, <3>1, <3>2, <3>4 DEF Dropped, Effect
    <3> QED BY <1>2, <3>1, <3>4, <3>5 DEF Reaches, Effect
  <2> QED BY <2>1, <2>2
<1>7. CASE r.name = "MigrateNode"
  <2>1. r.asked = given /\ given \subseteq {"dry_run", "mode", "iallocator", "target_node"}
    BY <1>1, <1>7, FeatureArguments DEF Honest, Direct, Ticked, Forms, NodeMigrateForm
  <2>2. CASE needs \in r.features
    <3>1. form.query = {"dry_run"} /\ form.body = {"mode", "iallocator", "target_node"}
      BY <1>7, <2>2, FeatureRequests DEF MigrateNode, Asks, FeatureOf
    <3> QED BY <1>2, <2>1, <2>2, <3>1 DEF Reaches, Effect
  <2>3. CASE needs \notin r.features
    <3>1. form.query = {"dry_run", "mode"} /\ form.body = {}
      BY <1>7, <2>3, FeatureRequests DEF MigrateNode, Asks, FeatureOf
    <3>2. "target_node" \notin given
      BY <1>1, <1>7, <2>3 DEF RaisesUnsent, MigrateRaises, FeatureOf
    <3>3. r.asked \ Dropped(e) \subseteq form.query BY <1>7, <2>1, <3>1, <3>2 DEF Dropped, Effect
    <3> QED BY <1>2, <2>1, <3>1, <3>3 DEF Reaches, Effect
  <2> QED BY <2>2, <2>3
<1> QED BY <1>3, <1>4, <1>5, <1>6, <1>7

LEMMA RequestReaches ==
    ASSUME NEW r, NEW e, NEW has, Effect(e, r, has), Formed(r), "characters" \notin r.query
    PROVE  Reaches(e)
<1>1. DOMAIN Forms \subseteq Names BY AllNames, FormNames DEF Forms, FeatureOf
<1>2. r.name \in Names BY <1>1 DEF Formed, Honest, Direct, Ticked
<1> QED BY <1>2, AllNames, PlainReaches, FeatureReaches

(* A call past its first check is that of an honest caller.                *)
Calling ==
    /\ {"name", "asked", "given", "at", "features"} \subseteq DOMAIN call
    /\ release \in Releases /\ call.features \in Releases
    /\ call.at # "idle" => Honest(call.name, call.asked, call.given)
    /\ call.at \notin {"idle", "raised"} => ~RaisesAtOnce(call.name, call.given)

ReachInv == Calling /\ (\A r \in wire : Formed(r)) /\ ArgumentsReach

LEMMA InitReach == ClientInit => ReachInv
BY DEF ClientInit, ReachInv, Calling, ArgumentsReach, Releases

LEMMA CallReach ==
    ASSUME ReachInv, NEW name, NEW asked, NEW given, Honest(name, asked, given),
           Call(name, asked, given)
    PROVE  ReachInv'
<1>1. Calling' BY DEF Call, FirstStage, ReachInv, Calling
<1>2. UNCHANGED <<wire, effects>> BY DEF Call
<1> QED BY <1>1, <1>2 DEF ReachInv, ArgumentsReach

LEMMA RetryReach == ASSUME ReachInv, Retry PROVE ReachInv'
<1>1. Calling' BY DEF Retry, FirstStage, ReachInv, Calling, Releases
<1>2. UNCHANGED <<wire, effects>> BY DEF Retry
<1> QED BY <1>1, <1>2 DEF ReachInv, ArgumentsReach

LEMMA FeaturesReach == ASSUME ReachInv, NEW status, GetFeatures(status) PROVE ReachInv'
<1>1. {} \in Releases BY DEF Releases
<1>2. Calling' BY <1>1 DEF GetFeatures, Raised, ReachInv, Calling
<1>3. UNCHANGED <<wire, effects>> BY DEF GetFeatures
<1> QED BY <1>2, <1>3 DEF ReachInv, ArgumentsReach

LEMMA SendReach == ASSUME ReachInv, Send PROVE ReachInv'
<1>1. Calling' BY DEF Send, Raised, ReachInv, Calling
<1>2. UNCHANGED effects /\ call.at = "request" BY DEF Send
<1>3. ASSUME NEW r \in wire' PROVE Formed(r)
  <2>1. CASE r \in wire BY <2>1 DEF ReachInv
  <2>2. CASE r \notin wire
    <3> DEFINE form == Requests(call.features)[call.name]
    <3>1. /\ ~RaisesUnsent(call.name, call.given, call.features)
          /\ r = [try |-> call.try, name |-> call.name, asked |-> call.asked,
                  verb |-> form.verb, features |-> call.features,
                  query |-> Prepared(form, call.given), body |-> form.body \cap call.given]
      BY <2>2 DEF Send
    <3>2. Honest(call.name, call.asked, call.given) /\ ~RaisesAtOnce(call.name, call.given)
          /\ call.features \in Releases
      BY <1>2 DEF ReachInv, Calling
    <3>3. /\ r.name = call.name /\ r.asked = call.asked /\ r.features = call.features
          /\ r.query = Prepared(form, call.given) /\ r.body = form.body \cap call.given
      BY <3>1
    <3> HIDE DEF form
    <3> QED BY <3>1, <3>2, <3>3 DEF Formed, form
  <2> QED BY <2>1, <2>2
<1> QED BY <1>1, <1>2, <1>3 DEF ReachInv, ArgumentsReach

LEMMA EndReach == ASSUME ReachInv, Receive \/ TimeOut \/ RefreshFails PROVE ReachInv'
<1>1. Calling' BY DEF Receive, TimeOut, RefreshFails, Raised, ReachInv, Calling
<1>2. UNCHANGED <<wire, effects>> BY DEF Receive, TimeOut, RefreshFails
<1> QED BY <1>1, <1>2 DEF ReachInv, ArgumentsReach

LEMMA ServeReach ==
    ASSUME ReachInv, NEW r \in wire, NEW refuses \in BOOLEAN, Serve(r, refuses)
    PROVE  ReachInv'
<1>1. Calling' BY DEF Serve, ReachInv, Calling
<1>2. \A x \in wire' : Formed(x) BY DEF Serve, ReachInv
<1>3. ASSUME NEW e \in effects' PROVE Reaches(e)
  <2>1. CASE e \in effects BY <2>1 DEF ReachInv, ArgumentsReach, Reaches
  <2>2. CASE e \notin effects
    <3>1. "characters" \notin r.query BY <2>2 DEF Serve
    <3>2. e = [try |-> r.try, name |-> r.name, asked |-> r.asked, features |-> r.features,
               release |-> release, got |-> Got(r, release)]
      BY <2>2 DEF Serve
    <3>3. Effect(e, r, release) BY <3>2 DEF Effect
    <3> QED BY <3>1, <3>3, RequestReaches DEF ReachInv
  <2> QED BY <2>1, <2>2
<1> QED BY <1>1, <1>2, <1>3 DEF ReachInv, ArgumentsReach, Reaches

LEMMA LoseReach == ASSUME ReachInv, NEW r \in wire, Lose(r) PROVE ReachInv'
BY DEF Lose, ReachInv, Calling, ArgumentsReach

LEMMA ChangeReach == ASSUME ReachInv, NEW other \in Releases, Change(other) PROVE ReachInv'
BY DEF Change, ReachInv, Calling, ArgumentsReach

LEMMA StepReach == ReachInv /\ [ClientNext]_clientVars => ReachInv'
<1> SUFFICES ASSUME ReachInv, [ClientNext]_clientVars PROVE ReachInv' OBVIOUS
<1>1. CASE UNCHANGED clientVars BY <1>1 DEF clientVars, ReachInv, Calling, ArgumentsReach
<1>2. CASE CallerStep BY <1>2, FeaturesReach, SendReach, EndReach DEF CallerStep
<1>3. ASSUME NEW name \in Names, NEW given \in Givens(name), Call(name, given, given)
      PROVE  ReachInv'
  BY <1>3, CallReach DEF Honest, Direct
<1>4. ASSUME NEW name \in DOMAIN Forms, NEW ticked \in Forms[name].boxes, Click(name, ticked)
      PROVE  ReachInv'
  BY <1>4, CallReach DEF Click, Honest, Ticked
<1> QED
  BY <1>1, <1>2, <1>3, <1>4, RetryReach, EndReach, ServeReach, LoseReach, ChangeReach DEF ClientNext

(* Whatever the cluster has carried out has every argument that was asked, *)
(* or a page was ticked for, except where the server was downgraded        *)
(* between the question for its features and the request; a dry run is one *)
(* even then (the calls of client.py, and the forms that call them).       *)
THEOREM AskedIsDone == ClientSpec => []ArgumentsReach
<1>1. ReachInv => ArgumentsReach BY DEF ReachInv
<1> QED BY <1>1, InitReach, StepReach, PTL DEF ClientSpec

=============================================================================
