------------------------- MODULE GanetiErrors_proofs -------------------------
(* Proofs about GanetiErrors, for any number of processes and objects, and *)
(* then about Quotas, for any machines, owners and limits.                 *)
EXTENDS GanetiErrors, Quotas, SequenceTheorems, FiniteSetTheorems, FunctionTheorems, TLAPS

Rows == Seq(GanetiError)

(* Every unauthorized call among the rows is blamed on the cluster.        *)
Blamed(rows) ==
    \A i \in DOMAIN rows : rows[i].failure \in Unauthorized => rows[i].obj = Cluster

(* The rows a request will insert are blamed as those of the table are.    *)
IInv == /\ TypeOK
        /\ Blamed(errors)
        /\ \A p \in Proc : Blamed(req[p].new)

(* Clearing rows keeps their number, their objects and their failures.     *)
LEMMA ClearedRows ==
    ASSUME NEW rows \in Rows, NEW clear
    PROVE  /\ Cleared(rows, clear) \in Rows
           /\ DOMAIN Cleared(rows, clear) = DOMAIN rows
           /\ \A i \in DOMAIN rows : /\ Cleared(rows, clear)[i].obj = rows[i].obj
                                     /\ Cleared(rows, clear)[i].failure = rows[i].failure
<1>1. \A i \in DOMAIN rows : rows[i] \in GanetiError
  BY DEF Rows
<1>2. \A i \in DOMAIN rows : [rows[i] EXCEPT !.cleared = @ \/ i \in clear] \in GanetiError
  BY <1>1 DEF GanetiError
<1>3. DOMAIN rows = 1 .. Len(rows) /\ Len(rows) \in Nat
  BY DEF Rows
<1>4. Cleared(rows, clear) \in [1 .. Len(rows) -> GanetiError]
  BY <1>2, <1>3 DEF Cleared
<1>5. Cleared(rows, clear) \in Rows
  BY <1>3, <1>4, IsASeq DEF Rows
<1> QED BY <1>1, <1>5 DEF Cleared, GanetiError

(* s has the rows of the table, up to their clearing, and then those of q. *)
SeenBy(rows, q, s) ==
    /\ s \in Rows
    /\ Len(rows) \in Nat /\ DOMAIN rows = 1 .. Len(rows)
    /\ Len(q.new) \in Nat /\ DOMAIN q.new = 1 .. Len(q.new)
    /\ Len(s) = Len(rows) + Len(q.new) /\ DOMAIN s = 1 .. Len(rows) + Len(q.new)
    /\ \A i \in DOMAIN rows : s[i].obj = rows[i].obj /\ s[i].failure = rows[i].failure
    /\ \A i \in DOMAIN q.new : s[i + Len(rows)] = q.new[i]

(* What a request sees of the table.                                       *)
LEMMA SeenRows ==
    ASSUME NEW rows \in Rows, NEW q \in Request
    PROVE  SeenBy(rows, q, Seen(rows, q))
<1> DEFINE c == Cleared(rows, q.clear)
<1>1. /\ c \in Rows /\ DOMAIN c = DOMAIN rows
      /\ \A i \in DOMAIN rows : c[i].obj = rows[i].obj /\ c[i].failure = rows[i].failure
  BY ClearedRows
<1>2. q.new \in Rows BY DEF Request, Rows
<1>3. Seen(rows, q) = c \o q.new BY DEF Seen
<1>4. /\ Len(c) = Len(rows) /\ Len(c) \in Nat /\ DOMAIN c = 1 .. Len(rows)
      /\ Len(q.new) \in Nat /\ DOMAIN q.new = 1 .. Len(q.new)
  BY <1>1, <1>2 DEF Rows
<1> HIDE DEF c
<1>5. /\ Seen(rows, q) \in Rows /\ Len(Seen(rows, q)) = Len(c) + Len(q.new)
      /\ \A i \in 1 .. Len(c) + Len(q.new) :
           Seen(rows, q)[i] = IF i <= Len(c) THEN c[i] ELSE q.new[i - Len(c)]
  BY <1>1, <1>2, <1>3, ConcatProperties DEF Rows
<1>6. DOMAIN Seen(rows, q) = 1 .. Len(c) + Len(q.new)
  BY <1>5 DEF Rows
<1>7. \A i \in DOMAIN rows : Seen(rows, q)[i] = c[i]
  BY <1>1, <1>4, <1>5
<1>8. \A i \in DOMAIN q.new : Seen(rows, q)[i + Len(rows)] = q.new[i]
  BY <1>4, <1>5
<1> QED BY <1>1, <1>4, <1>5, <1>6, <1>7, <1>8 DEF SeenBy

(* store_error() adds at most one row, and blames it on the right object.  *)
LEMMA StoreErrorType ==
    ASSUME NEW q \in Request, Blamed(q.new), NEW o \in Object, NEW f \in Failure
    PROVE  StoreError(q, o, f) \in Request /\ Blamed(StoreError(q, o, f).new)
<1> DEFINE e == [obj |-> BlamedOn(o, f), failure |-> f, cleared |-> FALSE]
           n == Append(q.new, e)
<1>1. e \in GanetiError BY DEF GanetiError, BlamedOn, Object
<1>2. q.new \in Seq(GanetiError) BY DEF Request
<1>3. n \in Seq(GanetiError) BY <1>1, <1>2
<1>4. /\ DOMAIN n = 1 .. Len(q.new) + 1 /\ Len(q.new) \in Nat /\ n[Len(q.new) + 1] = e
      /\ DOMAIN q.new = 1 .. Len(q.new) /\ \A i \in DOMAIN q.new : n[i] = q.new[i]
  BY <1>1, <1>2
<1>5. f \in Unauthorized => e.obj = Cluster BY DEF BlamedOn
<1>6. Blamed(n)
  <2> SUFFICES ASSUME NEW i \in DOMAIN n, n[i].failure \in Unauthorized PROVE n[i].obj = Cluster
    BY DEF Blamed
  <2>1. CASE i \in DOMAIN q.new
    <3>1. n[i] = q.new[i] BY <1>4, <2>1
    <3> QED BY <2>1, <3>1 DEF Blamed
  <2>2. CASE i = Len(q.new) + 1
    <3>1. n[i] = e BY <1>4, <2>2
    <3>2. n[i].failure = f /\ n[i].obj = e.obj BY <3>1
    <3> QED BY <1>5, <3>2
  <2> QED BY <1>4, <2>1, <2>2
<1>7. [q EXCEPT !.new = n] \in Request BY <1>3 DEF Request
<1>8. StoreError(q, o, f) \in {q, [q EXCEPT !.new = n]} BY DEF StoreError
<1>9. [q EXCEPT !.new = n].new = n BY DEF Request
<1> HIDE DEF n
<1> QED BY <1>6, <1>7, <1>8, <1>9

(* clear_errors() keeps the rows a request inserted, with their keys.      *)
LEMMA ClearErrorsType ==
    ASSUME errors \in Rows, NEW q \in Request, NEW o
    PROVE  /\ ClearErrors(q, o) \in Request
           /\ DOMAIN ClearErrors(q, o).new = DOMAIN q.new
           /\ \A i \in DOMAIN q.new :
                /\ ClearErrors(q, o).new[i].obj = q.new[i].obj
                /\ ClearErrors(q, o).new[i].failure = q.new[i].failure
<1> DEFINE n == Cleared(q.new, ErrorsOf(q.new, o))
           c == q.clear \cup ErrorsOf(errors, o)
<1>1. q.new \in Rows /\ q.clear \subseteq Nat BY DEF Request, Rows
<1>2. c \subseteq Nat BY <1>1 DEF Rows, ErrorsOf
<1>3. /\ n \in Rows /\ DOMAIN n = DOMAIN q.new
      /\ \A i \in DOMAIN q.new : n[i].obj = q.new[i].obj /\ n[i].failure = q.new[i].failure
  BY <1>1, ClearedRows
<1>4. ClearErrors(q, o) = [q EXCEPT !.clear = c, !.new = n] BY DEF ClearErrors
<1> HIDE DEF n, c
<1>5. ClearErrors(q, o) \in Request /\ ClearErrors(q, o).new = n
  BY <1>2, <1>3, <1>4 DEF Request, Rows
<1> QED BY <1>3, <1>5

(* refresh() keeps a request well typed, and its rows rightly blamed.      *)
LEMMA RefreshedType ==
    ASSUME TypeOK, NEW q \in Request, Blamed(q.new), NEW o \in Object, NEW failed \in BOOLEAN
    PROVE  Refreshed(q, o, failed) \in Request /\ Blamed(Refreshed(q, o, failed).new)
<1>1. errors \in Rows /\ api[o] \in Failure \cup {Works} BY DEF TypeOK, Rows
<1>2. ClearErrors(q, o) \in Request /\ Blamed(ClearErrors(q, o).new)
  BY <1>1, ClearErrorsType DEF Blamed
<1>3. api[o] # Works =>
        StoreError(q, o, api[o]) \in Request /\ Blamed(StoreError(q, o, api[o]).new)
  BY <1>1, StoreErrorType
<1>4. ASSUME NEW r \in Request
      PROVE  /\ [r EXCEPT !.failed = @ \cup {o}] \in Request
             /\ [r EXCEPT !.failed = @ \ {o}] \in Request
             /\ [r EXCEPT !.failed = @ \cup {o}].new = r.new
             /\ [r EXCEPT !.failed = @ \ {o}].new = r.new
  BY DEF Request
<1> QED BY <1>2, <1>3, <1>4 DEF Refreshed

(* Rows that are all rightly blamed are so when a request sees them.       *)
LEMMA SeenBlamed ==
    ASSUME NEW rows, NEW q, NEW s, SeenBy(rows, q, s), Blamed(rows), Blamed(q.new)
    PROVE  s \in Rows /\ Blamed(s)
<1>1. ASSUME NEW i \in DOMAIN s
      PROVE  i \in DOMAIN rows \/ (i - Len(rows) \in DOMAIN q.new /\ i = (i - Len(rows)) + Len(rows))
  BY DEF SeenBy
<1> QED BY <1>1 DEF SeenBy, Blamed

(* A request may be replaced by any well-typed one with blamed rows.       *)
LEMMA RequestChange ==
    ASSUME IInv, NEW p \in Proc, NEW r \in Request, Blamed(r.new),
           req' = [req EXCEPT ![p] = r], errors' \in Rows, Blamed(errors'), api' = api
    PROVE  IInv'
BY DEF IInv, TypeOK, Blamed, Rows

(* No error is stored, no request is open.                                 *)
LEMMA InitIInv == Init => IInv
BY DEF Init, IInv, TypeOK, Blamed, Idle, Request, GanetiError, Object

(* The invariant is inductive.                                             *)
LEMMA NextIInv == IInv /\ [Next]_vars => IInv'
<1> SUFFICES ASSUME IInv, [Next]_vars PROVE IInv' OBVIOUS
<1>1. errors \in Rows /\ Blamed(errors) BY DEF IInv, TypeOK, Rows
<1>2. \A p \in Proc : req[p] \in Request /\ Blamed(req[p].new) BY DEF IInv, TypeOK
<1>3. Idle \in Request /\ Blamed(Idle.new)
  BY DEF Idle, Request, GanetiError, Object, Blamed
<1>4. ASSUME NEW p \in Proc, NEW o \in Object, Load(p, o) PROVE IInv'
  <2> DEFINE r == Refreshed(req[p], o, FALSE)
  <2>1. r \in Request /\ Blamed(r.new) BY <1>2, RefreshedType DEF IInv
  <2>2. [r EXCEPT !.open = TRUE] \in Request
    BY <2>1 DEF Request
  <2>3. [r EXCEPT !.open = TRUE].new = r.new BY <2>1 DEF Request
  <2>4. /\ req' = [req EXCEPT ![p] = [r EXCEPT !.open = TRUE]]
        /\ errors' = errors /\ api' = api
    BY <1>4 DEF Load
  <2> HIDE DEF r
  <2> QED BY <1>1, <2>1, <2>2, <2>3, <2>4, RequestChange
<1>5. ASSUME NEW p \in Proc, NEW o \in Object, RefreshAgain(p, o) PROVE IInv'
  <2> DEFINE r == Refreshed(req[p], o, TRUE)
  <2>1. r \in Request /\ Blamed(r.new) BY <1>2, RefreshedType DEF IInv
  <2>2. req' = [req EXCEPT ![p] = r] /\ errors' = errors /\ api' = api
    BY <1>5 DEF RefreshAgain
  <2> HIDE DEF r
  <2> QED BY <1>1, <2>1, <2>2, RequestChange
<1>6. ASSUME NEW p \in Proc, Commit(p) PROVE IInv'
  <2>1. SeenBy(errors, req[p], Seen(errors, req[p])) BY <1>1, <1>2, SeenRows
  <2>2. Seen(errors, req[p]) \in Rows /\ Blamed(Seen(errors, req[p]))
    BY <1>1, <1>2, <2>1, SeenBlamed
  <2> QED BY <1>3, <1>6, <2>2, RequestChange DEF Commit
<1>7. ASSUME NEW p \in Proc, Abort(p) PROVE IInv'
  BY <1>1, <1>3, <1>7, RequestChange DEF Abort
<1>8. ASSUME NEW i \in DOMAIN errors, Dismiss(i) PROVE IInv'
  <2>1. errors' \in Rows /\ Blamed(errors') /\ api' = api /\ req' = req
    BY <1>1, <1>8, ClearedRows DEF Dismiss, Blamed
  <2> QED BY <2>1 DEF IInv, TypeOK, Rows
<1>9. ASSUME NEW o \in Object, NEW f \in Failure \cup {Works}, ApiChanges(o, f) PROVE IInv'
  BY <1>9 DEF ApiChanges, IInv, TypeOK
<1>10. CASE UNCHANGED vars
  BY <1>10 DEF vars, IInv, TypeOK
<1> QED BY <1>4, <1>5, <1>6, <1>7, <1>8, <1>9, <1>10 DEF Next

(* Whatever fails and however requests interleave, store_error() leaves    *)
(* 401 errors on the cluster only.                                         *)
THEOREM UnauthorizedOnCluster == Spec => []UnauthorizedIsOfCluster
<1>1. IInv => UnauthorizedIsOfCluster
  BY DEF IInv, TypeOK, Blamed, UnauthorizedIsOfCluster, ToSet
<1> QED BY <1>1, InitIInv, NextIInv, PTL DEF Spec

-----------------------------------------------------------------------------
(* One process at a time.                                                  *)

Distinct(rows) ==
    \A i, j \in DOMAIN rows :
        rows[i].obj = rows[j].obj /\ rows[i].failure = rows[j].failure => i = j

(* Rows with the same keys are as distinct.                                *)
SameKeys(rows, others) ==
    /\ DOMAIN rows = DOMAIN others
    /\ \A i \in DOMAIN rows : /\ rows[i].obj = others[i].obj
                              /\ rows[i].failure = others[i].failure

(* Intervals from 1 are equal only when their ends are. *)
LEMMA Intervals == ASSUME NEW m \in Nat, NEW n \in Nat, 1 .. m = 1 .. n PROVE m = n
<1>1. m > 0 => m \in 1 .. n OBVIOUS
<1>2. n > 0 => n \in 1 .. m OBVIOUS
<1> QED BY <1>1, <1>2

(* What a request sees depends, in its keys, on the keys it starts from.   *)
LEMMA SeenKeys ==
    ASSUME NEW rows, NEW others, SameKeys(rows, others),
           NEW q, NEW r, SameKeys(q.new, r.new),
           NEW s, NEW t, SeenBy(rows, q, s), SeenBy(others, r, t)
    PROVE  SameKeys(s, t)
<1>1. Len(rows) = Len(others) /\ Len(q.new) = Len(r.new)
  BY Intervals DEF SameKeys, SeenBy
<1>2. DOMAIN s = DOMAIN t
  BY <1>1 DEF SeenBy
<1>3. ASSUME NEW i \in DOMAIN s
      PROVE  s[i].obj = t[i].obj /\ s[i].failure = t[i].failure
  <2>1. CASE i \in DOMAIN rows
    BY <2>1 DEF SameKeys, SeenBy
  <2>2. CASE i \notin DOMAIN rows
    <3> DEFINE k == i - Len(rows)
    <3>1. k \in DOMAIN q.new /\ i = k + Len(rows) BY <2>2 DEF SeenBy
    <3> HIDE DEF k
    <3>2. s[i] = q.new[k] /\ t[i] = r.new[k] BY <1>1, <3>1 DEF SeenBy, SameKeys
    <3> QED BY <3>1, <3>2 DEF SameKeys
  <2> QED BY <2>1, <2>2
<1> QED BY <1>2, <1>3 DEF SameKeys

(* A request without writes of its own sees the keys of the table.         *)
LEMMA IdleKeys ==
    ASSUME NEW rows, NEW s, SeenBy(rows, Idle, s)
    PROVE  SameKeys(s, rows)
<1>1. Len(Idle.new) = 0 BY DEF Idle
<1> QED BY <1>1 DEF SameKeys, SeenBy

(* A row whose key is new keeps the rows distinct.                         *)
LEMMA AppendDistinct ==
    ASSUME NEW rows, NEW q, NEW r, NEW s, NEW t, NEW e,
           SeenBy(rows, q, s), SeenBy(rows, r, t), Distinct(s),
           Len(r.new) = Len(q.new) + 1, r.new[Len(q.new) + 1] = e,
           \A i \in DOMAIN q.new : r.new[i] = q.new[i],
           \A i \in DOMAIN s : ~(s[i].obj = e.obj /\ s[i].failure = e.failure)
    PROVE  Distinct(t)
<1>1. ASSUME NEW i \in DOMAIN s
      PROVE  t[i].obj = s[i].obj /\ t[i].failure = s[i].failure
  <2>1. CASE i \in DOMAIN rows
    BY <2>1 DEF SeenBy
  <2>2. CASE i \notin DOMAIN rows
    <3> DEFINE k == i - Len(rows)
    <3>1. k \in DOMAIN q.new /\ i = k + Len(rows)
      BY <2>2 DEF SeenBy
    <3> HIDE DEF k
    <3>2. k \in DOMAIN r.new BY <3>1 DEF SeenBy
    <3> QED BY <3>1, <3>2 DEF SeenBy
  <2> QED BY <2>1, <2>2
<1>2. t[Len(s) + 1] = e
  <2> DEFINE k == Len(q.new) + 1
  <2>1. k \in DOMAIN r.new /\ Len(s) + 1 = k + Len(rows) BY DEF SeenBy
  <2>2. r.new[k] = e OBVIOUS
  <2> HIDE DEF k
  <2> QED BY <2>1, <2>2 DEF SeenBy
<1>3. ASSUME NEW i \in DOMAIN t, i \notin DOMAIN s PROVE i = Len(s) + 1
  BY <1>3 DEF SeenBy
<1>4. SUFFICES ASSUME NEW i \in DOMAIN t, NEW j \in DOMAIN t,
                      t[i].obj = t[j].obj, t[i].failure = t[j].failure
               PROVE  i = j
  BY DEF Distinct
<1>5. CASE i \in DOMAIN s /\ j \in DOMAIN s
  BY <1>1, <1>4, <1>5 DEF Distinct
<1>6. CASE i \notin DOMAIN s \/ j \notin DOMAIN s
  BY <1>1, <1>2, <1>3, <1>4, <1>6
<1> QED BY <1>5, <1>6

(* store_error() adds only a row whose key it has not found.               *)
LEMMA StoreErrorDistinct ==
    ASSUME errors \in Rows, NEW q \in Request, Distinct(Seen(errors, q)),
           NEW o \in Object, NEW f \in Failure
    PROVE  StoreError(q, o, f) \in Request /\ Distinct(Seen(errors, StoreError(q, o, f)))
<1> DEFINE e == [obj |-> BlamedOn(o, f), failure |-> f, cleared |-> FALSE]
           n == Append(q.new, e)
           r == [q EXCEPT !.new = n]
<1>1. e \in GanetiError BY DEF GanetiError, BlamedOn, Object
<1>2. q.new \in Seq(GanetiError) BY DEF Request
<1>3. n \in Seq(GanetiError) BY <1>1, <1>2
<1>4. /\ Len(n) = Len(q.new) + 1 /\ n[Len(q.new) + 1] = e
      /\ \A i \in DOMAIN q.new : n[i] = q.new[i]
  BY <1>1, <1>2
<1>5. r \in Request /\ r.new = n BY <1>3 DEF Request
<1>6. SeenBy(errors, q, Seen(errors, q)) BY SeenRows
<1>7. CASE StoreError(q, o, f) = q
  BY <1>7
<1>8. CASE StoreError(q, o, f) = r /\ ~Stored(Seen(errors, q), BlamedOn(o, f), f)
  <2>1. \A i \in DOMAIN Seen(errors, q) :
          ~(Seen(errors, q)[i].obj = e.obj /\ Seen(errors, q)[i].failure = e.failure)
    BY <1>8 DEF Stored, ToSet
  <2>2. SeenBy(errors, r, Seen(errors, r)) BY <1>5, SeenRows
  <2> HIDE DEF e, n, r
  <2>3. Distinct(Seen(errors, r))
    BY <1>4, <1>5, <1>6, <2>1, <2>2, AppendDistinct
  <2> QED BY <1>5, <1>8, <2>3
<1>9. StoreError(q, o, f) = q
      \/ (StoreError(q, o, f) = r /\ ~Stored(Seen(errors, q), BlamedOn(o, f), f))
  BY DEF StoreError
<1> QED BY <1>7, <1>8, <1>9

(* Neither does refresh() repeat a key, whichever branch it takes.         *)
LEMMA RefreshedDistinct ==
    ASSUME TypeOK, NEW q \in Request, Distinct(Seen(errors, q)),
           NEW o \in Object, NEW failed \in BOOLEAN
    PROVE  /\ Refreshed(q, o, failed) \in Request
           /\ Distinct(Seen(errors, Refreshed(q, o, failed)))
<1>1. errors \in Rows /\ api[o] \in Failure \cup {Works} BY DEF TypeOK, Rows
<1>2. ClearErrors(q, o) \in Request /\ Distinct(Seen(errors, ClearErrors(q, o)))
  <2>1. ClearErrors(q, o) \in Request /\ SameKeys(ClearErrors(q, o).new, q.new)
    BY <1>1, ClearErrorsType DEF SameKeys
  <2>2. /\ SeenBy(errors, q, Seen(errors, q))
        /\ SeenBy(errors, ClearErrors(q, o), Seen(errors, ClearErrors(q, o)))
    BY <1>1, <2>1, SeenRows
  <2>3. SameKeys(errors, errors) BY DEF SameKeys
  <2>4. SameKeys(Seen(errors, ClearErrors(q, o)), Seen(errors, q))
    BY <2>1, <2>2, <2>3, SeenKeys
  <2> QED BY <2>1, <2>4 DEF SameKeys, Distinct
<1>3. api[o] # Works =>
        /\ StoreError(q, o, api[o]) \in Request
        /\ Distinct(Seen(errors, StoreError(q, o, api[o])))
  BY <1>1, StoreErrorDistinct
<1>4. ASSUME NEW r \in Request
      PROVE  /\ [r EXCEPT !.failed = @ \cup {o}] \in Request
             /\ [r EXCEPT !.failed = @ \ {o}] \in Request
             /\ Seen(errors, [r EXCEPT !.failed = @ \cup {o}]) = Seen(errors, r)
             /\ Seen(errors, [r EXCEPT !.failed = @ \ {o}]) = Seen(errors, r)
  BY DEF Request, Seen
<1> QED BY <1>2, <1>3, <1>4 DEF Refreshed

(* With one process, what its request sees never repeats a key.            *)
Alone(p) == Proc = {p}
OneInv(p) == IInv /\ Distinct(Seen(errors, req[p]))

(* The empty table repeats no key. *)
LEMMA InitOneInv == ASSUME NEW p, Alone(p), Init PROVE OneInv(p)
<1>1. IInv BY InitIInv
<1>2. errors = <<>> /\ req[p] = Idle /\ Idle \in Request /\ errors \in Rows
  BY <1>1 DEF Init, Alone, IInv, TypeOK, Rows
<1>3. SameKeys(Seen(errors, Idle), errors) BY <1>2, SeenRows, IdleKeys
<1> QED BY <1>1, <1>2, <1>3 DEF OneInv, SameKeys, Distinct

(* No step of the only process repeats one. *)
LEMMA NextOneInv == ASSUME NEW p, Alone(p), OneInv(p), [Next]_vars PROVE OneInv(p)'
<1>1. IInv' BY NextIInv DEF OneInv
<1>2. /\ TypeOK /\ errors \in Rows /\ p \in Proc /\ req[p] \in Request
      /\ SeenBy(errors, req[p], Seen(errors, req[p])) /\ Idle \in Request
  <2>1. TypeOK /\ errors \in Rows /\ p \in Proc BY DEF OneInv, IInv, TypeOK, Rows, Alone
  <2>2. req[p] \in Request BY <2>1 DEF TypeOK
  <2>3. Idle \in Request BY DEF Idle, Request, Object, GanetiError
  <2> QED BY <2>1, <2>2, <2>3, SeenRows
<1>3. errors' \in Rows /\ req'[p] \in Request BY <1>1, <1>2 DEF IInv, TypeOK, Rows
<1>4. Distinct(errors)
  BY <1>2 DEF OneInv, SeenBy, Distinct
<1>5. ASSUME SameKeys(errors', errors), SameKeys(req'[p].new, req[p].new)
      PROVE  Distinct(Seen(errors', req'[p]))
  <2>1. SeenBy(errors', req'[p], Seen(errors', req'[p])) BY <1>3, SeenRows
  <2>2. SameKeys(Seen(errors', req'[p]), Seen(errors, req[p]))
    BY <1>2, <1>5, <2>1, SeenKeys
  <2> QED BY <2>2 DEF OneInv, SameKeys, Distinct
<1>6. ASSUME Distinct(errors'), req'[p] = Idle PROVE Distinct(Seen(errors', req'[p]))
  <2>1. SameKeys(Seen(errors', Idle), errors') BY <1>2, <1>3, SeenRows, IdleKeys
  <2> QED BY <1>6, <2>1 DEF SameKeys, Distinct
<1>7. ASSUME NEW o \in Object, Load(p, o) PROVE Distinct(Seen(errors', req'[p]))
  <2> DEFINE r == Refreshed(req[p], o, FALSE)
  <2>1. r \in Request /\ Distinct(Seen(errors, r))
    BY <1>2, RefreshedDistinct DEF OneInv
  <2>2. req'[p] = [r EXCEPT !.open = TRUE] /\ errors' = errors
    BY <1>2, <1>7 DEF Load, TypeOK
  <2>3. Seen(errors, [r EXCEPT !.open = TRUE]) = Seen(errors, r)
    BY <2>1 DEF Request, Seen
  <2> QED BY <2>1, <2>2, <2>3
<1>8. ASSUME NEW o \in Object, RefreshAgain(p, o) PROVE Distinct(Seen(errors', req'[p]))
  <2>1. req'[p] = Refreshed(req[p], o, TRUE) /\ errors' = errors
    BY <1>2, <1>8 DEF RefreshAgain, TypeOK
  <2> QED BY <1>2, <2>1, RefreshedDistinct DEF OneInv
<1>9. ASSUME Commit(p) PROVE Distinct(Seen(errors', req'[p]))
  BY <1>2, <1>6, <1>9 DEF Commit, OneInv, TypeOK
<1>10. ASSUME Abort(p) PROVE Distinct(Seen(errors', req'[p]))
  BY <1>2, <1>4, <1>6, <1>10 DEF Abort, TypeOK
<1>11. ASSUME NEW i \in DOMAIN errors, Dismiss(i) PROVE Distinct(Seen(errors', req'[p]))
  <2>1. SameKeys(errors', errors) BY <1>2, <1>11, ClearedRows DEF Dismiss, SameKeys
  <2>2. SameKeys(req'[p].new, req[p].new) BY <1>11 DEF Dismiss, SameKeys
  <2> QED BY <1>5, <2>1, <2>2
<1>12. ASSUME UNCHANGED <<errors, req>> PROVE Distinct(Seen(errors', req'[p]))
  BY <1>12 DEF OneInv
<1>13. Distinct(Seen(errors', req'[p]))
  BY <1>7, <1>8, <1>9, <1>10, <1>11, <1>12 DEF Next, vars, Alone, ApiChanges
<1> QED BY <1>1, <1>13 DEF OneInv

(* A single process never stores one error twice (the try/except of        *)
(* store_error that stands for get_or_create); two processes do.           *)
THEOREM OneRowAlone == ASSUME NEW p, Proc = {p} PROVE Spec => []OneRowPerFailure
<1>1. Init => OneInv(p) BY InitOneInv DEF Alone
<1>2. OneInv(p) /\ [Next]_vars => OneInv(p)' BY NextOneInv DEF Alone
<1>3. OneInv(p) => OneRowPerFailure
  <2> SUFFICES ASSUME OneInv(p) PROVE OneRowPerFailure OBVIOUS
  <2>1. errors \in Rows /\ req[p] \in Request BY DEF OneInv, IInv, TypeOK, Rows
  <2>2. SeenBy(errors, req[p], Seen(errors, req[p])) BY <2>1, SeenRows
  <2> QED BY <2>2 DEF OneInv, SeenBy, Distinct, OneRowPerFailure
<1> QED BY <1>1, <1>2, <1>3, PTL DEF Spec

-----------------------------------------------------------------------------
(* No child of a cluster is given a row for a 404 that the cluster shows:  *)
(* of what the only request will insert, the cluster's own row is cleared. *)
Quieted(rows, q) ==
    \A j \in DOMAIN q.new, i \in DOMAIN rows :
        /\ q.new[j].obj \in Child /\ q.new[j].failure \in NotFound
        /\ rows[i].obj = Cluster /\ rows[i].failure = q.new[j].failure
        => rows[i].cleared \/ i \in q.clear

QInv(p) == IInv /\ Quieted(errors, req[p])

(* A request sees its own clearing of rows.                                *)
LEMMA SeenCleared ==
    ASSUME NEW rows \in Rows, NEW q \in Request, NEW i \in DOMAIN rows
    PROVE  /\ i \in DOMAIN Seen(rows, q)
           /\ Seen(rows, q)[i].obj = rows[i].obj
           /\ Seen(rows, q)[i].failure = rows[i].failure
           /\ Seen(rows, q)[i].cleared <=> rows[i].cleared \/ i \in q.clear
<1> DEFINE c == Cleared(rows, q.clear)
<1>1. c \in Rows /\ DOMAIN c = DOMAIN rows
  BY ClearedRows
<1>2. /\ rows[i] \in GanetiError /\ DOMAIN rows = 1 .. Len(rows) /\ Len(rows) \in Nat
      /\ q.new \in Rows
  BY DEF Rows, Request
<1>3. c[i].cleared <=> rows[i].cleared \/ i \in q.clear
  <2>1. c[i] = [rows[i] EXCEPT !.cleared = @ \/ i \in q.clear]
    BY DEF Cleared
  <2> QED BY <1>2, <2>1 DEF GanetiError
<1>4. Len(c) = Len(rows) /\ Seen(rows, q) = c \o q.new
  <2> HIDE DEF c
  <2>1. DOMAIN c = 1 .. Len(c) /\ Len(c) \in Nat
    BY <1>1 DEF Rows
  <2>2. Len(c) = Len(rows)
    BY <1>1, <1>2, <2>1, Intervals
  <2> QED BY <2>2 DEF Seen, c
<1>5. Seen(rows, q)[i] = c[i]
  <2> HIDE DEF c
  <2> QED BY <1>1, <1>2, <1>4, ConcatProperties DEF Rows
<1>6. i \in DOMAIN Seen(rows, q) /\ Seen(rows, q)[i].obj = rows[i].obj
      /\ Seen(rows, q)[i].failure = rows[i].failure
  <2> HIDE DEF c
  <2>1. SeenBy(rows, q, Seen(rows, q))
    BY SeenRows
  <2>2. i \in 1 .. Len(rows) + Len(q.new)
    BY <1>2, <2>1 DEF SeenBy
  <2> QED BY <2>1, <2>2 DEF SeenBy
<1> QED BY <1>3, <1>5, <1>6

(* store_error() looks for the cluster's row before it adds a child's.     *)
LEMMA StoreErrorQuiet ==
    ASSUME errors \in Rows, NEW q \in Request, Quieted(errors, q),
           NEW o \in Object, NEW f \in Failure
    PROVE  Quieted(errors, StoreError(q, o, f))
<1> DEFINE e == [obj |-> BlamedOn(o, f), failure |-> f, cleared |-> FALSE]
           n == Append(q.new, e)
           r == [q EXCEPT !.new = n]
<1>1. e \in GanetiError /\ q.new \in Seq(GanetiError)
  BY DEF GanetiError, BlamedOn, Object, Request
<1>2. /\ DOMAIN n = 1 .. Len(q.new) + 1 /\ DOMAIN q.new = 1 .. Len(q.new) /\ Len(q.new) \in Nat
      /\ n[Len(q.new) + 1] = e /\ \A i \in DOMAIN q.new : n[i] = q.new[i]
  BY <1>1
<1>3. r.new = n /\ r.clear = q.clear
  BY DEF Request
<1>4. StoreError(q, o, f) = q \/ (StoreError(q, o, f) = r /\ ~Silenced(Seen(errors, q), o, f))
  BY DEF StoreError
<1>5. ASSUME ~Silenced(Seen(errors, q), o, f), f \in NotFound, o \in Child,
             NEW i \in DOMAIN errors, errors[i].obj = Cluster, errors[i].failure = f
      PROVE  errors[i].cleared \/ i \in q.clear
  <2> DEFINE s == Seen(errors, q)
  <2>1. /\ i \in DOMAIN s /\ s[i].obj = Cluster /\ s[i].failure = f
        /\ s[i].cleared <=> errors[i].cleared \/ i \in q.clear
    BY <1>5, SeenCleared
  <2>2. s[i] \in ToSet(s)
    BY <2>1 DEF ToSet
  <2>3. s[i].cleared
    BY <1>5, <2>1, <2>2, ChildAssumption DEF Silenced
  <2> QED BY <2>1, <2>3
<1>6. e.failure \in NotFound => e.obj = o /\ e.failure = f
  BY FailureAssumption DEF BlamedOn
<1>7. ASSUME ~Silenced(Seen(errors, q), o, f) PROVE Quieted(errors, r)
  <2> HIDE DEF e, n, r
  <2> SUFFICES ASSUME NEW j \in DOMAIN n, NEW i \in DOMAIN errors,
                      n[j].obj \in Child, n[j].failure \in NotFound,
                      errors[i].obj = Cluster, errors[i].failure = n[j].failure
               PROVE  errors[i].cleared \/ i \in q.clear
    BY <1>3 DEF Quieted
  <2>1. CASE j \in DOMAIN q.new
    BY <1>2, <2>1 DEF Quieted
  <2>2. CASE j \notin DOMAIN q.new
    <3>1. n[j] = e
      BY <1>2, <2>2
    <3> QED BY <1>5, <1>6, <1>7, <3>1
  <2> QED BY <2>1, <2>2
<1> QED BY <1>4, <1>7

(* clear_errors() and refresh().                                           *)
LEMMA RefreshedQuiet ==
    ASSUME TypeOK, NEW q \in Request, Quieted(errors, q), NEW o \in Object, NEW failed \in BOOLEAN
    PROVE  Quieted(errors, Refreshed(q, o, failed))
<1>1. errors \in Rows /\ api[o] \in Failure \cup {Works}
  BY DEF TypeOK, Rows
<1>2. Quieted(errors, ClearErrors(q, o)) /\ ClearErrors(q, o) \in Request
  <2>1. /\ ClearErrors(q, o) \in Request
        /\ DOMAIN ClearErrors(q, o).new = DOMAIN q.new
        /\ \A i \in DOMAIN q.new : /\ ClearErrors(q, o).new[i].obj = q.new[i].obj
                                   /\ ClearErrors(q, o).new[i].failure = q.new[i].failure
    BY <1>1, ClearErrorsType
  <2>2. q.clear \subseteq ClearErrors(q, o).clear
    BY DEF ClearErrors, Request
  <2> QED BY <2>1, <2>2 DEF Quieted
<1>3. api[o] # Works => /\ Quieted(errors, StoreError(q, o, api[o]))
                        /\ StoreError(q, o, api[o]) \in Request
  <2>1. ASSUME NEW f \in Failure PROVE StoreError(q, o, f) \in Request
    <3>1. q.new \in Seq(GanetiError)
      BY DEF Request
    <3>2. [obj |-> BlamedOn(o, f), failure |-> f, cleared |-> FALSE] \in GanetiError
      BY DEF GanetiError, BlamedOn, Object
    <3>3. Append(q.new, [obj |-> BlamedOn(o, f), failure |-> f, cleared |-> FALSE]) \in Seq(GanetiError)
      BY <3>1, <3>2
    <3> QED BY <3>3 DEF StoreError, Request
  <2> QED BY <1>1, <2>1, StoreErrorQuiet
<1>4. ASSUME NEW r \in Request, Quieted(errors, r)
      PROVE  /\ Quieted(errors, [r EXCEPT !.failed = @ \cup {o}])
             /\ Quieted(errors, [r EXCEPT !.failed = @ \ {o}])
  BY <1>4 DEF Request, Quieted
<1>5. Quieted(errors, IF failed THEN ClearErrors(q, o) ELSE q)
      /\ (IF failed THEN ClearErrors(q, o) ELSE q) \in Request
  BY <1>2
<1> QED BY <1>3, <1>4, <1>5 DEF Refreshed

LEMMA NextQInv == ASSUME NEW p, Alone(p), QInv(p), [Next]_vars PROVE QInv(p)'
<1>1. IInv'
  BY NextIInv DEF QInv
<1>2. /\ TypeOK /\ errors \in Rows /\ p \in Proc /\ req[p] \in Request /\ req \in [Proc -> Request]
  BY DEF QInv, IInv, TypeOK, Rows, Alone
<1>3. Idle.new = <<>>
  BY DEF Idle
<1>4. ASSUME NEW o \in Object, Load(p, o) PROVE Quieted(errors', req'[p])
  <2> DEFINE r == Refreshed(req[p], o, FALSE)
  <2>1. Quieted(errors, r) /\ r \in Request
    BY <1>2, RefreshedQuiet, RefreshedType DEF QInv, IInv
  <2>2. req'[p] = [r EXCEPT !.open = TRUE] /\ errors' = errors
    BY <1>2, <1>4 DEF Load
  <2>3. [r EXCEPT !.open = TRUE].new = r.new /\ [r EXCEPT !.open = TRUE].clear = r.clear
    BY <2>1 DEF Request
  <2> QED BY <2>1, <2>2, <2>3 DEF Quieted
<1>5. ASSUME NEW o \in Object, RefreshAgain(p, o) PROVE Quieted(errors', req'[p])
  <2>1. req'[p] = Refreshed(req[p], o, TRUE) /\ errors' = errors
    BY <1>2, <1>5 DEF RefreshAgain
  <2> QED BY <1>2, <2>1, RefreshedQuiet DEF QInv
<1>6. ASSUME Commit(p) \/ Abort(p) PROVE Quieted(errors', req'[p])
  <2>1. req'[p] = Idle
    BY <1>2, <1>6 DEF Commit, Abort
  <2> QED BY <1>3, <2>1 DEF Quieted
<1>7. ASSUME NEW k \in DOMAIN errors, Dismiss(k) PROVE Quieted(errors', req'[p])
  <2>1. /\ DOMAIN errors' = DOMAIN errors /\ req' = req
        /\ \A i \in DOMAIN errors : errors'[i].obj = errors[i].obj /\ errors'[i].failure = errors[i].failure
    BY <1>2, <1>7, ClearedRows DEF Dismiss
  <2>2. \A i \in DOMAIN errors : errors[i].cleared => errors'[i].cleared
    <3> SUFFICES ASSUME NEW i \in DOMAIN errors, errors[i].cleared PROVE errors'[i].cleared
      OBVIOUS
    <3>1. errors'[i] = [errors[i] EXCEPT !.cleared = @ \/ i \in {k}] /\ errors[i] \in GanetiError
      BY <1>2, <1>7 DEF Dismiss, Cleared, Rows
    <3> QED BY <3>1 DEF GanetiError
  <2> QED BY <2>1, <2>2 DEF QInv, Quieted
<1>8. ASSUME UNCHANGED <<errors, req>> PROVE Quieted(errors', req'[p])
  BY <1>8 DEF QInv
<1>9. Quieted(errors', req'[p])
  BY <1>4, <1>5, <1>6, <1>7, <1>8 DEF Next, vars, Alone, ApiChanges
<1> QED BY <1>1, <1>9 DEF QInv

(* The rows that a commit adds are those of its request.                   *)
LEMMA CommitQuiet ==
    ASSUME NEW p, Alone(p), QInv(p), [Next]_vars,
           NEW i \in DOMAIN errors, NEW j \in DOMAIN errors' \ DOMAIN errors,
           errors[i].obj = Cluster, errors[i].failure \in NotFound,
           errors'[j].obj \in Child, errors'[j].failure = errors[i].failure
    PROVE  errors[i].cleared \/ errors'[i].cleared
<1>1. /\ errors \in Rows /\ p \in Proc /\ req[p] \in Request
  BY DEF QInv, IInv, TypeOK, Rows, Alone
<1>2. Commit(p)
  <2>1. ASSUME NEW k, Dismiss(k) PROVE DOMAIN errors' = DOMAIN errors
    BY <1>1, <2>1, ClearedRows DEF Dismiss
  <2> QED BY <2>1 DEF Next, vars, Alone, Load, RefreshAgain, Abort, ApiChanges
<1>3. errors' = Seen(errors, req[p]) /\ SeenBy(errors, req[p], Seen(errors, req[p]))
  BY <1>1, <1>2, SeenRows DEF Commit
<1> DEFINE k == j - Len(errors)
<1>4. k \in DOMAIN req[p].new /\ j = k + Len(errors)
  BY <1>3 DEF SeenBy
<1> HIDE DEF k
<1>5. errors'[j] = req[p].new[k]
  BY <1>3, <1>4 DEF SeenBy
<1>6. errors[i].cleared \/ i \in req[p].clear
  BY <1>4, <1>5 DEF QInv, Quieted
<1> QED BY <1>1, <1>3, <1>6, SeenCleared

(* With one process no child gets a row for a 404 that its cluster shows   *)
(* all the while (utils/models.py:153).                                    *)
THEOREM SilencedAlone == ASSUME NEW p, Proc = {p} PROVE Spec => ChildrenSilenced
<1>1. Init => QInv(p)
  BY InitIInv DEF QInv, Quieted, Init, Idle
<1>2. QInv(p) /\ [Next]_vars => QInv(p)'
  BY NextQInv DEF Alone
<1> DEFINE Step == \A i \in DOMAIN errors, j \in DOMAIN errors' \ DOMAIN errors :
         ~ /\ errors[i].obj = Cluster /\ ~errors[i].cleared /\ ~errors'[i].cleared
           /\ errors[i].failure \in NotFound
           /\ errors'[j].obj \in Child /\ errors'[j].failure = errors[i].failure
<1>3. QInv(p) /\ [Next]_vars => [Step]_vars
  <2>1. QInv(p) /\ [Next]_vars => Step
    BY CommitQuiet DEF Alone
  <2> QED BY <2>1
<1> QED BY <1>1, <1>2, <1>3, PTL DEF Spec, ChildrenSilenced

----------------------------------------------------------------------------
(* Quotas.                                                                 *)

(* The units that Total counts.                                            *)
Units(sizes, S) == {u \in S \X Size : u[2] <= sizes[u[1]]}

LEMMA UnitsFinite ==
    ASSUME NEW sizes, NEW S, S \subseteq VM
    PROVE  /\ IsFiniteSet(Units(sizes, S))
           /\ Total(sizes, S) = Cardinality(Units(sizes, S)) /\ Total(sizes, S) \in Nat
<1>1. IsFiniteSet(Size)
  <2>1. 1 \in Int /\ MaxSize \in Int BY SizeAssumption
  <2> QED BY <2>1, FS_Interval DEF Size
<1>2. IsFiniteSet(VM \X Size) BY <1>1, VMAssumption, FS_Product
<1>3. Units(sizes, S) \in SUBSET (VM \X Size) BY DEF Units
<1>4. IsFiniteSet(Units(sizes, S)) BY <1>2, <1>3, FS_Subset
<1> QED BY <1>4, FS_CardinalityType DEF Total, Units

(* A total grows when no machine that counts gets less, and none goes.     *)
LEMMA TotalGrows ==
    ASSUME NEW f, NEW g, NEW S, NEW T, S \subseteq VM, T \subseteq VM,
           \A v \in S : \A k \in Size : k <= f[v] => v \in T /\ k <= g[v]
    PROVE  Total(f, S) <= Total(g, T)
<1>1. Units(f, S) \in SUBSET Units(g, T) BY DEF Units
<1> QED BY <1>1, UnitsFinite, FS_Subset

(* A machine adds its own size.                                            *)
LEMMA TotalAdds ==
    ASSUME NEW f, NEW S, S \subseteq VM, NEW v \in VM, v \notin S, f[v] \in 0 .. MaxSize
    PROVE  Total(f, S \cup {v}) = Total(f, S) + f[v]
<1> DEFINE own == Units(f, {v})
<1>0. PICK m : m = f[v] OBVIOUS
<1>1. m \in Nat /\ 1 .. m \subseteq Size BY <1>0, SizeAssumption DEF Size
<1>2. Cardinality(own) = m
  <2> DEFINE b == [k \in 1 .. m |-> <<v, k>>]
  <2>1. own = {v} \X (1 .. m) BY <1>0, <1>1, SizeAssumption DEF Units, Size
  <2>2. b \in [1 .. m -> own] BY <2>1
  <2>3. \A x, y \in 1 .. m : b[x] = b[y] => x = y OBVIOUS
  <2>4. \A u \in own : \E k \in 1 .. m : b[k] = u BY <2>1
  <2>5. b \in Bijection(1 .. m, own)
    BY <2>2, <2>3, <2>4 DEF Bijection, Injection, IsInjective, Surjection
  <2>6. ExistsBijection(1 .. m, own) BY <2>5 DEF ExistsBijection
  <2> QED BY <1>1, <2>6, FS_CountingElements
<1>3. Units(f, S \cup {v}) = Units(f, S) \cup own BY DEF Units
<1>4. Units(f, S) \cap own = {} BY DEF Units
<1>5. S \cup {v} \subseteq VM /\ {v} \subseteq VM OBVIOUS
<1>6. IsFiniteSet(Units(f, S)) /\ IsFiniteSet(own) BY <1>5, UnitsFinite
<1> HIDE DEF own
<1>7. Cardinality(Units(f, S) \cup own) = Cardinality(Units(f, S)) + m
  <2>1. Cardinality(Units(f, S)) \in Nat BY <1>6, FS_CardinalityType
  <2>2. Cardinality(Units(f, S) \cup own) =
          Cardinality(Units(f, S)) + Cardinality(own) - Cardinality({})
    BY <1>4, <1>6, FS_Union
  <2> QED BY <1>1, <1>2, <2>1, <2>2, FS_EmptySet
<1> QED BY <1>0, <1>3, <1>5, <1>7, UnitsFinite

(* When one machine's size changes, the total does by as much.             *)
LEMMA TotalChanges ==
    ASSUME NEW f, NEW g, NEW S, S \subseteq VM, NEW v \in S,
           f[v] \in 0 .. MaxSize, g[v] \in 0 .. MaxSize,
           \A w \in S \ {v} : g[w] = f[w]
    PROVE  \E rest \in Nat : Total(f, S) = rest + f[v] /\ Total(g, S) = rest + g[v]
<1> DEFINE R == S \ {v}
<1>1. R \subseteq VM /\ v \in VM /\ v \notin R /\ S = R \cup {v} OBVIOUS
<1>2. Units(f, R) = Units(g, R) BY DEF Units
<1>3. Total(f, R) = Total(g, R) /\ Total(f, R) \in Nat
  <2> HIDE DEF R
  <2> QED BY <1>1, <1>2, UnitsFinite
<1>4. Total(f, R \cup {v}) = Total(f, R) + f[v] /\ Total(g, R \cup {v}) = Total(g, R) + g[v]
  <2> HIDE DEF R
  <2> QED BY <1>1, TotalAdds
<1> QED BY <1>1, <1>3, <1>4

----------------------------------------------------------------------------
(* What the machines of an owner need.                                     *)

LEMMA NeedType ==
    ASSUME NEW i \in Instance \cup {NoInstance}, NEW j \in Job
    PROVE  Need(i, j) \in 0 .. MaxSize /\ i.size \in 0 .. MaxSize /\ j.size \in 0 .. MaxSize
BY SizeAssumption DEF Need, Instance, NoInstance, Job, Size

LEMMA NeedsType ==
    ASSUME QuotaTypeOK
    PROVE  \A w \in VM : Need(inst[w], job[w]) \in Int
<1> TAKE w \in VM
<1>1. inst[w] \in Instance \cup {NoInstance} /\ job[w] \in Job BY DEF QuotaTypeOK
<1> QED BY <1>1, NeedType

LEMMA LimitType ==
    ASSUME QuotaTypeOK, NEW o \in Owner
    PROVE  GetQuota(o) \in Int /\ LimitOf(GetQuota(o)) \in Int
<1>1. Limits \cup {None, NoQuota, BareZero} \subseteq Int
  BY SizeAssumption DEF None, NoQuota, BareZero
<1>2. quota[o] \in Int /\ quota[Default] \in Int BY <1>1 DEF QuotaTypeOK
<1> QED BY <1>2 DEF GetQuota, LimitOf

LEMMA TotalTypes ==
    ASSUME NEW o
    PROVE  /\ VMsOf(o) \subseteq VM
           /\ Usage(o) \in Nat /\ Needed(o) \in Nat /\ UsedResources(o) \in Nat
BY UnitsFinite DEF VMsOf, Usage, Needed, UsedResources

(* What runs is needed.                                                    *)
LEMMA UsageIsNeeded ==
    ASSUME QuotaTypeOK, NEW o
    PROVE  Usage(o) <= Needed(o)
<1> DEFINE f == [v \in VM |-> inst[v].size]
           g == [v \in VM |-> Need(inst[v], job[v])]
           S == {v \in VMsOf(o) : inst[v].running}
<1>1. S \subseteq VM /\ VMsOf(o) \subseteq VM BY DEF VMsOf
<1>2. ASSUME NEW v \in S, NEW k \in Size, k <= f[v]
      PROVE  v \in VMsOf(o) /\ k <= g[v]
  <2>1. inst[v] \in Instance \cup {NoInstance} /\ job[v] \in Job
    BY <1>1 DEF QuotaTypeOK
  <2>2. inst[v].size \in Int /\ job[v].size \in Int /\ k \in Int
    BY <2>1, NeedType, SizeAssumption DEF Size
  <2>3. f[v] = inst[v].size /\ g[v] = Need(inst[v], job[v]) BY <1>1
  <2>4. inst[v].size <= Need(inst[v], job[v]) BY <2>2 DEF Need
  <2>5. Need(inst[v], job[v]) \in Int BY <2>1, NeedType
  <2> QED BY <1>2, <2>2, <2>3, <2>4, <2>5
<1> HIDE DEF f, g, S
<1>3. Total(f, S) <= Total(g, VMsOf(o)) BY <1>1, <1>2, TotalGrows
<1> QED BY <1>3 DEF Usage, Needed, f, g, S

LEMMA FitsLess ==
    ASSUME QuotaTypeOK, NEW o \in Owner, NEW a \in Int, NEW b \in Int,
           a <= b, Fits(b, GetQuota(o))
    PROVE  Fits(a, GetQuota(o))
BY LimitType DEF Fits

(* No machine needs more than before, and an owner has no other machines   *)
(* that need any.                                                          *)
LEMMA NeedLess ==
    ASSUME QuotaTypeOK, QuotaTypeOK', NEW o \in Owner, quota' = quota, Foreseen(o),
           \A w \in VMsOf(o)' : \/ Need(inst'[w], job'[w]) = 0
                                \/ /\ w \in VMsOf(o)
                                   /\ Need(inst'[w], job'[w]) <= Need(inst[w], job[w])
    PROVE  Foreseen(o)'
<1> DEFINE f == [v \in VM |-> Need(inst'[v], job'[v])]
           g == [v \in VM |-> Need(inst[v], job[v])]
           S == {v \in VM : owner'[v] = o}
<1>1. S \subseteq VM /\ VMsOf(o) \subseteq VM /\ S = VMsOf(o)' BY DEF VMsOf
<1>2. ASSUME NEW v \in S, NEW k \in Size, k <= f[v]
      PROVE  v \in VMsOf(o) /\ k <= g[v]
  <2>1. /\ inst[v] \in Instance \cup {NoInstance} /\ job[v] \in Job
        /\ inst'[v] \in Instance \cup {NoInstance} /\ job'[v] \in Job
    BY <1>1 DEF QuotaTypeOK
  <2>2. PICK m \in Int, n \in Int : m = Need(inst[v], job[v]) /\ n = Need(inst'[v], job'[v])
    BY <2>1, NeedType
  <2>3. f[v] = n /\ g[v] = m BY <1>1, <2>2
  <2>4. k \in Int /\ k > 0 BY SizeAssumption DEF Size
  <2>5. n # 0 BY <1>2, <2>3, <2>4
  <2> QED BY <1>1, <1>2, <2>2, <2>3, <2>4, <2>5
<1> HIDE DEF f, g, S
<1>3. Total(f, S) <= Total(g, VMsOf(o)) /\ Total(f, S) \in Nat /\ Total(g, VMsOf(o)) \in Nat
  BY <1>1, <1>2, TotalGrows, UnitsFinite
<1>4. Fits(Total(g, VMsOf(o)), GetQuota(o)) BY DEF Foreseen, Needed, g
<1>5. Fits(Total(f, S), GetQuota(o)) BY <1>3, <1>4, FitsLess
<1>6. Needed(o)' = Total(f, S) BY DEF Needed, VMsOf, f, S
<1>7. GetQuota(o)' = GetQuota(o) BY DEF GetQuota
<1> QED BY <1>5, <1>6, <1>7 DEF Foreseen

(* An owner who is not misled about v.                                     *)
LEMMA RowsTell ==
    ASSUME QuotaTypeOK, NEW v, NEW o \in OwnerOf(v), o \notin Misled(v)
    PROVE  row[v] = inst[v] /\ Needed(o) <= UsedResources(o)
<1> DEFINE f == [w \in VM |-> Need(inst[w], job[w])]
           S == {w \in VMsOf(o) : row[w].size # Unknown /\ row[w].running}
<1>1. /\ row[v] = inst[v]
      /\ \A w \in VMsOf(o) : ~(Told(w) < Need(inst[w], job[w]))
  BY DEF Misled
<1>2. S \subseteq VM /\ VMsOf(o) \subseteq VM BY DEF VMsOf
<1>3. ASSUME NEW w \in VMsOf(o), NEW k \in Size, k <= f[w]
      PROVE  w \in S /\ k <= RowSizes[w]
  <2>1. w \in VM /\ f[w] = Need(inst[w], job[w]) /\ RowSizes[w] = row[w].size
    BY <1>2 DEF RowSizes
  <2>2. PICK n \in Int, t \in Int : n = Need(inst[w], job[w]) /\ t = row[w].size
    <3>1. row[w].size \in Int
      BY <2>1, SizeAssumption DEF QuotaTypeOK, Row, Size, Unknown
    <3> QED BY <2>1, <3>1, NeedsType
  <2>3. k \in Int /\ k > 0 BY SizeAssumption DEF Size
  <2>4. n <= IF row[w].running THEN t ELSE 0
    BY <1>1, <2>2 DEF Told
  <2> QED BY <1>3, <2>1, <2>2, <2>3, <2>4 DEF Unknown
<1> HIDE DEF f, S
<1>4. Total(f, VMsOf(o)) <= Total(RowSizes, S)
  BY <1>2, <1>3, TotalGrows
<1> QED BY <1>1, <1>4 DEF Needed, UsedResources, f, S

(* The others need what they did, when v alone is given another job.       *)
LEMMA NeedChanges ==
    ASSUME QuotaTypeOK, NEW o, NEW v \in VMsOf(o), NEW j \in Job, inst' = inst, owner' = owner,
           job' = [job EXCEPT ![v] = j]
    PROVE  \E rest \in Nat : /\ Needed(o) = rest + Need(inst[v], job[v])
                             /\ Needed(o)' = rest + Need(inst[v], j)
<1> DEFINE f == [w \in VM |-> Need(inst[w], job[w])]
           g == [w \in VM |-> Need(inst'[w], job'[w])]
<1>1. VMsOf(o) \subseteq VM /\ v \in VM BY DEF VMsOf
<1>2. job'[v] = j /\ \A w \in VM \ {v} : job'[w] = job[w] BY <1>1 DEF QuotaTypeOK
<1>3. inst[v] \in Instance \cup {NoInstance} /\ job[v] \in Job BY <1>1 DEF QuotaTypeOK
<1>4. f[v] = Need(inst[v], job[v]) /\ g[v] = Need(inst[v], j) BY <1>1, <1>2
<1>5. f[v] \in 0 .. MaxSize /\ g[v] \in 0 .. MaxSize BY <1>3, <1>4, NeedType
<1>6. \A w \in VMsOf(o) \ {v} : g[w] = f[w] BY <1>1, <1>2
<1>7. Needed(o) = Total(f, VMsOf(o)) /\ Needed(o)' = Total(g, VMsOf(o))
  BY DEF Needed, VMsOf
<1> HIDE DEF f, g
<1>8. \E rest \in Nat : Total(f, VMsOf(o)) = rest + f[v] /\ Total(g, VMsOf(o)) = rest + g[v]
  BY <1>1, <1>5, <1>6, TotalChanges
<1> QED BY <1>4, <1>7, <1>8

----------------------------------------------------------------------------
(* The inductive invariant: without a reason, what the machines of an      *)
(* owner need fits the quota.                                              *)
OwnerInv(o) == Foreseen(o) \/ cause[o] = TRUE

(* A name without a row has neither an instance nor a job.                 *)
Unmade == \A v \in VM : owner[v] = NoRow => inst[v] = NoInstance /\ job[v] = NoJob

QuotaInv == QuotaTypeOK /\ Unmade /\ \A o \in Owner : OwnerInv(o)

(* An action keeps it for the owners it blames, and for those who were     *)
(* blamed before.                                                          *)
LEMMA BlameSound ==
    ASSUME QuotaInv, NEW to, Blame(to), NEW o \in Owner,
           o \notin to /\ Foreseen(o) => Foreseen(o)'
    PROVE  OwnerInv(o)'
<1>1. cause'[o] = (~Foreseen(o)' /\ (o \in to \/ cause[o])) BY DEF Blame
<1>2. cause[o] \in BOOLEAN BY DEF QuotaInv, QuotaTypeOK
<1>3. OwnerInv(o) BY DEF QuotaInv
<1>4. CASE Foreseen(o)' BY <1>4 DEF OwnerInv
<1>5. CASE ~Foreseen(o)'
  <2>1. cause'[o] = TRUE BY <1>1, <1>2, <1>3, <1>5 DEF OwnerInv
  <2> QED BY <2>1 DEF OwnerInv
<1> QED BY <1>4, <1>5

LEMMA BlameType == ASSUME NEW to, Blame(to) PROVE cause' \in [Owner -> BOOLEAN]
BY DEF Blame

(* A job for a machine of another owner.                                   *)
LEMMA OtherOwner ==
    ASSUME QuotaTypeOK, QuotaTypeOK', NEW v \in VM, NEW o \in Owner, owner[v] # o, NEW j,
           job' = [job EXCEPT ![v] = j], UNCHANGED <<inst, owner, quota>>, Foreseen(o)
    PROVE  Foreseen(o)'
<1>1. \A w \in VMsOf(o)' : w \in VMsOf(o) /\ inst'[w] = inst[w] /\ job'[w] = job[w]
  BY DEF VMsOf, QuotaTypeOK
<1>2. \A w \in VMsOf(o) : Need(inst[w], job[w]) \in Int
  BY NeedsType DEF VMsOf
<1>3. \A w \in VMsOf(o)' : w \in VMsOf(o) /\ Need(inst'[w], job'[w]) <= Need(inst[w], job[w])
  BY <1>1, <1>2
<1> QED BY <1>3, NeedLess

LEMMA StartupSound ==
    ASSUME QuotaInv, QuotaTypeOK', NEW v \in VM, NEW superuser \in BOOLEAN,
           Startup(v, superuser), NEW o \in Owner
    PROVE  OwnerInv(o)'
<1> DEFINE to == IF superuser THEN OwnerOf(v) ELSE Misled(v) \cup Unenforced(v)
<1>1. /\ superuser \/ CheckQuotaStart(v)
      /\ job[v] = NoJob /\ job' = [job EXCEPT ![v] = StartJob]
      /\ UNCHANGED <<inst, row, owner, quota>>
      /\ Blame(to)
  BY DEF Startup
<1>2. QuotaTypeOK BY DEF QuotaInv
<1>3. ASSUME o \notin to, Foreseen(o) PROVE Foreseen(o)'
  <2>1. CASE owner[v] # o
    BY <1>1, <1>2, <1>3, <2>1, OtherOwner
  <2>2. CASE owner[v] = o
    <3>1. o \in OwnerOf(v) /\ v \in VMsOf(o) /\ o # NoOwner
      BY <2>2, OwnerAssumption DEF OwnerOf, VMsOf
    <3>2. /\ ~superuser /\ row[v] = inst[v] /\ Needed(o) <= UsedResources(o)
          /\ EnforcedAtStart(GetQuota(o))
      BY <1>2, <1>3, <3>1, RowsTell DEF Unenforced
    <3>3. Fits(UsedResources(o) + inst[v].size, GetQuota(o))
      BY <1>1, <2>2, <3>1, <3>2 DEF CheckQuotaStart
    <3>4. StartJob \in Job /\ inst[v] \in Instance \cup {NoInstance}
      BY <1>2 DEF StartJob, Job, QuotaTypeOK
    <3>5. PICK rest \in Nat : /\ Needed(o) = rest + Need(inst[v], job[v])
                              /\ Needed(o)' = rest + Need(inst[v], StartJob)
      BY <1>1, <1>2, <3>1, <3>4, NeedChanges
    <3>6. job[v] \in Job BY <1>2 DEF QuotaTypeOK
    <3>7. PICK m \in Nat, n \in Nat, u \in Nat :
             m = inst[v].size /\ n = Need(inst[v], job[v]) /\ u = UsedResources(o)
      BY <3>4, <3>6, NeedType, TotalTypes
    <3>8. Need(inst[v], StartJob) = m
      BY <3>7 DEF Need, StartJob
    <3>9. rest + m <= u + m /\ rest + m \in Int /\ u + m \in Int
      BY <3>2, <3>5, <3>7
    <3>10. Fits(rest + m, GetQuota(o)) BY <1>2, <3>3, <3>7, <3>9, FitsLess
    <3>11. GetQuota(o)' = GetQuota(o) BY <1>1 DEF GetQuota
    <3> QED BY <3>5, <3>8, <3>10, <3>11 DEF Foreseen
  <2> QED BY <2>1, <2>2
<1> HIDE DEF to
<1> QED BY <1>1, <1>3, BlameSound

LEMMA RebootSound ==
    ASSUME QuotaInv, QuotaTypeOK', NEW v \in VM, Reboot(v), NEW o \in Owner
    PROVE  OwnerInv(o)'
<1> DEFINE to == IF inst[v].running THEN {} ELSE OwnerOf(v)
<1>1. /\ job[v] = NoJob /\ job' = [job EXCEPT ![v] = StartJob]
      /\ UNCHANGED <<inst, row, owner, quota>>
      /\ Blame(to)
  BY DEF Reboot
<1>2. QuotaTypeOK BY DEF QuotaInv
<1>3. ASSUME o \notin to, Foreseen(o) PROVE Foreseen(o)'
  <2>1. CASE owner[v] # o
    BY <1>1, <1>2, <1>3, <2>1, OtherOwner
  <2>2. CASE owner[v] = o
    <3>1. inst[v].running
      BY <1>3, <2>2, OwnerAssumption DEF OwnerOf
    <3>2. \A w \in VMsOf(o)' : w \in VMsOf(o) /\ w \in VM BY <1>1 DEF VMsOf
    <3>3. Need(inst[v], StartJob) = Need(inst[v], NoJob)
      BY <3>1 DEF Need, StartJob, NoJob
    <3>4. \A w \in VM : Need(inst'[w], job'[w]) = Need(inst[w], job[w])
      BY <1>1, <1>2, <3>3 DEF QuotaTypeOK
    <3>5. \A w \in VM : Need(inst[w], job[w]) \in Int BY <1>2, NeedsType
    <3>6. \A w \in VMsOf(o)' : Need(inst'[w], job'[w]) <= Need(inst[w], job[w])
      BY <3>2, <3>4, <3>5
    <3> QED BY <1>1, <1>2, <1>3, <3>2, <3>6, NeedLess
  <2> QED BY <2>1, <2>2
<1> HIDE DEF to
<1> QED BY <1>1, <1>3, BlameSound

LEMMA ModifySound ==
    ASSUME QuotaInv, QuotaTypeOK', NEW v \in VM, NEW size \in Size,
           Modify(v, size), NEW o \in Owner
    PROVE  OwnerInv(o)'
<1>1. /\ CheckQuotaModify(v, size)
      /\ job[v] = NoJob /\ job' = [job EXCEPT ![v] = ModifyJob(size)]
      /\ UNCHANGED <<inst, row, owner, quota>>
      /\ Blame(Misled(v))
  BY DEF Modify
<1>2. QuotaTypeOK BY DEF QuotaInv
<1>3. ASSUME o \notin Misled(v), Foreseen(o) PROVE Foreseen(o)'
  <2>1. CASE owner[v] # o
    BY <1>1, <1>2, <1>3, <2>1, OtherOwner
  <2>2. CASE owner[v] = o
    <3>1. o \in OwnerOf(v) /\ v \in VMsOf(o) /\ o # NoOwner
      BY <2>2, OwnerAssumption DEF OwnerOf, VMsOf
    <3>2. row[v] = inst[v] /\ Needed(o) <= UsedResources(o)
      BY <1>2, <1>3, <3>1, RowsTell
    <3>3. inst[v].running => Fits(UsedResources(o) + size - inst[v].size, GetQuota(o))
      BY <1>1, <2>2, <3>1, <3>2 DEF CheckQuotaModify
    <3>4. ModifyJob(size) \in Job /\ inst[v] \in Instance \cup {NoInstance}
      BY <1>2 DEF ModifyJob, Job, QuotaTypeOK
    <3>5. PICK rest \in Nat : /\ Needed(o) = rest + Need(inst[v], job[v])
                              /\ Needed(o)' = rest + Need(inst[v], ModifyJob(size))
      BY <1>1, <1>2, <3>1, <3>4, NeedChanges
    <3>6. PICK m \in Nat, s \in Nat, u \in Nat :
             m = inst[v].size /\ s = size /\ u = UsedResources(o)
      BY <3>4, NeedType, TotalTypes, SizeAssumption DEF Size
    <3>7. /\ Need(inst[v], job[v]) = IF inst[v].running THEN m ELSE 0
          /\ Need(inst[v], ModifyJob(size)) =
               IF ~inst[v].running THEN 0 ELSE IF s > m THEN s ELSE m
      BY <1>1, <3>6 DEF Need, NoJob, ModifyJob
    <3>8. GetQuota(o)' = GetQuota(o) BY <1>1 DEF GetQuota
    <3>9. CASE ~inst[v].running \/ ~(s > m)
      <4>1. Needed(o)' = Needed(o) BY <3>5, <3>7, <3>9
      <4> QED BY <1>3, <3>8, <4>1 DEF Foreseen
    <3>10. CASE inst[v].running /\ s > m
      <4>1. Needed(o)' = rest + s /\ rest + m <= u BY <3>2, <3>5, <3>6, <3>7, <3>10
      <4>2. rest + s <= u + s - m /\ rest + s \in Int /\ u + s - m \in Int
        BY <3>6, <4>1
      <4>3. Fits(u + s - m, GetQuota(o)) BY <3>3, <3>6, <3>10
      <4>4. Fits(rest + s, GetQuota(o)) BY <1>2, <4>2, <4>3, FitsLess
      <4> QED BY <3>8, <4>1, <4>4 DEF Foreseen
    <3> QED BY <3>9, <3>10
  <2> QED BY <2>1, <2>2
<1> QED BY <1>1, <1>3, BlameSound

(* The new machine needs something only when the job starts it.            *)
LEMMA CreateSound ==
    ASSUME QuotaInv, QuotaTypeOK', NEW v \in VM, NEW p \in Owner, NEW size \in Size,
           NEW start \in BOOLEAN, Create(v, p, size, start), NEW o \in Owner
    PROVE  OwnerInv(o)'
<1> DEFINE to == IF start THEN {p} ELSE {}
<1>1. /\ owner[v] = NoRow /\ owner' = [owner EXCEPT ![v] = p]
      /\ job' = [job EXCEPT ![v] = CreateJob(size, start)]
      /\ UNCHANGED <<inst, quota>>
      /\ Blame(to)
  BY DEF Create
<1>2. QuotaTypeOK BY DEF QuotaInv
<1>3. ASSUME o \notin to, Foreseen(o) PROVE Foreseen(o)'
  <2>1. \A w \in VM \ {v} : Need(inst'[w], job'[w]) = Need(inst[w], job[w])
    BY <1>1, <1>2 DEF QuotaTypeOK
  <2>2. \A w \in VM : Need(inst[w], job[w]) \in Int BY <1>2, NeedsType
  <2>3. \A w \in VMsOf(o)' : w \in VM /\ (w # v => w \in VMsOf(o))
    BY <1>1, <1>2 DEF VMsOf, QuotaTypeOK
  <2>4. v \in VMsOf(o)' => Need(inst'[v], job'[v]) = 0
    <3>1. v \in VMsOf(o)' => ~start BY <1>1, <1>2, <1>3 DEF VMsOf, QuotaTypeOK
    <3>2. inst'[v] = NoInstance BY <1>1 DEF QuotaInv, Unmade
    <3>3. job'[v] = CreateJob(size, start) BY <1>1, <1>2 DEF QuotaTypeOK
    <3> QED BY <3>1, <3>2, <3>3 DEF Need, NoInstance, CreateJob
  <2> QED BY <1>1, <1>2, <1>3, <2>1, <2>2, <2>3, <2>4, NeedLess
<1> HIDE DEF to
<1> QED BY <1>1, <1>3, BlameSound

LEMMA SetQuotaSound ==
    ASSUME QuotaInv, NEW p, NEW limit, SetQuota(p, limit), NEW o \in Owner
    PROVE  OwnerInv(o)'
<1>1. Blame(Owner) BY DEF SetQuota
<1> QED BY <1>1, BlameSound

LEMMA ReparentSound ==
    ASSUME QuotaInv, QuotaTypeOK', NEW v \in VM, NEW p \in Owner \cup {NoOwner},
           Reparent(v, p), NEW o \in Owner
    PROVE  OwnerInv(o)'
<1>1. /\ owner' = [owner EXCEPT ![v] = p] /\ UNCHANGED <<inst, job, quota>>
      /\ Blame({p})
  BY DEF Reparent, ganeti
<1>2. QuotaTypeOK BY DEF QuotaInv
<1>3. ASSUME o \notin {p}, Foreseen(o) PROVE Foreseen(o)'
  <2>1. \A w \in VMsOf(o)' : w \in VMsOf(o) /\ w \in VM
    BY <1>1, <1>2, <1>3 DEF VMsOf, QuotaTypeOK
  <2>2. \A w \in VM : Need(inst[w], job[w]) \in Int BY <1>2, NeedsType
  <2>3. \A w \in VMsOf(o)' : Need(inst'[w], job'[w]) <= Need(inst[w], job[w])
    BY <1>1, <2>1, <2>2
  <2> QED BY <1>1, <1>2, <1>3, <2>1, <2>3, NeedLess
<1> QED BY <1>1, <1>3, BlameSound

(* Only the instance and the job of v change.                              *)
LEMMA MachineChanges ==
    ASSUME QuotaTypeOK, QuotaTypeOK', NEW v \in VM, NEW o \in Owner,
           \A w \in VM \ {v} : inst'[w] = inst[w] /\ job'[w] = job[w],
           \/ owner[v] # o
           \/ Need(inst'[v], job'[v]) <= Need(inst[v], job[v]),
           UNCHANGED <<owner, quota>>, Foreseen(o)
    PROVE  Foreseen(o)'
<1>1. \A w \in VMsOf(o)' : w \in VMsOf(o) /\ w \in VM /\ (w = v => owner[v] = o)
  BY DEF VMsOf
<1>2. \A w \in VM : Need(inst[w], job[w]) \in Int BY NeedsType
<1>3. \A w \in VMsOf(o)' : Need(inst'[w], job'[w]) <= Need(inst[w], job[w])
  BY <1>1, <1>2
<1> QED BY <1>1, <1>3, NeedLess

LEMMA JobEndsSound ==
    ASSUME QuotaInv, QuotaTypeOK', NEW v \in VM, NEW success \in BOOLEAN,
           JobEnds(v, success), NEW o \in Owner
    PROVE  OwnerInv(o)'
<1>1. /\ job' = [job EXCEPT ![v] = NoJob]
      /\ inst' = IF success THEN [inst EXCEPT ![v] = Done(inst[v], job[v])] ELSE inst
      /\ UNCHANGED <<owner, quota>>
      /\ Blame({})
  BY DEF JobEnds
<1>2. QuotaTypeOK BY DEF QuotaInv
<1>3. \A w \in VM \ {v} : inst'[w] = inst[w] /\ job'[w] = job[w]
  BY <1>1, <1>2 DEF QuotaTypeOK
<1>4. inst[v] \in Instance \cup {NoInstance} /\ job[v] \in Job BY <1>2 DEF QuotaTypeOK
<1>5. PICK m \in Nat, s \in Nat : m = inst[v].size /\ s = job[v].size
  BY <1>4, NeedType
<1>6. job'[v] = NoJob BY <1>1, <1>2 DEF QuotaTypeOK
<1>7. inst'[v] = IF success THEN Done(inst[v], job[v]) ELSE inst[v]
  BY <1>1, <1>2 DEF QuotaTypeOK
<1>8. Need(inst'[v], job'[v]) <= Need(inst[v], job[v])
  <2>1. CASE success
    <3>1. inst'[v] = Done(inst[v], job[v]) BY <1>7, <2>1
    <3>2. inst'[v].size = IF s = 0 THEN m ELSE s
      BY <1>5, <3>1 DEF Done
    <3>3. inst'[v].running = (inst[v].running \/ job[v].start)
      BY <3>1 DEF Done
    <3>4. job'[v].size = 0 /\ ~job'[v].start BY <1>6 DEF NoJob
    <3>5. CASE ~inst[v].running /\ ~job[v].start
      <4>1. Need(inst[v], job[v]) = 0 /\ Need(inst'[v], job'[v]) = 0
        BY <3>3, <3>4, <3>5 DEF Need
      <4> QED BY <4>1
    <3>6. CASE inst[v].running \/ job[v].start
      <4>1. Need(inst[v], job[v]) = IF s > m THEN s ELSE m
        BY <1>5, <3>6 DEF Need
      <4>2. inst'[v].running BY <3>3, <3>6
      <4>3. Need(inst'[v], job'[v]) = IF s = 0 THEN m ELSE s
        BY <1>5, <3>2, <3>4, <4>2 DEF Need
      <4> QED BY <4>1, <4>3
    <3> QED BY <3>5, <3>6
  <2>2. CASE ~success
    BY <1>5, <1>6, <1>7, <2>2 DEF Need, NoJob
  <2> QED BY <2>1, <2>2
<1>9. Foreseen(o) => Foreseen(o)' BY <1>1, <1>2, <1>3, <1>8, MachineChanges
<1> QED BY <1>1, <1>9, BlameSound

LEMMA InstanceStopsSound ==
    ASSUME QuotaInv, QuotaTypeOK', NEW v \in VM, InstanceStops(v), NEW o \in Owner
    PROVE  OwnerInv(o)'
<1>1. /\ inst' = [inst EXCEPT ![v].running = FALSE]
      /\ UNCHANGED <<job, owner, quota>>
      /\ Blame({}) /\ inst[v].running
  BY DEF InstanceStops
<1>2. QuotaTypeOK BY DEF QuotaInv
<1>3. \A w \in VM \ {v} : inst'[w] = inst[w] /\ job'[w] = job[w]
  BY <1>1, <1>2 DEF QuotaTypeOK
<1>4. inst[v] \in Instance \cup {NoInstance} /\ job[v] \in Job BY <1>2 DEF QuotaTypeOK
<1>5. PICK m \in Nat, s \in Nat : m = inst[v].size /\ s = job[v].size
  BY <1>4, NeedType
<1>6. inst'[v].size = m /\ inst'[v].running = FALSE /\ job'[v] = job[v]
  BY <1>1, <1>2, <1>4, <1>5 DEF QuotaTypeOK, Instance, NoInstance
<1>7. Need(inst'[v], job'[v]) <= Need(inst[v], job[v])
  BY <1>1, <1>5, <1>6 DEF Need
<1>8. Foreseen(o) => Foreseen(o)' BY <1>1, <1>2, <1>3, <1>7, MachineChanges
<1> QED BY <1>1, <1>8, BlameSound

LEMMA InstanceChangesSound ==
    ASSUME QuotaInv, QuotaTypeOK', NEW v \in VM, NEW i \in Instance,
           InstanceChanges(v, i), NEW o \in Owner
    PROVE  OwnerInv(o)'
<1>1. /\ inst' = [inst EXCEPT ![v] = i] /\ UNCHANGED <<job, owner, quota>>
      /\ Blame(OwnerOf(v))
  BY DEF InstanceChanges
<1>2. QuotaTypeOK BY DEF QuotaInv
<1>3. \A w \in VM \ {v} : inst'[w] = inst[w] /\ job'[w] = job[w]
  BY <1>1, <1>2 DEF QuotaTypeOK
<1>4. o \notin OwnerOf(v) => owner[v] # o BY DEF OwnerOf
<1>5. o \notin OwnerOf(v) /\ Foreseen(o) => Foreseen(o)'
  BY <1>1, <1>2, <1>3, <1>4, MachineChanges
<1> QED BY <1>1, <1>5, BlameSound

(* A refresh, or a step that changes nothing.                              *)
LEMMA RowsSound ==
    ASSUME QuotaInv, UNCHANGED <<inst, job, owner, quota, cause>>, NEW o \in Owner
    PROVE  OwnerInv(o)'
<1>1. OwnerInv(o) BY DEF QuotaInv
<1>2. Needed(o)' = Needed(o) BY DEF Needed, VMsOf
<1>3. GetQuota(o)' = GetQuota(o) BY DEF GetQuota
<1>4. Foreseen(o)' <=> Foreseen(o) BY <1>2, <1>3 DEF Foreseen
<1> QED BY <1>1, <1>4 DEF OwnerInv

----------------------------------------------------------------------------
LEMMA QuotaNextType == QuotaTypeOK /\ [QuotaNext]_quotaVars => QuotaTypeOK'
<1> SUFFICES ASSUME QuotaTypeOK, [QuotaNext]_quotaVars PROVE QuotaTypeOK'
  OBVIOUS
<1>0. NoJob \in Job /\ StartJob \in Job BY DEF NoJob, StartJob, Job
<1>1. ASSUME NEW v \in VM, NEW superuser \in BOOLEAN, Startup(v, superuser)
      PROVE  QuotaTypeOK'
  <2>1. cause' \in [Owner -> BOOLEAN]
    <3> DEFINE to == IF superuser THEN OwnerOf(v) ELSE Misled(v) \cup Unenforced(v)
    <3>1. Blame(to) BY <1>1 DEF Startup
    <3> HIDE DEF to
    <3> QED BY <3>1, BlameType
  <2> QED BY <1>0, <1>1, <2>1 DEF Startup, QuotaTypeOK
<1>2. ASSUME NEW v \in VM, Reboot(v) PROVE QuotaTypeOK'
  <2>1. cause' \in [Owner -> BOOLEAN]
    <3> DEFINE to == IF inst[v].running THEN {} ELSE OwnerOf(v)
    <3>1. Blame(to) BY <1>2 DEF Reboot
    <3> HIDE DEF to
    <3> QED BY <3>1, BlameType
  <2> QED BY <1>0, <1>2, <2>1 DEF Reboot, QuotaTypeOK
<1>3. ASSUME NEW v \in VM, NEW size \in Size, Modify(v, size) PROVE QuotaTypeOK'
  <2>1. cause' \in [Owner -> BOOLEAN] BY <1>3, BlameType DEF Modify
  <2>2. ModifyJob(size) \in Job BY DEF ModifyJob, Job
  <2> QED BY <1>3, <2>1, <2>2 DEF Modify, QuotaTypeOK
<1>4. ASSUME NEW v \in VM, NEW o \in Owner, NEW size \in Size, NEW start \in BOOLEAN,
             Create(v, o, size, start)
      PROVE  QuotaTypeOK'
  <2>1. cause' \in [Owner -> BOOLEAN]
    <3> DEFINE to == IF start THEN {o} ELSE {}
    <3>1. Blame(to) BY <1>4 DEF Create
    <3> HIDE DEF to
    <3> QED BY <3>1, BlameType
  <2>2. CreateJob(size, start) \in Job /\ NewRow(size) \in Row
    BY DEF CreateJob, Job, NewRow, Row
  <2> QED BY <1>4, <2>1, <2>2 DEF Create, QuotaTypeOK
<1>5. ASSUME NEW o \in Owner \cup {Default},
             NEW limit \in Limits \cup {None, NoQuota, BareZero}, SetQuota(o, limit)
      PROVE  QuotaTypeOK'
  <2>1. cause' \in [Owner -> BOOLEAN] BY <1>5, BlameType DEF SetQuota
  <2>2. quota' \in [Owner \cup {Default} -> Limits \cup {None, NoQuota, BareZero}]
        /\ quota'[Default] \notin {NoQuota, BareZero}
    BY <1>5 DEF SetQuota, QuotaTypeOK
  <2>3. UNCHANGED <<resource, inst, job, row, owner>> BY <1>5 DEF SetQuota, ganeti
  <2> QED BY <2>1, <2>2, <2>3 DEF QuotaTypeOK
<1>6. ASSUME NEW v \in VM, NEW o \in Owner \cup {NoOwner}, Reparent(v, o)
      PROVE  QuotaTypeOK'
  <2>1. cause' \in [Owner -> BOOLEAN] BY <1>6, BlameType DEF Reparent
  <2> QED BY <1>6, <2>1 DEF Reparent, ganeti, QuotaTypeOK
<1>7. ASSUME NEW v \in VM, NEW success \in BOOLEAN, JobEnds(v, success)
      PROVE  QuotaTypeOK'
  <2>1. cause' \in [Owner -> BOOLEAN] BY <1>7, BlameType DEF JobEnds
  <2>2. inst[v] \in Instance \cup {NoInstance} /\ job[v] \in Job BY DEF QuotaTypeOK
  <2>3. success => inst[v].size # 0 \/ job[v].size # 0
    BY <1>7, <2>2, SizeAssumption DEF JobEnds, Instance, Size
  <2>4. success => Done(inst[v], job[v]) \in Instance
    BY <2>2, <2>3 DEF Done, Instance, NoInstance, Job
  <2> QED BY <1>0, <1>7, <2>1, <2>4 DEF JobEnds, QuotaTypeOK
<1>8. ASSUME NEW v \in VM, InstanceStops(v) PROVE QuotaTypeOK'
  <2>1. cause' \in [Owner -> BOOLEAN] BY <1>8, BlameType DEF InstanceStops
  <2>2. inst[v] \in Instance BY <1>8 DEF QuotaTypeOK, InstanceStops, NoInstance
  <2>3. [inst[v] EXCEPT !.running = FALSE] \in Instance BY <2>2 DEF Instance
  <2> QED BY <1>8, <2>1, <2>3 DEF InstanceStops, QuotaTypeOK
<1>9. ASSUME NEW v \in VM, NEW i \in Instance, InstanceChanges(v, i) PROVE QuotaTypeOK'
  <2>1. cause' \in [Owner -> BOOLEAN] BY <1>9, BlameType DEF InstanceChanges
  <2> QED BY <1>9, <2>1 DEF InstanceChanges, QuotaTypeOK
<1>10. ASSUME NEW v \in VM, Refresh(v) PROVE QuotaTypeOK'
  <2>1. inst[v] \in Row BY <1>10 DEF QuotaTypeOK, Instance, Row, Refresh
  <2> QED BY <1>10, <2>1 DEF Refresh, Parsed, ganeti, QuotaTypeOK
<1>11. CASE UNCHANGED quotaVars BY <1>11 DEF quotaVars, ganeti, QuotaTypeOK
<1> QED BY <1>1, <1>2, <1>3, <1>4, <1>5, <1>6, <1>7, <1>8, <1>9, <1>10, <1>11 DEF QuotaNext

LEMMA NextUnmade == QuotaTypeOK /\ Unmade /\ [QuotaNext]_quotaVars => Unmade'
<1> SUFFICES ASSUME QuotaTypeOK, Unmade, [QuotaNext]_quotaVars, NEW v \in VM,
                    owner'[v] = NoRow
             PROVE  inst'[v] = NoInstance /\ job'[v] = NoJob
  BY DEF Unmade
<1>1. owner[v] = NoRow => inst[v] = NoInstance /\ job[v] = NoJob BY DEF Unmade
<1>2. NoInstance.running = FALSE BY DEF NoInstance
<1>3. ASSUME NEW w \in VM, \/ \E superuser \in BOOLEAN : Startup(w, superuser)
                           \/ Reboot(w)
                           \/ \E size \in Size : Modify(w, size)
      PROVE  inst'[v] = NoInstance /\ job'[v] = NoJob
  <2>1. /\ owner[w] # NoRow /\ UNCHANGED <<inst, owner>>
        /\ \E j : job' = [job EXCEPT ![w] = j]
    BY <1>3 DEF Startup, Reboot, Modify
  <2> QED BY <1>1, <2>1 DEF QuotaTypeOK
<1>4. ASSUME NEW w \in VM, NEW o \in Owner, NEW size \in Size, NEW start \in BOOLEAN,
             Create(w, o, size, start)
      PROVE  inst'[v] = NoInstance /\ job'[v] = NoJob
  BY <1>1, <1>4, OwnerAssumption DEF Create, QuotaTypeOK
<1>5. ASSUME NEW w \in VM, NEW o \in Owner \cup {NoOwner}, Reparent(w, o)
      PROVE  inst'[v] = NoInstance /\ job'[v] = NoJob
  BY <1>1, <1>5, OwnerAssumption DEF Reparent, ganeti, QuotaTypeOK, NoRow, NoOwner
<1>6. ASSUME NEW w \in VM, NEW success \in BOOLEAN, JobEnds(w, success)
      PROVE  inst'[v] = NoInstance /\ job'[v] = NoJob
  BY <1>1, <1>6 DEF JobEnds, QuotaTypeOK
<1>7. ASSUME NEW w \in VM, InstanceStops(w)
      PROVE  inst'[v] = NoInstance /\ job'[v] = NoJob
  <2>1. w # v
    BY <1>1, <1>2, <1>7 DEF InstanceStops
  <2>2. inst' = [inst EXCEPT ![w].running = FALSE] /\ UNCHANGED <<job, owner>>
    BY <1>7 DEF InstanceStops
  <2>3. inst'[v] = inst[v] BY <2>1, <2>2 DEF QuotaTypeOK
  <2> QED BY <1>1, <2>2, <2>3
<1>8. ASSUME NEW w \in VM, NEW i \in Instance, InstanceChanges(w, i)
      PROVE  inst'[v] = NoInstance /\ job'[v] = NoJob
  BY <1>1, <1>8 DEF InstanceChanges, QuotaTypeOK
<1>9. ASSUME UNCHANGED <<inst, job, owner>>
      PROVE  inst'[v] = NoInstance /\ job'[v] = NoJob
  BY <1>1, <1>9
<1>10. ASSUME \/ \E w \in VM : Refresh(w)
              \/ \E o, limit : SetQuota(o, limit)
              \/ UNCHANGED quotaVars
       PROVE  UNCHANGED <<inst, job, owner>>
  BY <1>10 DEF Refresh, SetQuota, ganeti, quotaVars
<1> QED BY <1>3, <1>4, <1>5, <1>6, <1>7, <1>8, <1>9, <1>10 DEF QuotaNext

LEMMA QuotaInitInv == QuotaInit => QuotaInv
<1> SUFFICES ASSUME QuotaInit PROVE QuotaInv
  OBVIOUS
<1>1. QuotaTypeOK
  <2>1. 1 \in Size /\ [size |-> 1, running |-> FALSE] \in Instance
    BY SizeAssumption DEF Size, Instance
  <2>2. NoJob \in Job /\ NewRow(Unknown) \in Row BY DEF NoJob, Job, NewRow, Row
  <2> QED BY <2>1, <2>2, OwnerAssumption
          DEF QuotaInit, QuotaTypeOK, None, NoQuota, BareZero
<1>2. Unmade BY DEF QuotaInit, Unmade
<1>3. ASSUME NEW o \in Owner PROVE Foreseen(o)
  <2>1. GetQuota(o) = None BY OwnerAssumption DEF QuotaInit, GetQuota
  <2> QED BY <2>1 DEF Foreseen, Fits
<1> QED BY <1>1, <1>2, <1>3 DEF QuotaInv, OwnerInv

LEMMA QuotaNextInv == QuotaInv /\ [QuotaNext]_quotaVars => QuotaInv'
<1> SUFFICES ASSUME QuotaInv, [QuotaNext]_quotaVars PROVE QuotaInv'
  OBVIOUS
<1>1. QuotaTypeOK' /\ Unmade' BY QuotaNextType, NextUnmade DEF QuotaInv
<1>2. ASSUME NEW o \in Owner PROVE OwnerInv(o)'
  <2>1. CASE \E v \in VM, superuser \in BOOLEAN : Startup(v, superuser)
    BY <1>1, <2>1, StartupSound
  <2>2. CASE \E v \in VM : Reboot(v)
    BY <1>1, <2>2, RebootSound
  <2>3. CASE \E v \in VM, size \in Size : Modify(v, size)
    BY <1>1, <2>3, ModifySound
  <2>4. CASE \E v \in VM, p \in Owner, size \in Size, start \in BOOLEAN :
               Create(v, p, size, start)
    BY <1>1, <2>4, CreateSound
  <2>5. CASE \E p \in Owner \cup {Default}, limit \in Limits \cup {None, NoQuota, BareZero} :
               SetQuota(p, limit)
    BY <2>5, SetQuotaSound
  <2>6. CASE \E v \in VM, p \in Owner \cup {NoOwner} : Reparent(v, p)
    BY <1>1, <2>6, ReparentSound
  <2>7. CASE \E v \in VM, success \in BOOLEAN : JobEnds(v, success)
    BY <1>1, <2>7, JobEndsSound
  <2>8. CASE \E v \in VM : InstanceStops(v)
    BY <1>1, <2>8, InstanceStopsSound
  <2>9. CASE \E v \in VM, i \in Instance : InstanceChanges(v, i)
    BY <1>1, <2>9, InstanceChangesSound
  <2>10. CASE (\E v \in VM : Refresh(v)) \/ UNCHANGED quotaVars
    <3>1. UNCHANGED <<inst, job, owner, quota, cause>>
      BY <2>10 DEF Refresh, ganeti, quotaVars
    <3> QED BY <3>1, RowsSound
  <2> QED BY <2>1, <2>2, <2>3, <2>4, <2>5, <2>6, <2>7, <2>8, <2>9, <2>10 DEF QuotaNext
<1> QED BY <1>1, <1>2 DEF QuotaInv

(* Records, jobs, owners and limits keep their kinds, and the cluster      *)
(* always has a default (get_quota() and get_default_quota()).             *)
THEOREM QuotaTypeCorrect == QuotaSpec => []QuotaTypeOK
<1>1. QuotaInit => QuotaTypeOK BY QuotaInitInv DEF QuotaInv
<1> QED BY <1>1, QuotaNextType, PTL DEF QuotaSpec

(* However many machines an owner has, what the running ones have exceeds  *)
(* the quota only for one of the reasons that QuotaHasCause names.         *)
THEOREM OverQuotaExplained == QuotaSpec => []QuotaHasCause
<1>1. ASSUME QuotaInv, NEW o \in Owner, ~Within(o) PROVE cause[o]
  <2>1. QuotaTypeOK /\ OwnerInv(o) BY <1>1 DEF QuotaInv
  <2>2. Usage(o) <= Needed(o) /\ Usage(o) \in Int /\ Needed(o) \in Int
    BY <2>1, UsageIsNeeded, TotalTypes
  <2>3. ~Foreseen(o) BY <1>1, <2>1, <2>2, FitsLess DEF Within, Foreseen
  <2> QED BY <2>1, <2>3 DEF OwnerInv
<1>2. QuotaInv => QuotaHasCause BY <1>1 DEF QuotaHasCause
<1> QED BY <1>2, QuotaInitInv, QuotaNextInv, PTL DEF QuotaSpec
==============================================================================
