---------------------------- MODULE GanetiErrors ----------------------------
(***************************************************************************)
(* The table of errors the remote API gave for a cluster and its objects:  *)
(* CachedClusterObject.refresh() records and clears them, users dismiss    *)
(* them.  A request may load many objects; each is refreshed as it is      *)
(* loaded, remembers in its own attribute whether that failed, and may be  *)
(* refreshed again.  What a request writes takes effect when it commits;   *)
(* it sees its own writes.                                                 *)
(***************************************************************************)
EXTENDS Naturals, Sequences, SequencesExt

CONSTANTS
    Proc,           \* web server processes
    Child,          \* the virtual machines and nodes of the cluster
    Failure,        \* what a failed call says: a code and a message
    Unauthorized,   \* the failures whose code is 401
    NotFound,       \* the failures whose code is 404
    Dismissal       \* whether users dismiss errors

Cluster == "cluster"
Works == "works"
Object == {Cluster} \cup Child

ASSUME ChildAssumption == Cluster \notin Child
ASSUME FailureAssumption == /\ Unauthorized \cup NotFound \subseteq Failure
                            /\ Unauthorized \cap NotFound = {}
                            /\ Works \notin Failure
ASSUME DismissalAssumption == Dismissal \in BOOLEAN

VARIABLES
    errors,     \* the rows of the table, in the order of their keys
    api,        \* external: what the API answers for each object
    req         \* per process, the request in flight

vars == <<errors, api, req>>

GanetiError == [obj: Object, failure: Failure, cleared: BOOLEAN]

(* failed: the objects in memory whose error attribute is set; clear: the  *)
(* rows an UPDATE of this request has cleared; new: the rows it inserted.  *)
Request == [open: BOOLEAN, failed: SUBSET Object, clear: SUBSET Nat, new: Seq(GanetiError)]
Idle == [open |-> FALSE, failed |-> {}, clear |-> {}, new |-> <<>>]

TypeOK == /\ errors \in Seq(GanetiError)
          /\ api \in [Object -> Failure \cup {Works}]
          /\ req \in [Proc -> Request]

Init == /\ errors = <<>>
        /\ api = [o \in Object |-> Works]
        /\ req = [p \in Proc |-> Idle]

----------------------------------------------------------------------------
Cleared(rows, clear) ==
    [i \in DOMAIN rows |-> [rows[i] EXCEPT !.cleared = @ \/ i \in clear]]

(* The table as a request sees it.                                         *)
Seen(rows, q) == Cleared(rows, q.clear) \o q.new

(* Mutated form of BlamedOn: an unauthorized call is the object's error. *)
BlamedOn_Itself(o, f) == o

(* store_error: 401 is an error of the cluster, wherever it occurs.        *)
BlamedOn(o, f) == IF f \in Unauthorized THEN Cluster ELSE o

(* Mutated form of Silenced: the cluster's errors silence nothing. *)
Silenced_Never(rows, o, f) == FALSE

(* store_error: 404 of a child of a cluster that shows the same error.     *)
Silenced(rows, o, f) ==
    /\ f \in NotFound /\ o # Cluster
    /\ \E e \in ToSet(rows) : e.obj = Cluster /\ e.failure = f /\ ~e.cleared

(* Mutated form of Stored: a cleared row does not count. *)
Stored_Shown(rows, o, f) ==
    \E e \in ToSet(rows) : e.obj = o /\ e.failure = f /\ ~e.cleared

(* store_error: the row found by object, code and message, cleared or not. *)
Stored(rows, o, f) == \E e \in ToSet(rows) : e.obj = o /\ e.failure = f

(* store_error(), for the request q.                                       *)
StoreError(q, o, f) ==
    LET b == BlamedOn(o, f) IN
    IF Silenced(Seen(errors, q), o, f) \/ Stored(Seen(errors, q), b, f) THEN q
    ELSE [q EXCEPT !.new = Append(@, [obj |-> b, failure |-> f, cleared |-> FALSE])]

(* get_errors(): a cluster's errors are those of all of its objects.       *)
ErrorsOf(rows, o) == {i \in DOMAIN rows : o = Cluster \/ rows[i].obj = o}

(* clear_errors(), for the request q.                                      *)
ClearErrors(q, o) == [q EXCEPT !.clear = @ \cup ErrorsOf(errors, o),
                               !.new   = Cleared(@, ErrorsOf(@, o))]

(* The except and else branches of refresh(), for an object whose error    *)
(* attribute was set or not.                                               *)
Refreshed(q, o, failed) ==
    IF api[o] # Works
    THEN [StoreError(q, o, api[o]) EXCEPT !.failed = @ \cup {o}]
    ELSE [(IF failed THEN ClearErrors(q, o) ELSE q) EXCEPT !.failed = @ \ {o}]

(* The constructor of a model instance refreshes it: a new instance has no *)
(* error.                                                                  *)
Load(p, o) ==
    /\ req' = [req EXCEPT ![p] = [Refreshed(@, o, FALSE) EXCEPT !.open = TRUE]]
    /\ UNCHANGED <<errors, api>>

(* The views that refresh a cluster and its objects once their             *)
(* constructors are through.  Without an error it does what Load does.     *)
RefreshAgain(p, o) ==
    /\ o \in req[p].failed
    /\ req' = [req EXCEPT ![p] = Refreshed(@, o, TRUE)]
    /\ UNCHANGED <<errors, api>>

Commit(p) == /\ req[p].open
             /\ errors' = Seen(errors, req[p])
             /\ req' = [req EXCEPT ![p] = Idle]
             /\ UNCHANGED api

Abort(p) == /\ req[p].open
            /\ req' = [req EXCEPT ![p] = Idle]
            /\ UNCHANGED <<errors, api>>

(* clear_ganeti_error.                                                     *)
Dismiss(i) == /\ Dismissal
              /\ errors' = Cleared(errors, {i})
              /\ UNCHANGED <<api, req>>

(* The API, or the object behind it, breaks, changes or recovers.          *)
ApiChanges(o, f) == /\ api' = [api EXCEPT ![o] = f]
                    /\ UNCHANGED <<errors, req>>

Next == \/ \E p \in Proc : \/ \E o \in Object : Load(p, o) \/ RefreshAgain(p, o)
                           \/ Commit(p) \/ Abort(p)
        \/ \E i \in DOMAIN errors : Dismiss(i)
        \/ \E o \in Object, f \in Failure \cup {Works} : ApiChanges(o, f)

Spec == Init /\ [][Next]_vars

----------------------------------------------------------------------------
(* "401 is cluster-specific error and thus shouldn't appear on any other   *)
(* object" (utils/models.py:142).                                          *)
UnauthorizedIsOfCluster ==
    \A e \in ToSet(errors) : e.failure \in Unauthorized => e.obj = Cluster

(* An object has one row per code and message, however often it failed,    *)
(* recovered and was dismissed in between.                                 *)
OneRowPerFailure ==
    \A i, j \in DOMAIN errors :
        errors[i].obj = errors[j].obj /\ errors[i].failure = errors[j].failure => i = j

(* "when it occurs on a cluster, then any of its children must not see the *)
(* error again" (utils/models.py:153): none of them gets a row for a 404   *)
(* that the cluster shows all the while.                                   *)
ChildrenSilenced ==
    [][\A i \in DOMAIN errors, j \in DOMAIN errors' \ DOMAIN errors :
         ~ /\ errors[i].obj = Cluster /\ ~errors[i].cleared /\ ~errors'[i].cleared
           /\ errors[i].failure \in NotFound
           /\ errors'[j].obj \in Child /\ errors'[j].failure = errors[i].failure]_vars

=============================================================================
