----------------------------- MODULE LazyCache -----------------------------
(***************************************************************************)
(* What the lazy cache promises to the reader of a page: it shows what the *)
(* cluster has now or had at most Expiry ago; while a job of the object is *)
(* pending, what the cluster has now; or it says that the cluster did not  *)
(* answer.  The promise is off (excused) from the write of a refresh that  *)
(* another write overtook to the next write of one that none did.          *)
(*                                                                         *)
(* Only ages are compared, so time is kept as ages, none greater than      *)
(* Expiry + 1.                                                             *)
(***************************************************************************)
EXTENDS Naturals

CONSTANTS Proc,       \* the web server's processes
          Expiry,     \* LAZY_CACHE_REFRESH
          Version,    \* the contents an object may have on its cluster
          NoPage,     \* no page on the screen
          ErrorPage   \* a page that says the cluster did not answer

VARIABLES truth,      \* what the cluster has
          age,        \* how long ago it last had each content
          pending,    \* a job of the object is pending
          excused,
          page        \* what the page of each process shows

vars == <<truth, age, pending, excused, page>>

TooOld == Expiry + 1
Older(a) == IF a = TooOld THEN TooOld ELSE a + 1

Init == /\ truth \in Version
        /\ age = [v \in Version |-> IF v = truth THEN 0 ELSE TooOld]
        /\ pending = FALSE
        /\ excused = FALSE
        /\ page = [p \in Proc |-> NoPage]

Tick == /\ age' = [v \in Version |-> IF v = truth THEN 0 ELSE Older(age[v])]
        /\ UNCHANGED <<truth, pending, excused, page>>

Change == /\ truth' \in Version
          /\ age' = [age EXCEPT ![truth'] = 0]
          /\ UNCHANGED <<pending, excused, page>>

Show(p) ==
    /\ \E v \in Version : /\ \/ excused
                             \/ v = truth
                             \/ ~pending /\ age[v] <= Expiry
                          /\ page' = [page EXCEPT ![p] = v]
    /\ UNCHANGED <<truth, age, pending, excused>>

Apologise(p) == /\ page' = [page EXCEPT ![p] = ErrorPage]
                /\ UNCHANGED <<truth, age, pending, excused>>

Close(p) == /\ page' = [page EXCEPT ![p] = NoPage]
            /\ UNCHANGED <<truth, age, pending, excused>>

(* Jobs are tracked and released; refreshes overtake each other, or not.   *)
Manage == /\ pending' \in BOOLEAN /\ excused' \in BOOLEAN
          /\ \E p \in Proc : page' \in {page, [page EXCEPT ![p] = NoPage]}
          /\ UNCHANGED <<truth, age>>

Next == \/ Tick \/ Change \/ Manage
        \/ \E p \in Proc : Show(p) \/ Apologise(p) \/ Close(p)

Spec == Init /\ [][Next]_vars
=============================================================================
