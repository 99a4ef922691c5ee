------------------------- MODULE ClusterSync_proofs -------------------------
(***************************************************************************)
(* Theorems about ClusterSync, for any clusters, hosts, nodes and owners.  *)
(*                                                                         *)
(* IInv says of every row what its flag `current` promises and what was    *)
(* asked for its tags (RowOK), and of every instance that it runs on a     *)
(* node of its own cluster (the external part).  The lemmas show that the  *)
(* two operators which save a VM, from a refresh and from a page, keep     *)
(* RowOK; the actions are then assembled from them.                        *)
(***************************************************************************)
EXTENDS ClusterSync, TLAPS

Asked(row, jobs, op, t) == \E job \in jobs \cup row.failed : job.op = op /\ t \in job.tags

(* The info of a row has no tag of a living owner but the row's own, for   *)
(* a page saves owners from the info; the tags of the instance are in the  *)
(* info or to be deleted, and the owner's is there or to be added.         *)
TagsOK(row, inst, jobs) ==
    /\ \A t \in inst.tags : \/ Asked(row, jobs, "del", t)
                            \/ t \in row.tags /\ row.owner \in {t, NoOwner}
    /\ \A t \in OwnerTags(row.owner) : t \in inst.tags \/ Asked(row, jobs, "add", t)

RowOK(i, row, inst, jobs, own) ==
    /\ row.current => row.fetched
    /\ row.fetched /\ ClusterOf(i) \in Writable => row.tags \cap own \subseteq OwnerTags(row.owner)
    /\ row.current /\ row.present /\ inst.present =>
          /\ row.node \in {inst.node, NoNode}
          /\ ClusterOf(i) \in Writable => TagsOK(row, inst, jobs)

Placed(i, inst, gn) ==
    inst.present => inst.node \in Node /\ gn[inst.node] = ClusterOf(i)

IInv == /\ TypeOK
        /\ \A i \in Inst : RowOK(i, vm[i], ginst[i], tagjob[i], owner)
        /\ \A i \in Inst : Placed(i, ginst[i], gnode)

----------------------------------------------------------------------------
(* The save of one VM.                                                     *)

LEMMA TagJobForFacts ==
    ASSUME NEW op \in {"add", "del"}, NEW tags \in TagSet
    PROVE  /\ TagJobFor(op, tags) \in SUBSET TagJob
           /\ \A t \in tags : \E job \in TagJobFor(op, tags) : job.op = op /\ t \in job.tags
<1> DEFINE one == [op |-> op, tags |-> tags]
<1>1. one \in TagJob /\ one.op = op /\ one.tags = tags
  BY DEF TagJob, TagSet
<1>2. CASE tags = {}
  BY <1>2 DEF TagJobFor
<1>3. CASE tags # {}
  <2>1. TagJobFor(op, tags) = {one}
    BY <1>3 DEF TagJobFor
  <2> HIDE DEF one
  <2> QED  BY <1>1, <2>1
<1> QED  BY <1>2, <1>3

(* What is asked covers the difference between the info and the owner.     *)
LEMMA RetaggedFacts ==
    ASSUME NEW i \in Inst, NEW row \in VMRow,
           NEW cached \in TagSet, NEW ans \in Answer,
           NEW saved, saved = Retagged(i, row, cached, ans)
    PROVE  /\ saved.ok \in BOOLEAN
           /\ saved.asked \in SUBSET TagJob
           /\ saved.tags \in TagSet
           /\ ans = "heard" => saved.ok
           /\ saved.ok /\ ClusterOf(i) \in Writable =>
                 /\ saved.tags = OwnerTags(row.owner)
                 /\ \A t \in cached \ OwnerTags(row.owner) :
                       \E job \in saved.asked : job.op = "del" /\ t \in job.tags
                 /\ \A t \in OwnerTags(row.owner) \ cached :
                       \E job \in saved.asked : job.op = "add" /\ t \in job.tags
<1> DEFINE remove == cached \ OwnerTags(row.owner)
           add == OwnerTags(row.owner) \ cached
           deletion == TagJobFor("del", remove)
           addition == TagJobFor("add", add)
<1>1. OwnerTags(row.owner) \in TagSet /\ remove \in TagSet /\ add \in TagSet
  BY DEF OwnerTags, VMRow, TagSet
<1>2. /\ deletion \in SUBSET TagJob /\ addition \in SUBSET TagJob
      /\ \A t \in remove : \E job \in deletion : job.op = "del" /\ t \in job.tags
      /\ \A t \in add : \E job \in addition : job.op = "add" /\ t \in job.tags
  BY <1>1, TagJobForFacts
<1> HIDE DEF deletion, addition
<1>3. CASE ClusterOf(i) \notin Writable
  <2>1. saved = [ok |-> TRUE, asked |-> {}, tags |-> cached]
    BY <1>3 DEF Retagged
  <2> QED  BY <1>3, <2>1
<1>4. CASE ClusterOf(i) \in Writable
  <2>1. CASE deletion # {} /\ ans = "noDelete"
    <3>1. saved = [ok |-> FALSE, asked |-> {}, tags |-> cached]
      BY <1>4, <2>1 DEF Retagged, deletion
    <3>2. saved.ok = FALSE /\ saved.asked = {} /\ saved.tags = cached /\ ans # "heard"
      BY <2>1, <3>1
    <3> QED  BY <3>2
  <2>2. CASE ~(deletion # {} /\ ans = "noDelete") /\ addition # {} /\ ans = "noAdd"
    <3>1. saved = [ok |-> FALSE, asked |-> deletion, tags |-> cached]
      BY <1>4, <2>2 DEF Retagged, deletion, addition
    <3>2. saved.ok = FALSE /\ saved.asked = deletion /\ saved.tags = cached /\ ans # "heard"
      BY <2>2, <3>1
    <3> QED  BY <1>2, <3>2
  <2>3. CASE ~(deletion # {} /\ ans = "noDelete") /\ ~(addition # {} /\ ans = "noAdd")
    <3>1. saved = [ok |-> TRUE, asked |-> deletion \cup addition, tags |-> OwnerTags(row.owner)]
      BY <1>4, <2>3 DEF Retagged, deletion, addition
    <3> QED  BY <1>1, <1>2, <3>1
  <2> QED  BY <2>1, <2>2, <2>3
<1> QED  BY <1>3, <1>4

(* Deleting a row, inserting one.                                          *)
LEMMA NoRowOK ==
    ASSUME NEW i, NEW inst, NEW jobs, NEW own
    PROVE  RowOK(i, NoVM, inst, jobs, own)
BY DEF RowOK, NoVM

LEMMA NewRow ==
    ASSUME NEW i, NEW inst, NEW jobs, NEW own, NEW o \in Owner \cup {NoOwner}
    PROVE  /\ NewVM(o) \in VMRow /\ NewVM(o).present /\ NewVM(o).node = NoNode
           /\ RowOK(i, NewVM(o), inst, jobs, own)
BY DEF RowOK, NoVM, NewVM, VMRow, TagSet

LEMMA NoVMType == NoVM \in VMRow /\ ~NoVM.present /\ NoVM.node = NoNode
BY DEF NoVM, VMRow, TagSet

LEMMA NodeRowType ==
    ASSUME NEW nodes, NEW n \in Node \cup {NoNode}
    PROVE  NodeRow(nodes, n) \in {n, NoNode} /\ NodeRow(nodes, n) \in Node \cup {NoNode}
BY DEF NodeRow

(* More jobs queued break no promise.                                      *)
LEMMA MoreJobs ==
    ASSUME NEW i, NEW row, NEW inst, NEW jobs, NEW own, NEW more,
           jobs \subseteq more, RowOK(i, row, inst, jobs, own)
    PROVE  RowOK(i, row, inst, more, own)
<1>1. \A op, t : Asked(row, jobs, op, t) => Asked(row, more, op, t)
  BY DEF Asked
<1> QED  BY <1>1 DEF RowOK, TagsOK

(* A refresh keeps what is there, and what is said of it.                  *)
LEMMA RefreshedFacts ==
    ASSUME SyncAssumption, TypeOK, NEW i \in Inst, NEW row \in VMRow, NEW nodes,
           NEW ans \in Answer, RowOK(i, row, ginst[i], tagjob[i], owner),
           NEW new, new = Refreshed(i, row, nodes, ans)
    PROVE  /\ new.row \in VMRow /\ new.jobs \in SUBSET TagJob
           /\ new.row.present = row.present
           /\ RowOK(i, new.row, ginst[i], new.jobs, owner)
           /\ ans = "heard" /\ row.present /\ ginst[i].present =>
                 new.row.node \in {ginst[i].node, NoNode}
<1> DEFINE saved == Retagged(i, row, ginst[i].tags, ans)
           skip == ~row.present \/ ~ginst[i].present \/ ans = "unheard" \/ ~HasNews(i, row)
<1>0. saved = Retagged(i, row, ginst[i].tags, ans)
  OBVIOUS
<1> HIDE DEF saved
<1>1. ginst[i] \in Instance /\ tagjob[i] \in SUBSET TagJob
  BY DEF TypeOK
<1>2. ginst[i].tags \in TagSet /\ ginst[i].node \in Node \cup {NoNode}
  BY <1>1 DEF Instance
<1>3. CASE skip
  <2>1. new = [row |-> row, jobs |-> tagjob[i]]
    BY <1>3 DEF Refreshed
  <2>2. new.row = row /\ new.jobs = tagjob[i]
    BY <2>1
  <2>3. ans = "heard" /\ row.present /\ ginst[i].present => row.current
    BY <1>3 DEF HasNews
  <2> QED  BY <1>1, <2>2, <2>3 DEF RowOK, VMRow
<1>4. CASE ~skip /\ ~saved.ok
  <2>1. new = [row |-> row, jobs |-> tagjob[i] \cup saved.asked]
    BY <1>0, <1>4 DEF Refreshed
  <2>2. new.row = row /\ new.jobs = tagjob[i] \cup saved.asked
    BY <2>1
  <2>3. saved.asked \in SUBSET TagJob /\ ans # "heard"
    BY <1>0, <1>2, <1>4, RetaggedFacts
  <2>4. RowOK(i, row, ginst[i], new.jobs, owner)
    BY <2>2, MoreJobs
  <2> QED  BY <1>1, <2>2, <2>3, <2>4
<1>5. CASE ~skip /\ saved.ok
  <2>1. new = [row  |-> [row EXCEPT !.node = NodeRow(nodes, ginst[i].node), !.fetched = TRUE,
                                    !.current = TRUE, !.tags = saved.tags, !.failed = {}],
               jobs |-> tagjob[i] \cup saved.asked]
    BY <1>0, <1>5 DEF Refreshed
  <2>2. /\ saved.asked \in SUBSET TagJob /\ saved.tags \in TagSet
        /\ ClusterOf(i) \in Writable =>
              /\ saved.tags = OwnerTags(row.owner)
              /\ \A t \in ginst[i].tags \ OwnerTags(row.owner) :
                    \E job \in saved.asked : job.op = "del" /\ t \in job.tags
              /\ \A t \in OwnerTags(row.owner) \ ginst[i].tags :
                    \E job \in saved.asked : job.op = "add" /\ t \in job.tags
    BY <1>0, <1>2, <1>5, RetaggedFacts
  <2>3. NodeRow(nodes, ginst[i].node) \in {ginst[i].node, NoNode}
        /\ NodeRow(nodes, ginst[i].node) \in Node \cup {NoNode}
    BY <1>2, NodeRowType
  <2> DEFINE n == NodeRow(nodes, ginst[i].node)
             after == [row EXCEPT !.node = n, !.fetched = TRUE, !.current = TRUE,
                                  !.tags = saved.tags, !.failed = {}]
  <2>a. new.row = after /\ new.jobs = tagjob[i] \cup saved.asked
    BY <2>1
  <2>b. /\ after.present = row.present /\ after.node = n /\ after.owner = row.owner
        /\ after.fetched /\ after.tags = saved.tags
    BY DEF VMRow
  <2>c. after \in VMRow
    <3> HIDE DEF n
    <3> QED  BY <2>2, <2>3 DEF VMRow, n
  <2>4. /\ new.row \in VMRow /\ new.row.present = row.present
        /\ new.row.node = NodeRow(nodes, ginst[i].node) /\ new.row.owner = row.owner
        /\ new.row.fetched /\ new.row.tags = saved.tags
        /\ new.jobs = tagjob[i] \cup saved.asked
    <3> HIDE DEF after
    <3> QED  BY <2>a, <2>b, <2>c
  <2> HIDE DEF n, after
  <2>5. ASSUME ClusterOf(i) \in Writable  PROVE TagsOK(new.row, ginst[i], new.jobs)
    <3>1. \A t \in ginst[i].tags \ OwnerTags(row.owner) : Asked(new.row, new.jobs, "del", t)
      BY <2>2, <2>4, <2>5 DEF Asked
    <3>2. \A t \in OwnerTags(row.owner) \ ginst[i].tags : Asked(new.row, new.jobs, "add", t)
      BY <2>2, <2>4, <2>5 DEF Asked
    <3>3. \A t \in OwnerTags(row.owner) : t \in new.row.tags /\ new.row.owner = t
      BY <2>2, <2>4, <2>5 DEF OwnerTags
    <3> QED  BY <2>4, <3>1, <3>2, <3>3 DEF TagsOK
  <2>6. RowOK(i, new.row, ginst[i], new.jobs, owner)
    BY <2>2, <2>3, <2>4, <2>5 DEF RowOK
  <2> QED  BY <1>1, <2>2, <2>3, <2>4, <2>6
<1> QED  BY <1>3, <1>4, <1>5

(* So does assigning an owner to a row that has none; if the save fails,   *)
(* only jobs are added.                                                    *)
LEMMA AssignedFacts ==
    ASSUME SyncAssumption, TypeOK, NEW i \in Inst, NEW row \in VMRow, row.owner = NoOwner,
           NEW o \in owner, NEW ans \in Answer, RowOK(i, row, ginst[i], tagjob[i], owner),
           NEW new, new = Assigned(i, row, o, ans)
    PROVE  /\ new.row \in VMRow /\ new.jobs \in SUBSET TagJob
           /\ new.row.present = row.present
           /\ tagjob[i] \subseteq new.jobs
           /\ new.ok => RowOK(i, new.row, ginst[i], new.jobs, owner)
<1> DEFINE owned == [row EXCEPT !.owner = o]
           saved == Retagged(i, owned, row.tags, ans)
<1>0. saved = Retagged(i, owned, row.tags, ans)
  OBVIOUS
<1> HIDE DEF saved
<1>1. /\ tagjob[i] \in SUBSET TagJob /\ owned \in VMRow /\ o \in Owner /\ o # NoOwner
      /\ owned.owner = o /\ owned.present = row.present /\ owned.node = row.node
      /\ owned.tags = row.tags /\ owned.fetched = row.fetched /\ owned.current = row.current
      /\ owned.failed = row.failed
  BY DEF TypeOK, VMRow, SyncAssumption
<1>2. /\ new.row = owned /\ new.ok = (row.fetched => saved.ok)
      /\ new.jobs = tagjob[i] \cup IF row.fetched THEN saved.asked ELSE {}
  BY <1>0 DEF Assigned
<1> HIDE DEF owned
<1>3. row.tags \in TagSet
  BY DEF VMRow
<1>4. /\ saved.ok \in BOOLEAN /\ saved.asked \in SUBSET TagJob
      /\ saved.ok /\ ClusterOf(i) \in Writable =>
            /\ \A t \in row.tags \ OwnerTags(o) :
                  \E job \in saved.asked : job.op = "del" /\ t \in job.tags
            /\ \A t \in OwnerTags(o) \ row.tags :
                  \E job \in saved.asked : job.op = "add" /\ t \in job.tags
  BY <1>0, <1>1, <1>3, RetaggedFacts
<1>5. OwnerTags(o) = {o} /\ OwnerTags(row.owner) = {}
  BY <1>1 DEF OwnerTags
<1>6. ASSUME new.ok  PROVE RowOK(i, owned, ginst[i], new.jobs, owner)
  <2>1. CASE ~row.fetched
    BY <1>1, <2>1 DEF RowOK
  <2>2. CASE row.fetched
    <3>1. saved.ok /\ new.jobs = tagjob[i] \cup saved.asked
      BY <1>2, <1>6, <2>2
    <3>2. ClusterOf(i) \in Writable => o \notin row.tags
      BY <1>5, <2>2 DEF RowOK
    <3>3. ASSUME ClusterOf(i) \in Writable, TagsOK(row, ginst[i], tagjob[i])
          PROVE  TagsOK(owned, ginst[i], new.jobs)
      <4>1. \A t \in ginst[i].tags : Asked(owned, new.jobs, "del", t)
        <5> SUFFICES ASSUME NEW t \in ginst[i].tags  PROVE Asked(owned, new.jobs, "del", t)
          OBVIOUS
        <5>1. CASE Asked(row, tagjob[i], "del", t)
          BY <1>1, <3>1, <5>1 DEF Asked
        <5>2. CASE t \in row.tags
          <6>1. t \in row.tags \ OwnerTags(o)
            BY <1>5, <3>2, <3>3, <5>2
          <6> QED  BY <1>4, <3>1, <3>3, <6>1 DEF Asked
        <5> QED  BY <3>3, <5>1, <5>2 DEF TagsOK
      <4>2. Asked(owned, new.jobs, "add", o)
        BY <1>4, <1>5, <3>1, <3>2, <3>3 DEF Asked
      <4> QED  BY <1>1, <1>5, <4>1, <4>2 DEF TagsOK
    <3>4. ClusterOf(i) \in Writable => owned.tags \cap owner \subseteq OwnerTags(owned.owner)
      BY <1>1, <1>5, <2>2 DEF RowOK
    <3> QED  BY <1>1, <3>3, <3>4 DEF RowOK
  <2> QED  BY <2>1, <2>2
<1> QED  BY <1>1, <1>2, <1>4, <1>6

----------------------------------------------------------------------------
(* Tables of rows.                                                         *)

TableOK(rows) == /\ rows \in [Inst -> VMRow]
                 /\ \A i \in Inst : RowOK(i, rows[i], ginst[i], tagjob[i], owner)

LEMMA CascadedFacts ==
    ASSUME NEW rows, TableOK(rows), NEW gone, NoNode \notin gone
    PROVE  /\ TableOK(Cascaded(rows, gone))
           /\ \A i \in Inst : Cascaded(rows, gone)[i] =
                                IF rows[i].node \in gone THEN NoVM ELSE rows[i]
BY NoVMType, NoRowOK DEF TableOK, Cascaded

(* What a synchronisation makes of each row.                               *)
Synced(c, rows, nodes, heard, remove, ans, synced) ==
    /\ TableOK(rows) /\ remove \in BOOLEAN /\ ans \in AnswerMap(c)
    /\ synced = VMsSynced(c, rows, nodes, heard, remove, ans)

LEMMA SyncedFacts ==
    ASSUME SyncAssumption, TypeOK, NEW c \in Cluster, NEW rows, NEW nodes, NEW heard,
           NEW remove, NEW ans, NEW synced,
           Synced(c, rows, nodes, heard, remove, ans, synced), NEW i \in Inst
    PROVE  /\ synced[i].row \in VMRow /\ synced[i].jobs \in SUBSET TagJob
           /\ RowOK(i, synced[i].row, ginst[i], synced[i].jobs, owner)
           /\ ClusterOf(i) # c => synced[i].row = rows[i]
           /\ ClusterOf(i) = c =>
                 /\ synced[i].row.present <=> \/ i \in heard
                                              \/ rows[i].present /\ ~remove
                 /\ up[c] /\ synced[i].row.present /\ ginst[i].present =>
                       synced[i].row.node \in {ginst[i].node, NoNode}
<1>0. /\ TableOK(rows) /\ remove \in BOOLEAN /\ ans \in AnswerMap(c)
      /\ synced = VMsSynced(c, rows, nodes, heard, remove, ans)
  BY DEF Synced
<1>1. /\ rows[i] \in VMRow /\ tagjob[i] \in SUBSET TagJob
      /\ RowOK(i, rows[i], ginst[i], tagjob[i], owner)
  BY <1>0 DEF TableOK, TypeOK
<1>2. CASE ClusterOf(i) # c
  <2>1. synced[i] = [row |-> rows[i], jobs |-> tagjob[i]]
    BY <1>0, <1>2 DEF VMsSynced
  <2> QED  BY <1>1, <1>2, <2>1
<1>3. CASE ClusterOf(i) = c
  <2>1. i \in OfCluster(c) /\ ans[i] \in Answer /\ (up[c] => ans[i] = "heard")
    BY <1>0, <1>3 DEF OfCluster, AnswerMap, Answers, Answer
  <2>2. CASE i \in heard /\ ~rows[i].present
    <3>1. synced[i] = Refreshed(i, NewVM(NoOwner), nodes, ans[i])
      BY <1>0, <1>3, <2>2 DEF VMsSynced
    <3>2. NewVM(NoOwner) \in VMRow /\ NewVM(NoOwner).present
          /\ RowOK(i, NewVM(NoOwner), ginst[i], tagjob[i], owner)
      BY NewRow
    <3> HIDE DEF NewVM
    <3> QED  BY <1>3, <2>1, <2>2, <3>1, <3>2, RefreshedFacts
  <2>3. CASE remove /\ rows[i].present /\ i \notin heard
    <3>1. synced[i] = [row |-> NoVM, jobs |-> tagjob[i]]
      BY <1>0, <1>3, <2>3 DEF VMsSynced
    <3>2. synced[i].row = NoVM /\ synced[i].jobs = tagjob[i]
      BY <3>1
    <3>3. NoVM \in VMRow /\ ~NoVM.present /\ RowOK(i, NoVM, ginst[i], tagjob[i], owner)
      BY NoVMType, NoRowOK
    <3> HIDE DEF NoVM
    <3> QED  BY <1>1, <1>3, <2>3, <3>2, <3>3
  <2>4. CASE ~(i \in heard /\ ~rows[i].present) /\ ~(remove /\ rows[i].present /\ i \notin heard)
    <3>1. synced[i] = Refreshed(i, rows[i], nodes, ans[i])
      BY <1>0, <1>3, <2>4 DEF VMsSynced
    <3>2. rows[i].present \in BOOLEAN
      BY <1>1 DEF VMRow
    <3> QED  BY <1>1, <1>3, <2>1, <2>4, <3>1, <3>2, RefreshedFacts
  <2> QED  BY <2>2, <2>3, <2>4
<1> QED  BY <1>2, <1>3

----------------------------------------------------------------------------
(* The inductive invariant.                                                *)

LEMMA InvInit ==
    ASSUME SyncAssumption, Init
    PROVE  IInv
<1>1. TypeOK
  BY NoVMType DEF Init, TypeOK, Instance, NoInstance, TagSet, SyncAssumption
<1>2. \A i \in Inst : RowOK(i, vm[i], ginst[i], tagjob[i], owner)
  BY NoRowOK DEF Init
<1>3. \A i \in Inst : Placed(i, ginst[i], gnode)
  BY DEF Init, Placed, NoInstance
<1> QED  BY <1>1, <1>2, <1>3 DEF IInv

LEMMA NodesSyncedType ==
    ASSUME TypeOK, NEW c \in Cluster, NEW remove
    PROVE  NodesSynced(c, remove) \in [Node -> Cluster \cup {NoCluster}]
BY DEF TypeOK, NodesSynced

(* Both synchronisations, of rows that satisfy RowOK.                      *)
LEMMA SyncedKeepsInv ==
    ASSUME SyncAssumption, IInv, NEW c \in Cluster, NEW rows, TableOK(rows), NEW nodes,
           NEW heard, NEW remove \in BOOLEAN, NEW ans \in AnswerMap(c),
           NEW synced, synced = VMsSynced(c, rows, nodes, heard, remove, ans),
           vm' = [i \in Inst |-> synced[i].row],
           tagjob' = [i \in Inst |-> synced[i].jobs],
           node' = NodesSynced(c, remove), cluster' \subseteq Cluster,
           UNCHANGED <<ginst, gnode, up, owner, creating>>
    PROVE  IInv'
<1>1. \A i \in Inst : /\ vm'[i] \in VMRow /\ tagjob'[i] \in SUBSET TagJob
                      /\ RowOK(i, vm'[i], ginst[i], tagjob'[i], owner)
  <2> SUFFICES ASSUME NEW i \in Inst
               PROVE  /\ synced[i].row \in VMRow /\ synced[i].jobs \in SUBSET TagJob
                      /\ RowOK(i, synced[i].row, ginst[i], synced[i].jobs, owner)
    OBVIOUS
  <2>1. TypeOK  BY DEF IInv
  <2>2. Synced(c, rows, nodes, heard, remove, ans, synced)
    BY DEF Synced
  <2> QED  BY <2>1, <2>2, SyncedFacts
<1>2. vm' \in [Inst -> VMRow] /\ tagjob' \in [Inst -> SUBSET TagJob]
  BY <1>1
<1>3. node' \in [Node -> Cluster \cup {NoCluster}]
  BY NodesSyncedType DEF IInv
<1>4. TypeOK'
  BY <1>2, <1>3 DEF IInv, TypeOK
<1> QED  BY <1>1, <1>4 DEF IInv

LEMMA TableNow == IInv => TableOK(vm)
BY DEF IInv, TypeOK, TableOK

LEMMA RefreshViewInv ==
    ASSUME SyncAssumption, IInv, NEW c \in Cluster, RefreshView(c)
    PROVE  IInv'
<1>1. PICK silent \in Silence(c), ans \in AnswerMap(c) :
         LET synced == VMsSynced(c, Cascaded(vm, NodeRows(c) \ GanetiNodes(c)),
                                 NodesSynced(c, TRUE), HeardInstances(c, silent), TRUE, ans)
         IN  /\ node' = NodesSynced(c, TRUE)
             /\ vm' = [i \in Inst |-> synced[i].row]
             /\ tagjob' = [i \in Inst |-> synced[i].jobs]
  BY DEF RefreshView
<1> DEFINE rows == Cascaded(vm, NodeRows(c) \ GanetiNodes(c))
<1>2. TableOK(rows)
  BY TableNow, CascadedFacts DEF NodeRows, SyncAssumption
<1>3. cluster' \subseteq Cluster /\ UNCHANGED <<ginst, gnode, up, owner, creating>>
  BY DEF RefreshView, IInv, TypeOK
<1> HIDE DEF rows
<1> QED  BY <1>1, <1>2, <1>3, SyncedKeepsInv DEF rows

LEMMA AddClusterInv ==
    ASSUME SyncAssumption, IInv, NEW c \in Cluster, AddCluster(c)
    PROVE  IInv'
<1>1. cluster' \subseteq Cluster /\ UNCHANGED <<ginst, gnode, up, owner, creating>>
  BY DEF AddCluster, IInv, TypeOK
<1>2. CASE UNCHANGED <<tagjob, vm, node>>
  BY <1>1, <1>2 DEF IInv, TypeOK
<1>3. CASE \E silent \in Silence(c), ans \in AnswerMap(c) :
             LET synced == VMsSynced(c, vm, NodesSynced(c, FALSE),
                                     HeardInstances(c, silent), FALSE, ans)
             IN  /\ node' = NodesSynced(c, FALSE)
                 /\ vm' = [i \in Inst |-> synced[i].row]
                 /\ tagjob' = [i \in Inst |-> synced[i].jobs]
  <2>1. PICK silent \in Silence(c), ans \in AnswerMap(c) :
           LET synced == VMsSynced(c, vm, NodesSynced(c, FALSE),
                                   HeardInstances(c, silent), FALSE, ans)
           IN  /\ node' = NodesSynced(c, FALSE)
               /\ vm' = [i \in Inst |-> synced[i].row]
               /\ tagjob' = [i \in Inst |-> synced[i].jobs]
    BY <1>3
  <2>2. TableOK(vm)
    BY TableNow
  <2> QED  BY <1>1, <2>1, <2>2, SyncedKeepsInv
<1> QED  BY <1>2, <1>3 DEF AddCluster

LEMMA DeleteClusterInv ==
    ASSUME SyncAssumption, IInv, NEW c \in Cluster, DeleteCluster(c)
    PROVE  IInv'
<1>1. TableOK(Cascaded(vm, NodeRows(c)))
  BY TableNow, CascadedFacts DEF NodeRows, SyncAssumption
<1>2. vm' \in [Inst -> VMRow] /\ \A i \in Inst : RowOK(i, vm'[i], ginst[i], tagjob[i], owner)
  BY <1>1, NoVMType, NoRowOK DEF DeleteCluster, TableOK
<1> QED  BY <1>2 DEF DeleteCluster, IInv, TypeOK, world

LEMMA LoadVMInv ==
    ASSUME SyncAssumption, IInv, NEW k \in Inst, LoadVM(k)
    PROVE  IInv'
<1>1. PICK ans \in Answers(ClusterOf(k)) :
         /\ vm' = [vm EXCEPT ![k] = Refreshed(k, vm[k], node, ans).row]
         /\ tagjob' = [tagjob EXCEPT ![k] = Refreshed(k, vm[k], node, ans).jobs]
  BY DEF LoadVM
<1> DEFINE new == Refreshed(k, vm[k], node, ans)
<1>2. ans \in Answer /\ vm[k] \in VMRow /\ RowOK(k, vm[k], ginst[k], tagjob[k], owner)
  BY DEF Answers, Answer, IInv, TypeOK
<1>3. /\ new.row \in VMRow /\ new.jobs \in SUBSET TagJob
      /\ RowOK(k, new.row, ginst[k], new.jobs, owner)
  BY <1>2, RefreshedFacts DEF IInv
<1> HIDE DEF new
<1>4. /\ vm' = [vm EXCEPT ![k] = new.row] /\ tagjob' = [tagjob EXCEPT ![k] = new.jobs]
      /\ UNCHANGED <<ginst, gnode, up, node, cluster, owner, creating>>
  BY <1>1 DEF LoadVM, new
<1>5. TypeOK'
  BY <1>3, <1>4 DEF IInv, TypeOK
<1>6. \A i \in Inst : RowOK(i, vm'[i], ginst[i], tagjob'[i], owner)
  BY <1>3, <1>4 DEF IInv, TypeOK
<1> QED  BY <1>4, <1>5, <1>6 DEF IInv

LEMMA AdoptOrphansInv ==
    ASSUME SyncAssumption, IInv, NEW S \in SUBSET Inst, NEW o \in owner, AdoptOrphans(S, o)
    PROVE  IInv'
<1>1. PICK ans \in [S -> Answer], reached \in SUBSET S :
         LET saved == [i \in S |-> Assigned(i, vm[i], o, ans[i])]
         IN  /\ tagjob' = [i \in Inst |-> IF i \in reached THEN saved[i].jobs ELSE tagjob[i]]
             /\ \/ /\ reached = S /\ \A i \in S : saved[i].ok
                   /\ vm' = [i \in Inst |-> IF i \in S THEN saved[i].row ELSE vm[i]]
                \/ UNCHANGED vm
  BY DEF AdoptOrphans
<1> DEFINE saved == [i \in S |-> Assigned(i, vm[i], o, ans[i])]
<1>2. \A i \in S : /\ saved[i].row \in VMRow /\ saved[i].jobs \in SUBSET TagJob
                   /\ tagjob[i] \subseteq saved[i].jobs
                   /\ saved[i].ok => RowOK(i, saved[i].row, ginst[i], saved[i].jobs, owner)
  <2> SUFFICES ASSUME NEW i \in S
               PROVE  /\ saved[i].row \in VMRow /\ saved[i].jobs \in SUBSET TagJob
                      /\ tagjob[i] \subseteq saved[i].jobs
                      /\ saved[i].ok => RowOK(i, saved[i].row, ginst[i], saved[i].jobs, owner)
    OBVIOUS
  <2>1. saved[i] = Assigned(i, vm[i], o, ans[i]) /\ i \in Inst /\ ans[i] \in Answer
    OBVIOUS
  <2>2. /\ vm[i] \in VMRow /\ RowOK(i, vm[i], ginst[i], tagjob[i], owner)
        /\ vm[i].owner = NoOwner
    BY <2>1 DEF IInv, TypeOK, AdoptOrphans, Picks
  <2> HIDE DEF saved
  <2> QED  BY <2>1, <2>2, AssignedFacts DEF IInv
<1>3. /\ tagjob' = [i \in Inst |-> IF i \in reached THEN saved[i].jobs ELSE tagjob[i]]
      /\ \/ /\ reached = S /\ \A i \in S : saved[i].ok
            /\ vm' = [i \in Inst |-> IF i \in S THEN saved[i].row ELSE vm[i]]
         \/ UNCHANGED vm
  BY <1>1
<1> HIDE DEF saved
<1>4. UNCHANGED <<ginst, gnode, up, node, cluster, owner, creating>>
  BY DEF AdoptOrphans
<1>5. vm' \in [Inst -> VMRow] /\ tagjob' \in [Inst -> SUBSET TagJob]
  BY <1>2, <1>3 DEF IInv, TypeOK
<1>6. \A i \in Inst : RowOK(i, vm'[i], ginst[i], tagjob'[i], owner)
  <2> SUFFICES ASSUME NEW i \in Inst  PROVE RowOK(i, vm'[i], ginst[i], tagjob'[i], owner)
    OBVIOUS
  <2>1. RowOK(i, vm[i], ginst[i], tagjob[i], owner)
    BY DEF IInv
  <2>2. CASE UNCHANGED vm
    <3>1. tagjob[i] \subseteq tagjob'[i]
      BY <1>2, <1>3
    <3> QED  BY <2>1, <2>2, <3>1, MoreJobs
  <2>3. CASE /\ reached = S /\ \A j \in S : saved[j].ok
             /\ vm' = [j \in Inst |-> IF j \in S THEN saved[j].row ELSE vm[j]]
    BY <1>2, <1>3, <2>1, <2>3
  <2> QED  BY <1>3, <2>2, <2>3
<1> QED  BY <1>4, <1>5, <1>6 DEF IInv, TypeOK

(* An action that leaves each row alone, drops it, or inserts it, and no   *)
(* instance nor owner: all the pages that only write tables.               *)
LEMMA TableStepInv ==
    ASSUME SyncAssumption, IInv,
           vm' \in [Inst -> VMRow],
           \A i \in Inst : RowOK(i, vm'[i], ginst[i], tagjob[i], owner),
           node' \in [Node -> Cluster \cup {NoCluster}], cluster' \subseteq Cluster,
           creating' \in [Inst -> Owner \cup {NoOwner}],
           UNCHANGED <<ginst, gnode, up, tagjob, owner>>
    PROVE  IInv'
BY DEF IInv, TypeOK

LEMMA ImportVMsInv ==
    ASSUME SyncAssumption, IInv, NEW S \in SUBSET Inst, NEW o \in owner \cup {NoOwner},
           ImportVMs(S, o)
    PROVE  IInv'
<1>1. NewVM(o) \in VMRow /\ \A i \in Inst : RowOK(i, NewVM(o), ginst[i], tagjob[i], owner)
  BY NewRow DEF IInv, TypeOK
<1> HIDE DEF NewVM
<1>2. vm' \in [Inst -> VMRow] /\ \A i \in Inst : RowOK(i, vm'[i], ginst[i], tagjob[i], owner)
  BY <1>1 DEF ImportVMs, Picks, IInv, TypeOK
<1> QED  BY <1>2, TableStepInv DEF ImportVMs, Picks, IInv, TypeOK, world

LEMMA DeleteMissingInv ==
    ASSUME SyncAssumption, IInv, NEW silent \in Silences
    PROVE  /\ \A hosts \in SUBSET Host : DeleteMissingVMs(silent, hosts) => IInv'
           /\ \A S \in SUBSET Node : DeleteMissingNodes(silent, S) => IInv'
<1>1. ASSUME NEW hosts \in SUBSET Host, DeleteMissingVMs(silent, hosts)  PROVE IInv'
  <2>1. vm' \in [Inst -> VMRow] /\ \A i \in Inst : RowOK(i, vm'[i], ginst[i], tagjob[i], owner)
    BY <1>1, NoVMType, NoRowOK DEF DeleteMissingVMs, Picks, IInv, TypeOK
  <2> QED  BY <1>1, <2>1, TableStepInv DEF DeleteMissingVMs, Picks, IInv, TypeOK, world
<1>2. ASSUME NEW S \in SUBSET Node, DeleteMissingNodes(silent, S)  PROVE IInv'
  <2>1. TableOK(Cascaded(vm, S))
    BY TableNow, CascadedFacts DEF SyncAssumption
  <2>2. vm' \in [Inst -> VMRow] /\ \A i \in Inst : RowOK(i, vm'[i], ginst[i], tagjob[i], owner)
    BY <1>2, <2>1 DEF DeleteMissingNodes, Picks, TableOK
  <2>3. node' \in [Node -> Cluster \cup {NoCluster}]
    BY <1>2 DEF DeleteMissingNodes, Picks, IInv, TypeOK
  <2> QED  BY <1>2, <2>2, <2>3, TableStepInv DEF DeleteMissingNodes, Picks, IInv, TypeOK, world
<1> QED  BY <1>1, <1>2

LEMMA ImportNodesInv ==
    ASSUME SyncAssumption, IInv, NEW S \in SUBSET Node, ImportNodes(S)
    PROVE  IInv'
<1>1. ASSUME NEW i \in Inst
      PROVE  vm'[i] \in VMRow /\ RowOK(i, vm'[i], ginst[i], tagjob[i], owner)
  <2>1. vm[i] \in VMRow /\ RowOK(i, vm[i], ginst[i], tagjob[i], owner) /\ ginst[i] \in Instance
    BY DEF IInv, TypeOK
  <2>2. CASE i \in Rows \cap Living /\ ginst[i].node \in S
    <3>1. vm'[i] = [vm[i] EXCEPT !.node = ginst[i].node] /\ ginst[i].node \in Node
      BY <2>2 DEF ImportNodes, Picks
    <3>2. vm'[i] \in VMRow
      BY <2>1, <3>1 DEF VMRow
    <3>3. /\ vm'[i].node = ginst[i].node /\ vm'[i].current = vm[i].current
          /\ vm'[i].fetched = vm[i].fetched /\ vm'[i].tags = vm[i].tags
          /\ vm'[i].owner = vm[i].owner /\ vm'[i].present = vm[i].present
          /\ vm'[i].failed = vm[i].failed
      BY <2>1, <3>1 DEF VMRow
    <3> QED  BY <2>1, <3>2, <3>3 DEF RowOK, TagsOK, Asked
  <2>3. CASE ~(i \in Rows \cap Living /\ ginst[i].node \in S)
    BY <2>1, <2>3 DEF ImportNodes, Picks
  <2> QED  BY <2>2, <2>3
<1>2. vm' \in [Inst -> VMRow] /\ node' \in [Node -> Cluster \cup {NoCluster}]
  <2>1. vm' = [i \in Inst |-> vm'[i]]
    BY DEF ImportNodes, Picks
  <2> QED  BY <1>1, <2>1 DEF ImportNodes, Picks, IInv, TypeOK
<1> QED  BY <1>1, <1>2, TableStepInv DEF ImportNodes, Picks, IInv, TypeOK, world

LEMMA CreationInv ==
    ASSUME SyncAssumption, IInv, NEW k \in Inst
    PROVE  /\ CommitCreation(k) => IInv'
           /\ \A o \in owner : SubmitCreation(k, o) => IInv'
<1>1. ASSUME CommitCreation(k)  PROVE IInv'
  <2>1. creating[k] \in Owner \cup {NoOwner}
    BY DEF IInv, TypeOK
  <2>2. NewVM(creating[k]) \in VMRow /\ \A i \in Inst : RowOK(i, NewVM(creating[k]), ginst[i], tagjob[i], owner)
    BY <2>1, NewRow
  <2> HIDE DEF NewVM
  <2>3. vm' \in [Inst -> VMRow] /\ \A i \in Inst : RowOK(i, vm'[i], ginst[i], tagjob[i], owner)
    BY <1>1, <2>2 DEF CommitCreation, IInv, TypeOK
  <2>4. creating' \in [Inst -> Owner \cup {NoOwner}]
    BY <1>1 DEF CommitCreation, IInv, TypeOK
  <2> QED  BY <1>1, <2>3, <2>4, TableStepInv DEF CommitCreation, IInv, TypeOK, world
<1>2. ASSUME NEW o \in owner, SubmitCreation(k, o)  PROVE IInv'
  <2>1. creating' \in [Inst -> Owner \cup {NoOwner}]
    BY <1>2 DEF SubmitCreation, IInv, TypeOK
  <2> QED  BY <1>2, <2>1, TableStepInv DEF SubmitCreation, IInv, TypeOK, world, tables
<1> QED  BY <1>1, <1>2

(* Forgetting mtime, or the owner: a weaker promise for each row.          *)
LEMMA ForgetsInv ==
    ASSUME SyncAssumption, IInv, RefreshCacheForgets
    PROVE  IInv'
<1>1. ASSUME NEW i \in Inst
      PROVE  vm'[i] \in VMRow /\ RowOK(i, vm'[i], ginst[i], tagjob[i], owner)
  <2>1. vm[i] \in VMRow /\ RowOK(i, vm[i], ginst[i], tagjob[i], owner)
    BY DEF IInv, TypeOK
  <2>2. vm'[i] = [vm[i] EXCEPT !.current = FALSE, !.failed = {}]
    BY DEF RefreshCacheForgets, Outdated
  <2>3. vm'[i] \in VMRow
    BY <2>1, <2>2 DEF VMRow
  <2>4. ~vm'[i].current /\ vm'[i].fetched = vm[i].fetched /\ vm'[i].tags = vm[i].tags
        /\ vm'[i].owner = vm[i].owner
    BY <2>1, <2>2 DEF VMRow
  <2> QED  BY <2>1, <2>3, <2>4 DEF RowOK
<1>2. vm' \in [Inst -> VMRow]
  <2>1. vm' = [i \in Inst |-> vm'[i]]
    BY DEF RefreshCacheForgets
  <2> QED  BY <1>1, <2>1
<1> QED  BY <1>1, <1>2, TableStepInv DEF RefreshCacheForgets, IInv, TypeOK, world

LEMMA DeleteOwnerInv ==
    ASSUME SyncAssumption, IInv, NEW o \in owner, DeleteOwner(o)
    PROVE  IInv'
<1>1. ASSUME NEW i \in Inst
      PROVE  vm'[i] \in VMRow /\ RowOK(i, vm'[i], ginst[i], tagjob[i], owner')
  <2>1. vm[i] \in VMRow /\ RowOK(i, vm[i], ginst[i], tagjob[i], owner)
    BY DEF IInv, TypeOK
  <2>2. CASE vm[i].owner = o
    <3>1. vm'[i] = [vm[i] EXCEPT !.owner = NoOwner]
      BY <2>2 DEF DeleteOwner
    <3>2. vm'[i] \in VMRow
      BY <2>1, <3>1 DEF VMRow
    <3>3. /\ vm'[i].node = vm[i].node /\ vm'[i].current = vm[i].current
          /\ vm'[i].fetched = vm[i].fetched /\ vm'[i].tags = vm[i].tags
          /\ vm'[i].owner = NoOwner /\ vm'[i].present = vm[i].present
          /\ vm'[i].failed = vm[i].failed
      BY <2>1, <3>1 DEF VMRow
    <3>4. /\ owner' = owner \ {o} /\ OwnerTags(vm[i].owner) \subseteq {o}
          /\ OwnerTags(vm'[i].owner) = {}
      BY <2>2, <3>3 DEF OwnerTags, DeleteOwner
    <3>5. vm[i].tags \cap owner \subseteq {o} => vm[i].tags \cap owner' = {}
      BY <3>4
    <3>6. TagsOK(vm[i], ginst[i], tagjob[i]) => TagsOK(vm'[i], ginst[i], tagjob[i])
      BY <3>3, <3>4 DEF TagsOK, Asked
    <3> QED  BY <2>1, <3>2, <3>3, <3>4, <3>5, <3>6 DEF RowOK
  <2>3. CASE vm[i].owner # o
    <3>1. vm'[i] = vm[i] /\ owner' \subseteq owner
      BY <2>3 DEF DeleteOwner
    <3> QED  BY <2>1, <3>1 DEF RowOK
  <2> QED  BY <2>2, <2>3
<1>2. vm' \in [Inst -> VMRow]
  <2>1. vm' = [i \in Inst |-> vm'[i]]
    BY DEF DeleteOwner
  <2> QED  BY <1>1, <2>1
<1>3. UNCHANGED <<ginst, gnode, up, tagjob, node, cluster, creating>> /\ owner' \subseteq Owner
  BY DEF DeleteOwner, IInv, TypeOK, world
<1> QED  BY <1>1, <1>2, <1>3 DEF IInv, TypeOK

(* The cluster changes an instance: the row's mtime is behind.             *)
LEMMA InstanceChangesInv ==
    ASSUME SyncAssumption, IInv, NEW k \in Inst, NEW inst \in Instance,
           Placed(k, inst, gnode), InstanceChanges(k, inst),
           tagjob' \in [Inst -> SUBSET TagJob],
           \A i \in Inst \ {k} : tagjob'[i] = tagjob[i]
    PROVE  IInv'
<1>1. vm[k] \in VMRow /\ RowOK(k, vm[k], ginst[k], tagjob[k], owner)
  BY DEF IInv, TypeOK
<1> DEFINE row == Outdated(vm[k])
<1>2. row \in VMRow
  BY <1>1 DEF VMRow, Outdated
<1>3. ~row.current /\ row.fetched = vm[k].fetched /\ row.tags = vm[k].tags
      /\ row.owner = vm[k].owner
  BY <1>1 DEF VMRow, Outdated
<1>4. RowOK(k, row, inst, tagjob'[k], owner)
  BY <1>1, <1>3 DEF RowOK
<1>5. vm' = [vm EXCEPT ![k] = row] /\ ginst' = [ginst EXCEPT ![k] = inst]
      /\ UNCHANGED <<gnode, up, node, cluster, owner, creating>>
  BY DEF InstanceChanges
<1> HIDE DEF row
<1>6. TypeOK'
  BY <1>2, <1>5 DEF IInv, TypeOK
<1>7. \A i \in Inst : RowOK(i, vm'[i], ginst'[i], tagjob'[i], owner')
  BY <1>4, <1>5 DEF IInv, TypeOK
<1>8. \A i \in Inst : Placed(i, ginst'[i], gnode')
  BY <1>5 DEF IInv, TypeOK
<1> QED  BY <1>6, <1>7, <1>8 DEF IInv

LEMMA TagJobEndsType ==
    ASSUME TypeOK, NEW k \in Inst, NEW job, TagJobEnds(k, job)
    PROVE  /\ tagjob' \in [Inst -> SUBSET TagJob]
           /\ tagjob[k] \ {job} \subseteq tagjob'[k]
           /\ \A i \in Inst \ {k} : tagjob'[i] = tagjob[i]
BY DEF TagJobEnds, TypeOK

(* A tag job that ends: the instance changes, or what it was to do is met  *)
(* all the same, or the row remembers that it was not.                     *)
LEMMA TagJobInv ==
    ASSUME SyncAssumption, IInv, NEW k \in Inst, NEW job \in tagjob[k],
           TagJobSucceeds(k, job) \/ TagJobFails(k, job)
    PROVE  IInv'
<1>0. /\ ginst[k] \in Instance /\ Placed(k, ginst[k], gnode) /\ vm[k] \in VMRow
      /\ RowOK(k, vm[k], ginst[k], tagjob[k], owner)
      /\ job \in TagJob /\ TypeOK
  BY DEF IInv, TypeOK
<1>1. CASE TagJobSucceeds(k, job)
  <2>1. PICK tags \in TagSet : InstanceChanges(k, [ginst[k] EXCEPT !.tags = tags])
    <3>1. ginst[k].tags \cup job.tags \in TagSet /\ ginst[k].tags \ job.tags \in TagSet
      BY <1>0 DEF Instance, TagSet, TagJob
    <3> QED  BY <1>1, <3>1 DEF TagJobSucceeds
  <2>2. [ginst[k] EXCEPT !.tags = tags] \in Instance
        /\ Placed(k, [ginst[k] EXCEPT !.tags = tags], gnode)
    BY <1>0 DEF Instance, Placed
  <2> QED  BY <1>0, <1>1, <2>1, <2>2, InstanceChangesInv, TagJobEndsType DEF TagJobSucceeds
<1>2. CASE TagJobFails(k, job)
  <2> DEFINE lost == IF vm[k].current /\ Unmet(k, job) THEN {job} ELSE {}
             row == [vm[k] EXCEPT !.failed = @ \cup lost]
  <2>1. /\ row \in VMRow /\ row.node = vm[k].node /\ row.current = vm[k].current
        /\ row.fetched = vm[k].fetched /\ row.tags = vm[k].tags
        /\ row.owner = vm[k].owner /\ row.present = vm[k].present
        /\ row.failed = vm[k].failed \cup lost
    BY <1>0 DEF VMRow
  <2>2. /\ vm' = [vm EXCEPT ![k] = row]
        /\ UNCHANGED <<ginst, gnode, up, node, cluster, owner, creating>>
    BY <1>2 DEF TagJobFails
  <2>3. /\ tagjob' \in [Inst -> SUBSET TagJob]
        /\ tagjob[k] \ {job} \subseteq tagjob'[k]
        /\ \A i \in Inst \ {k} : tagjob'[i] = tagjob[i]
    BY <1>0, <1>2, TagJobEndsType DEF TagJobFails
  <2>4. ASSUME vm[k].current, TagsOK(vm[k], ginst[k], tagjob[k])
        PROVE  TagsOK(row, ginst[k], tagjob'[k])
    <3>1. ASSUME NEW op, NEW t, Asked(vm[k], tagjob[k], op, t)
          PROVE  \/ Asked(row, tagjob'[k], op, t)
                 \/ job.op = op /\ t \in job.tags /\ ~Unmet(k, job)
      <4>1. PICK j \in tagjob[k] \cup vm[k].failed : j.op = op /\ t \in j.tags
        BY <3>1 DEF Asked
      <4>2. CASE j \in tagjob'[k] \cup row.failed
        BY <4>1, <4>2 DEF Asked
      <4>3. CASE j = job /\ ~Unmet(k, job)
        BY <4>1, <4>3
      <4>4. j \in tagjob'[k] \cup row.failed \/ (j = job /\ ~Unmet(k, job))
        BY <2>1, <2>3, <2>4
      <4> QED  BY <4>2, <4>3, <4>4
    <3> HIDE DEF row, lost
    <3>2. ASSUME NEW t \in ginst[k].tags
          PROVE  \/ Asked(row, tagjob'[k], "del", t)
                 \/ t \in row.tags /\ row.owner \in {t, NoOwner}
      <4>1. job.op = "del" /\ t \in job.tags => Unmet(k, job)
        BY DEF Unmet
      <4> QED  BY <2>1, <2>4, <3>1, <4>1 DEF TagsOK
    <3>3. ASSUME NEW t \in OwnerTags(row.owner)
          PROVE  t \in ginst[k].tags \/ Asked(row, tagjob'[k], "add", t)
      <4>1. job.op = "add" /\ t \in job.tags /\ ~Unmet(k, job) => t \in ginst[k].tags
        BY DEF Unmet
      <4> QED  BY <2>1, <2>4, <3>1, <4>1 DEF TagsOK
    <3> QED  BY <3>2, <3>3 DEF TagsOK
  <2> HIDE DEF row, lost
  <2>5. RowOK(k, row, ginst[k], tagjob'[k], owner)
    BY <1>0, <2>1, <2>4 DEF RowOK
  <2>6. TypeOK'
    BY <2>1, <2>2, <2>3 DEF IInv, TypeOK
  <2>7. \A i \in Inst : RowOK(i, vm'[i], ginst[i], tagjob'[i], owner)
    BY <2>2, <2>3, <2>5 DEF IInv, TypeOK
  <2> QED  BY <2>2, <2>6, <2>7 DEF IInv
<1> QED  BY <1>1, <1>2

LEMMA WorldInv ==
    ASSUME SyncAssumption, IInv, NEW k \in Inst,
           InstanceAdded(k) \/ InstanceMoved(k) \/ InstanceRemoved(k)
    PROVE  IInv'
<1>1. ginst[k] \in Instance /\ tagjob' = tagjob /\ tagjob \in [Inst -> SUBSET TagJob]
  BY DEF IInv, TypeOK, InstanceAdded, InstanceMoved, InstanceRemoved
<1>2. CASE InstanceAdded(k)
  <2>1. PICK n \in GanetiNodes(ClusterOf(k)), tags \in TagSet :
           InstanceChanges(k, [present |-> TRUE, node |-> n, tags |-> tags])
    BY <1>2 DEF InstanceAdded, Taggings, TagSet
  <2>2. [present |-> TRUE, node |-> n, tags |-> tags] \in Instance
    BY DEF Instance, GanetiNodes
  <2>3. Placed(k, [present |-> TRUE, node |-> n, tags |-> tags], gnode)
    BY DEF Placed, GanetiNodes
  <2> QED  BY <1>1, <2>1, <2>2, <2>3, InstanceChangesInv
<1>3. CASE InstanceMoved(k)
  <2>1. PICK n \in GanetiNodes(ClusterOf(k)) : InstanceChanges(k, [ginst[k] EXCEPT !.node = n])
    BY <1>3 DEF InstanceMoved
  <2>2. [ginst[k] EXCEPT !.node = n] \in Instance
    BY <1>1 DEF Instance, GanetiNodes
  <2>3. Placed(k, [ginst[k] EXCEPT !.node = n], gnode)
    BY <1>1 DEF Placed, GanetiNodes, Instance
  <2> QED  BY <1>1, <2>1, <2>2, <2>3, InstanceChangesInv
<1>4. CASE InstanceRemoved(k)
  <2>1. NoInstance \in Instance /\ Placed(k, NoInstance, gnode)
    BY DEF NoInstance, Instance, Placed, TagSet
  <2> QED  BY <1>1, <1>4, <2>1, InstanceChangesInv DEF InstanceRemoved
<1> QED  BY <1>2, <1>3, <1>4

LEMMA NodeJoinsInv ==
    ASSUME SyncAssumption, IInv, NEW c \in Cluster, NEW n \in Node, NodeJoins(n, c)
    PROVE  IInv'
<1>1. \A i \in Inst : Placed(i, ginst[i], gnode')
  BY DEF NodeJoins, IInv, TypeOK, Placed, Inst, ClusterOf, SyncAssumption
<1> QED  BY <1>1 DEF NodeJoins, IInv, TypeOK, tables

LEMMA InvNext ==
    ASSUME SyncAssumption, IInv, [Next]_vars
    PROVE  IInv'
<1>1. CASE UNCHANGED vars
  BY <1>1 DEF vars, world, tables, IInv, TypeOK
<1>2. ASSUME NEW c \in Cluster,
             \/ RefreshView(c) \/ AddCluster(c) \/ DeleteCluster(c)
             \/ RefreshCacheNodes(c) \/ ApiChanges(c)
             \/ \E n \in Node : NodeJoins(n, c)
      PROVE  IInv'
  <2>1. ASSUME RefreshCacheNodes(c)  PROVE IInv'
    <3>1. node' \in [Node -> Cluster \cup {NoCluster}]
      BY <2>1, NodesSyncedType DEF RefreshCacheNodes, IInv
    <3> QED  BY <2>1, <3>1 DEF RefreshCacheNodes, IInv, TypeOK, world
  <2>2. ASSUME ApiChanges(c)  PROVE IInv'
    BY <2>2 DEF ApiChanges, IInv, TypeOK, tables
  <2> QED  BY <1>2, <2>1, <2>2, RefreshViewInv, AddClusterInv, DeleteClusterInv, NodeJoinsInv
<1>3. ASSUME NEW i \in Inst,
             \/ LoadVM(i) \/ CommitCreation(i)
             \/ InstanceAdded(i) \/ InstanceMoved(i) \/ InstanceRemoved(i)
             \/ \E job \in tagjob[i] : TagJobSucceeds(i, job) \/ TagJobFails(i, job)
             \/ \E o \in owner : SubmitCreation(i, o)
      PROVE  IInv'
  BY <1>3, LoadVMInv, CreationInv, WorldInv, TagJobInv
<1>4. ASSUME NEW S \in SUBSET Inst,
             \/ \E o \in owner \cup {NoOwner} : ImportVMs(S, o)
             \/ \E o \in owner : AdoptOrphans(S, o)
      PROVE  IInv'
  BY <1>4, ImportVMsInv, AdoptOrphansInv
<1>5. ASSUME NEW n \in Node, NodeLeaves(n)  PROVE IInv'
  <2>1. \A i \in Inst : Placed(i, ginst[i], gnode')
    BY <1>5 DEF NodeLeaves, IInv, TypeOK, Placed, Living
  <2> QED  BY <1>5, <2>1 DEF NodeLeaves, IInv, TypeOK, tables
<1> QED  BY <1>1, <1>2, <1>3, <1>4, <1>5, ForgetsInv, ImportNodesInv, DeleteMissingInv,
            DeleteOwnerInv DEF Next

----------------------------------------------------------------------------
(* Theorems.                                                               *)

THEOREM Inductive == Spec => []IInv
<1>1. Init => IInv
  BY InvInit, SyncAssumption
<1>2. IInv /\ [Next]_vars => IInv'
  BY InvNext, SyncAssumption
<1> QED  BY <1>1, <1>2, PTL DEF Spec

(* Every variable keeps its type; in particular no VM is tagged with an    *)
(* owner that is none.                                                     *)
THEOREM TypeCorrect == Spec => []TypeOK
<1>1. IInv => TypeOK
  BY DEF IInv
<1> QED  BY <1>1, Inductive, PTL

(* A row a refresh would skip agrees with its instance on the owner tags,  *)
(* but for those whose jobs are queued or failed and those of deleted      *)
(* owners: for any number of owners, jobs and refreshes.                   *)
THEOREM TagsFollowOwners == Spec => []TagsInStep
<1>1. ASSUME IInv, SyncAssumption  PROVE TagsInStep
  <2> SUFFICES ASSUME NEW i \in Rows \cap Living, vm[i].current, ClusterOf(i) \in Writable,
                      NEW t \in WrongTags(i)
               PROVE  Retagging(i, t) \/ (vm[i].owner = NoOwner /\ t \notin owner)
    BY DEF TagsInStep
  <2>1. /\ RowOK(i, vm[i], ginst[i], tagjob[i], owner) /\ vm[i].present /\ ginst[i].present
        /\ i \in Inst
    BY <1>1 DEF IInv, Rows, Living
  <2>2. TagsOK(vm[i], ginst[i], tagjob[i]) /\ vm[i].tags \cap owner \subseteq OwnerTags(vm[i].owner)
    BY <2>1 DEF RowOK
  <2>3. CASE t \in ginst[i].tags
    <3>1. t \notin OwnerTags(vm[i].owner) /\ t # NoOwner
      BY <1>1, <2>3 DEF WrongTags, SyncAssumption
    <3>2. CASE Asked(vm[i], tagjob[i], "del", t)
      BY <2>3, <3>2 DEF Asked, Retagging
    <3>3. CASE t \in vm[i].tags /\ vm[i].owner \in {t, NoOwner}
      BY <2>2, <3>1, <3>3 DEF OwnerTags
    <3> QED  BY <2>2, <2>3, <3>2, <3>3 DEF TagsOK
  <2>4. CASE t \notin ginst[i].tags
    <3>1. Asked(vm[i], tagjob[i], "add", t)
      BY <2>2, <2>4 DEF WrongTags, TagsOK
    <3> QED  BY <2>4, <3>1 DEF Asked, Retagging
  <2> QED  BY <2>3, <2>4
<1> QED  BY <1>1, Inductive, SyncAssumption, PTL

(* A row a refresh would skip names the node of its instance, or none.     *)
THEOREM PlacementFollows == Spec => []PlacementCurrent
<1>1. ASSUME IInv  PROVE PlacementCurrent
  <2> SUFFICES ASSUME NEW i \in Rows \cap Living, vm[i].current
               PROVE  vm[i].node \in {ginst[i].node, NoNode}
    BY DEF PlacementCurrent
  <2>1. RowOK(i, vm[i], ginst[i], tagjob[i], owner) /\ vm[i].present /\ ginst[i].present
    BY <1>1 DEF IInv, Rows, Living
  <2> QED  BY <2>1 DEF RowOK
<1> QED  BY <1>1, Inductive, PTL

(* What a cascade takes: rows whose node is stale or misfiled.             *)
LEMMA CascadeNeedsCause ==
    ASSUME SyncAssumption, IInv, NEW i \in Rows \cap Living, NEW n \in Node,
           vm[i].node = n, node[n] # gnode[n]
    PROVE  StaleNode(i) \/ MisfiledNode(i)
<1>1. CASE n # ginst[i].node
  BY <1>1 DEF StaleNode, SyncAssumption
<1>2. CASE n = ginst[i].node
  <2>1. gnode[n] = ClusterOf(i)
    BY <1>2 DEF IInv, Placed, Living
  <2> QED  BY <1>2, <2>1 DEF MisfiledNode, SyncAssumption
<1> QED  BY <1>1, <1>2

Lost(i) == vm[i].present /\ ginst[i].present /\ ~vm'[i].present
Cause(i) == \/ ClusterOf(i) \notin cluster'
            \/ \E c \in cluster : ~up[c]
            \/ StaleNode(i) \/ MisfiledNode(i)
            \/ DeadNamesake(i)

(* Which rows a synchronisation keeps, and where they are.                 *)
LEMMA SyncedKeeps ==
    ASSUME SyncAssumption, IInv, NEW c \in Cluster, NEW rows, TableOK(rows), NEW nodes,
           NEW heard, NEW remove \in BOOLEAN, NEW ans \in AnswerMap(c),
           NEW i \in Inst, NEW synced, synced = VMsSynced(c, rows, nodes, heard, remove, ans),
           vm'[i] = synced[i].row
    PROVE  /\ ClusterOf(i) # c => vm'[i] = rows[i]
           /\ ClusterOf(i) = c =>
                 /\ vm'[i].present <=> \/ i \in heard
                                       \/ rows[i].present /\ ~remove
                 /\ up[c] /\ vm'[i].present /\ ginst[i].present =>
                       vm'[i].node \in {ginst[i].node, NoNode}
<1>1. Synced(c, rows, nodes, heard, remove, ans, synced)
  BY DEF Synced
<1> QED  BY <1>1, SyncedFacts DEF IInv

LEMMA RefreshViewLoss ==
    ASSUME SyncAssumption, IInv, NEW c \in Cluster, RefreshView(c),
           NEW i \in Inst, Lost(i)
    PROVE  Cause(i)
<1>1. PICK silent \in Silence(c), ans \in AnswerMap(c) :
         LET synced == VMsSynced(c, Cascaded(vm, NodeRows(c) \ GanetiNodes(c)),
                                 NodesSynced(c, TRUE), HeardInstances(c, silent), TRUE, ans)
         IN  vm' = [k \in Inst |-> synced[k].row]
  BY DEF RefreshView
<1> DEFINE rows == Cascaded(vm, NodeRows(c) \ GanetiNodes(c))
<1>2. /\ TableOK(rows)
      /\ rows[i] = IF vm[i].node \in NodeRows(c) \ GanetiNodes(c) THEN NoVM ELSE vm[i]
  BY TableNow, CascadedFacts DEF NodeRows, SyncAssumption
<1> DEFINE synced == VMsSynced(c, rows, NodesSynced(c, TRUE), HeardInstances(c, silent),
                               TRUE, ans)
<1>r. PICK remove \in BOOLEAN : remove = TRUE
  OBVIOUS
<1>s. synced = VMsSynced(c, rows, NodesSynced(c, remove), HeardInstances(c, silent),
                         remove, ans)
  BY <1>r, Zenon
<1>v. vm'[i] = synced[i].row
  BY <1>1
<1> HIDE DEF rows, synced
<1>k. /\ ClusterOf(i) # c => vm'[i] = rows[i]
      /\ ClusterOf(i) = c =>
            (vm'[i].present <=> \/ i \in HeardInstances(c, silent)
                                \/ rows[i].present /\ ~remove)
  BY <1>2, <1>s, <1>v, SyncedKeeps
<1>3. /\ ClusterOf(i) # c => vm'[i] = rows[i]
      /\ ClusterOf(i) = c => (vm'[i].present <=> i \in HeardInstances(c, silent))
  BY <1>r, <1>k
<1>4. CASE ClusterOf(i) = c
  <2>1. i \in Living \cap OfCluster(c)
    BY <1>4 DEF Lost, Living, OfCluster
  <2>2. silent
    BY <1>3, <1>4, <2>1 DEF Lost, HeardInstances
  <2>3. ~up[c] /\ c \in cluster
    BY <2>2 DEF Silence, RefreshView
  <2> QED  BY <2>3 DEF Cause
<1>5. CASE ClusterOf(i) # c
  <2>1. vm[i].node \in NodeRows(c) \ GanetiNodes(c)
    BY <1>2, <1>3, <1>5 DEF Lost
  <2> QED  BY <2>1, CascadeNeedsCause DEF NodeRows, GanetiNodes, Lost, Rows, Living, Cause
<1> QED  BY <1>4, <1>5

LEMMA DeletionLoss ==
    ASSUME SyncAssumption, IInv, NEW silent \in Silences, NEW i \in Inst, Lost(i)
    PROVE  /\ \A hosts \in SUBSET Host : DeleteMissingVMs(silent, hosts) => Cause(i)
           /\ \A S \in SUBSET Node : DeleteMissingNodes(silent, S) => Cause(i)
<1>1. \A c \in silent : c \in cluster /\ ~up[c]
  BY DEF Silences
<1>2. i \in Rows \cap Living /\ vm[i] \in VMRow
  BY DEF Lost, Rows, Living, IInv, TypeOK
<1>3. ASSUME NEW hosts \in SUBSET Host, DeleteMissingVMs(silent, hosts)  PROVE Cause(i)
  <2>1. i \in NamedRows(hosts)
    BY <1>3 DEF DeleteMissingVMs, Picks, Lost
  <2>2. PICK k \in MissingInGaneti(silent) : HostOf(k) = HostOf(i)
    BY <1>3, <2>1 DEF DeleteMissingVMs, Picks, NamedRows
  <2>3. CASE ClusterOf(k) \in silent
    BY <1>1, <2>3 DEF Cause
  <2>4. CASE ~ginst[k].present
    BY <2>2, <2>4 DEF Cause, DeadNamesake, MissingInGaneti, Rows, Living
  <2> QED  BY <2>2, <2>3, <2>4 DEF MissingInGaneti
<1>4. ASSUME NEW S \in SUBSET Node, DeleteMissingNodes(silent, S)  PROVE Cause(i)
  <2>1. vm[i].node \in S
    BY <1>4 DEF DeleteMissingNodes, Picks, Cascaded, Lost
  <2>2. vm[i].node \in NodesMissingInGaneti(silent)
    BY <1>4, <2>1 DEF DeleteMissingNodes, Picks
  <2>3. CASE node[vm[i].node] \in silent
    BY <1>1, <2>3 DEF Cause
  <2>4. CASE gnode[vm[i].node] # node[vm[i].node]
    BY <1>2, <2>1, <2>4, CascadeNeedsCause DEF Cause
  <2> QED  BY <2>2, <2>3, <2>4 DEF NodesMissingInGaneti
<1> QED  BY <1>3, <1>4

LEMMA DeleteClusterLoss ==
    ASSUME SyncAssumption, IInv, NEW c \in Cluster, DeleteCluster(c), NEW i \in Inst, Lost(i)
    PROVE  Cause(i)
<1>1. CASE ClusterOf(i) = c
  BY <1>1 DEF DeleteCluster, Cause
<1>2. CASE ClusterOf(i) # c
  <2>1. vm[i].node \in NodeRows(c)
    BY <1>2 DEF DeleteCluster, Lost, Cascaded
  <2> QED  BY <1>2, <2>1 DEF NodeRows, Cause, MisfiledNode, SyncAssumption
<1> QED  BY <1>1, <1>2

(* Refreshing, assigning, inserting and forgetting delete no row.          *)
LEMMA OthersLoseNothing ==
    ASSUME SyncAssumption, IInv, NEW i \in Inst, Lost(i)
    PROVE  /\ \A k \in Inst : ~LoadVM(k) /\ ~CommitCreation(k) /\ ~InstanceAdded(k)
                              /\ ~InstanceMoved(k) /\ ~InstanceRemoved(k)
                              /\ \A job : ~TagJobSucceeds(k, job) /\ ~TagJobFails(k, job)
           /\ \A c \in Cluster : ~AddCluster(c)
           /\ \A S \in SUBSET Inst : /\ \A o \in owner : ~AdoptOrphans(S, o)
                                     /\ \A o \in owner \cup {NoOwner} : ~ImportVMs(S, o)
           /\ \A S \in SUBSET Node : ~ImportNodes(S)
           /\ \A o \in owner : ~DeleteOwner(o)
           /\ ~RefreshCacheForgets /\ ~UNCHANGED vm
<1>1. vm[i] \in VMRow /\ vm[i].present /\ ~vm'[i].present /\ vm \in [Inst -> VMRow]
  BY DEF IInv, TypeOK, Lost
<1>2. ASSUME NEW k \in Inst, LoadVM(k)  PROVE FALSE
  <2>1. PICK ans \in Answers(ClusterOf(k)) :
           vm' = [vm EXCEPT ![k] = Refreshed(k, vm[k], node, ans).row]
    BY <1>2 DEF LoadVM
  <2>2. ans \in Answer /\ vm[k] \in VMRow /\ RowOK(k, vm[k], ginst[k], tagjob[k], owner)
    BY DEF Answers, Answer, IInv, TypeOK
  <2>3. Refreshed(k, vm[k], node, ans).row.present = vm[k].present
    BY <2>2, RefreshedFacts DEF IInv
  <2> QED  BY <1>1, <2>1, <2>3
<1>3. ASSUME NEW k \in Inst, CommitCreation(k)  PROVE FALSE
  BY <1>1, <1>3 DEF CommitCreation
<1>4. ASSUME NEW k \in Inst, NEW inst, InstanceChanges(k, inst)  PROVE FALSE
  BY <1>1, <1>4 DEF InstanceChanges, Outdated, VMRow
<1>5. ASSUME NEW c \in Cluster, AddCluster(c)  PROVE FALSE
  <2>1. CASE UNCHANGED vm
    BY <1>1, <2>1
  <2>2. CASE \E silent \in Silence(c), ans \in AnswerMap(c) :
               LET synced == VMsSynced(c, vm, NodesSynced(c, FALSE),
                                       HeardInstances(c, silent), FALSE, ans)
               IN  vm' = [k \in Inst |-> synced[k].row]
    <3>1. PICK silent \in Silence(c), ans \in AnswerMap(c) :
               LET synced == VMsSynced(c, vm, NodesSynced(c, FALSE),
                                       HeardInstances(c, silent), FALSE, ans)
               IN  vm' = [k \in Inst |-> synced[k].row]
      BY <2>2
    <3> DEFINE synced == VMsSynced(c, vm, NodesSynced(c, FALSE), HeardInstances(c, silent),
                                   FALSE, ans)
    <3>r. PICK remove \in BOOLEAN : remove = FALSE
      OBVIOUS
    <3>2. synced = VMsSynced(c, vm, NodesSynced(c, remove), HeardInstances(c, silent),
                             remove, ans)
      BY <3>r, Zenon
    <3>3. vm'[i] = synced[i].row /\ TableOK(vm)
      BY <3>1, TableNow
    <3> HIDE DEF synced
    <3>4. /\ ClusterOf(i) # c => vm'[i] = vm[i]
          /\ ClusterOf(i) = c =>
                (vm'[i].present <=> \/ i \in HeardInstances(c, silent)
                                    \/ vm[i].present /\ ~remove)
      BY <3>2, <3>3, SyncedKeeps
    <3> QED  BY <1>1, <3>4, <3>r
  <2> QED  BY <1>5, <2>1, <2>2 DEF AddCluster
<1>6. ASSUME NEW S \in SUBSET Inst, NEW o \in owner, AdoptOrphans(S, o)  PROVE FALSE
  <2>1. PICK ans \in [S -> Answer] :
          \/ vm' = [k \in Inst |-> IF k \in S THEN Assigned(k, vm[k], o, ans[k]).row ELSE vm[k]]
          \/ vm' = vm
    BY <1>6 DEF AdoptOrphans, Picks
  <2>2. CASE i \in S /\ vm'[i] = Assigned(i, vm[i], o, ans[i]).row
    BY <1>1, <2>2 DEF Assigned, VMRow
  <2>3. CASE vm'[i] = vm[i]
    BY <1>1, <2>3
  <2> QED  BY <2>1, <2>2, <2>3
<1>7. ASSUME NEW S \in SUBSET Inst, NEW o \in owner \cup {NoOwner}, ImportVMs(S, o)  PROVE FALSE
  <2>1. i \notin S
    BY <1>1, <1>7 DEF ImportVMs, Picks, MissingInDb, Rows
  <2> QED  BY <1>1, <1>7, <2>1 DEF ImportVMs, Picks
<1>8. ASSUME NEW S \in SUBSET Node, ImportNodes(S)  PROVE FALSE
  BY <1>1, <1>8 DEF ImportNodes, Picks, VMRow
<1>9. ASSUME NEW o \in owner, DeleteOwner(o)  PROVE FALSE
  BY <1>1, <1>9 DEF DeleteOwner, VMRow
<1>10. ASSUME RefreshCacheForgets  PROVE FALSE
  BY <1>1, <1>10 DEF RefreshCacheForgets, Outdated, VMRow
<1>11. ~UNCHANGED vm
  BY <1>1
<1>12. ASSUME NEW k \in Inst, NEW job, TagJobFails(k, job)  PROVE FALSE
  BY <1>1, <1>12 DEF TagJobFails, VMRow
<1> QED  BY <1>12, <1>2, <1>3, <1>4, <1>5, <1>6, <1>7, <1>8, <1>9, <1>10, <1>11
         DEF InstanceAdded, InstanceMoved, InstanceRemoved, TagJobSucceeds

(* The row of a living instance is deleted only for one of the causes that *)
(* the property names.                                                     *)
THEOREM LossHasACause == Spec => LossNeedsCause
<1>1. ASSUME SyncAssumption, IInv, Next, NEW i \in Inst, Lost(i)  PROVE Cause(i)
  <2>1. CASE \E c \in Cluster : \/ RefreshView(c) \/ AddCluster(c) \/ DeleteCluster(c)
                                \/ RefreshCacheNodes(c) \/ ApiChanges(c)
                                \/ \E n \in Node : NodeJoins(n, c)
    BY <1>1, <2>1, RefreshViewLoss, DeleteClusterLoss, OthersLoseNothing
       DEF RefreshCacheNodes, ApiChanges, NodeJoins, tables
  <2>2. CASE \E k \in Inst : \/ LoadVM(k) \/ CommitCreation(k)
                             \/ InstanceAdded(k) \/ InstanceMoved(k) \/ InstanceRemoved(k)
                             \/ \E job \in tagjob[k] : TagJobSucceeds(k, job) \/ TagJobFails(k, job)
                             \/ \E o \in owner : SubmitCreation(k, o)
    BY <1>1, <2>2, OthersLoseNothing DEF SubmitCreation, tables
  <2>3. CASE \E silent \in Silences :
               \/ \E hosts \in SUBSET Host : DeleteMissingVMs(silent, hosts)
               \/ \E S \in SUBSET Node : DeleteMissingNodes(silent, S)
    BY <1>1, <2>3, DeletionLoss
  <2>4. CASE \/ RefreshCacheForgets
             \/ \E S \in SUBSET Inst : \/ \E o \in owner \cup {NoOwner} : ImportVMs(S, o)
                                       \/ \E o \in owner : AdoptOrphans(S, o)
             \/ \E S \in SUBSET Node : ImportNodes(S)
             \/ \E n \in Node : NodeLeaves(n)
             \/ \E o \in owner : DeleteOwner(o)
    BY <1>1, <2>4, OthersLoseNothing DEF NodeLeaves, tables
  <2> QED  BY <1>1, <2>1, <2>2, <2>3, <2>4 DEF Next
<1>2. IInv /\ [Next]_vars =>
        [\A i \in Rows \cap Living :
             ~vm'[i].present => \/ ClusterOf(i) \notin cluster'
                                \/ \E c \in cluster : ~up[c]
                                \/ StaleNode(i) \/ MisfiledNode(i)
                                \/ DeadNamesake(i)]_vars
  BY <1>1, SyncAssumption DEF Lost, Cause, Rows, Living
<1> QED  BY <1>2, Inductive, PTL DEF Spec, LossNeedsCause

(* A refresh page of a cluster that answers leaves what the cluster has.   *)
THEOREM RefreshDoesConverge == Spec => RefreshConverges
<1>1. ASSUME SyncAssumption, IInv, NEW c \in Cluster, RefreshView(c), up[c]
      PROVE  /\ {n \in Node : node'[n] = c} = GanetiNodes(c)
             /\ \A i \in OfCluster(c) :
                   /\ vm'[i].present <=> ginst[i].present
                   /\ vm'[i].present => vm'[i].node \in {ginst[i].node, NoNode}
             /\ \A i \in Inst \ OfCluster(c) :
                   vm'[i] = vm[i] \/ node[vm[i].node] = c
             /\ VMCounts({c}).import_ready' = {} /\ VMCounts({c}).missing' = {}
  <2>1. PICK silent \in Silence(c), ans \in AnswerMap(c) :
           LET synced == VMsSynced(c, Cascaded(vm, NodeRows(c) \ GanetiNodes(c)),
                                   NodesSynced(c, TRUE), HeardInstances(c, silent), TRUE, ans)
           IN  vm' = [k \in Inst |-> synced[k].row]
    BY <1>1 DEF RefreshView
  <2>2. node' = NodesSynced(c, TRUE) /\ ~silent
    BY <1>1, <2>1 DEF RefreshView, Silence
  <2>3. {n \in Node : node'[n] = c} = GanetiNodes(c)
    <3>1. c # NoCluster
      BY SyncAssumption
    <3>2. \A n \in Node : node'[n] = c <=> gnode[n] = c
      BY <2>2, <3>1 DEF NodesSynced
    <3> QED  BY <3>2 DEF GanetiNodes
  <2> DEFINE rows == Cascaded(vm, NodeRows(c) \ GanetiNodes(c))
  <2>4. /\ TableOK(rows)
        /\ \A i \in Inst :
              rows[i] = IF vm[i].node \in NodeRows(c) \ GanetiNodes(c) THEN NoVM ELSE vm[i]
    BY <1>1, TableNow, CascadedFacts DEF NodeRows, SyncAssumption
  <2> DEFINE synced == VMsSynced(c, rows, NodesSynced(c, TRUE), HeardInstances(c, silent),
                                 TRUE, ans)
  <2>r. PICK remove \in BOOLEAN : remove = TRUE
    OBVIOUS
  <2>s. synced = VMsSynced(c, rows, NodesSynced(c, remove), HeardInstances(c, silent),
                           remove, ans)
    BY <2>r, Zenon
  <2>v. \A i \in Inst : vm'[i] = synced[i].row
    BY <2>1
  <2> HIDE DEF rows, synced
  <2>k. ASSUME NEW i \in Inst
        PROVE  /\ ClusterOf(i) # c => vm'[i] = rows[i]
               /\ ClusterOf(i) = c =>
                     /\ vm'[i].present <=> \/ i \in HeardInstances(c, silent)
                                           \/ rows[i].present /\ ~remove
                     /\ vm'[i].present /\ ginst[i].present =>
                           vm'[i].node \in {ginst[i].node, NoNode}
    BY <1>1, <2>4, <2>s, <2>v, SyncedKeeps
  <2>g. ginst' = ginst
    BY <1>1 DEF RefreshView
  <2>5. ASSUME NEW i \in Inst
        PROVE  /\ ClusterOf(i) # c => vm'[i] = rows[i]
               /\ ClusterOf(i) = c =>
                     /\ vm'[i].present <=> i \in HeardInstances(c, silent)
                     /\ vm'[i].present /\ ginst[i].present =>
                           vm'[i].node \in {ginst[i].node, NoNode}
    BY <2>k, <2>r
  <2>6. ASSUME NEW i \in OfCluster(c)
        PROVE  /\ vm'[i].present <=> ginst[i].present
               /\ vm'[i].present => vm'[i].node \in {ginst[i].node, NoNode}
    BY <2>2, <2>5 DEF OfCluster, HeardInstances, Living
  <2>7. ASSUME NEW i \in Inst \ OfCluster(c)
        PROVE  vm'[i] = vm[i] \/ node[vm[i].node] = c
    BY <2>4, <2>5 DEF OfCluster, NodeRows
  <2>8. \A i \in OfCluster(c) : vm'[i].present <=> ginst'[i].present
    BY <2>6, <2>g DEF OfCluster
  <2>9. VMCounts({c}).import_ready' = {} /\ VMCounts({c}).missing' = {}
    BY <2>8 DEF VMCounts, MissingInDb, MissingInGaneti, Living, Rows, OfCluster
  <2> QED  BY <2>3, <2>6, <2>7, <2>9
<1>2. IInv /\ [Next]_vars =>
        [\A c \in Cluster :
            up[c] /\ RefreshView(c) =>
                /\ {n \in Node : node'[n] = c} = GanetiNodes(c)
                /\ \A i \in OfCluster(c) :
                      /\ vm'[i].present <=> ginst[i].present
                      /\ vm'[i].present => vm'[i].node \in {ginst[i].node, NoNode}
                /\ \A i \in Inst \ OfCluster(c) :
                      vm'[i] = vm[i] \/ node[vm[i].node] = c
                /\ VMCounts({c}).import_ready' = {} /\ VMCounts({c}).missing' = {}]_vars
  BY <1>1, SyncAssumption
<1> QED  BY <1>2, Inductive, PTL DEF Spec, RefreshConverges
=============================================================================
