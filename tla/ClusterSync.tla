---------------------------- MODULE ClusterSync ----------------------------
(***************************************************************************)
(* The tables of virtual machines and nodes against the clusters they      *)
(* mirror: synchronisation (clusters/models.py), the pages that import,    *)
(* adopt and drop what differs (ganeti_web/views/importing*.py), the       *)
(* refreshcache command, creations in flight, and the owner tags that      *)
(* VirtualMachine.save() asks the cluster for (virtualmachines/models.py). *)
(*                                                                         *)
(* A request is one transaction and one step here; a command commits each  *)
(* statement, and is several.  A creation is two: Ganeti has the job       *)
(* before the row is committed.  While `up[c]` every call to cluster c is  *)
(* answered; otherwise each call may fail on its own.                      *)
(***************************************************************************)
EXTENDS FiniteSets

CONSTANTS Cluster, Host, Node, Owner,
          Writable,      \* the clusters that have a username (the others are read only)
          Flaky,         \* bound: the clusters whose calls may fail
          NoCluster, NoNode, NoOwner

ASSUME SyncAssumption ==
    /\ Writable \subseteq Cluster /\ Flaky \subseteq Cluster
    /\ NoCluster \notin Cluster /\ NoNode \notin Node /\ NoOwner \notin Owner

Inst == Cluster \X Host             \* unique_together = (cluster, hostname)
ClusterOf(i) == i[1]
HostOf(i) == i[2]

VARIABLES ginst,      \* external: the instances, their primary node and owner tags
          gnode,      \* external: the cluster each node belongs to
          up,         \* external: whether all calls to the cluster are answered
          tagjob,     \* external: per instance, the kinds of tag job of which some are queued
          vm,         \* the rows of the virtual machines
          node,       \* the rows of the nodes: the cluster of each (NoCluster: no row)
          cluster,    \* the rows of the clusters
          owner,      \* the rows of the owners (ClusterUser)
          creating    \* requests between CreateInstance and their commit: the new owner

world == <<ginst, gnode, up, tagjob>>
tables == <<vm, node, cluster, owner>>
vars == <<world, tables, creating>>

TagSet == SUBSET Owner              \* owner tags: "gwm:owner:<id>"
Instance == [present : BOOLEAN, node : Node \cup {NoNode}, tags : TagSet]
NoInstance == [present |-> FALSE, node |-> NoNode, tags |-> {}]

(* AddInstanceTags and DeleteInstanceTags submit a job, which changes the  *)
(* tags later, in any order, or fails.                                     *)
TagJob == [op : {"add", "del"}, tags : SUBSET Owner]

(* current: the row's mtime is the instance's, so a refresh finds no news; *)
(* fetched: info is not None; tags: the owner tags in the cached info;     *)
(* failed, a history: the tag jobs that failed since the row has had the   *)
(* instance's mtime, with the tags not as they were to be.                 *)
VMRow == [present : BOOLEAN, owner : Owner \cup {NoOwner}, node : Node \cup {NoNode},
          fetched : BOOLEAN, current : BOOLEAN, tags : TagSet, failed : SUBSET TagJob]
NoVM == [present |-> FALSE, owner |-> NoOwner, node |-> NoNode,
         fetched |-> FALSE, current |-> FALSE, tags |-> {}, failed |-> {}]
NewVM(o) == [NoVM EXCEPT !.present = TRUE, !.owner = o]

TypeOK == /\ ginst \in [Inst -> Instance]
          /\ gnode \in [Node -> Cluster \cup {NoCluster}]
          /\ up \in [Cluster -> BOOLEAN]
          /\ tagjob \in [Inst -> SUBSET TagJob]
          /\ vm \in [Inst -> VMRow]
          /\ node \in [Node -> Cluster \cup {NoCluster}]
          /\ cluster \subseteq Cluster
          /\ owner \subseteq Owner
          /\ creating \in [Inst -> Owner \cup {NoOwner}]

Init == /\ ginst = [i \in Inst |-> NoInstance]
        /\ gnode = [n \in Node |-> NoCluster]
        /\ up = [c \in Cluster |-> TRUE]
        /\ tagjob = [i \in Inst |-> {}]
        /\ vm = [i \in Inst |-> NoVM]
        /\ node = [n \in Node |-> NoCluster]
        /\ cluster = {}
        /\ owner = Owner
        /\ creating = [i \in Inst |-> NoOwner]

Living == {i \in Inst : ginst[i].present}
Rows == {i \in Inst : vm[i].present}
OfCluster(c) == {i \in Inst : ClusterOf(i) = c}
NodeRows(c) == {n \in Node : node[n] = c}
GanetiNodes(c) == {n \in Node : gnode[n] = c}

----------------------------------------------------------------------------
(* What is written and asked for one row.                                  *)

(* How the calls made for one VM went.                                     *)
Answer == {"heard", "unheard", "noDelete", "noAdd"}
Answers(c) == IF up[c] THEN {"heard"} ELSE Answer

(* Mutated form of OwnerTags: a VM without owner is tagged all the same. *)
OwnerTags_Any(o) == {o}

OwnerTags(o) == IF o = NoOwner THEN {} ELSE {o}

TagJobFor(op, tags) == IF tags = {} THEN {} ELSE {[op |-> op, tags |-> tags]}

(* Mutated form of Retagged: the old tag is not deleted. *)
Retagged_KeepOld(i, row, cached, ans) ==
    [ok |-> TRUE, tags |-> cached,
     asked |-> IF ClusterOf(i) \in Writable
               THEN TagJobFor("add", OwnerTags(row.owner) \ cached) ELSE {}]

(* VirtualMachine.save() compares the owner tags in the info it has with   *)
(* the row's owner, submits the jobs that make them agree, and takes them  *)
(* for done: the info then has the owner's tag alone.                      *)
Retagged(i, row, cached, ans) ==
    LET deletion == TagJobFor("del", cached \ OwnerTags(row.owner))
        addition == TagJobFor("add", OwnerTags(row.owner) \ cached)
    IN  IF ClusterOf(i) \notin Writable THEN [ok |-> TRUE, asked |-> {}, tags |-> cached]
        ELSE CASE deletion # {} /\ ans = "noDelete" ->
                    [ok |-> FALSE, asked |-> {}, tags |-> cached]
               [] addition # {} /\ ans = "noAdd" ->
                    [ok |-> FALSE, asked |-> deletion, tags |-> cached]
               [] OTHER ->
                    [ok |-> TRUE, asked |-> deletion \cup addition,
                     tags |-> OwnerTags(row.owner)]

(* Node.objects.get(hostname): no row, no primary node ("fail silently").  *)
NodeRow(nodes, n) ==
    IF n # NoNode /\ nodes[n] # NoCluster THEN n ELSE NoNode

(* mtime is NULL, or older than the instance's.                            *)
HasNews(i, row) == ~row.current

(* Mutated form of Refreshed: the primary node is not looked up again. *)
Refreshed_KeepsNode(i, row, nodes, ans) ==
    LET saved == Retagged(i, row, ginst[i].tags, ans)
    IN  IF ~row.present \/ ~ginst[i].present \/ ans = "unheard" \/ ~HasNews(i, row)
        THEN [row |-> row, jobs |-> tagjob[i]]
        ELSE IF ~saved.ok THEN [row |-> row, jobs |-> tagjob[i] \cup saved.asked]
        ELSE [row  |-> [row EXCEPT !.fetched = TRUE, !.current = TRUE, !.tags = saved.tags, !.failed = {}],
              jobs |-> tagjob[i] \cup saved.asked]

(* refresh() of a row, given the rows of the nodes: the row and the tag    *)
(* jobs after it.  A failed call leaves the row as it was.                 *)
Refreshed(i, row, nodes, ans) ==
    LET saved == Retagged(i, row, ginst[i].tags, ans)
    IN  IF ~row.present \/ ~ginst[i].present \/ ans = "unheard" \/ ~HasNews(i, row)
        THEN [row |-> row, jobs |-> tagjob[i]]
        ELSE IF ~saved.ok THEN [row |-> row, jobs |-> tagjob[i] \cup saved.asked]
        ELSE [row  |-> [row EXCEPT !.node = NodeRow(nodes, ginst[i].node),
                                   !.fetched = TRUE, !.current = TRUE, !.tags = saved.tags, !.failed = {}],
              jobs |-> tagjob[i] \cup saved.asked]

(* Deleting nodes deletes the rows that name them (the foreign key of      *)
(* VirtualMachine.primary_node cascades), whatever their cluster.          *)
Cascaded(rows, gone) ==
    [i \in Inst |-> IF rows[i].node \in gone THEN NoVM ELSE rows[i]]

(* Assigning an owner and saving: from the cached info, not a new one, and *)
(* the info is not serialised again (CachedClusterObject.save).            *)
Assigned(i, row, o, ans) ==
    LET saved == Retagged(i, [row EXCEPT !.owner = o], row.tags, ans)
    IN  [ok   |-> row.fetched => saved.ok,
         row  |-> [row EXCEPT !.owner = o],
         jobs |-> tagjob[i] \cup IF row.fetched THEN saved.asked ELSE {}]

----------------------------------------------------------------------------
(* Synchronisation.  GetNodes raises when it fails, GetInstances does not: *)
(* Cluster.instances() answers [] instead.                                 *)

Silence(c) == IF up[c] THEN {FALSE} ELSE BOOLEAN
HeardInstances(c, silent) == IF silent THEN {} ELSE Living \cap OfCluster(c)

(* Node.hostname is unique: another cluster's row of that name is in the   *)
(* way, and the insertion fails the request.                               *)
Clash(c) == \E n \in GanetiNodes(c) : node[n] \notin {NoCluster, c}

(* Mutated form of NodesSynced: the nodes that are gone are kept. *)
NodesSynced_KeepGone(c, remove) ==
    [n \in Node |-> IF gnode[n] = c THEN c ELSE node[n]]

NodesSynced(c, remove) ==
    [n \in Node |-> IF gnode[n] = c THEN c
                    ELSE IF remove /\ node[n] = c THEN NoCluster
                    ELSE node[n]]

(* Mutated form of VMsSynced: the deletion is not limited to the cluster. *)
VMsSynced_AllClusters(c, rows, nodes, heard, remove, ans) ==
    [i \in Inst |->
        IF remove /\ rows[i].present /\ i \notin heard THEN [row |-> NoVM, jobs |-> tagjob[i]]
        ELSE IF ClusterOf(i) # c THEN [row |-> rows[i], jobs |-> tagjob[i]]
        ELSE IF i \in heard /\ ~rows[i].present THEN Refreshed(i, NewVM(NoOwner), nodes, ans[i])
        ELSE Refreshed(i, rows[i], nodes, ans[i])]

(* sync_virtual_machines(): insert, delete, then refresh what is left.     *)
(* Rows that are loaded or refreshed twice take a LoadVM step for it.      *)
VMsSynced(c, rows, nodes, heard, remove, ans) ==
    [i \in Inst |->
        IF ClusterOf(i) # c THEN [row |-> rows[i], jobs |-> tagjob[i]]
        ELSE IF i \in heard /\ ~rows[i].present THEN Refreshed(i, NewVM(NoOwner), nodes, ans[i])
        ELSE IF remove /\ rows[i].present /\ i \notin heard THEN [row |-> NoVM, jobs |-> tagjob[i]]
        ELSE Refreshed(i, rows[i], nodes, ans[i])]

AnswerMap(c) == [OfCluster(c) -> Answers(c)]

(* clusters.views.refresh: both synchronisations, with removal.            *)
RefreshView(c) ==
    /\ UNCHANGED <<ginst, gnode, up, cluster, owner, creating>>
    /\ c \in cluster /\ ~Clash(c)
    /\ \E silent \in Silence(c), ans \in AnswerMap(c) :
         LET nodes == NodesSynced(c, TRUE)
             rows == Cascaded(vm, NodeRows(c) \ GanetiNodes(c))
             synced == VMsSynced(c, rows, nodes, HeardInstances(c, silent), TRUE, ans)
         IN  /\ node' = nodes
             /\ vm' = [i \in Inst |-> synced[i].row]
             /\ tagjob' = [i \in Inst |-> synced[i].jobs]

(* clusters.views.edit without a slug: the row has no info yet, so nodes   *)
(* and VMs are fetched, and an error ends that silently.                   *)
AddCluster(c) ==
    /\ c \notin cluster
    /\ cluster' = cluster \cup {c}
    /\ \/ /\ ~up[c]
          /\ UNCHANGED <<tagjob, vm, node>>
       \/ /\ ~Clash(c)
          /\ \E silent \in Silence(c), ans \in AnswerMap(c) :
               LET nodes == NodesSynced(c, FALSE)
                   synced == VMsSynced(c, vm, nodes, HeardInstances(c, silent), FALSE, ans)
               IN  /\ node' = nodes
                   /\ vm' = [i \in Inst |-> synced[i].row]
                   /\ tagjob' = [i \in Inst |-> synced[i].jobs]
    /\ UNCHANGED <<ginst, gnode, up, owner, creating>>

(* clusters.views.edit, DELETE: nodes and VMs go with the cluster, and so  *)
(* do the VMs of other clusters whose rows name one of the nodes.          *)
DeleteCluster(c) ==
    /\ c \in cluster
    /\ cluster' = cluster \ {c}
    /\ node' = [n \in Node |-> IF node[n] = c THEN NoCluster ELSE node[n]]
    /\ vm' = [i \in Inst |-> IF ClusterOf(i) = c THEN NoVM
                              ELSE Cascaded(vm, NodeRows(c))[i]]
    /\ UNCHANGED <<world, owner, creating>>

(* refreshcache: the nodes of one cluster, without removal.                *)
RefreshCacheNodes(c) ==
    /\ c \in cluster /\ ~Clash(c)
    /\ node' = NodesSynced(c, FALSE)
    /\ UNCHANGED <<world, vm, cluster, owner, creating>>

Outdated(row) == [row EXCEPT !.current = FALSE, !.failed = {}]

(* refreshcache: VirtualMachine.objects.all().update(mtime=None).          *)
RefreshCacheForgets ==
    /\ vm' = [i \in Inst |-> Outdated(vm[i])]
    /\ UNCHANGED <<world, node, cluster, owner, creating>>

(* A page that loads a VM whose cache has expired.                         *)
LoadVM(i) ==
    /\ vm[i].present
    /\ \E ans \in Answers(ClusterOf(i)) :
         LET loaded == Refreshed(i, vm[i], node, ans)
         IN  /\ vm' = [vm EXCEPT ![i] = loaded.row]
             /\ tagjob' = [tagjob EXCEPT ![i] = loaded.jobs]
    /\ UNCHANGED <<ginst, gnode, up, node, cluster, owner, creating>>

----------------------------------------------------------------------------
(* The import pages.  The forms offer what differs when they are posted;   *)
(* a silent cluster has no instances and no nodes.                         *)

MissingInDb == {i \in Living \ Rows : ClusterOf(i) \in cluster}

MissingInGaneti(silent) ==
    {i \in Rows : ClusterOf(i) \in silent \/ ~ginst[i].present}

NodesMissingInGaneti(silent) ==
    {n \in Node : /\ node[n] \in cluster
                  /\ node[n] \in silent \/ gnode[n] # node[n]}

(* get_vm_counts: the VMs that the overview counts for its admins; those   *)
(* of clusters that answer.                                                *)
VMCounts(clusters) ==
    [orphaned     |-> {i \in Rows : ClusterOf(i) \in clusters /\ vm[i].owner = NoOwner},
     import_ready |-> {i \in MissingInDb : ClusterOf(i) \in clusters},
     missing      |-> {i \in MissingInGaneti({}) : ClusterOf(i) \in clusters}]

(* The field of the forms: one or more of the choices.                     *)
Picks(choices) == (SUBSET choices) \ {{}}

Silences == {s \in SUBSET cluster : \A c \in s : ~up[c]}

(* importing.missing_db: rows for instances, with or without an owner.     *)
ImportVMs(S, o) ==
    /\ S \in Picks(MissingInDb)
    /\ vm' = [i \in Inst |-> IF i \in S THEN NewVM(o) ELSE vm[i]]
    /\ UNCHANGED <<world, node, cluster, owner, creating>>

(* The rows that the host names picked on the page of missing VMs select:  *)
(* filter(hostname__in=vm_ids), over all clusters.                         *)
NamedRows(hosts) == {i \in Rows : HostOf(i) \in hosts}

(* importing.missing_ganeti                                                *)
DeleteMissingVMs(silent, hosts) ==
    /\ hosts \in Picks({HostOf(i) : i \in MissingInGaneti(silent)})
    /\ vm' = [i \in Inst |-> IF i \in NamedRows(hosts) THEN NoVM ELSE vm[i]]
    /\ UNCHANGED <<world, node, cluster, owner, creating>>

(* importing.orphans: each VM is saved in turn; a tag call that fails ends *)
(* the request, and the jobs of the VMs before it stay submitted.          *)
AdoptOrphans(S, o) ==
    /\ S \in Picks({i \in Rows : vm[i].owner = NoOwner})
    /\ \E ans \in [S -> Answer], reached \in SUBSET S :
         LET saved == [i \in S |-> Assigned(i, vm[i], o, ans[i])]
         IN  /\ \A i \in S : ans[i] \in Answers(ClusterOf(i)) \ {"unheard"}
             /\ tagjob' = [i \in Inst |-> IF i \in reached THEN saved[i].jobs ELSE tagjob[i]]
             /\ \/ /\ reached = S /\ \A i \in S : saved[i].ok
                   /\ vm' = [i \in Inst |-> IF i \in S THEN saved[i].row ELSE vm[i]]
                \/ /\ Cardinality({i \in reached : ~saved[i].ok}) = 1
                   /\ UNCHANGED vm
    /\ UNCHANGED <<ginst, gnode, up, node, cluster, owner, creating>>

(* importing_nodes.missing_db: the row, its refresh, and the VMs that the  *)
(* node's info lists.  A failed call or a row of that name ends it.        *)
ImportNodes(S) ==
    /\ S \in Picks({n \in Node : gnode[n] \in cluster /\ node[n] = NoCluster})
    /\ node' = [n \in Node |-> IF n \in S THEN gnode[n] ELSE node[n]]
    /\ vm' = [i \in Inst |-> IF i \in Rows \cap Living /\ ginst[i].node \in S
                              THEN [vm[i] EXCEPT !.node = ginst[i].node] ELSE vm[i]]
    /\ UNCHANGED <<world, cluster, owner, creating>>

(* importing_nodes.missing_ganeti                                          *)
DeleteMissingNodes(silent, S) ==
    /\ S \in Picks(NodesMissingInGaneti(silent))
    /\ node' = [n \in Node |-> IF n \in S THEN NoCluster ELSE node[n]]
    /\ vm' = Cascaded(vm, S)
    /\ UNCHANGED <<world, cluster, owner, creating>>

(* muddle_users: VirtualMachine.owner is SET_NULL, which saves no VM.      *)
DeleteOwner(o) ==
    /\ o \in owner
    /\ owner' = owner \ {o}
    /\ vm' = [i \in Inst |-> IF vm[i].owner = o THEN [vm[i] EXCEPT !.owner = NoOwner]
                              ELSE vm[i]]
    /\ UNCHANGED <<world, node, cluster, creating>>

----------------------------------------------------------------------------
(* template_to_instance(): CreateInstance, then the row.  The instance may *)
(* be there already, appear before the commit, much later, or never.       *)
SubmitCreation(i, o) ==
    /\ ClusterOf(i) \in cluster \cap Writable
    /\ ~vm[i].present /\ creating[i] = NoOwner
    /\ creating' = [creating EXCEPT ![i] = o]
    /\ UNCHANGED <<world, tables>>

(* A row of that cluster and name, or no such owner or cluster: refused.   *)
CommitCreation(i) ==
    /\ creating[i] # NoOwner
    /\ vm' = IF ~vm[i].present /\ creating[i] \in owner /\ ClusterOf(i) \in cluster
             THEN [vm EXCEPT ![i] = NewVM(creating[i])] ELSE vm
    /\ creating' = [creating EXCEPT ![i] = NoOwner]
    /\ UNCHANGED <<world, node, cluster, owner>>

----------------------------------------------------------------------------
(* The cluster: its jobs, its administrators, its network.                 *)

(* Any change gives the instance a later mtime than the row's.             *)
InstanceChanges(i, inst) ==
    /\ ginst' = [ginst EXCEPT ![i] = inst]
    /\ vm' = [vm EXCEPT ![i] = Outdated(@)]
    /\ UNCHANGED <<gnode, up, node, cluster, owner, creating>>

(* Bound: the tags that nobody compares are not told apart.                *)
Taggings(c) == IF c \in Writable THEN SUBSET Owner ELSE {{}}

InstanceAdded(i) ==
    /\ ~ginst[i].present
    /\ \E n \in GanetiNodes(ClusterOf(i)), tags \in Taggings(ClusterOf(i)) :
         InstanceChanges(i, [present |-> TRUE, node |-> n, tags |-> tags])
    /\ UNCHANGED tagjob

InstanceMoved(i) ==
    /\ ginst[i].present
    /\ \E n \in GanetiNodes(ClusterOf(i)) \ {ginst[i].node} :
         InstanceChanges(i, [ginst[i] EXCEPT !.node = n])
    /\ UNCHANGED tagjob

InstanceRemoved(i) ==
    /\ ginst[i].present
    /\ InstanceChanges(i, NoInstance)
    /\ UNCHANGED tagjob

(* An equal job may still be queued when one ends.                         *)
TagJobEnds(i, job) ==
    \E queued \in {tagjob[i], tagjob[i] \ {job}} : tagjob' = [tagjob EXCEPT ![i] = queued]

(* Adding a tag twice is no error; deleting one that is not there is.      *)
TagJobSucceeds(i, job) ==
    /\ ginst[i].present /\ (job.op = "del" => job.tags \subseteq ginst[i].tags)
    /\ InstanceChanges(i, [ginst[i] EXCEPT !.tags = IF job.op = "add" THEN @ \cup job.tags
                                                    ELSE @ \ job.tags])
    /\ TagJobEnds(i, job)

(* What the job was to do is not so.                                       *)
Unmet(i, job) == IF job.op = "add" THEN ~(job.tags \subseteq ginst[i].tags)
                 ELSE job.tags \cap ginst[i].tags # {}

TagJobFails(i, job) ==
    /\ vm' = [vm EXCEPT ![i].failed = @ \cup IF vm[i].current /\ Unmet(i, job) THEN {job} ELSE {}]
    /\ TagJobEnds(i, job)
    /\ UNCHANGED <<ginst, gnode, up, node, cluster, owner, creating>>

NodeJoins(n, c) ==
    /\ gnode[n] = NoCluster
    /\ gnode' = [gnode EXCEPT ![n] = c]
    /\ UNCHANGED <<ginst, up, tagjob, tables, creating>>

NodeLeaves(n) ==
    /\ gnode[n] # NoCluster /\ \A i \in Living : ginst[i].node # n
    /\ gnode' = [gnode EXCEPT ![n] = NoCluster]
    /\ UNCHANGED <<ginst, up, tagjob, tables, creating>>

ApiChanges(c) ==
    /\ c \in Flaky
    /\ up' = [up EXCEPT ![c] = ~@]
    /\ UNCHANGED <<ginst, gnode, tagjob, tables, creating>>

Next ==
    \/ \E c \in Cluster : \/ RefreshView(c) \/ AddCluster(c) \/ DeleteCluster(c)
                          \/ RefreshCacheNodes(c) \/ ApiChanges(c)
                          \/ \E n \in Node : NodeJoins(n, c)
    \/ RefreshCacheForgets
    \/ \E i \in Inst : \/ LoadVM(i) \/ CommitCreation(i)
                       \/ InstanceAdded(i) \/ InstanceMoved(i) \/ InstanceRemoved(i)
                       \/ \E job \in tagjob[i] :
                             TagJobSucceeds(i, job) \/ TagJobFails(i, job)
                       \/ \E o \in owner : SubmitCreation(i, o)
    \/ \E S \in SUBSET Inst : \/ \E o \in owner \cup {NoOwner} : ImportVMs(S, o)
                              \/ \E o \in owner : AdoptOrphans(S, o)
    \/ \E S \in SUBSET Node : ImportNodes(S)
    \/ \E silent \in Silences : \/ \E hosts \in SUBSET Host : DeleteMissingVMs(silent, hosts)
                                \/ \E S \in SUBSET Node : DeleteMissingNodes(silent, S)
    \/ \E n \in Node : NodeLeaves(n)
    \/ \E o \in owner : DeleteOwner(o)

Spec == Init /\ [][Next]_vars

----------------------------------------------------------------------------
(* Properties.                                                             *)

(* The tags of an instance that are not as its row says.                   *)
WrongTags(i) == {t \in Owner : (t \in ginst[i].tags) # (t \in OwnerTags(vm[i].owner))}

(* A job to put the tag t right was submitted, and is queued or failed.    *)
Retagging(i, t) ==
    \E job \in tagjob[i] \cup vm[i].failed :
        t \in job.tags /\ job.op = (IF t \in ginst[i].tags THEN "del" ELSE "add")

(* An instance and a row that a refresh will not write again disagree on   *)
(* an owner's tag only while the job that puts it right is queued, or when *)
(* it failed, which nobody notices; or the tag is that of an owner who was *)
(* deleted (VirtualMachine.save(), mtime test).                            *)
TagsInStep ==
    \A i \in Rows \cap Living :
        vm[i].current /\ ClusterOf(i) \in Writable =>
            \A t \in WrongTags(i) : \/ Retagging(i, t)
                                    \/ vm[i].owner = NoOwner /\ t \notin owner

(* A row with the instance's mtime names the instance's node or none, even *)
(* when node rows were imported, deleted and inserted again meanwhile      *)
(* (parse_persistent_info, importing_nodes.missing_db, the cascade).       *)
PlacementCurrent ==
    \A i \in Rows \cap Living :
        vm[i].current => vm[i].node \in {ginst[i].node, NoNode}

StaleNode(i) == vm[i].node \notin {NoNode, ginst[i].node}
MisfiledNode(i) == vm[i].node # NoNode /\ node[vm[i].node] # ClusterOf(i)
DeadNamesake(i) == \E k \in Rows \ Living : HostOf(k) = HostOf(i)

(* The row of a living instance, and with it the owner and permissions, is *)
(* deleted only when its cluster is removed by hand, some cluster does not *)
(* answer, the row names a node the instance has left or one filed under   *)
(* another cluster, or a VM of the same name is gone somewhere.            *)
LossNeedsCause ==
    [][\A i \in Rows \cap Living :
          ~vm'[i].present => \/ ClusterOf(i) \notin cluster'
                             \/ \E c \in cluster : ~up[c]
                             \/ StaleNode(i) \/ MisfiledNode(i)
                             \/ DeadNamesake(i)]_vars

(* When its cluster answers, the refresh page leaves the rows of the VMs   *)
(* and nodes that the cluster has, each VM on its node or on none, and the *)
(* other clusters' VMs alone unless they name one of the deleted nodes.    *)
(* The overview then counts no VM of it that is missing or to import.      *)
RefreshConverges ==
    [][\A c \in Cluster :
          up[c] /\ RefreshView(c) =>
              /\ {n \in Node : node'[n] = c} = GanetiNodes(c)
              /\ \A i \in OfCluster(c) :
                    /\ vm'[i].present <=> ginst[i].present
                    /\ vm'[i].present => vm'[i].node \in {ginst[i].node, NoNode}
              /\ \A i \in Inst \ OfCluster(c) :
                    vm'[i] = vm[i] \/ node[vm[i].node] = c
              /\ VMCounts({c}).import_ready' = {} /\ VMCounts({c}).missing' = {}]_vars

=============================================================================
