------------------------------- MODULE Access -------------------------------
(***************************************************************************)
(* Who may do what: users, groups and their members, the permissions both  *)
(* hold on a cluster, on its virtual machines and on groups, the owners of *)
(* VMs and the quotas of owners (ganeti_web/backend/queries.py,            *)
(* authentication/models.py, muddle_users/views, and the permission and    *)
(* quota pages of clusters/views.py and virtualmachines/views.py).         *)
(*                                                                         *)
(* The package object_permissions is external: a user holds his own grants *)
(* and those of his groups; deleting one side of a grant deletes it.  A    *)
(* request is one step: it checks what it needs and then writes.  Quotas   *)
(* are kept as the set of owners that have a row of their own, what they   *)
(* amount to is in Quotas.  The profile of a user and the organization of  *)
(* a group are created with them (ganeti_web/models.py) and stand for them *)
(* as owners, so that no difference is made.                               *)
(***************************************************************************)
EXTENDS FiniteSets

CONSTANTS User, Group, VM,
          Cluster,                \* the one cluster
          ClusterPerm, VMPerm,    \* CLUSTER_PARAMS, VIRTUAL_MACHINE_PARAMS
          Root,                   \* a superuser, who is never edited
          Nobody, NoVM            \* no owner; no row

ASSUME PermAssumption == {"admin", "create_vm"} \subseteq ClusterPerm /\ "admin" \in VMPerm
ASSUME KindAssumption == /\ Cluster \notin User \cup Group \cup VM
                         /\ VM \cap (User \cup Group) = {} /\ User \cap Group = {}
                         /\ Root \notin User
                         /\ {Nobody, NoVM} \cap (User \cup Group) = {} /\ Nobody # NoVM

VARIABLES users, super,   \* the users, and those with is_superuser
          groups,
          members,        \* the users of each group
          grants,         \* <<who, permission, on what>>
          owner,          \* of each VM
          quotas,         \* the owners with a Quota row
          unfounded       \* history: those who got it without any permission

people == <<users, super, groups, members>>
vars == <<people, grants, owner, quotas, unfounded>>

Owners == users \cup groups
PermsFor(o) == IF o = Cluster THEN ClusterPerm ELSE IF o \in VM THEN VMPerm ELSE {"admin"}

TypeOK == /\ users \subseteq User /\ super \subseteq users
          /\ groups \subseteq Group /\ members \in [Group -> SUBSET users]
          /\ \A t \in grants : /\ t[1] \in Owners /\ t[2] \in PermsFor(t[3])
                               /\ t[3] \in {Cluster} \cup VM \cup groups
                               /\ t[3] \in VM => owner[t[3]] # NoVM
          /\ owner \in [VM -> Owners \cup {Nobody, NoVM}]
          /\ quotas \subseteq Owners /\ unfounded \subseteq quotas

Init == /\ users = {} /\ super = {} /\ groups = {}
        /\ members = [g \in Group |-> {}]
        /\ grants = {}
        /\ owner = [v \in VM |-> NoVM]
        /\ quotas = {} /\ unfounded = {}

----------------------------------------------------------------------------
(* What object_permissions answers.                                        *)
Own(s, o) == {t[2] : t \in {x \in grants : x[1] = s /\ x[3] = o}}
GroupsOf(u) == {g \in groups : u \in members[g]}
GetPerms(u, o) == UNION {Own(s, o) : s \in {u} \cup GroupsOf(u)}

IsSuper(e) == e = Root \/ e \in super
Editors == users \cup {Root}

(* is_superuser or has_any_perms: the guard of most views.                 *)
Has(e, perms, o) == IsSuper(e) \/ GetPerms(e, o) \cap perms # {}

ClusterAdmin(e) == Has(e, {"admin"}, Cluster)

(* The guard of the views of a VM: an operation needs its permission, or   *)
(* "admin" on the VM or on the cluster.                                    *)
May(e, op, v) == Has(e, {"admin", op}, v) \/ ClusterAdmin(e)

(* The pages of a VM.  The console, the start and the stop; the reboot;    *)
(* what destroys data; its users, their permissions and its log.           *)
MayPower(e, v) == May(e, "power", v)
MayReboot(e, v) == May(e, "power", v)
MayReinstall(e, v) == May(e, "remove", v)
MayAdminister(e, v) == May(e, "admin", v)

(* Its moves need permissions on the cluster, as the pages of a node do.   *)
MayReplaceDisks(e) == Has(e, {"admin", "replace_disks"}, Cluster)
MayMigrate(e) == Has(e, {"admin", "migrate"}, Cluster)
MayUseNode(e) == Has(e, {"admin", "migrate"}, Cluster)

(* The pages of a cluster: its VMs, its jobs; who is on it, its nodes' new *)
(* configuration, its quotas and its log are for its admins.               *)
CanCreate(e) == Has(e, {"admin", "create_vm"}, Cluster)
MayListVMs(e) == CanCreate(e) \/ \E v \in VM : "admin" \in GetPerms(e, v)
MayListJobs(e) == CanCreate(e)
MayReadLog(e) == Has(e, {"admin"}, Cluster)
MayManageCluster(e) == ClusterAdmin(e)

(* Templates: list, make from a VM, show, copy, use and delete.            *)
MayUseTemplates(e) == CanCreate(e)

(* Users are for superusers, a group for its admins; its members are added *)
(* once and removed when they are in.                                      *)
ManagesUsers(e) == IsSuper(e)
SetsPasswords(e) == IsSuper(e)
GroupsListed(e) == {g \in groups : Has(e, {"admin"}, g)}
MayUseGroup(e, g) == g \in groups /\ Has(e, {"admin"}, g)
ToAdd(g) == users \ members[g]
ToRemove(g) == members[g]

(* A persona's resources: one's own, or those of one's groups.             *)
MaySeeResources(e, s) == IsSuper(e) \/ s = e \/ (s \in groups /\ e \in members[s])

----------------------------------------------------------------------------
(* cluster_qs_for_user: what the wizard offers and the list shows.         *)
Offered(e) == Has(e, {"admin", "create_vm"}, Cluster)

(* What every page offers: the entries of the menu (common_permissions),   *)
(* the button above a list of VMs, and the list of the clusters.           *)
MenuOfAdmins(e) == Has(e, {"admin"}, Cluster)
MenuCreate(e) == MenuOfAdmins(e) \/ Has(e, {"create_vm"}, Cluster)
MenuClusters(e) ==
    MenuOfAdmins(e) \/ Has(e, {"migrate", "export", "replace_disks", "tags"}, Cluster)
CreateButton(e) == CanCreate(e)
ClustersListed(e) == {c \in {Cluster} : Offered(e)}

(* Mutated form of AdminGroups: groups that the user is not in, too. *)
AdminGroups_All(u) == {g \in groups : Own(g, Cluster) \cap {"admin", "create_vm"} # {}}

(* Mutated form of AdminGroups: only groups that administer the cluster. *)
AdminGroups_Admin(u) == {g \in GroupsOf(u) : "admin" \in Own(g, Cluster)}

(* admin_group_qs: its groups that may create VMs.                         *)
AdminGroups(u) == {g \in GroupsOf(u) : Own(g, Cluster) \cap {"admin", "create_vm"} # {}}

(* owner_qs: on whose behalf a user may create VMs.                        *)
OwnerQs(e) == IF IsSuper(e) THEN Owners
              ELSE AdminGroups(e)
                     \cup (IF Own(e, Cluster) \cap {"admin", "create_vm"} # {} THEN {e} ELSE {})

(* Mutated form of Listed: the call with clusters=False. *)
Listed_NoClusters(e, v) == Has(e, VMPerm, v)

(* vm_qs_for_users: the VMs in the lists.                                  *)
Listed(e, v) == Has(e, VMPerm, v) \/ ClusterAdmin(e)

(* vm_qs_for_admins: the VMs whose errors and failed jobs one is shown.    *)
AdminListed(e, v) == Has(e, {"admin"}, v) \/ ClusterAdmin(e)
SeesErrors(e, v) == AdminListed(e, v) \/ ClusterAdmin(e)

(* clear of a job of a VM: its owner may, too.                             *)
MayClearJob(e, v) == ClusterAdmin(e) \/ owner[v] = e \/ "admin" \in GetPerms(e, v)

(* The tab of the VMs on the page of a cluster.                            *)
ShowsVMs(e) == ClusterAdmin(e) \/ \E v \in VM : "admin" \in GetPerms(e, v)

(* What the page of a node offers.                                         *)
NodeShown(e) == ClusterAdmin(e) \/ Has(e, {"migrate"}, Cluster)

(* detail: what the page of a VM offers; nothing at all is 403.            *)
Shown(e, op, v) == Has(e, {"admin", "create_vm"}, Cluster) \/ Has(e, {"admin", op}, v)

(* Mutated form of KeysOfVM: as for a cluster, of anyone with a permission. *)
KeysOfVM_Anyone(v) == {u \in users : GetPerms(u, v) # {}} \cup super

(* ssh_keys: whose keys a VM, and whose keys a cluster is given.           *)
KeysOfVM(v) == {u \in users : "admin" \in GetPerms(u, v)} \cup super

KeysOfCluster ==
    {u \in users : \E o \in {Cluster} \cup VM : GetPerms(u, o) # {}} \cup super

(* overview: the user's personas, whose resources it shows.                *)
Personas(u) ==
    GroupsOf(u) \cup
      IF \/ \E v \in VM : owner[v] = u
         \/ Own(u, Cluster) \cap {"admin", "create_vm"} # {}
         \/ GroupsOf(u) = {}
      THEN {u} ELSE {}

(* get_quota: the one that is enforced; get_quotas: those of an owner on a *)
(* number of clusters.                                                     *)
GetQuota(s) == IF s \in quotas THEN "own" ELSE "default"

GetQuotas(clusters, s) == [c \in clusters |-> IF s \in quotas THEN "own" ELSE "default"]

(* get_used_resources: the quotas on the clusters that the persona has any *)
(* permission on; on the others, "since we know they don't have a custom   *)
(* quota", the default one is shown.                                       *)
Permitted(s) == {c \in {Cluster} : IF s \in Group THEN Own(s, c) # {} ELSE GetPerms(s, c) # {}}

QuotaOnPage(s) ==
    IF Cluster \in Permitted(s) THEN GetQuotas(Permitted(s), s)[Cluster] ELSE "default"

----------------------------------------------------------------------------
(* Mutated form of QuotasAfter: the signal finds no receiver. *)
QuotasAfter_Kept(s, o, perms) == quotas

(* recv_user_remove, when the last permission on a cluster is taken away.  *)
QuotasAfter(s, o, perms) == IF o = Cluster /\ perms = {} THEN quotas \ {s} ELSE quotas

(* view_permissions behind the three permissions views: what the owner s   *)
(* has on the object from now on.                                          *)
SetPerms(e, s, o, perms) ==
    /\ \/ Has(e, {"admin"}, o)
       \/ o \in VM /\ owner[o] # NoVM /\ ClusterAdmin(e)
    /\ s \in Owners /\ o \in {Cluster} \cup groups \cup {v \in VM : owner[v] # NoVM}
    /\ grants' = {t \in grants : ~(t[1] = s /\ t[3] = o)} \cup {<<s, p, o>> : p \in perms}
    /\ quotas' = QuotasAfter(s, o, perms)
    /\ unfounded' = unfounded \cap quotas'
    /\ UNCHANGED <<people, owner>>

(* set_quota(): gets or creates the row of the owner, or deletes it.       *)
QuotaRows(s, on) == IF on THEN quotas \cup {s} ELSE quotas \ {s}

(* The quota page: sets or deletes the row of any owner.                   *)
SetQuota(e, s, on) ==
    /\ ClusterAdmin(e) /\ s \in Owners
    /\ quotas' = QuotaRows(s, on)
    /\ unfounded' = IF on /\ Own(s, Cluster) = {} THEN unfounded \cup {s} ELSE unfounded \ {s}
    /\ UNCHANGED <<people, grants, owner>>

----------------------------------------------------------------------------
(* The wizard's last step and template_to_instance: the owner gets "admin" *)
(* on the new VM.                                                          *)
CreateVM(e, s, v) ==
    /\ Offered(e) /\ s \in OwnerQs(e) /\ owner[v] = NoVM
    /\ owner' = [owner EXCEPT ![v] = s]
    /\ grants' = grants \cup {<<s, "admin", v>>}
    /\ UNCHANGED <<people, quotas, unfounded>>

(* importing.missing_db: with an owner, or orphaned; nobody is granted     *)
(* anything.                                                               *)
ImportVM(e, s, v) ==
    /\ ClusterAdmin(e) /\ owner[v] = NoVM
    /\ s \in Owners \cup {Nobody}
    /\ owner' = [owner EXCEPT ![v] = s]
    /\ UNCHANGED <<people, grants, quotas, unfounded>>

(* reparent, and importing.orphans for a VM without owner: the old owner   *)
(* keeps its grants, the new one gets none.                                *)
Reparent(e, s, v) ==
    /\ ClusterAdmin(e) /\ owner[v] # NoVM /\ s \in Owners
    /\ owner' = [owner EXCEPT ![v] = s]
    /\ UNCHANGED <<people, grants, quotas, unfounded>>

(* VMDeleteView when Ganeti does not know the instance any more: the row   *)
(* goes, and the grants on it.                                             *)
RemoveVM(e, v) ==
    /\ May(e, "remove", v) /\ owner[v] # NoVM
    /\ owner' = [owner EXCEPT ![v] = NoVM]
    /\ grants' = {t \in grants : t[3] # v}
    /\ UNCHANGED <<people, quotas, unfounded>>

----------------------------------------------------------------------------
(* What a deleted user or group takes along: its grants and those on it,   *)
(* its quotas; the VMs it owned are orphans (on_delete=SET_NULL).          *)
Forget(s) ==
    /\ grants' = {t \in grants : t[1] # s /\ t[3] # s}
    /\ quotas' = quotas \ {s} /\ unfounded' = unfounded \ {s}
    /\ owner' = [v \in VM |-> IF owner[v] = s THEN Nobody ELSE owner[v]]

(* user_add, user_edit and its DELETE are for superusers.                  *)
AddUser(e, u) ==
    /\ ManagesUsers(e) /\ u \notin users
    /\ users' = users \cup {u}
    /\ UNCHANGED <<super, groups, members, grants, owner, quotas, unfounded>>

EditUser(e, u, isSuper) ==
    /\ ManagesUsers(e) /\ u \in users
    /\ super' = IF isSuper THEN super \cup {u} ELSE super \ {u}
    /\ UNCHANGED <<users, groups, members, grants, owner, quotas, unfounded>>

DeleteUser(e, u) ==
    /\ ManagesUsers(e) /\ u \in users
    /\ users' = users \ {u} /\ super' = super \ {u}
    /\ members' = [g \in Group |-> members[g] \ {u}]
    /\ Forget(u)
    /\ UNCHANGED groups

(* edit of a group that is not there yet: has_perm('admin', None).         *)
AddGroup(e, g) ==
    /\ IsSuper(e) /\ g \notin groups
    /\ groups' = groups \cup {g}
    /\ UNCHANGED <<users, super, members, grants, owner, quotas, unfounded>>

(* The DELETE of edit, add_user and remove_user are for the group's        *)
(* admins; who is removed loses his permission on the group.               *)
DeleteGroup(e, g) ==
    /\ MayUseGroup(e, g)
    /\ groups' = groups \ {g}
    /\ members' = [members EXCEPT ![g] = {}]
    /\ Forget(g)
    /\ UNCHANGED <<users, super>>

AddMember(e, g, u) ==
    /\ MayUseGroup(e, g) /\ u \in ToAdd(g)
    /\ members' = [members EXCEPT ![g] = @ \cup {u}]
    /\ UNCHANGED <<users, super, groups, grants, owner, quotas, unfounded>>

RemoveMember(e, g, u) ==
    /\ MayUseGroup(e, g) /\ u \in ToRemove(g)
    /\ members' = [members EXCEPT ![g] = @ \ {u}]
    /\ grants' = {t \in grants : ~(t[1] = u /\ t[3] = g)}
    /\ UNCHANGED <<users, super, groups, owner, quotas, unfounded>>

----------------------------------------------------------------------------
Next == \E e \in Editors :
    \/ \E s \in Owners, o \in {Cluster} \cup groups \cup VM :
         \E perms \in SUBSET PermsFor(o) : SetPerms(e, s, o, perms)
    \/ \E s \in Owners, on \in BOOLEAN : SetQuota(e, s, on)
    \/ \E s \in Owners \cup {Nobody}, v \in VM :
         CreateVM(e, s, v) \/ ImportVM(e, s, v) \/ Reparent(e, s, v)
    \/ \E v \in VM : RemoveVM(e, v)
    \/ \E u \in User : AddUser(e, u) \/ DeleteUser(e, u)
                         \/ \E isSuper \in BOOLEAN : EditUser(e, u, isSuper)
    \/ \E g \in Group : AddGroup(e, g) \/ DeleteGroup(e, g)
                          \/ \E u \in User : AddMember(e, g, u) \/ RemoveMember(e, g, u)

Spec == Init /\ [][Next]_vars

----------------------------------------------------------------------------
(* The quota that the overview shows a user for each of his personas is    *)
(* the one that start-ups and modifications are checked against, however   *)
(* permissions, members and quotas were changed before: "since we know     *)
(* they don't have a custom quota" (general.py:146) is true but for owners *)
(* whose quota was set while they had no permission of their own on the    *)
(* cluster, which the quota page does not ask for.                         *)
QuotaShown ==
    \A u \in users : \A s \in Personas(u) :
        /\ MaySeeResources(u, s)
        /\ s \notin unfounded => QuotaOnPage(s) = GetQuota(s)

(* Whoever may use a page finds the way to it: the VM in his list and the  *)
(* operation on its page, its errors, the list of the cluster's VMs, the   *)
(* cluster in the list of clusters, the group in the list of groups.  The  *)
(* guards of some forty views, the queries of the lists and the flags of   *)
(* the detail pages are written apart, each with its own mix of VM,        *)
(* cluster, group and superuser rights.  (Not so for a migration: its      *)
(* permission is one on the cluster, which shows no VM.)  The other way    *)
(* round, who is offered to create a VM may create one, and who is shown   *)
(* its failed jobs may clear them.                                         *)
VMPagesShown(e, v) ==
    /\ \A op \in VMPerm : May(e, op, v) => Listed(e, v) /\ Shown(e, op, v)
    /\ MayPower(e, v) \/ MayReboot(e, v) => Listed(e, v) /\ Shown(e, "power", v)
    /\ MayReinstall(e, v) => Listed(e, v) /\ Shown(e, "remove", v)
    /\ MayAdminister(e, v) => /\ Listed(e, v) /\ Shown(e, "admin", v)
                              /\ SeesErrors(e, v)
                              /\ MayListVMs(e)
                              /\ ShowsVMs(e)
    /\ AdminListed(e, v) => MayClearJob(e, v)

ClusterPagesShown(e) ==
    /\ MayListJobs(e) \/ MayUseTemplates(e) \/ MayManageCluster(e) \/ MayReadLog(e) =>
         /\ Cluster \in ClustersListed(e)
         /\ MenuCreate(e) /\ CreateButton(e)
    /\ MayManageCluster(e) \/ MayReadLog(e) => MenuOfAdmins(e)
    /\ MayUseNode(e) => NodeShown(e) /\ MenuClusters(e)
    /\ MayMigrate(e) /\ MayReplaceDisks(e) => MayUseNode(e)

CreateIsOffered(e) == MenuCreate(e) \/ CreateButton(e) => Offered(e)

MayIsShown ==
    \A e \in Editors :
        /\ \A v \in VM : owner[v] # NoVM => VMPagesShown(e, v)
        /\ ClusterPagesShown(e) /\ CreateIsOffered(e)
        /\ \A g \in Group : MayUseGroup(e, g) => g \in GroupsListed(e)

(* The keys that open a VM are those of people who may administer it, and  *)
(* they open the nodes of its cluster as well; whoever lost his right, his *)
(* group or his account lost his keys.                                     *)
KeysOfAdmins ==
    \A v \in VM : \A u \in KeysOfVM(v) : MayAdminister(u, v) /\ u \in KeysOfCluster

(* Who is offered the cluster by the wizard has an owner to choose, and    *)
(* may administer the VM created for any owner he chose, be it one of his  *)
(* groups and his own right no more than create_vm.                        *)
OwnerToChoose == \A e \in Editors : Offered(e) /\ Owners # {} => OwnerQs(e) # {}

CreatorManages ==
    [][\A e \in Editors, s \in Owners, v \in VM :
          CreateVM(e, s, v) => May(e, "admin", v)']_vars
=============================================================================
