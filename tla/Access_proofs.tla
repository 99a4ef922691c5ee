---------------------------- MODULE Access_proofs ----------------------------
(* Proofs about Access, for any users, groups, VMs and permissions.        *)
EXTENDS Access, TLAPS

USE PermAssumption, KindAssumption

(* A row of the quota table whose owner had no permission of his own on    *)
(* the cluster when it was written is unfounded; of the others, the owner  *)
(* still has one.                                                          *)
QuotasFounded == \A s \in quotas \ unfounded : Own(s, Cluster) # {}

IInv == TypeOK /\ QuotasFounded

(* A grant names a permission that its object has, and someone who exists. *)
LEMMA GrantTypes ==
    ASSUME TypeOK, NEW s, NEW o
    PROVE  /\ Own(s, o) \subseteq PermsFor(o)
           /\ Own(s, o) # {} => s \in Owners
BY DEF TypeOK, Own

LEMMA InitInv == Init => IInv
BY DEF Init, IInv, TypeOK, QuotasFounded, Owners, Own

LEMMA SetPermsTypes ==
    ASSUME TypeOK, NEW e, NEW s, NEW o, NEW perms \in SUBSET PermsFor(o), SetPerms(e, s, o, perms)
    PROVE  TypeOK'
BY DEF SetPerms, TypeOK, Owners, people, PermsFor, QuotasAfter

(* Whoever the wizard offers as an owner is one. *)
LEMMA OwnersOffered ==
    ASSUME TypeOK, NEW e PROVE OwnerQs(e) \subseteq Owners
<1>1. AdminGroups(e) \subseteq Owners BY DEF AdminGroups, GroupsOf, Owners
<1>2. Own(e, Cluster) \cap {"admin", "create_vm"} # {} => e \in Owners BY GrantTypes
<1> QED BY <1>1, <1>2 DEF OwnerQs

LEMMA CreateTypes ==
    ASSUME TypeOK, NEW e, NEW s, NEW v \in VM, CreateVM(e, s, v)
    PROVE  TypeOK'
<1>1. s \in Owners /\ s # NoVM BY OwnersOffered DEF CreateVM, TypeOK, Owners
<1>2. UNCHANGED <<users, super, groups, members, quotas, unfounded>> BY DEF CreateVM, people
<1>3. /\ owner' = [owner EXCEPT ![v] = s]
      /\ grants' = grants \cup {<<s, "admin", v>>} BY DEF CreateVM
<1>4. "admin" \in PermsFor(v) BY DEF PermsFor
<1>5. owner' \in [VM -> Owners \cup {Nobody, NoVM}] BY <1>1, <1>3 DEF TypeOK
<1>6. \A w \in VM : owner[w] # NoVM => owner'[w] # NoVM
  BY <1>1, <1>3 DEF TypeOK
<1>7. owner'[v] = s BY <1>3 DEF TypeOK
<1>8. ASSUME NEW t \in grants'
      PROVE  /\ t[1] \in Owners /\ t[2] \in PermsFor(t[3])
             /\ t[3] \in {Cluster} \cup VM \cup groups
             /\ t[3] \in VM => owner'[t[3]] # NoVM
  <2>1. CASE t \in grants BY <2>1, <1>6 DEF TypeOK
  <2>2. CASE t = <<s, "admin", v>> BY <2>2, <1>1, <1>4, <1>7
  <2> QED BY <2>1, <2>2, <1>3
<1> QED BY <1>2, <1>5, <1>8 DEF TypeOK, Owners, PermsFor

LEMMA VMTypes ==
    ASSUME TypeOK, NEW e, NEW s \in Owners \cup {Nobody}, NEW v \in VM,
           ImportVM(e, s, v) \/ Reparent(e, s, v)
    PROVE  TypeOK'
BY DEF ImportVM, Reparent, TypeOK, Owners, people, PermsFor

LEMMA RemoveTypes ==
    ASSUME TypeOK, NEW e, NEW v \in VM, RemoveVM(e, v)
    PROVE  TypeOK'
BY DEF RemoveVM, TypeOK, Owners, people, PermsFor

LEMMA UserTypes ==
    ASSUME TypeOK, NEW e, NEW u \in User, NEW isSuper,
           AddUser(e, u) \/ EditUser(e, u, isSuper)
    PROVE  TypeOK'
BY DEF AddUser, EditUser, TypeOK, Owners, people, PermsFor

LEMMA DeleteUserTypes ==
    ASSUME TypeOK, NEW e, NEW u \in User, DeleteUser(e, u)
    PROVE  TypeOK'
BY DEF DeleteUser, Forget, TypeOK, Owners, people, PermsFor

LEMMA GroupTypes ==
    ASSUME TypeOK, NEW e, NEW g \in Group, NEW u,
           AddGroup(e, g) \/ AddMember(e, g, u) \/ RemoveMember(e, g, u)
    PROVE  TypeOK'
BY DEF AddGroup, AddMember, RemoveMember, ToAdd, ToRemove, TypeOK, Owners, people, PermsFor, MayUseGroup

LEMMA DeleteGroupTypes ==
    ASSUME TypeOK, NEW e, NEW g \in Group, DeleteGroup(e, g)
    PROVE  TypeOK'
BY DEF DeleteGroup, MayUseGroup, Forget, TypeOK, Owners, people, PermsFor

LEMMA QuotaTypes ==
    ASSUME TypeOK, NEW e, NEW s, NEW on \in BOOLEAN, SetQuota(e, s, on)
    PROVE  TypeOK'
BY DEF SetQuota, QuotaRows, TypeOK, Owners, people, PermsFor

(* The steps that take no grant on the cluster away and touch no quota.    *)
LEMMA FoundedKept ==
    ASSUME QuotasFounded, quotas' \ unfounded' \subseteq quotas \ unfounded,
           \A s \in quotas' \ unfounded' : Own(s, Cluster) \subseteq Own(s, Cluster)'
    PROVE  QuotasFounded'
BY DEF QuotasFounded

(* Who loses his last permission on the cluster loses his quota with it.   *)
LEMMA SetPermsFounded ==
    ASSUME IInv, NEW e, NEW s, NEW o, NEW perms, SetPerms(e, s, o, perms)
    PROVE  QuotasFounded'
<1>1. ASSUME NEW r \in quotas' \ unfounded' PROVE Own(r, Cluster)' # {}
  <2>1. r \in quotas \ unfounded /\ Own(r, Cluster) # {}
    BY <1>1 DEF SetPerms, QuotasAfter, IInv, QuotasFounded
  <2>2. CASE o = Cluster /\ r = s
    <3>1. perms # {} BY <2>2, <1>1 DEF SetPerms, QuotasAfter
    <3>2. PICK p \in perms : TRUE BY <3>1
    <3>3. <<s, p, o>> \in grants' BY DEF SetPerms
    <3>4. <<s, p, o>>[2] \in Own(r, Cluster)' BY <2>2, <3>3 DEF Own
    <3> QED BY <3>4
  <2>3. CASE ~(o = Cluster /\ r = s)
    <3>1. PICK t \in grants : t[1] = r /\ t[3] = Cluster BY <2>1 DEF Own
    <3>2. t \in grants' BY <2>3, <3>1 DEF SetPerms
    <3> QED BY <3>1, <3>2 DEF Own
  <2> QED BY <2>2, <2>3
<1> QED BY <1>1 DEF QuotasFounded

LEMMA SetQuotaFounded ==
    ASSUME IInv, NEW e, NEW s, NEW on \in BOOLEAN, SetQuota(e, s, on)
    PROVE  QuotasFounded'
BY DEF SetQuota, QuotaRows, IInv, QuotasFounded, Own

(* What is deleted is no cluster, and takes its quota along.               *)
LEMMA ForgetFounded ==
    ASSUME IInv, NEW s \in User \cup Group, Forget(s)
    PROVE  QuotasFounded'
<1>1. quotas' \ unfounded' \subseteq (quotas \ unfounded) \ {s} BY DEF Forget
<1>2. \A r \in quotas' \ unfounded' : Own(r, Cluster) \subseteq Own(r, Cluster)'
  BY <1>1 DEF Own, Forget
<1> QED BY <1>1, <1>2, FoundedKept DEF IInv

LEMMA VMFounded ==
    ASSUME IInv, NEW e, NEW s, NEW v \in VM,
           CreateVM(e, s, v) \/ ImportVM(e, s, v) \/ Reparent(e, s, v) \/ RemoveVM(e, v)
    PROVE  QuotasFounded'
<1>1. UNCHANGED <<quotas, unfounded>> BY DEF CreateVM, ImportVM, Reparent, RemoveVM
<1>2. \A t \in grants : t[3] = Cluster => t \in grants' BY DEF CreateVM, ImportVM, Reparent, RemoveVM
<1>3. \A r : Own(r, Cluster) \subseteq Own(r, Cluster)' BY <1>2 DEF Own
<1> QED BY <1>1, <1>3, FoundedKept DEF IInv

LEMMA UserFounded ==
    ASSUME IInv, NEW e, NEW u, NEW isSuper,
           AddUser(e, u) \/ EditUser(e, u, isSuper)
    PROVE  QuotasFounded'
<1>1. UNCHANGED <<quotas, unfounded>> BY DEF AddUser, EditUser
<1>2. \A t \in grants : t[3] = Cluster => t \in grants' BY DEF AddUser, EditUser
<1>3. \A r : Own(r, Cluster) \subseteq Own(r, Cluster)' BY <1>2 DEF Own
<1> QED BY <1>1, <1>3, FoundedKept DEF IInv

LEMMA GroupFounded ==
    ASSUME IInv, NEW e, NEW g \in Group, NEW u,
           AddGroup(e, g) \/ AddMember(e, g, u) \/ RemoveMember(e, g, u)
    PROVE  QuotasFounded'
<1>1. UNCHANGED <<quotas, unfounded>> BY DEF AddGroup, AddMember, RemoveMember
<1>2. \A t \in grants : t[3] = Cluster => t \in grants' BY DEF AddGroup, AddMember, RemoveMember
<1>3. \A r : Own(r, Cluster) \subseteq Own(r, Cluster)' BY <1>2 DEF Own
<1> QED BY <1>1, <1>3, FoundedKept DEF IInv

LEMMA Step == IInv /\ [Next]_vars => IInv'
<1> SUFFICES ASSUME IInv, [Next]_vars PROVE IInv' OBVIOUS
<1>1. TypeOK BY DEF IInv
<1>2. CASE UNCHANGED vars
  BY <1>2 DEF vars, people, IInv, TypeOK, QuotasFounded, Owners, PermsFor, Own
<1>3. ASSUME NEW e \in Editors, NEW s \in Owners, NEW o \in {Cluster} \cup groups \cup VM,
             NEW perms \in SUBSET PermsFor(o), SetPerms(e, s, o, perms)
      PROVE  IInv'
  BY <1>1, <1>3, SetPermsTypes, SetPermsFounded DEF IInv
<1>4. ASSUME NEW e \in Editors, NEW s \in Owners, NEW on \in BOOLEAN, SetQuota(e, s, on)
      PROVE  IInv'
  BY <1>1, <1>4, QuotaTypes, SetQuotaFounded DEF IInv
<1>5. ASSUME NEW e \in Editors, NEW s \in Owners \cup {Nobody}, NEW v \in VM,
             CreateVM(e, s, v) \/ ImportVM(e, s, v) \/ Reparent(e, s, v)
      PROVE  IInv'
  <2>1. TypeOK' BY <1>1, <1>5, CreateTypes, VMTypes
  <2>2. QuotasFounded' BY <1>5, VMFounded
  <2> QED BY <2>1, <2>2 DEF IInv
<1>6. ASSUME NEW e \in Editors, NEW v \in VM, RemoveVM(e, v) PROVE IInv'
  <2>1. QuotasFounded' BY <1>6, VMFounded
  <2> QED BY <1>1, <1>6, <2>1, RemoveTypes DEF IInv
<1>7. ASSUME NEW e \in Editors, NEW u \in User, AddUser(e, u) \/ \E b \in BOOLEAN : EditUser(e, u, b)
      PROVE  IInv'
  <2>1. QuotasFounded' BY <1>7, UserFounded
  <2> QED BY <1>1, <1>7, <2>1, UserTypes DEF IInv
<1>8. ASSUME NEW e \in Editors, NEW u \in User, DeleteUser(e, u) PROVE IInv'
  BY <1>1, <1>8, DeleteUserTypes, ForgetFounded DEF IInv, DeleteUser
<1>9. ASSUME NEW e \in Editors, NEW g \in Group, DeleteGroup(e, g) PROVE IInv'
  BY <1>1, <1>9, DeleteGroupTypes, ForgetFounded DEF IInv, DeleteGroup
<1>10. ASSUME NEW e \in Editors, NEW g \in Group, NEW u,
              AddGroup(e, g) \/ AddMember(e, g, u) \/ RemoveMember(e, g, u)
       PROVE  IInv'
  <2>1. QuotasFounded' BY <1>10, GroupFounded
  <2> QED BY <1>1, <1>10, <2>1, GroupTypes DEF IInv
<1>11. ASSUME NEW e \in Editors, NEW g \in Group, AddGroup(e, g) PROVE IInv'
  BY <1>10, <1>11
<1> QED BY <1>2, <1>3, <1>4, <1>5, <1>6, <1>7, <1>8, <1>9, <1>10, <1>11 DEF Next

(* Every state is well typed: grants are to users and groups that exist,   *)
(* on objects that exist, and of permissions these have.                   *)
THEOREM TypeCorrect == Spec => []TypeOK
<1>1. IInv => TypeOK BY DEF IInv
<1> QED BY InitInv, Step, <1>1, PTL DEF Spec


----------------------------------------------------------------------------
(* What a group holds, its members hold. *)
LEMMA OwnPerms ==
    ASSUME NEW u, NEW o
    PROVE  /\ Own(u, o) \subseteq GetPerms(u, o)
           /\ \A g \in GroupsOf(u) : Own(g, o) \subseteq GetPerms(u, o)
BY DEF GetPerms

LEMMA HasGroup ==
    ASSUME NEW u, NEW o, NEW perms, GetPerms(u, o) \cap perms # {}
    PROVE  \E s \in {u} \cup GroupsOf(u) : Own(s, o) \cap perms # {}
BY DEF GetPerms

(* Permissions on an object are among those it has. *)
LEMMA PermTypes ==
    ASSUME TypeOK, NEW u, NEW o
    PROVE  GetPerms(u, o) \subseteq PermsFor(o)
BY GrantTypes DEF GetPerms

LEMMA QuotaIsShown == IInv => QuotaShown
<1> SUFFICES ASSUME IInv, NEW u \in users, NEW s \in Personas(u)
             PROVE  /\ MaySeeResources(u, s)
                    /\ s \notin unfounded => QuotaOnPage(s) = GetQuota(s)
  BY DEF QuotaShown
<1>1. s = u \/ s \in GroupsOf(u) BY DEF Personas
<1>2. MaySeeResources(u, s) BY <1>1 DEF MaySeeResources, GroupsOf
<1>3. ASSUME s \in quotas \ unfounded PROVE Cluster \in Permitted(s)
  BY <1>3, OwnPerms DEF IInv, QuotasFounded, Permitted
<1>4. ASSUME Cluster \in Permitted(s) PROVE QuotaOnPage(s) = GetQuota(s)
  BY <1>4 DEF QuotaOnPage, GetQuotas, GetQuota
<1>5. ASSUME s \notin quotas PROVE QuotaOnPage(s) = GetQuota(s)
  BY <1>4, <1>5 DEF QuotaOnPage, GetQuota
<1> QED BY <1>2, <1>3, <1>4, <1>5

(* "the quota that the overview shows ... is the one that start-ups and    *)
(* modifications are checked against": however permissions, members and    *)
(* quotas were changed before (overview, get_quotas, recv_user_remove).    *)
THEOREM ShownQuotaEnforced == Spec => []QuotaShown
BY InitInv, Step, QuotaIsShown, PTL DEF Spec

LEMMA VMPages ==
    ASSUME TypeOK, NEW e \in Editors, NEW v \in VM, owner[v] # NoVM
    PROVE  VMPagesShown(e, v)
<1>1. GetPerms(e, v) \subseteq VMPerm BY PermTypes DEF PermsFor
<1>2. \A op : May(e, op, v) => Listed(e, v) /\ Shown(e, op, v)
  BY <1>1 DEF May, Has, Listed, Shown, ClusterAdmin
<1>3. May(e, "admin", v) => SeesErrors(e, v) /\ MayListVMs(e) /\ ShowsVMs(e)
  BY DEF May, Has, SeesErrors, AdminListed, MayListVMs, ShowsVMs, CanCreate, ClusterAdmin
<1>4. AdminListed(e, v) => MayClearJob(e, v)
  BY DEF AdminListed, MayClearJob, Has, ClusterAdmin
<1> QED BY <1>2, <1>3, <1>4
        DEF VMPagesShown, MayPower, MayReboot, MayReinstall, MayAdminister

LEMMA ClusterPages == ASSUME NEW e PROVE ClusterPagesShown(e) /\ CreateIsOffered(e)
BY DEF ClusterPagesShown, CreateIsOffered, MayListJobs, MayUseTemplates, MayManageCluster,
       MayReadLog, ClustersListed, MenuCreate, CreateButton, MenuOfAdmins, MayUseNode, NodeShown,
       MenuClusters, MayMigrate, MayReplaceDisks, CanCreate, Offered, Has, ClusterAdmin

LEMMA MayShown == TypeOK => MayIsShown
<1> SUFFICES ASSUME TypeOK, NEW e \in Editors
             PROVE  /\ \A v \in VM : owner[v] # NoVM => VMPagesShown(e, v)
                    /\ ClusterPagesShown(e) /\ CreateIsOffered(e)
                    /\ \A g \in Group : MayUseGroup(e, g) => g \in GroupsListed(e)
  BY DEF MayIsShown
<1>1. \A g \in Group : MayUseGroup(e, g) => g \in GroupsListed(e)
  BY DEF MayUseGroup, GroupsListed
<1> QED BY <1>1, VMPages, ClusterPages

(* Whoever may use a page finds the way to it, whatever he and his groups  *)
(* hold on the VM and the cluster (the guards of the views against the     *)
(* queries of the lists and the flags of the detail pages).                *)
THEOREM MayAlwaysShown == Spec => []MayIsShown
BY TypeCorrect, MayShown, PTL

LEMMA KeysAreOfAdmins == TypeOK => KeysOfAdmins
<1> SUFFICES ASSUME TypeOK, NEW v \in VM, NEW u \in KeysOfVM(v)
             PROVE  MayAdminister(u, v) /\ u \in KeysOfCluster
  BY DEF KeysOfAdmins
<1>1. CASE u \in super
  BY <1>1 DEF MayAdminister, May, Has, IsSuper, KeysOfCluster
<1>2. CASE u \in users /\ "admin" \in GetPerms(u, v)
  BY <1>2 DEF MayAdminister, May, Has, KeysOfCluster
<1> QED BY <1>1, <1>2 DEF KeysOfVM

(* The keys that open a VM are those of people who may administer it       *)
(* (ssh_keys of a VM and of a cluster), and no one else's ever after.      *)
THEOREM KeysAlwaysOfAdmins == Spec => []KeysOfAdmins
BY TypeCorrect, KeysAreOfAdmins, PTL

LEMMA OwnersToChoose == TypeOK => OwnerToChoose
<1> SUFFICES ASSUME NEW e \in Editors, Offered(e), Owners # {} PROVE OwnerQs(e) # {}
  BY DEF OwnerToChoose
<1>1. CASE IsSuper(e) BY <1>1 DEF OwnerQs
<1>2. CASE ~IsSuper(e)
  <2>1. PICK s \in {e} \cup GroupsOf(e) : Own(s, Cluster) \cap {"admin", "create_vm"} # {}
    BY <1>2, HasGroup DEF Offered, Has
  <2> QED BY <1>2, <2>1 DEF OwnerQs, AdminGroups
<1> QED BY <1>1, <1>2

(* Who is offered the cluster by the wizard has an owner to choose         *)
(* (cluster_qs_for_user against owner_qs).                                 *)
THEOREM AlwaysOwnerToChoose == Spec => []OwnerToChoose
BY TypeCorrect, OwnersToChoose, PTL

(* The owner's new grant reaches whoever may choose that owner. *)
LEMMA CreatorsManage ==
    ASSUME TypeOK, NEW e \in Editors, NEW s \in Owners, NEW v \in VM, CreateVM(e, s, v)
    PROVE  May(e, "admin", v)'
<1>1. UNCHANGED <<users, super, groups, members>> BY DEF CreateVM, people
<1>2. CASE IsSuper(e) BY <1>1, <1>2 DEF May, Has, IsSuper
<1>3. CASE ~IsSuper(e)
  <2>1. s \in {e} \cup GroupsOf(e) BY <1>3 DEF CreateVM, OwnerQs, AdminGroups
  <2>2. s \in {e} \cup GroupsOf(e)' BY <1>1, <2>1 DEF GroupsOf
  <2>3. <<s, "admin", v>> \in grants' BY DEF CreateVM
  <2>4. <<s, "admin", v>>[2] \in Own(s, v)' BY <2>3 DEF Own
  <2>5. "admin" \in GetPerms(e, v)' BY <2>2, <2>4 DEF GetPerms
  <2> QED BY <2>5 DEF May, Has
<1> QED BY <1>2, <1>3

(* Who creates a VM may administer it, whatever owner he chose (the grant  *)
(* at the end of template_to_instance against the guards of the views).    *)
THEOREM CreatorAlwaysManages == Spec => CreatorManages
<1>1. TypeOK => \A e \in Editors, s \in Owners, v \in VM :
                    CreateVM(e, s, v) => May(e, "admin", v)'
  BY CreatorsManage
<1> QED BY <1>1, TypeCorrect, PTL DEF CreatorManages
=============================================================================
