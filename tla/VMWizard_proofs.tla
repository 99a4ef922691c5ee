-------------------------- MODULE VMWizard_proofs --------------------------
(***************************************************************************)
(* Theorems about the wizard, for any clusters, nodes and order of pages,  *)
(* and about the pages that modify a VM, for any values of their fields.   *)
(***************************************************************************)
EXTENDS VMWizard, ModifyPages, TLAPS

USE NodeAssumption

(* What the cookie and the templates hold has its type.                    *)
LEMMA BlankType == Blank \in Pages
BY DEF Blank, Pages

LEMMA BuiltType ==
    ASSUME TypeOK, OwnerValid, BasicsValid, AdvancedValid, NEW base \in Template
    PROVE  Built(base) \in Template
<1>1. GetCluster \in Cluster
  BY DEF BasicsValid, BasicsFit, GetCluster, ClusterValid, TypeOK, Pages
<1>4. GetHv \in Hypervisor \cup {NoHv} /\ page.hv.fields \cap FieldsOf(GetHv, GetCluster) \in SUBSET HvField
  BY DEF GetHv, TypeOK, Pages
<1>2. GetDrbd \in BOOLEAN /\ GetIallocator \in BOOLEAN
  BY DEF GetDrbd, GetIallocator, BasicsValid, HasAllocField, TypeOK, Pages
<1>3. page.advanced.pnode \in Node \cup {NoNode} /\ page.advanced.snode \in Node \cup {NoNode}
  BY DEF AdvancedValid, TypeOK, Pages
<1> QED BY <1>1, <1>2, <1>3, <1>4 DEF Built, Template

(* A page is stored in the place of the one before.                        *)
LEMMA StoreType ==
    ASSUME TypeOK, NEW cookie \in Pages, Store(cookie)
    PROVE  TypeOK' /\ sent' = NoTemplate /\ template' = template
BY DEF Store, TypeOK, Quiet, world

LEMMA PostClusterType ==
    ASSUME TypeOK, NEW c \in Cluster, NEW choices \in SUBSET Option, PostCluster(c, choices)
    PROVE  TypeOK' /\ sent' = NoTemplate /\ template' = template
<1> DEFINE cookie == [page EXCEPT !.cluster = [posted |-> TRUE, cluster |-> c, choices |-> choices]]
<1>1. cookie \in Pages
  BY DEF TypeOK, Pages
<1>2. Store(cookie)
  BY DEF PostCluster
<1> QED BY <1>1, <1>2, StoreType

LEMMA PostOwnerType ==
    ASSUME TypeOK, NEW named \in SUBSET Option, PostOwner(named)
    PROVE  TypeOK' /\ sent' = NoTemplate /\ template' = template
<1> DEFINE cookie == [page EXCEPT !.owner = [posted |-> TRUE, named |-> named]]
<1>1. cookie \in Pages
  BY DEF TypeOK, Pages
<1>2. Store(cookie)
  BY DEF PostOwner
<1> QED BY <1>1, <1>2, StoreType

LEMMA PostBasicsType ==
    ASSUME TypeOK, NEW alloc \in BOOLEAN, NEW drbd \in BOOLEAN, NEW hv \in Hypervisor,
           PostBasics(alloc, drbd, hv)
    PROVE  TypeOK' /\ sent' = NoTemplate /\ template' = template
<1> DEFINE cookie == [page EXCEPT !.basics = [posted |-> TRUE, alloc |-> alloc, drbd |-> drbd, hv |-> hv]]
<1>1. cookie \in Pages
  BY DEF TypeOK, Pages
<1>2. Store(cookie)
  BY DEF PostBasics
<1> QED BY <1>1, <1>2, StoreType

LEMMA PostAdvancedType ==
    ASSUME TypeOK, NEW p \in Node \cup {NoNode}, NEW s \in Node \cup {NoNode}, PostAdvanced(p, s)
    PROVE  TypeOK' /\ sent' = NoTemplate /\ template' = template
<1> DEFINE cookie == [page EXCEPT !.advanced = [posted |-> TRUE, pnode |-> p, snode |-> s]]
<1>1. cookie \in Pages
  BY DEF TypeOK, Pages
<1>2. Store(cookie)
  BY DEF PostAdvanced
<1> QED BY <1>1, <1>2, StoreType

LEMMA PostHvType ==
    ASSUME TypeOK, NEW fields \in Filled, PostHv(fields)
    PROVE  TypeOK' /\ sent' = NoTemplate /\ template' = template
<1> DEFINE cookie == [page EXCEPT !.hv = [posted |-> TRUE, fields |-> fields]]
<1>1. cookie \in Pages
  BY DEF TypeOK, Pages
<1>2. Store(cookie)
  BY DEF PostHv
<1> QED BY <1>1, <1>2, StoreType

(* No request but the last step of the wizard and the page of a template   *)
(* makes anything.                                                         *)
Posted == \/ Open
          \/ \E c \in Cluster, choices \in SUBSET Option : PostCluster(c, choices)
          \/ \E named \in SUBSET Option : PostOwner(named)
          \/ \E alloc, drbd \in BOOLEAN, hv \in Hypervisor : PostBasics(alloc, drbd, hv)
          \/ \E fields \in Filled : PostHv(fields)
          \/ \E p, s \in Node \cup {NoNode} : PostAdvanced(p, s)

LEMMA PostType ==
    ASSUME TypeOK, Posted
    PROVE  TypeOK' /\ sent' = NoTemplate /\ template' = template
<1>1. CASE Open
  BY <1>1, BlankType DEF Open, TypeOK, Quiet, world
<1>2. CASE \E c \in Cluster, choices \in SUBSET Option : PostCluster(c, choices)
  BY <1>2, PostClusterType
<1>3. CASE \E named \in SUBSET Option : PostOwner(named)
  BY <1>3, PostOwnerType
<1>4. CASE \E alloc, drbd \in BOOLEAN, hv \in Hypervisor : PostBasics(alloc, drbd, hv)
  BY <1>4, PostBasicsType
<1>5. CASE \E p, s \in Node \cup {NoNode} : PostAdvanced(p, s)
  BY <1>5, PostAdvancedType
<1>6. CASE \E fields \in Filled : PostHv(fields)
  BY <1>6, PostHvType
<1> QED BY <1>1, <1>2, <1>3, <1>4, <1>5, <1>6 DEF Posted

LEMMA NewType == \A c \in Cluster, drbd \in BOOLEAN :
    /\ NewTemplate(c) \in Template
    /\ [NewTemplate(c) EXCEPT !.drbd = drbd] \in Template
BY DEF NewTemplate, Template

LEMMA DoneType == ASSUME TypeOK, NEW edit \in BOOLEAN, Done(edit)  PROVE TypeOK'
<1>1. GetCluster \in Cluster
  BY DEF Done, BasicsValid, BasicsFit, GetCluster, ClusterValid, TypeOK, Pages
<1> DEFINE base == IF edit THEN template ELSE NewTemplate(GetCluster)
<1>2. base \in Template
  BY <1>1, NewType DEF Done, TypeOK
<1>3. Built(base) \in Template
  BY <1>2, BuiltType DEF Done
<1>4. template' \in Template \cup {NoTemplate} /\ sent' \in Template \cup {NoTemplate}
  BY <1>3 DEF Done, TypeOK
<1>5. page' \in Pages /\ started' \in BOOLEAN
  BY BlankType DEF Done
<1>6. taken' \subseteq Cluster /\ allowed' \subseteq Cluster
  BY <1>1 DEF Done, TypeOK
<1> QED BY <1>4, <1>5, <1>6 DEF TypeOK

Rest == \/ CreateFromTemplate
        \/ \E c \in Cluster, drbd \in BOOLEAN : TemplateFromInstance(c, drbd)
        \/ DeleteTemplate
        \/ \E c \in Cluster : SetAllowed(c) \/ SetTaken(c)

LEMMA RestType == ASSUME TypeOK, Rest  PROVE TypeOK'
<1> USE DEF Quiet, world, wizard
<1>1. CASE CreateFromTemplate
  <2>1. template \in Template
    BY <1>1 DEF CreateFromTemplate, TypeOK
  <2>2. template.cluster \in Cluster
    BY <2>1 DEF Template
  <2> QED BY <1>1, <2>1, <2>2 DEF CreateFromTemplate, TypeOK
<1>2. CASE \E c \in Cluster, drbd \in BOOLEAN : TemplateFromInstance(c, drbd)
  <2>1. PICK c \in Cluster, drbd \in BOOLEAN : TemplateFromInstance(c, drbd)
    BY <1>2
  <2>2. template' \in Template
    BY <2>1, NewType DEF TemplateFromInstance
  <2> QED BY <2>1, <2>2 DEF TemplateFromInstance, TypeOK
<1>3. CASE DeleteTemplate
  BY <1>3 DEF DeleteTemplate, TypeOK
<1>4. CASE \E c \in Cluster : SetAllowed(c) \/ SetTaken(c)
  BY <1>4 DEF SetAllowed, SetTaken, TypeOK
<1> QED BY <1>1, <1>2, <1>3, <1>4 DEF Rest

LEMMA NextCases == Next => Posted \/ (\E edit \in BOOLEAN : Done(edit)) \/ Rest
BY DEF Next, Posted, Rest

LEMMA TypeStep == TypeOK /\ [Next]_vars => TypeOK'
<1>1. ASSUME TypeOK, Next PROVE TypeOK'
  BY <1>1, NextCases, PostType, DoneType, RestType
<1>2. ASSUME TypeOK, UNCHANGED vars PROVE TypeOK'
  BY <1>2 DEF vars, world, wizard, TypeOK
<1> QED BY <1>1, <1>2

(* Whatever is posted in whatever order, the cookie and the templates hold *)
(* values of their kinds (the cookie of forms.py:640-1380).                 *)
THEOREM TypeCorrect == Spec => []TypeOK
<1>1. Init => TypeOK
  BY BlankType DEF Init, TypeOK
<1> QED BY <1>1, TypeStep, PTL DEF Spec

(* A built request names nodes of its cluster: each page was validated     *)
(* again, over the others as they are.                                     *)
LEMMA BuiltPlaced ==
    ASSUME TypeOK, OwnerValid, BasicsValid, AdvancedValid, NEW base \in Template
    PROVE  Placed(Built(base))
<1>1. GetCluster \in Cluster /\ GetCluster # NoCluster
  BY DEF BasicsValid, BasicsFit, GetCluster, ClusterValid, TypeOK, Pages
<1> DEFINE b == Built(base)
<1>2. /\ b.cluster = GetCluster /\ b.drbd = GetDrbd /\ b.alloc = GetIallocator
      /\ ~GetIallocator => b.pnode = page.advanced.pnode
      /\ GetDrbd /\ ~GetIallocator => b.snode = page.advanced.snode
  BY DEF Built, Template
<1>3. AdvancedFits(page.advanced.pnode, page.advanced.snode)
  BY DEF AdvancedValid
<1> QED BY <1>1, <1>2, <1>3 DEF Placed, AdvancedFits, NodeChoices

LEMMA PlacedStep == TypeOK /\ NodesFit /\ [Next]_vars => NodesFit'
<1> SUFFICES ASSUME TypeOK, NodesFit, [Next]_vars PROVE NodesFit'
  OBVIOUS
<1>1. CASE Posted
  <2>1. template' = template /\ sent' = NoTemplate
    BY <1>1, PostType
  <2> QED BY <2>1 DEF NodesFit, Placed
<1>2. CASE \E edit \in BOOLEAN : Done(edit)
  <2>1. PICK edit \in BOOLEAN : Done(edit)
    BY <1>2
  <2>2. GetCluster \in Cluster
    BY <2>1 DEF Done, BasicsValid, BasicsFit, GetCluster, ClusterValid, TypeOK, Pages
  <2> DEFINE base == IF edit THEN template ELSE NewTemplate(GetCluster)
  <2>3. base \in Template
    BY <2>1, <2>2, NewType DEF Done, TypeOK
  <2>4. Placed(Built(base))
    BY <2>1, <2>3, BuiltPlaced DEF Done
  <2>5. template' \in {template, Built(base)} /\ sent' \in {NoTemplate, Built(base)}
    BY <2>1 DEF Done
  <2> QED BY <2>4, <2>5 DEF NodesFit, Placed
<1>3. CASE Rest
  <2>2. CASE CreateFromTemplate
    BY <2>2 DEF CreateFromTemplate, NodesFit, Placed
  <2>3. CASE \E c \in Cluster, drbd \in BOOLEAN : TemplateFromInstance(c, drbd)
    <3>1. PICK c \in Cluster, drbd \in BOOLEAN : TemplateFromInstance(c, drbd)
      BY <2>3
    <3>2. template'.origin = "vm" /\ sent' = NoTemplate
      BY <3>1 DEF TemplateFromInstance, NewTemplate, Quiet
    <3> QED BY <3>2 DEF NodesFit
  <2>4. CASE DeleteTemplate
    BY <2>4 DEF DeleteTemplate, NodesFit, Quiet
  <2>5. CASE \E c \in Cluster : SetAllowed(c) \/ SetTaken(c)
    <3>1. template' = template /\ sent' = NoTemplate
      BY <2>5 DEF SetAllowed, SetTaken, Quiet
    <3> QED BY <3>1 DEF NodesFit, Placed
  <2> QED BY <1>3, <2>2, <2>3, <2>4, <2>5 DEF Rest
<1>4. CASE UNCHANGED vars
  BY <1>4 DEF vars, NodesFit, Placed
<1> QED BY <1>1, <1>2, <1>3, <1>4, NextCases

(* However many tabs post their pages in whatever order, what the wizard   *)
(* stores or submits names nodes of its own cluster (VMWizardView.done).   *)
THEOREM NodesFitHolds == Spec => []NodesFit
<1>1. Init => NodesFit
  BY DEF Init, NodesFit
<1>2. Spec => []TypeOK
  BY TypeCorrect
<1> QED BY <1>1, <1>2, PlacedStep, PTL DEF Spec

(* What is built has a hypervisor of its cluster and the parameters that   *)
(* one needs: the page was validated again for the hypervisor as it is.    *)
LEMMA BuiltFits ==
    ASSUME TypeOK, OwnerValid, BasicsValid, AdvancedValid, HvValid, NEW base \in Template
    PROVE  LET b == Built(base)
           IN  /\ b.hv \in HvsOf[b.cluster]
               /\ HvFits(b.hv, b.hvparams) /\ b.hvparams \subseteq FieldsOf(b.hv, b.cluster)
<1>1. GetCluster \in Cluster /\ GetHv \in HvsOf[GetCluster]
  BY DEF BasicsValid, BasicsFit, GetHv, GetCluster, ClusterValid, TypeOK, Pages
<1>2. GetHv \in Hypervisor
  BY <1>1
<1> DEFINE b == Built(base)
           fields == page.hv.fields \cap FieldsOf(GetHv, GetCluster)
<1>3. b.cluster = GetCluster /\ b.hv = GetHv /\ b.hvparams = fields
  BY DEF Built, Template
<1>4. HvFits(GetHv, page.hv.fields)
  BY DEF HvValid
<1>5. HvFits(GetHv, fields)
  <2>1. CASE GetHv = "xen-pvm"
    BY <1>4, <2>1 DEF HvFits, PVMFits, FieldsOf, NoHv
  <2>2. CASE GetHv = "xen-hvm"
    BY <1>4, <2>2 DEF HvFits, HVMFits, FieldsOf, NoHv
  <2>3. CASE GetHv = "kvm"
    BY <1>4, <2>3 DEF HvFits, KVMFits, FieldsOf, NoHv, HvField, TypeOK, Pages
  <2> QED BY <1>2, <2>1, <2>2, <2>3 DEF Hypervisor
<1> QED BY <1>1, <1>3, <1>5

LEMMA HypervisorStep == TypeOK /\ HypervisorFits /\ [Next]_vars => HypervisorFits'
<1> SUFFICES ASSUME TypeOK, HypervisorFits, [Next]_vars PROVE HypervisorFits'
  OBVIOUS
<1>1. CASE Posted
  <2>1. template' = template /\ sent' = NoTemplate
    BY <1>1, PostType
  <2> QED BY <2>1 DEF HypervisorFits
<1>2. CASE \E edit \in BOOLEAN : Done(edit)
  <2>1. PICK edit \in BOOLEAN : Done(edit)
    BY <1>2
  <2>2. GetCluster \in Cluster
    BY <2>1 DEF Done, BasicsValid, BasicsFit, GetCluster, ClusterValid, TypeOK, Pages
  <2> DEFINE base == IF edit THEN template ELSE NewTemplate(GetCluster)
             b == Built(base)
  <2>3. base \in Template
    BY <2>1, <2>2, NewType DEF Done, TypeOK
  <2>4. b.hv \in HvsOf[b.cluster] /\ HvFits(b.hv, b.hvparams) /\ b.hvparams \subseteq FieldsOf(b.hv, b.cluster)
    BY <2>1, <2>3, BuiltFits DEF Done
  <2>5. template' \in {template, b} /\ sent' \in {NoTemplate, b}
    BY <2>1 DEF Done
  <2> HIDE DEF b
  <2> QED BY <2>4, <2>5 DEF HypervisorFits
<1>3. CASE Rest
  <2>1. \A r \in {template', sent'} \ {NoTemplate} : r = template \/ r.origin = "vm"
    <3>1. CASE CreateFromTemplate
      BY <3>1 DEF CreateFromTemplate
    <3>2. CASE \E c \in Cluster, drbd \in BOOLEAN : TemplateFromInstance(c, drbd)
      BY <3>2 DEF TemplateFromInstance, NewTemplate, Quiet
    <3>3. CASE DeleteTemplate
      BY <3>3 DEF DeleteTemplate, Quiet
    <3>4. CASE \E c \in Cluster : SetAllowed(c) \/ SetTaken(c)
      BY <3>4 DEF SetAllowed, SetTaken, Quiet
    <3> QED BY <1>3, <3>1, <3>2, <3>3, <3>4 DEF Rest
  <2> QED BY <2>1 DEF HypervisorFits
<1>4. CASE UNCHANGED vars
  BY <1>4 DEF vars, HypervisorFits
<1> QED BY <1>1, <1>2, <1>3, <1>4, NextCases

(* However late the cluster or the hypervisor is changed, the parameters   *)
(* are those of the hypervisor (VMWizardView.get_form, step 4).            *)
THEOREM HypervisorFitsHolds == Spec => []HypervisorFits
<1>1. Init => HypervisorFits
  BY DEF Init, HypervisorFits
<1>2. Spec => []TypeOK
  BY TypeCorrect
<1> QED BY <1>1, <1>2, HypervisorStep, PTL DEF Spec

LEMMA AllowedStep == TypeOK /\ StillAllowed /\ [Next]_vars => StillAllowed'
<1> SUFFICES ASSUME TypeOK, StillAllowed, [Next]_vars PROVE StillAllowed'
  OBVIOUS
<1>1. CASE Posted
  BY <1>1, PostType DEF StillAllowed
<1>2. CASE \E edit \in BOOLEAN : Done(edit)
  <2>1. PICK edit \in BOOLEAN : Done(edit)
    BY <1>2
  <2>2. GetCluster \in allowed /\ allowed' = allowed
    BY <2>1 DEF Done, BasicsValid, BasicsFit, GetCluster, ClusterValid
  <2> DEFINE base == IF edit THEN template ELSE NewTemplate(GetCluster)
  <2>3. base \in Template
    BY <2>1, <2>2, NewType DEF Done, TypeOK
  <2>4. Built(base).cluster = GetCluster
    BY <2>3 DEF Built, Template
  <2>5. sent' \in {NoTemplate, Built(base)}
    BY <2>1 DEF Done
  <2> QED BY <2>2, <2>4, <2>5 DEF StillAllowed
<1>3. CASE Rest
  BY <1>3 DEF Rest, CreateFromTemplate, TemplateFromInstance, DeleteTemplate, SetAllowed,
              SetTaken, Quiet, StillAllowed
<1>4. CASE UNCHANGED vars
  BY <1>4 DEF vars, world, StillAllowed
<1> QED BY <1>1, <1>2, <1>3, <1>4, NextCases

(* A cluster chosen pages ago is no longer offered once the grant is gone  *)
(* (VMWizardClusterForm over cluster_qs_for_user).                         *)
THEOREM StillAllowedHolds == Spec => []StillAllowed
<1>1. Init => StillAllowed
  BY DEF Init, StillAllowed
<1>2. Spec => []TypeOK
  BY TypeCorrect
<1> QED BY <1>1, <1>2, AllowedStep, PTL DEF Spec

(* The boxes as they are when the wizard is done decide what is made       *)
(* (VMWizardView.done, forms.py:1298).                                     *)
THEOREM OnlyAskedHolds == Spec => OnlyAsked
<1> DEFINE Asked == \A edit \in BOOLEAN : Done(edit) =>
              /\ sent' # NoTemplate => "hostname" \in page.cluster.choices
              /\ template' # template => "template_name" \in page.cluster.choices
<1>1. [Next]_vars => [Asked]_vars
  BY DEF Done, Wanted
<1> QED BY <1>1, PTL DEF Spec, OnlyAsked

-----------------------------------------------------------------------------
(* The pages of a modification, and renaming.                              *)
USE NameAssumption

PageOK(shown) == shown \in [phase : {"form", "posted", "confirm"}, at : Name, of : VM] \cup {NoPage}

(* The steps of the pages leave the names alone, and those of the names    *)
(* the pages.                                                              *)
PageStep == \E t \in Tab : \/ \E v \in VM : OpenForm(t, v)
                           \/ PostForm(t) \/ ConfirmPage(t) \/ Confirm(t)
                           \/ Cancel(t) \/ Leave(t)
NameStep == \/ \E v \in VM, n \in Name : Rename(v, n)
            \/ \E i \in VM, success \in BOOLEAN : RenameEnds(i, success)

LEMMA PagesNextCases == EditNext => PageStep \/ NameStep
BY DEF EditNext, PageStep, NameStep

LEMMA PagesType == EditTypeOK /\ PageStep => EditTypeOK'
<1> SUFFICES ASSUME EditTypeOK, PageStep PROVE EditTypeOK'
  OBVIOUS
<1>1. PICK t \in Tab : \/ \E v \in VM : OpenForm(t, v)
                       \/ PostForm(t) \/ ConfirmPage(t) \/ Confirm(t)
                       \/ Cancel(t) \/ Leave(t)
  BY DEF PageStep
<1>2. PageOK(tab[t]) /\ PageOK(NoPage)
  BY DEF EditTypeOK, PageOK
<1>3. ASSUME NEW shown, PageOK(shown), Shows(t, shown) PROVE tab' \in [Tab -> [phase : {"form", "posted", "confirm"}, at : Name, of : VM] \cup {NoPage}]
  BY <1>3 DEF EditTypeOK, Shows, PageOK
<1>4. CASE \E v \in VM : OpenForm(t, v)
  <2>1. PICK v \in VM : OpenForm(t, v)
    BY <1>4
  <2>2. PageOK(Page("form", hostname[v], IF Prefilled(v) THEN session.of ELSE v))
    BY DEF PageOK, Page, Prefilled, EditTypeOK
  <2> QED BY <2>1, <2>2, <1>3 DEF OpenForm, EditTypeOK, names
<1>5. CASE PostForm(t)
  <2>1. tab[t].phase = "form"
    BY <1>5 DEF PostForm
  <2>2. tab[t] \in [phase : {"form", "posted", "confirm"}, at : Name, of : VM]
    BY <2>1, <1>2 DEF PageOK, NoPage
  <2>3. PageOK([tab[t] EXCEPT !.phase = "posted"])
    BY <2>2 DEF PageOK
  <2>4. session' \in [vm : VM, of : VM]
    BY <1>5, <2>2 DEF PostForm
  <2> QED BY <1>5, <2>3, <2>4, <1>3 DEF PostForm, EditTypeOK, names
<1>6. CASE ConfirmPage(t)
  <2>1. tab[t] \in [phase : {"form", "posted", "confirm"}, at : Name, of : VM]
    BY <1>6, <1>2 DEF PageOK, NoPage, ConfirmPage, Readable
  <2>2. session # NoEdit => PageOK(Page("confirm", tab[t].at, session.of))
    BY <2>1 DEF PageOK, Page, EditTypeOK
  <2>3. Shows(t, NoPage) \/ (session # NoEdit /\ Shows(t, Page("confirm", tab[t].at, session.of)))
    BY <1>6 DEF ConfirmPage, Readable
  <2>4. tab' \in [Tab -> [phase : {"form", "posted", "confirm"}, at : Name, of : VM] \cup {NoPage}]
    BY <2>2, <2>3, <1>2, <1>3
  <2> QED BY <1>6, <2>4 DEF ConfirmPage, Readable, EditTypeOK, names
<1>7. CASE Confirm(t)
  <2>1. tab[t] \in [phase : {"form", "posted", "confirm"}, at : Name, of : VM]
    BY <1>7, <1>2 DEF PageOK, NoPage, Confirm
  <2>2. modified' \in [vm : VM, of : VM]
    BY <1>7, <2>1 DEF Confirm
  <2>3. tab' \in [Tab -> [phase : {"form", "posted", "confirm"}, at : Name, of : VM] \cup {NoPage}]
    BY <1>7, <1>2, <1>3 DEF Confirm
  <2> QED BY <1>7, <2>2, <2>3 DEF Confirm, EditTypeOK, names
<1>8. CASE Cancel(t) \/ Leave(t)
  <2>1. tab' \in [Tab -> [phase : {"form", "posted", "confirm"}, at : Name, of : VM] \cup {NoPage}]
    BY <1>8, <1>2, <1>3 DEF Cancel, Leave
  <2> QED BY <1>8, <2>1 DEF Cancel, Leave, EditTypeOK, names
<1> QED BY <1>1, <1>4, <1>5, <1>6, <1>7, <1>8

LEMMA NamesType == EditTypeOK /\ NameStep => EditTypeOK'
<1>1. ASSUME EditTypeOK, NEW v \in VM, NEW n \in Name, Rename(v, n) PROVE EditTypeOK'
  BY <1>1 DEF Rename, Renamed, EditTypeOK
<1>2. ASSUME EditTypeOK, NEW i \in VM, NEW success \in BOOLEAN, RenameEnds(i, success) PROVE EditTypeOK'
  BY <1>2 DEF RenameEnds, EditTypeOK, pages
<1> QED BY <1>1, <1>2 DEF NameStep

LEMMA PagesTypeStep == EditTypeOK /\ [EditNext]_editVars => EditTypeOK'
<1>1. EditTypeOK /\ UNCHANGED editVars => EditTypeOK'
  BY DEF editVars, names, pages, EditTypeOK
<1> QED BY <1>1, PagesNextCases, PagesType, NamesType

(* Session, pages and names hold values of their kinds (views.py:655-890). *)
THEOREM PagesTypeCorrect == EditSpec => []EditTypeOK
<1>1. EditInit => EditTypeOK
  BY DEF EditInit, EditTypeOK
<1> QED BY <1>1, PagesTypeStep, PTL DEF EditSpec

----------------------------------------------------------------------------
(* The names of rows are unique.                                           *)
Unique == \A v, w \in VM : hostname[v] = hostname[w] => v = w

(* Without a failed rename, an instance has the name of its row, or is     *)
(* about to take it.                                                       *)
Follows ==
    ~failed => \A v \in VM : IF renaming[v] = NoName THEN inst[v] = hostname[v]
                                                     ELSE hostname[v] = renaming[v]

NamesInv == EditTypeOK /\ Unique /\ Follows

LEMMA FollowsReaches == NamesInv => ReachesOwnInstance
BY DEF NamesInv, Unique, Follows, ReachesOwnInstance, EditTypeOK

LEMMA NamesInvStep == NamesInv /\ [EditNext]_editVars => NamesInv'
<1> SUFFICES ASSUME NamesInv, [EditNext]_editVars PROVE NamesInv'
  OBVIOUS
<1>1. EditTypeOK'
  BY PagesTypeStep DEF NamesInv
<1>2. ASSUME UNCHANGED names PROVE Unique' /\ Follows'
  BY <1>2 DEF NamesInv, names, Unique, Follows
<1>3. CASE PageStep
  <2>1. UNCHANGED names
    BY <1>3 DEF PageStep, OpenForm, PostForm, ConfirmPage, Confirm, Cancel, Leave
  <2> QED BY <1>1, <1>2, <2>1 DEF NamesInv
<1>4. CASE \E v \in VM, n \in Name : Rename(v, n)
  <2>1. PICK v \in VM, n \in Name : Rename(v, n)
    BY <1>4
  <2>2. Unique'
    BY <2>1 DEF Rename, Renamed, At, NamesInv, Unique, EditTypeOK
  <2>3. ASSUME ~failed' PROVE \A w \in VM : IF renaming'[w] = NoName THEN inst'[w] = hostname'[w]
                                                                     ELSE hostname'[w] = renaming'[w]
    <3>1. /\ ~failed /\ hostname' = [hostname EXCEPT ![v] = n] /\ inst' = inst
          /\ \E i \in VM : inst[i] = hostname[v]
      BY <2>1, <2>3 DEF Rename, Renamed
    <3>2. \A i \in VM : inst[i] = hostname[v] => i = v
      BY <2>1, <3>1 DEF Rename, NamesInv, Follows, Unique, EditTypeOK
    <3>3. inst[v] = hostname[v]
      BY <3>1, <3>2
    <3>4. renaming' = [i \in VM |-> IF i = v THEN n ELSE renaming[i]]
      BY <2>1, <3>2, <3>3 DEF Rename
    <3> QED BY <3>1, <3>4 DEF NamesInv, Follows, EditTypeOK
  <2>4. Follows'
    BY <2>3 DEF Follows
  <2> QED BY <1>1, <2>2, <2>4 DEF NamesInv
<1>5. CASE \E i \in VM, success \in BOOLEAN : RenameEnds(i, success)
  <2>1. Unique' /\ Follows'
    BY <1>5 DEF RenameEnds, NamesInv, Unique, Follows, EditTypeOK
  <2> QED BY <1>1, <2>1 DEF NamesInv
<1>6. CASE UNCHANGED editVars
  BY <1>1, <1>2, <1>6 DEF NamesInv, editVars
<1> QED BY <1>3, <1>4, <1>5, <1>6, PagesNextCases DEF NameStep

(* Unless a rename failed, a request for a row reaches the instance of     *)
(* another one at most while that one's rename is pending (rename).        *)
THEOREM ReachesOwn == EditSpec => []ReachesOwnInstance
<1>1. EditInit => NamesInv
  BY DEF EditInit, NamesInv, EditTypeOK, Unique, Follows
<1> QED BY <1>1, NamesInvStep, FollowsReaches, PTL DEF EditSpec

----------------------------------------------------------------------------
(* As long as nothing crossed, all open pages are at one name; what they   *)
(* hold is of the VM at that name, and a page that was posted finds its    *)
(* own values in the session.                                              *)
OneEdit ==
    /\ \A s, t \in Tab : tab[s] # NoPage /\ tab[t] # NoPage => tab[s].at = tab[t].at
    /\ session # NoEdit => session.of = session.vm
    /\ \A t \in Tab, v \in VM :
         tab[t] # NoPage /\ At(tab[t].at, v) =>
            /\ tab[t].of = v
            /\ tab[t].phase # "form" /\ session # NoEdit => session.vm = v

PagesInv == EditTypeOK /\ Unique /\ (~crossed => OneEdit) /\ SentWasEntered

LEMMA PagesInvStep == PagesInv /\ Unique' /\ [EditNext]_editVars => PagesInv'
<1> SUFFICES ASSUME PagesInv, Unique', [EditNext]_editVars PROVE PagesInv'
  OBVIOUS
<1>1. EditTypeOK'
  BY PagesTypeStep DEF PagesInv
<1>2. ASSUME crossed' PROVE PagesInv'
  BY <1>1, <1>2 DEF PagesInv, SentWasEntered
<1> SUFFICES ASSUME ~crossed' PROVE OneEdit' /\ SentWasEntered'
  BY <1>1, <1>2 DEF PagesInv
<1>3. ASSUME NEW t \in Tab, NEW v \in VM, OpenForm(t, v) PROVE OneEdit' /\ SentWasEntered'
  <2>1. OneEdit /\ ~Crosses(t, v)
    BY <1>3 DEF OpenForm, PagesInv
  <2>2. tab' = [tab EXCEPT ![t] = Page("form", hostname[v], v)]
    BY <1>3, <2>1 DEF OpenForm, Shows, Prefilled, OneEdit
  <2>3. \A s \in Tab \ {t} : tab'[s] = tab[s] /\ (tab[s] # NoPage => tab[s].at = hostname[v])
    BY <2>1, <2>2 DEF Crosses, At, PagesInv, EditTypeOK
  <2>4. tab'[t].at = hostname[v] /\ tab'[t].of = v /\ tab'[t].phase = "form"
    BY <2>2 DEF Page, PagesInv, EditTypeOK
  <2>5. session' = session /\ hostname' = hostname /\ modified' = NoRequest
    BY <1>3 DEF OpenForm, names
  <2> QED BY <2>1, <2>3, <2>4, <2>5 DEF OneEdit, At, PagesInv, Unique, SentWasEntered, NoRequest
<1>4. ASSUME NEW t \in Tab, PostForm(t) PROVE OneEdit' /\ SentWasEntered'
  <2>1. OneEdit /\ tab[t].phase = "form"
    BY <1>4 DEF PostForm, PagesInv
  <2>2. tab[t] # NoPage
    BY <2>1 DEF NoPage
  <2>3. PICK v \in VM : At(tab[t].at, v) /\ session' = [vm |-> v, of |-> tab[t].of]
    BY <1>4 DEF PostForm
  <2>4. tab[t].of = v
    BY <2>1, <2>2, <2>3 DEF OneEdit
  <2>5. \A s \in Tab : /\ tab'[s] = NoPage <=> tab[s] = NoPage
                       /\ tab'[s].at = tab[s].at /\ tab'[s].of = tab[s].of
    <3>1. tab' = [tab EXCEPT ![t] = [tab[t] EXCEPT !.phase = "posted"]]
      BY <1>4 DEF PostForm, Shows
    <3>2. tab[t] \in [phase : {"form", "posted", "confirm"}, at : Name, of : VM]
      BY <2>2 DEF PagesInv, EditTypeOK
    <3> QED BY <2>2, <3>1, <3>2 DEF PagesInv, EditTypeOK, NoPage
  <2>6. hostname' = hostname /\ modified' = NoRequest
    BY <1>4 DEF PostForm, names
  <2>7. ASSUME NEW s \in Tab, NEW w \in VM, tab'[s] # NoPage, hostname'[w] = tab'[s].at
        PROVE tab'[s].of = w /\ w = v
    <3>1. tab[s] # NoPage /\ hostname[w] = tab[s].at
      BY <2>5, <2>6, <2>7
    <3>2. tab[s].at = tab[t].at
      BY <2>1, <2>2, <3>1 DEF OneEdit
    <3>3. w = v
      BY <2>3, <3>1, <3>2 DEF At, PagesInv, Unique
    <3>4. tab[s].of = w
      BY <2>1, <3>1 DEF OneEdit, At
    <3> QED BY <2>5, <3>3, <3>4
  <2>8. session'.of = v /\ session'.vm = v
    BY <2>3, <2>4
  <2>9. \A r, s \in Tab : tab'[r] # NoPage /\ tab'[s] # NoPage => tab'[r].at = tab'[s].at
    BY <2>1, <2>5 DEF OneEdit
  <2> QED BY <2>6, <2>7, <2>8, <2>9 DEF OneEdit, At, SentWasEntered, NoRequest
<1>5. ASSUME NEW t \in Tab, ConfirmPage(t) PROVE OneEdit' /\ SentWasEntered'
  <2>1. OneEdit /\ tab[t].phase \in {"posted", "confirm"}
    BY <1>5 DEF ConfirmPage, Readable, PagesInv
  <2>2. hostname' = hostname /\ session' = session /\ modified' = NoRequest
    BY <1>5 DEF ConfirmPage, Readable, names
  <2>3. tab[t] # NoPage
    BY <2>1 DEF NoPage
  <2>4. CASE Shows(t, NoPage)
    <3>1. \A s \in Tab : tab'[s] \in {tab[s], NoPage}
      BY <2>4 DEF Shows, PagesInv, EditTypeOK
    <3> QED BY <2>1, <2>2, <3>1 DEF OneEdit, At, SentWasEntered, NoRequest
  <2>5. CASE session # NoEdit /\ (\E v \in VM : At(tab[t].at, v)) /\ Shows(t, Page("confirm", tab[t].at, session.of))
    <3>1. PICK v \in VM : At(tab[t].at, v)
      BY <2>5
    <3>2. session.vm = v /\ session.of = v
      BY <2>1, <2>3, <2>5, <3>1 DEF OneEdit
    <3>3. /\ \A s \in Tab \ {t} : tab'[s] = tab[s]
          /\ tab'[t].at = tab[t].at /\ tab'[t].of = v
      BY <2>5, <3>2 DEF Shows, Page, PagesInv, EditTypeOK
    <3>4. \A w \in VM : At(tab[t].at, w) => w = v
      BY <3>1 DEF At, PagesInv, Unique
    <3> QED BY <2>1, <2>2, <2>3, <3>2, <3>3, <3>4 DEF OneEdit, At, SentWasEntered, NoRequest
  <2> QED BY <1>5, <2>4, <2>5 DEF ConfirmPage, Readable
<1>6. ASSUME NEW t \in Tab, Confirm(t) \/ Cancel(t) \/ Leave(t) PROVE OneEdit' /\ SentWasEntered'
  <2>1. OneEdit /\ crossed' = crossed
    BY <1>6 DEF Confirm, Cancel, Leave, PagesInv
  <2>2. hostname' = hostname /\ session' \in {session, NoEdit}
    BY <1>6 DEF Confirm, Cancel, Leave, names
  <2>3. \A s \in Tab : tab'[s] \in {tab[s], NoPage}
    BY <1>6 DEF Confirm, Cancel, Leave, Shows, PagesInv, EditTypeOK
  <2>4. OneEdit'
    BY <2>1, <2>2, <2>3 DEF OneEdit, At
  <2>5. CASE Confirm(t)
    <3>1. PICK v \in VM : At(tab[t].at, v) /\ modified' = [vm |-> v, of |-> tab[t].of]
      BY <2>5 DEF Confirm
    <3>2. tab[t] # NoPage
      BY <2>5 DEF Confirm, NoPage
    <3>3. tab[t].of = v
      BY <2>1, <3>1, <3>2 DEF OneEdit
    <3> QED BY <2>4, <3>1, <3>3 DEF SentWasEntered
  <2>6. CASE Cancel(t) \/ Leave(t)
    BY <2>4, <2>6 DEF Cancel, Leave, SentWasEntered, NoRequest
  <2> QED BY <1>6, <2>5, <2>6
<1>7. ASSUME NEW v \in VM, NEW n \in Name, Rename(v, n) PROVE OneEdit' /\ SentWasEntered'
  <2>1. OneEdit /\ \A t \in Tab : tab[t].at # n
    BY <1>7 DEF Rename, PagesInv
  <2>2. session' = session /\ tab' = tab /\ modified' = NoRequest
    BY <1>7 DEF Rename
  <2>3. \A t \in Tab, w \in VM : At(tab[t].at, w)' => At(tab[t].at, w)
    BY <1>7, <2>1, <2>2 DEF Rename, Renamed, At, PagesInv, EditTypeOK
  <2> QED BY <2>1, <2>2, <2>3 DEF OneEdit, SentWasEntered, NoRequest
<1>8. ASSUME NEW i \in VM, NEW success \in BOOLEAN, RenameEnds(i, success) PROVE OneEdit' /\ SentWasEntered'
  BY <1>8 DEF RenameEnds, pages, PagesInv, OneEdit, At, SentWasEntered, NoRequest
<1>9. CASE UNCHANGED editVars
  BY <1>9 DEF editVars, names, pages, PagesInv, OneEdit, At, SentWasEntered
<1> QED BY <1>3, <1>4, <1>5, <1>6, <1>7, <1>8, <1>9, PagesNextCases DEF PageStep, NameStep

(* However many tabs share the session, a modification has the values that *)
(* were entered for its VM, unless two edits crossed (modify_confirm).     *)
THEOREM SentEntered == EditSpec => []SentWasEntered
<1>1. ASSUME EditInit PROVE PagesInv /\ NamesInv
  <2>1. EditTypeOK
    BY <1>1 DEF EditInit, EditTypeOK
  <2>2. Unique
    BY <1>1 DEF EditInit, Unique
  <2>3. Follows
    BY <1>1 DEF EditInit, Follows
  <2>4. \A t \in Tab : tab[t] = NoPage
    BY <1>1 DEF EditInit
  <2>5. OneEdit /\ SentWasEntered
    BY <1>1, <2>4 DEF EditInit, OneEdit, SentWasEntered, NoRequest
  <2> QED BY <2>1, <2>2, <2>3, <2>5 DEF PagesInv, NamesInv
<1>2. NamesInv => Unique
  BY DEF NamesInv
<1>3. PagesInv => SentWasEntered
  BY DEF PagesInv
<1> QED BY <1>1, <1>2, <1>3, NamesInvStep, PagesInvStep, PTL DEF EditSpec

=============================================================================
