------------------------------ MODULE VMWizard ------------------------------
(***************************************************************************)
(* The wizard that creates virtual machines and templates of them          *)
(* (virtualmachines/forms.py), and the other ways from a template to a VM  *)
(* and back (vm_templates/views.py, ganeti_web/backend/templates.py).      *)
(*                                                                         *)
(* The wizard keeps what was posted, page by page, in one cookie, which    *)
(* all tabs of the browser share: a page may be posted at any time, from   *)
(* any tab, again, and in any order, and each is checked against what the  *)
(* others hold by then.  There is one host name and one template name.     *)
(* Kept of the values: the cluster, what is to be made, whether Ganeti     *)
(* allocates the nodes, whether the disks are replicated, the nodes, the   *)
(* hypervisor, and which fields of its page are filled.                    *)
(* The other fields are validated on their own and handed on.              *)
(***************************************************************************)
EXTENDS Naturals, FiniteSets

CONSTANTS Cluster, Node, NodesOf, NoCluster, NoNode,
          Allocating,   \* the clusters that have a default_iallocator
          HvsOf,        \* enabled_hypervisors
          VersionOf,    \* software_version: three numbers, or none that can be read
          Filled,       \* bound: the fields of the page of the hypervisor one fills
          Changing      \* bound: the clusters whose grants and names change

Hypervisor == {"kvm", "xen-pvm", "xen-hvm"}
NoHv == "none"

(* devices: the types of disks and NICs; boots_cdrom: boot_order is cdrom,  *)
(* which only KVM offers.                                                  *)
HvField == {"kernel_path", "root_path", "devices", "boots_cdrom", "cdrom_image",
            "cdrom2_image"}

ASSUME NodeAssumption == /\ NodesOf \in [Cluster -> SUBSET Node]
                         /\ Allocating \subseteq Cluster
                         /\ HvsOf \in [Cluster -> SUBSET Hypervisor]
                         /\ Filled \subseteq SUBSET HvField
                         /\ Changing \subseteq Cluster
                         /\ NoCluster \notin Cluster
                         /\ NoNode \notin Node

VARIABLES allowed,     \* the clusters that the user may create VMs on
          taken,       \* the clusters on which the host name is in use
          template,    \* the stored template
          started,     \* the cookie has a current step
          page,        \* the cookie: what was posted, page by page
          sent         \* the CreateInstance of the last step, if any

world == <<allowed, taken>>
wizard == <<started, page>>
vars == <<world, template, wizard, sent>>

Option == {"template_name", "hostname"}

(* origin: who wrote it, the wizard or instance_to_template.               *)
Template == [cluster : Cluster, drbd : BOOLEAN, alloc : BOOLEAN,
             pnode : Node \cup {NoNode}, snode : Node \cup {NoNode},
             hv : Hypervisor \cup {NoHv}, hvparams : SUBSET HvField,
             origin : {"wizard", "vm"}]
NoTemplate == [cluster |-> NoCluster]

Pages == [cluster  : [posted : BOOLEAN, cluster : Cluster \cup {NoCluster}, choices : SUBSET Option],
          owner    : [posted : BOOLEAN, named : SUBSET Option],
          basics   : [posted : BOOLEAN, alloc : BOOLEAN, drbd : BOOLEAN,
                      hv : Hypervisor \cup {NoHv}],
          advanced : [posted : BOOLEAN, pnode : Node \cup {NoNode}, snode : Node \cup {NoNode}],
          hv       : [posted : BOOLEAN, fields : SUBSET HvField]]
Blank == [cluster  |-> [posted |-> FALSE, cluster |-> NoCluster, choices |-> {}],
          owner    |-> [posted |-> FALSE, named |-> {}],
          basics   |-> [posted |-> FALSE, alloc |-> FALSE, drbd |-> FALSE, hv |-> NoHv],
          advanced |-> [posted |-> FALSE, pnode |-> NoNode, snode |-> NoNode],
          hv       |-> [posted |-> FALSE, fields |-> {}]]

TypeOK == /\ allowed \subseteq Cluster /\ taken \subseteq Cluster
          /\ template \in Template \cup {NoTemplate}
          /\ started \in BOOLEAN
          /\ page \in Pages
          /\ sent \in Template \cup {NoTemplate}

Init == /\ allowed = Cluster
        /\ taken = {}
        /\ template = NoTemplate
        /\ started = FALSE
        /\ page = Blank
        /\ sent = NoTemplate

----------------------------------------------------------------------------
(* What the pages hold, each validated when it is read.                    *)

(* Mutated form of ClusterValid: any cluster passes when validated again. *)
ClusterValid_Posted == page.cluster.posted

(* clean_cluster(), over the clusters of cluster_qs_for_user().            *)
ClusterValid == page.cluster.posted /\ page.cluster.cluster \in allowed

GetCluster == IF ClusterValid THEN page.cluster.cluster ELSE NoCluster

(* Without a cluster the page of the basics has no hypervisors to choose.  *)
BasicsFit(hv) == GetCluster # NoCluster /\ hv \in HvsOf[GetCluster]
BasicsValid == page.basics.posted /\ BasicsFit(page.basics.hv)

(* The field is removed on a cluster that cannot allocate.                 *)
HasAllocField == GetCluster \in Allocating
GetIallocator == BasicsValid /\ HasAllocField /\ page.basics.alloc
GetDrbd == BasicsValid /\ page.basics.drbd
GetHv == IF BasicsValid THEN page.basics.hv ELSE NoHv

(* owner_qs() has the user as an owner, on a cluster that is allowed;      *)
(* clean_hostname() looks the name up.                                     *)
OwnerFits(named) == named # {} /\ ("hostname" \in named => GetCluster \notin taken)
OwnerValid == page.owner.posted /\ OwnerFits(page.owner.named)

(* Mutated form of NodeChoices: nodes of other clusters are offered. *)
NodeChoices_All == Node

NodeChoices == IF GetCluster = NoCluster THEN Node ELSE NodesOf[GetCluster]

(* The node fields are gone when Ganeti allocates, and the secondary one   *)
(* when the disks are not replicated.                                      *)
AdvancedFits(p, s) ==
    \/ GetIallocator
    \/ p \in NodeChoices /\ (GetDrbd => s \in NodeChoices \ {p})
AdvancedValid == page.advanced.posted /\ AdvancedFits(page.advanced.pnode, page.advanced.snode)

(* classify() of a cluster: how many of the versions it has reached (caps). *)
Reached(version, least) ==
    \/ version[1] > least[1]
    \/ version[1] = least[1] /\ version[2] > least[2]
    \/ version[1] = least[1] /\ version[2] = least[2] /\ version[3] >= least[3]

Versions == {<<2, 2, 0>>, <<2, 3, 0>>, <<2, 4, 0>>, <<2, 4, 2>>, <<2, 5, 0>>, <<2, 6, 0>>,
             <<2, 7, 0>>}
ANCIENT == 0
GANETI242 == 4

Classify(c) == IF VersionOf[c] = <<>> THEN ANCIENT
               ELSE Cardinality({least \in Versions : Reached(VersionOf[c], least)})

HasCdrom2(c) == Classify(c) >= GANETI242

(* The page of the hypervisor: VMWizardPVMForm, HVMForm and KVMForm.  The  *)
(* kernel is optional for KVM, and booting from CD-ROM needs an image.     *)
(* Until a hypervisor is chosen the page has no fields, and is good.       *)
FieldsOf(hv, c) == CASE hv = "xen-pvm" -> {"kernel_path", "root_path"}
                     [] hv = "xen-hvm" -> {"devices", "cdrom_image"}
                     [] hv = "kvm" -> IF HasCdrom2(c) THEN HvField
                                      ELSE HvField \ {"cdrom2_image"}
                     [] OTHER -> {}

PVMFits(fields) == {"kernel_path", "root_path"} \subseteq fields
HVMFits(fields) == "devices" \in fields /\ "boots_cdrom" \notin fields
KVMFits(fields) == /\ {"root_path", "devices"} \subseteq fields
                   /\ "boots_cdrom" \in fields => "cdrom_image" \in fields

HvFits(hv, fields) == \/ hv = NoHv
                      \/ hv = "xen-pvm" /\ PVMFits(fields)
                      \/ hv = "xen-hvm" /\ HVMFits(fields)
                      \/ hv = "kvm" /\ KVMFits(fields)

(* Mutated form of HvValid: the page is good for the hypervisor it was     *)
(* posted for. *)
HvValid_Posted == page.hv.posted

HvValid == page.hv.posted /\ HvFits(GetHv, page.hv.fields)

----------------------------------------------------------------------------
(* The requests of the wizard.                                             *)

Quiet == sent' = NoTemplate

(* PermissionRequiredMixin: some cluster is allowed.                       *)
Entered == allowed # {}

(* GET of any of its addresses: the cookie is reset.                       *)
Open ==
    /\ Entered
    /\ started' = TRUE /\ page' = Blank
    /\ Quiet /\ UNCHANGED <<world, template>>

(* A page that is not valid is shown again; after a reset without a GET    *)
(* every page is taken for the first, and only that one is valid.          *)
Store(pages) ==
    /\ Entered
    /\ started' = TRUE
    /\ page' = pages
    /\ Quiet /\ UNCHANGED <<world, template>>

PostCluster(c, choices) ==
    /\ c \in allowed /\ choices # {}
    /\ Store([page EXCEPT !.cluster = [posted |-> TRUE, cluster |-> c, choices |-> choices]])

(* clean_hostname() of a page without a cluster raises AttributeError.     *)
PostOwner(named) ==
    /\ started
    /\ OwnerFits(named)
    /\ GetCluster = NoCluster => "hostname" \notin named
    /\ Store([page EXCEPT !.owner = [posted |-> TRUE, named |-> named]])

PostBasics(alloc, drbd, hv) ==
    /\ started
    /\ BasicsFit(hv)
    /\ alloc => HasAllocField
    /\ Store([page EXCEPT !.basics = [posted |-> TRUE, alloc |-> alloc, drbd |-> drbd, hv |-> hv]])

PostAdvanced(p, s) ==
    /\ started
    /\ AdvancedFits(p, s)
    /\ GetIallocator => p = NoNode
    /\ ~GetDrbd \/ GetIallocator => s = NoNode
    /\ Store([page EXCEPT !.advanced = [posted |-> TRUE, pnode |-> p, snode |-> s]])

(* The fields may be those of another hypervisor's page, in an older tab.  *)
PostHv(fields) ==
    /\ started
    /\ HvFits(GetHv, fields)
    /\ Store([page EXCEPT !.hv = [posted |-> TRUE, fields |-> fields]])

(* Mutated form of Wanted: what was typed before its box was unchecked     *)
(* counts.                                                                 *)
Wanted_Typed(option) == option \in page.owner.named

Wanted(option) == option \in page.owner.named /\ option \in page.cluster.choices

(* done(): the fields are copied onto a new template, or onto the one that *)
(* is edited; those that were not asked for stay as they are.              *)
Built(base) ==
    [base EXCEPT !.cluster = GetCluster, !.drbd = GetDrbd, !.alloc = GetIallocator,
                 !.pnode = IF GetIallocator THEN @ ELSE page.advanced.pnode,
                 !.snode = IF GetDrbd /\ ~GetIallocator THEN page.advanced.snode ELSE @,
                 !.hv = GetHv, !.hvparams = page.hv.fields \cap FieldsOf(GetHv, GetCluster),
                 !.origin = "wizard"]

(* A template of an instance leaves the hypervisor to the cluster.         *)
NewTemplate(c) == [cluster |-> c, drbd |-> FALSE, alloc |-> FALSE,
                   pnode |-> NoNode, snode |-> NoNode,
                   hv |-> NoHv, hvparams |-> {}, origin |-> "vm"]

(* The last page: every page is validated again, and then done().  Where   *)
(* the allocator field was removed it raises KeyError, and nothing is      *)
(* made.  A new template must not have the name of one of its cluster.     *)
(* Bound: it waits until no template is stored.                            *)
Done(edit) ==
    /\ started
    /\ OwnerValid /\ BasicsValid /\ AdvancedValid /\ HvValid
    /\ HasAllocField
    /\ edit => template # NoTemplate
    /\ ~edit /\ Wanted("template_name") => template = NoTemplate
    /\ LET built == Built(IF edit THEN template ELSE NewTemplate(GetCluster))
       IN  /\ template' = IF Wanted("template_name") THEN built ELSE template
           /\ sent' = IF Wanted("hostname") THEN built ELSE NoTemplate
    /\ taken' = IF Wanted("hostname") THEN taken \cup {GetCluster} ELSE taken
    /\ started' = FALSE /\ page' = Blank
    /\ UNCHANGED <<allowed>>

----------------------------------------------------------------------------
(* The other pages of templates.  Not here: the copy under another name.   *)

(* VMInstanceFromTemplateView does not look the host name up: when it is   *)
(* in use the instance is asked for all the same, and no row is written.   *)
CreateFromTemplate ==
    /\ template # NoTemplate /\ template.cluster \in allowed
    /\ sent' = template
    /\ taken' = taken \cup {template.cluster}
    /\ UNCHANGED <<allowed, template, wizard>>

(* instance_to_template: the nodes of the VM are not copied.               *)
TemplateFromInstance(c, drbd) ==
    /\ c \in taken \cap allowed
    /\ template = NoTemplate
    /\ template' = [NewTemplate(c) EXCEPT !.drbd = drbd]
    /\ Quiet /\ UNCHANGED <<world, wizard>>

DeleteTemplate ==
    /\ template # NoTemplate /\ template.cluster \in allowed
    /\ template' = NoTemplate
    /\ Quiet /\ UNCHANGED <<world, wizard>>

----------------------------------------------------------------------------
(* The rest of the world.                                                  *)

SetAllowed(c) ==
    /\ c \in Changing
    /\ allowed' = IF c \in allowed THEN allowed \ {c} ELSE allowed \cup {c}
    /\ Quiet /\ UNCHANGED <<taken, template, wizard>>

SetTaken(c) ==
    /\ c \in Changing
    /\ taken' = IF c \in taken THEN taken \ {c} ELSE taken \cup {c}
    /\ Quiet /\ UNCHANGED <<allowed, template, wizard>>

Next ==
    \/ Open
    \/ \E c \in Cluster, choices \in SUBSET Option : PostCluster(c, choices)
    \/ \E named \in SUBSET Option : PostOwner(named)
    \/ \E alloc, drbd \in BOOLEAN, hv \in Hypervisor : PostBasics(alloc, drbd, hv)
    \/ \E fields \in Filled : PostHv(fields)
    \/ \E p, s \in Node \cup {NoNode} : PostAdvanced(p, s)
    \/ \E edit \in BOOLEAN : Done(edit)
    \/ CreateFromTemplate
    \/ \E c \in Cluster, drbd \in BOOLEAN : TemplateFromInstance(c, drbd)
    \/ DeleteTemplate
    \/ \E c \in Cluster : SetAllowed(c) \/ SetTaken(c)

Spec == Init /\ [][Next]_vars

----------------------------------------------------------------------------
Placed(r) == \/ r.alloc
             \/ /\ r.pnode \in NodesOf[r.cluster]
                /\ r.drbd => r.snode \in NodesOf[r.cluster] \ {r.pnode}

(* Whatever pages were posted in which order, from however many tabs, and  *)
(* whatever template was edited, what the wizard stores or submits names   *)
(* nodes of its own cluster, two different ones when the disks are         *)
(* replicated, unless Ganeti allocates them ("this shouldn't happen if     *)
(* form validation is done correctly", templates.py:142).                  *)
NodesFit == \A r \in {template, sent} \ {NoTemplate} : r.origin = "wizard" => Placed(r)

(* Whatever hypervisor the page of its parameters was filled in for, what  *)
(* the wizard makes has a hypervisor of its cluster, with the parameters   *)
(* that one needs, none of another's, and no second CD-ROM where the cluster   *)
(* is too old for it (get_form of step 4, forms.py:1230, and 1125: "if     *)
(* booting from CD-ROM, require the first CD-ROM image").                  *)
HypervisorFits ==
    \A r \in {template, sent} \ {NoTemplate} : r.origin = "wizard" =>
        /\ r.hv \in HvsOf[r.cluster]
        /\ HvFits(r.hv, r.hvparams) /\ r.hvparams \subseteq FieldsOf(r.hv, r.cluster)

(* "this fixes cases where the user checked a box in the beginning, put    *)
(* data into the input, and went back and unchecked that box later"        *)
(* (forms.py:1298): the wizard makes only what is checked when it is done. *)
OnlyAsked ==
    [][\A edit \in BOOLEAN : Done(edit) =>
         /\ sent' # NoTemplate => "hostname" \in page.cluster.choices
         /\ template' # template => "template_name" \in page.cluster.choices]_vars

(* An instance is only submitted for a cluster that the user may use by    *)
(* then, though it was chosen pages ago: the first page is validated again *)
(* over cluster_qs_for_user() whenever another one reads it.               *)
StillAllowed == sent # NoTemplate => sent.cluster \in allowed
=============================================================================
