------------------------------- MODULE Quotas -------------------------------
(***************************************************************************)
(* Creating, starting, rebooting and modifying virtual machines, and the   *)
(* quota of their owner (virtualmachines/forms.py and views.py,            *)
(* ganeti_web/backend/templates.py, clusters/models.py,                    *)
(* authentication/models.py).                                              *)
(*                                                                         *)
(* One of the two resources that are checked, memory or virtual CPUs, is   *)
(* followed; the checks of the other can only refuse more.  Disks cannot   *)
(* be modified.  Bound: a job is pending from its submission to its end,   *)
(* at most one for each VM.  How rows track jobs is in VirtualMachineJobs, *)
(* and how the pages of a modification hand on its values in ModifyPages.  *)
(*                                                                         *)
(* The names of the specification begin with Quota: its proofs are in one  *)
(* module with those about GanetiErrors, which has names like them.        *)
(***************************************************************************)
EXTENDS Integers, FiniteSets

CONSTANTS VM, Owner,
          MaxSize,   \* bound: the largest size of an instance
          Limits     \* the limits an administrator may set

NoRow == "no row"
NoOwner == "nobody"
Default == "default"

ASSUME VMAssumption == IsFiniteSet(VM)
ASSUME SizeAssumption == MaxSize \in Nat \ {0} /\ Limits \subseteq Nat
ASSUME OwnerAssumption == {NoRow, NoOwner, Default} \cap Owner = {}

VARIABLES resource,  \* the resource that is followed: it does not change
          inst,      \* external: the instances
          job,       \* external: the job pending for each
          row,       \* the rows: what the last refresh parsed
          owner,     \* the owner column, or that there is no row
          quota,     \* the Quota rows and the quota columns of the cluster
          cause      \* history: an owner may be over the quota for a reason

ganeti == <<resource, inst, job>>
quotaVars == <<ganeti, row, owner, quota, cause>>

Size == 1 .. MaxSize
Unknown == -1         \* before the first refresh
None == -1            \* a limit that is not set
NoQuota == -2         \* no Quota row: the default applies
BareZero == -3        \* a Quota row that sets zero, and no other limit

Instance == [size : Size, running : BOOLEAN]
NoInstance == [size |-> 0, running |-> FALSE]
Row == [size : Size \cup {Unknown}, running : BOOLEAN]
NewRow(size) == [size |-> size, running |-> FALSE]

(* What a pending job gives an instance: a size, or 0, and whether it      *)
(* starts it.                                                              *)
Job == [size : Size \cup {0}, start : BOOLEAN]
NoJob == [size |-> 0, start |-> FALSE]
StartJob == [size |-> 0, start |-> TRUE]
ModifyJob(size) == [size |-> size, start |-> FALSE]
CreateJob(size, start) == [size |-> size, start |-> start]

QuotaTypeOK == /\ resource \in {"ram", "virtual_cpus"}
               /\ inst \in [VM -> Instance \cup {NoInstance}]
               /\ job \in [VM -> Job]
               /\ row \in [VM -> Row]
               /\ owner \in [VM -> Owner \cup {NoOwner, NoRow}]
               /\ quota \in [Owner \cup {Default} -> Limits \cup {None, NoQuota, BareZero}]
               /\ quota[Default] \notin {NoQuota, BareZero}
               /\ cause \in [Owner -> BOOLEAN]

(* Rows just imported, of instances that do not run, and names not taken.  *)
QuotaInit == /\ resource \in {"ram", "virtual_cpus"}
             /\ owner \in [VM -> Owner \cup {NoOwner, NoRow}]
             /\ inst = [v \in VM |-> IF owner[v] = NoRow THEN NoInstance
                                     ELSE [size |-> 1, running |-> FALSE]]
             /\ job = [v \in VM |-> NoJob]
             /\ row = [v \in VM |-> NewRow(Unknown)]
             /\ quota = [o \in Owner \cup {Default} |-> IF o = Default THEN None ELSE NoQuota]
             /\ cause = [o \in Owner |-> FALSE]

----------------------------------------------------------------------------
(* get_quota(), of the resource.                                           *)
GetQuota(o) == IF quota[o] = NoQuota THEN quota[Default] ELSE quota[o]

LimitOf(q) == IF q = BareZero THEN 0 ELSE q
Fits(total, q) == q = None \/ total <= LimitOf(q)

VMsOf(o) == {v \in VM : owner[v] = o}

(* The sum of the sizes of the VMs in S, as the number of the units that   *)
(* it counts.                                                              *)
Total(sizes, S) == Cardinality({u \in S \X Size : u[2] <= sizes[u[1]]})

RowSizes == [v \in VM |-> row[v].size]

(* Mutated form of UsedResources: the VMs that do not run are counted      *)
(* instead.                                                                *)
UsedResources_Stopped(o) ==
    Total(RowSizes, {v \in VMsOf(o) : row[v].size # Unknown /\ ~row[v].running})

(* used_resources(only_running=True).  The three sizes of a row become     *)
(* known together, so that its exclude() drops the unknown ones.           *)
UsedResources(o) ==
    Total(RowSizes, {v \in VMsOf(o) : row[v].size # Unknown /\ row[v].running})

(* check_quota_modify(): a VM that does not run may be given any size.     *)
(* quota.values() is never empty, and a limit of zero is a limit.          *)
CheckQuotaModify(v, size) ==
    owner[v] # NoOwner /\ row[v].running =>
        Fits(UsedResources(owner[v]) + size - row[v].size, GetQuota(owner[v]))

(* any(quota.values()) is false of a row of zeros; a zero beside other     *)
(* limits, or in the default (which has a "default" of 1), limits memory   *)
(* but not virtual CPUs, as `if quota['virtual_cpus'] and ...' skips it.   *)
EnforcedAtStart(q) == q # BareZero /\ ~(resource = "virtual_cpus" /\ q = 0)

CheckQuotaStart(v) ==
    owner[v] # NoOwner /\ EnforcedAtStart(GetQuota(owner[v])) =>
        Fits(UsedResources(owner[v]) + row[v].size, GetQuota(owner[v]))

----------------------------------------------------------------------------
(* External: what the instances of an owner have, and will have.           *)

Usage(o) == Total([v \in VM |-> inst[v].size], {v \in VMsOf(o) : inst[v].running})

(* What an instance that runs or is being started may need: the larger of  *)
(* its size and of the one that a job gives it.                            *)
Need(i, j) == IF ~i.running /\ ~j.start THEN 0
              ELSE IF j.size > i.size THEN j.size ELSE i.size

Needed(o) == Total([v \in VM |-> Need(inst[v], job[v])], VMsOf(o))

Within(o) == Fits(Usage(o), GetQuota(o))
Foreseen(o) == Fits(Needed(o), GetQuota(o))

OwnerOf(v) == {owner[v]} \cap Owner

Told(w) == IF row[w].running THEN row[w].size ELSE 0

(* The owners for whom a check before a job for v proves nothing: v's row  *)
(* is out of date, or the row of one of the VMs tells less than it needs.  *)
Misled(v) == {o \in OwnerOf(v) : \/ row[v] # inst[v]
                                 \/ \E w \in VMsOf(o) : Told(w) < Need(inst[w], job[w])}

Unenforced(v) == {o \in OwnerOf(v) : ~EnforcedAtStart(GetQuota(o))}

(* The last conjunct of an action: the owners in `to' may exceed their     *)
(* quota, until what their VMs need fits it.                               *)
Blame(to) == cause' = [o \in Owner |-> ~Foreseen(o)' /\ (o \in to \/ cause[o])]

----------------------------------------------------------------------------
(* The views.                                                              *)

(* startup.  Superusers bypass the check.                                  *)
Startup(v, superuser) ==
    /\ owner[v] # NoRow /\ job[v] = NoJob
    /\ superuser \/ CheckQuotaStart(v)
    /\ job' = [job EXCEPT ![v] = StartJob]
    /\ UNCHANGED <<resource, inst, row, owner, quota>>
    /\ Blame(IF superuser THEN OwnerOf(v) ELSE Misled(v) \cup Unenforced(v))

(* reboot checks neither the quota nor that the VM runs, and Ganeti starts *)
(* one that does not.                                                      *)
Reboot(v) ==
    /\ owner[v] # NoRow /\ job[v] = NoJob
    /\ job' = [job EXCEPT ![v] = StartJob]
    /\ UNCHANGED <<resource, inst, row, owner, quota>>
    /\ Blame(IF inst[v].running THEN {} ELSE OwnerOf(v))

(* modify_confirm; modify has checked the same before.  The form shows     *)
(* vm.info, which there is once the VM was fetched.                        *)
Modify(v, size) ==
    /\ owner[v] # NoRow /\ job[v] = NoJob
    /\ inst[v] # NoInstance /\ row[v].size # Unknown
    /\ CheckQuotaModify(v, size)
    /\ job' = [job EXCEPT ![v] = ModifyJob(size)]
    /\ UNCHANGED <<resource, inst, row, owner, quota>>
    /\ Blame(Misled(v))

(* template_to_instance(), for the wizard and for a template: no quota is  *)
(* looked at.                                                              *)
Create(v, o, size, start) ==
    /\ owner[v] = NoRow
    /\ owner' = [owner EXCEPT ![v] = o]
    /\ row' = [row EXCEPT ![v] = NewRow(size)]
    /\ job' = [job EXCEPT ![v] = CreateJob(size, start)]
    /\ UNCHANGED <<resource, inst, quota>>
    /\ Blame(IF start THEN {o} ELSE {})

(* set_quota(): the quota view, the removal of a user from the cluster     *)
(* (recv_user_remove), and the form of the cluster for the default.        *)
SetQuota(o, limit) ==
    /\ quota[o] # limit
    /\ o = Default => limit \notin {NoQuota, BareZero}
    /\ quota' = [quota EXCEPT ![o] = limit]
    /\ UNCHANGED <<ganeti, row, owner>>
    /\ Blame(Owner)

(* reparent, and the pages that import and adopt VMs, do not look at the   *)
(* quota of the new owner.                                                 *)
Reparent(v, o) ==
    /\ owner[v] \notin {NoRow, o}
    /\ owner' = [owner EXCEPT ![v] = o]
    /\ UNCHANGED <<ganeti, row, quota>>
    /\ Blame({o})

----------------------------------------------------------------------------
(* The rest of the world.                                                  *)

Done(i, j) == [size    |-> IF j.size = 0 THEN i.size ELSE j.size,
               running |-> i.running \/ j.start]

(* A start of what was never created fails.                                *)
JobEnds(v, success) ==
    /\ job[v] # NoJob
    /\ success => inst[v] # NoInstance \/ job[v].size # 0
    /\ job' = [job EXCEPT ![v] = NoJob]
    /\ inst' = IF success THEN [inst EXCEPT ![v] = Done(inst[v], job[v])] ELSE inst
    /\ UNCHANGED <<resource, row, owner, quota>>
    /\ Blame({})

(* Shut down, by its users or by the view.                                 *)
InstanceStops(v) ==
    /\ inst[v].running
    /\ inst' = [inst EXCEPT ![v].running = FALSE]
    /\ UNCHANGED <<resource, job, row, owner, quota>>
    /\ Blame({})

(* Started, resized, or both, by an administrator of the cluster.          *)
InstanceChanges(v, i) ==
    /\ inst[v] \notin {NoInstance, i}
    /\ inst' = [inst EXCEPT ![v] = i]
    /\ UNCHANGED <<resource, job, row, owner, quota>>
    /\ Blame(OwnerOf(v))

(* parse_persistent_info(): the size that is configured.                   *)
Parsed(i) == i

Refresh(v) ==
    /\ owner[v] # NoRow /\ inst[v] # NoInstance
    /\ row[v] # Parsed(inst[v])
    /\ row' = [row EXCEPT ![v] = Parsed(inst[v])]
    /\ UNCHANGED <<ganeti, owner, quota, cause>>

QuotaNext ==
    \/ \E v \in VM :
         \/ \E superuser \in BOOLEAN : Startup(v, superuser)
         \/ Reboot(v)
         \/ \E size \in Size : Modify(v, size)
         \/ \E o \in Owner, size \in Size, start \in BOOLEAN : Create(v, o, size, start)
         \/ \E o \in Owner \cup {NoOwner} : Reparent(v, o)
         \/ \E success \in BOOLEAN : JobEnds(v, success)
         \/ InstanceStops(v)
         \/ \E i \in Instance : InstanceChanges(v, i)
         \/ Refresh(v)
    \/ \E o \in Owner \cup {Default}, limit \in Limits \cup {None, NoQuota, BareZero} :
         SetQuota(o, limit)

QuotaSpec == QuotaInit /\ [][QuotaNext]_quotaVars

----------------------------------------------------------------------------
(* "user is within their quota when modifying" (forms.py:187): what the    *)
(* running VMs of an owner have exceeds the quota only for a reason that   *)
(* no check stands against: a superuser's start, a reboot of a VM that was *)
(* not running, a creation that starts its VM, a new owner, a new limit, a *)
(* change behind the web manager's back, a limit of zero that startup      *)
(* skips, or a check against a row that tells less than its VM has or is   *)
(* being given.  Any sequence of starts, modifications, stops, refreshes   *)
(* and jobs that end or fail, on rows that tell enough, stays within.      *)
QuotaHasCause == \A o \in Owner : ~Within(o) => cause[o]
=============================================================================
