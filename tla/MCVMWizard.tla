----------------------------- MODULE MCVMWizard -----------------------------
EXTENDS VMWizard, TLC

CONSTANTS a, b, c

(* A cluster that can hold replicated disks, and one with a single node.   *)
TwoAndOne == [x \in {"c1", "c2"} |-> IF x = "c1" THEN {a, b} ELSE {c}]

(* The two nodes of the first cluster are alike.                           *)
Alike == Permutations({a, b})

BothAndHVM == [x \in {"c1", "c2"} |-> IF x = "c1" THEN {"kvm", "xen-pvm"} ELSE {"xen-hvm"}]

(* A second CD-ROM came with 2.4.2.                                        *)
OldAndNew == [x \in {"c1", "c2"} |-> IF x = "c1" THEN <<2, 4, 1>> ELSE <<2, 6, 0>>]

(* One good for PVM only, and one for KVM and HVM, with fields PVM has not. *)
TwoPages == {{"kernel_path", "root_path"}, {"root_path", "devices", "cdrom_image", "cdrom2_image"}}
=============================================================================
