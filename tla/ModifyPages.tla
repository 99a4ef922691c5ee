---------------------------- MODULE ModifyPages ----------------------------
(***************************************************************************)
(* Changing and renaming virtual machines: the two pages of a modification *)
(* (virtualmachines/views.py, modify and modify_confirm), which hand the   *)
(* values on in the user's session, and rename.                            *)
(*                                                                         *)
(* One user works in several tabs of a browser, which share the session.   *)
(* A page names its VM by the host name in its address, the session by the *)
(* id of the row, and Ganeti by the name that the instance has by then.    *)
(* Of the values of a form only its origin is kept: the VM whose values it *)
(* was opened with.  The quota checks are in Quotas, the tracking of the   *)
(* jobs in VirtualMachineJobs.                                             *)
(*                                                                         *)
(* The names of the specification begin with Edit: its proofs are in one   *)
(* module with those about VMWizard, which has names like them.            *)
(***************************************************************************)
CONSTANTS VM, Name, Tab, NoVM, NoName

ASSUME NameAssumption == NoVM \notin VM /\ NoName \notin Name

VARIABLES hostname,   \* the rows
          inst,       \* external: the name of each instance
          renaming,   \* external: the new name in its pending rename job
          session,    \* edit_vm, and whose values are in edit_form
          tab,        \* the pages in the user's browser
          modified,   \* the ModifyInstance of the last step, if any
          crossed,    \* history: edits of two VMs were under way at once
          failed      \* history: a rename did not come to pass

names == <<hostname, inst, renaming, failed>>
pages == <<session, tab, crossed>>
editVars == <<names, pages, modified>>

NoEdit == [vm |-> NoVM, of |-> NoVM]
NoPage == [phase |-> "none", at |-> NoName, of |-> NoVM]
NoRequest == [vm |-> NoVM, of |-> NoVM]

Page(phase, n, of) == [phase |-> phase, at |-> n, of |-> of]

EditTypeOK == /\ hostname \in [VM -> Name]
              /\ inst \in [VM -> Name]
              /\ renaming \in [VM -> Name \cup {NoName}]
              /\ session \in [vm : VM, of : VM] \cup {NoEdit}
              /\ tab \in [Tab -> [phase : {"form", "posted", "confirm"}, at : Name, of : VM] \cup {NoPage}]
              /\ modified \in [vm : VM, of : VM] \cup {NoRequest}
              /\ crossed \in BOOLEAN /\ failed \in BOOLEAN

EditInit == /\ hostname \in [VM -> Name]
            /\ \A v, w \in VM : hostname[v] = hostname[w] => v = w
            /\ inst = hostname
            /\ renaming = [v \in VM |-> NoName]
            /\ session = NoEdit
            /\ tab = [t \in Tab |-> NoPage]
            /\ modified = NoRequest
            /\ crossed = FALSE /\ failed = FALSE

----------------------------------------------------------------------------
(* get_vm_and_cluster_or_404: the row of the page's address; unique.       *)
At(n, v) == hostname[v] = n

Shows(t, page) == tab' = [tab EXCEPT ![t] = page]

(* Another VM's edit is under way in another tab.                          *)
Crosses(t, v) == \E s \in Tab \ {t} : tab[s] # NoPage /\ ~At(tab[s].at, v)

(* Mutated form of Prefilled: edit_vm is not looked at. *)
Prefilled_Any(v) == session # NoEdit

(* The values posted before come back if they were posted for this VM.     *)
Prefilled(v) == session # NoEdit /\ session.vm = v

(* modify, GET; also where "edit" of the second page leads.                *)
OpenForm(t, v) ==
    /\ Shows(t, Page("form", hostname[v], IF Prefilled(v) THEN session.of ELSE v))
    /\ crossed' = (crossed \/ Crosses(t, v))
    /\ modified' = NoRequest
    /\ UNCHANGED <<names, session>>

(* modify, POST of a form that is valid; any other is shown again.         *)
PostForm(t) ==
    /\ tab[t].phase = "form"
    /\ \E v \in VM :
         /\ At(tab[t].at, v)
         /\ session' = [vm |-> v, of |-> tab[t].of]
    /\ Shows(t, [tab[t] EXCEPT !.phase = "posted"])
    /\ modified' = NoRequest
    /\ UNCHANGED <<names, crossed>>

(* Both pages look up the VM of the address and how it may be edited.      *)
Readable(t) == session # NoEdit /\ \E v \in VM : At(tab[t].at, v)

(* modify_confirm, GET: the values of the session, whichever VM they were  *)
(* posted for, against the information of this one.  The edit of a VM with *)
(* other NICs or parameters raises KeyError; without any, or at a name     *)
(* that no VM has any more, the answer is an error too.                    *)
ConfirmPage(t) ==
    /\ tab[t].phase \in {"posted", "confirm"}
    /\ \/ /\ Readable(t)
          /\ Shows(t, Page("confirm", tab[t].at, session.of))
       \/ /\ session # NoEdit => ~At(tab[t].at, session.vm)
          /\ Shows(t, NoPage)
    /\ modified' = NoRequest
    /\ UNCHANGED <<names, session, crossed>>

(* modify_confirm, POST "save": what that page holds is sent, for the VM   *)
(* of its address; the session keeps it.  The tab goes on to the details.  *)
Confirm(t) ==
    /\ tab[t].phase = "confirm"
    /\ \E v \in VM :
         /\ At(tab[t].at, v)
         /\ modified' = [vm |-> v, of |-> tab[t].of]
    /\ Shows(t, NoPage)
    /\ UNCHANGED <<names, session, crossed>>

(* "cancel" forgets the edit of the session, whichever it is.              *)
Cancel(t) ==
    /\ tab[t].phase = "confirm"
    /\ \E v \in VM : At(tab[t].at, v)
    /\ session' = NoEdit
    /\ Shows(t, NoPage)
    /\ modified' = NoRequest
    /\ UNCHANGED <<names, crossed>>

(* The user goes elsewhere.                                                *)
Leave(t) ==
    /\ tab[t] # NoPage
    /\ Shows(t, NoPage)
    /\ modified' = NoRequest
    /\ UNCHANGED <<names, session, crossed>>

----------------------------------------------------------------------------
(* Mutated form of Renamed: the names of rows are not unique. *)
Renamed_Twice(v, n) == [hostname EXCEPT ![v] = n]

(* The narrow update of the row.  A name that another row has violates the *)
(* unique key: the request is rolled back, its rename job is not.          *)
Renamed(v, n) ==
    IF \E w \in VM : At(n, w) THEN hostname ELSE [hostname EXCEPT ![v] = n]

(* rename: the job is submitted, and the row takes the new name at once.   *)
(* It is about the instance that has the name of the row; without one the  *)
(* job fails.  Bound: one rename job for each instance.                    *)
Rename(v, n) ==
    /\ n # hostname[v]
    /\ \A i \in VM : inst[i] = hostname[v] => renaming[i] = NoName
    /\ hostname' = Renamed(v, n)
    /\ renaming' = [i \in VM |-> IF inst[i] = hostname[v] THEN n ELSE renaming[i]]
    /\ failed' = (failed \/ hostname' = hostname \/ ~(\E i \in VM : inst[i] = hostname[v]))
    /\ crossed' = (crossed \/ \E t \in Tab : tab[t].at = n)
    /\ modified' = NoRequest
    /\ UNCHANGED <<inst, session, tab>>

(* External: the rename job ends.                                          *)
RenameEnds(i, success) ==
    /\ renaming[i] # NoName
    /\ success => \A k \in VM : inst[k] # renaming[i]
    /\ renaming' = [renaming EXCEPT ![i] = NoName]
    /\ inst' = IF success THEN [inst EXCEPT ![i] = renaming[i]] ELSE inst
    /\ failed' = (failed \/ ~success)
    /\ modified' = NoRequest
    /\ UNCHANGED <<hostname, pages>>

EditNext ==
    \/ \E t \in Tab :
         \/ \E v \in VM : OpenForm(t, v)
         \/ PostForm(t) \/ ConfirmPage(t) \/ Confirm(t) \/ Cancel(t) \/ Leave(t)
    \/ \E v \in VM, n \in Name : Rename(v, n)
    \/ \E i \in VM, success \in BOOLEAN : RenameEnds(i, success)

EditSpec == EditInit /\ [][EditNext]_editVars

----------------------------------------------------------------------------
(* A modification sent for a VM has the values that the user was shown and *)
(* changed for that VM, not those of another one, though they travel in a  *)
(* session that all tabs share and that keeps them after they were sent;   *)
(* unless edits of two VMs were under way in two tabs, or a VM took the    *)
(* name under which a page was open (modify_confirm reads edit_form and    *)
(* never looks at edit_vm).                                                *)
SentWasEntered == modified.of # modified.vm => crossed

(* While no rename is pending and none has failed, requests for a row      *)
(* reach its own instance, although the row takes its new name when the    *)
(* job is only submitted and other rows may take the old one at once.      *)
ReachesOwnInstance ==
    ~failed => \A v, i \in VM : hostname[v] = inst[i] => i = v \/ renaming[i] # NoName
=============================================================================
