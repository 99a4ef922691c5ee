----------------------------- MODULE RapiClient -----------------------------
(***************************************************************************)
(* The client of the Ganeti remote API (utils/client.py).  A call of the   *)
(* client is one HTTP request, or two: four calls first ask the server for *)
(* its features and choose the format of the request by the answer.  The   *)
(* cluster may be upgraded or downgraded between the two, a request or its *)
(* answer may be lost, and a request whose caller has given up may still   *)
(* be carried out.  A person whose click ended in an error clicks again.   *)
(*                                                                         *)
(* A call is its name and the set `given' of the arguments it was passed a *)
(* value other than the default for; a request is the arguments it has in  *)
(* its query and those it has in its body.                                 *)
(*                                                                         *)
(* The names of the specification begin with Client: its proofs are in one *)
(* module with those about RapiCache, which has names like them.           *)
(***************************************************************************)
EXTENDS Integers, FiniteSets

CONSTANTS
    MaxArgs,      \* arguments given beyond the required ones
    MaxTries,     \* times the same click is made
    MaxChanges    \* upgrades and downgrades of the cluster

ASSUME BoundsAssumption ==
    /\ MaxArgs \in Nat /\ MaxTries \in Nat \ {0} /\ MaxChanges \in Nat

VARIABLES
    call,      \* the call the web process is in
    wire,      \* requests sent and neither carried out nor lost
    answer,    \* the answer to the request the call waits for
    effects,   \* requests the cluster has carried out
    release,   \* the features the server has at present
    changes    \* upgrades and downgrades so far

clientVars == <<call, wire, answer, effects, release, changes>>

-----------------------------------------------------------------------------
(* The requests: which arguments are required, and which travel where.     *)

\* `sets' are the arguments of the query that are sent whatever was given.
Asks(verb, needs, query, body) ==
    [verb |-> verb, needs |-> needs, query |-> query, body |-> body, sets |-> {}]

Reads(query) == Asks("get", {}, query, {})

\* The three calls every kind of object has for its tags.
AddsTags == Asks("put", {"tag"}, {"tag", "dry_run"}, {})
DropsTags == Asks("delete", {"tag"}, {"tag", "dry_run"}, {})

ClusterCalls ==
    [GetVersion |-> Reads({}), GetOperatingSystems |-> Reads({}), GetInfo |-> Reads({}),
     RedistributeConfig |-> Asks("put", {}, {}, {}),
     ModifyCluster |-> Asks("put", {}, {}, {"params"}),
     GetClusterTags |-> Reads({}), AddClusterTags |-> AddsTags,
     DeleteClusterTags |-> DropsTags]

InstanceCalls ==
    [GetInstances |-> Reads({"bulk"}), GetInstance |-> Reads({}),
     GetInstanceInfo |-> Reads({"static"})]

InstanceDiskCalls ==
    [DeleteInstance |-> Asks("delete", {}, {"dry_run"}, {}),
     ModifyInstance |-> Asks("put", {}, {}, {"params"}),
     ActivateInstanceDisks |-> Asks("put", {}, {"ignore_size"}, {}),
     DeactivateInstanceDisks |-> Asks("put", {}, {}, {}),
     RecreateInstanceDisks |-> Asks("post", {}, {}, {"disks", "nodes"}),
     GrowInstanceDisk |-> Asks("post", {"amount"}, {}, {"amount", "wait_for_sync"})]

InstanceTagCalls ==
    [GetInstanceTags |-> Reads({}), AddInstanceTags |-> AddsTags,
     DeleteInstanceTags |-> DropsTags]

PowerCalls ==
    [RebootInstance |-> Asks("post", {}, {"type", "ignore_secondaries", "dry_run"}, {}),
     ShutdownInstance |-> Asks("put", {}, {"dry_run", "no_remember"}, {"timeout"}),
     StartupInstance |-> Asks("put", {}, {"dry_run", "no_remember"}, {})]

InstanceMoveCalls ==
    [PrepareExport |-> Asks("put", {"mode"}, {"mode"}, {}),
     ExportInstance |-> Asks("put", {"mode", "destination"}, {},
        {"mode", "destination", "shutdown", "remove_instance", "x509_key_name",
         "destination_x509_ca"}),
     MigrateInstance |-> Asks("put", {}, {}, {"mode", "cleanup"}),
     FailoverInstance |->
        Asks("put", {}, {}, {"ignore_consistency", "iallocator", "target_node"}),
     RenameInstance |->
        Asks("put", {"ip_check", "new_name"}, {}, {"ip_check", "new_name", "name_check"}),
     GetInstanceConsole |-> Reads({})]

\* mode is new_secondary or any other; disks joins what it is given with
\* commas, which are the characters of a text when that is a text.
ReplaceInstanceDisks ==
    [ReplaceInstanceDisks |->
        Asks("post", {}, {"mode", "new_secondary", "dry_run", "disks", "characters",
                          "remote_node", "iallocator"}, {})]

JobCalls ==
    [GetJobs |-> Reads({}), GetJobStatus |-> Reads({}),
     WaitForJobChange |->
        Asks("get", {"fields", "prev"}, {}, {"fields", "prev"}),
     CancelJob |-> Asks("delete", {}, {"dry_run"}, {})]

NodeCalls ==
    [GetNodes |-> Reads({"bulk"}), GetNode |-> Reads({})]

NodeRoleCalls ==
    [GetNodeRole |-> Reads({}),
     SetNodeRole |-> Asks("put", {"role"}, {"force", "auto_promote"}, {"role"}),
     PowercycleNode |-> Asks("post", {}, {"force"}, {}),
     ModifyNode |-> Asks("post", {}, {}, {"params"})]

NodeStorageCalls ==
    [GetNodeStorageUnits |-> Reads({"storage_type", "output_fields"}),
     ModifyNodeStorageUnits |-> Asks("put", {"storage_type", "name"},
        {"storage_type", "name", "allocatable"}, {}),
     RepairNodeStorageUnits |-> Asks("put", {"storage_type", "name"},
        {"storage_type", "name"}, {})]

\* The tags of a node go into the query and, when they are added, the body.
NodeTagCalls ==
    [GetNodeTags |-> Reads({}),
     AddNodeTags |-> Asks("put", {"tag"}, {"tag", "dry_run"}, {"tag"}),
     DeleteNodeTags |-> DropsTags]

GroupCalls ==
    [GetGroups |-> Reads({"bulk"}), GetGroup |-> Reads({}),
     CreateGroup |-> Asks("post", {"name"}, {"dry_run"}, {"name", "alloc_policy"}),
     ModifyGroup |-> Asks("put", {}, {}, {"params"}),
     DeleteGroup |-> Asks("delete", {}, {"dry_run"}, {}),
     RenameGroup |-> Asks("put", {"new_name"}, {}, {"new_name"}),
     AssignGroupNodes |-> Asks("put", {"nodes"}, {"force", "dry_run"}, {"nodes"})]

GroupTagCalls ==
    [GetGroupTags |-> Reads({}), AddGroupTags |-> AddsTags, DeleteGroupTags |-> DropsTags]

QueryCalls ==
    [Query |-> Asks("put", {"fields"}, {}, {"fields", "qfilter"}),
     QueryFields |-> Reads({"fields"})]

-----------------------------------------------------------------------------
(* The four calls whose request depends on the features of the server.     *)

INST_CREATE_REQV1 == "instance-create-reqv1"
INST_REINSTALL_REQV1 == "instance-reinstall-reqv1"
NODE_MIGRATE_REQV1 == "node-migrate-reqv1"
NODE_EVAC_RES1 == "node-evac-res1"

FeatureOf ==
    [CreateInstance |-> INST_CREATE_REQV1, ReinstallInstance |-> INST_REINSTALL_REQV1,
     MigrateNode |-> NODE_MIGRATE_REQV1, EvacuateNode |-> NODE_EVAC_RES1]

\* What the servers in use announce, the oldest nothing: it has no such page.
Releases ==
    {{}, {INST_CREATE_REQV1, INST_REINSTALL_REQV1},
     {INST_CREATE_REQV1, INST_REINSTALL_REQV1, NODE_MIGRATE_REQV1},
     {INST_CREATE_REQV1, INST_REINSTALL_REQV1, NODE_MIGRATE_REQV1, NODE_EVAC_RES1}}

\* The keyword dry_run leaves the body for the query; no_install is in both.
CreateInstance ==
    Asks("post", {"instance"}, {"dry_run", "no_install"},
         {"instance", "no_install", "params"})

ReinstallInstance(features) ==
    IF INST_REINSTALL_REQV1 \in features
    THEN Asks("post", {}, {}, {"no_startup", "os", "osparams"})
    ELSE Asks("post", {}, {"no_startup", "os"}, {})

\* mode is secondary ("secondary-only") or any other; accept_old is not sent.
\* The query is never empty, so the old format always sets early_release.
EvacuateNode(features) ==
    IF NODE_EVAC_RES1 \in features
    THEN Asks("post", {}, {"dry_run", "iallocator", "remote_node"},
              {"early_release", "iallocator", "blank", "remote_node", "mode", "secondary"})
    ELSE [Asks("post", {}, {"dry_run", "iallocator", "remote_node"}, {})
            EXCEPT !.sets = {"early_release"}]

MigrateNode(features) ==
    IF NODE_MIGRATE_REQV1 \in features
    THEN Asks("post", {}, {"dry_run"}, {"mode", "iallocator", "target_node"})
    ELSE Asks("post", {}, {"dry_run", "mode"}, {})

\* The calls that send the same whatever the features.
Tables ==
    {ClusterCalls, InstanceCalls, InstanceDiskCalls, InstanceTagCalls, PowerCalls,
     InstanceMoveCalls, ReplaceInstanceDisks, JobCalls, NodeCalls, NodeRoleCalls,
     NodeStorageCalls, NodeTagCalls, GroupCalls, GroupTagCalls, QueryCalls}

TableOf(name) == CHOOSE table \in Tables : name \in DOMAIN table

PlainCalls == [name \in UNION {DOMAIN table : table \in Tables} |-> TableOf(name)[name]]

Requests(features) ==
    [name \in DOMAIN PlainCalls \cup DOMAIN FeatureOf |->
        CASE name = "CreateInstance" -> CreateInstance
          [] name = "ReinstallInstance" -> ReinstallInstance(features)
          [] name = "EvacuateNode" -> EvacuateNode(features)
          [] name = "MigrateNode" -> MigrateNode(features)
          [] OTHER -> PlainCalls[name]]

Names == DOMAIN Requests({})

\* The arguments a call takes, those it never sends included; the two that
\* only a page passes are left to it.
Arguments(name) ==
    LET sent == UNION {Requests(f)[name].query \cup Requests(f)[name].body : f \in Releases}
        unsent == [EvacuateNode |-> {"accept_old"}, RebootInstance |-> {"bad_type"},
                   CreateInstance |-> {"conflict"}]
    IN (sent \ {"blank", "characters"})
         \cup (IF name \in DOMAIN unsent THEN unsent[name] ELSE {})

Givens(name) ==
    LET needs == Requests({})[name].needs
        more == {S \in SUBSET (Arguments(name) \ needs) : Cardinality(S) <= MaxArgs}
    IN {needs \cup S : S \in {T \in more : ~({"mode", "secondary"} \subseteq T)
                                       /\ ~({"mode", "new_secondary"} \subseteq T)}}

\* Calls that raise before the first request.
RaisesAtOnce(name, given) ==
    \/ name = "EvacuateNode" /\ {"iallocator", "remote_node"} \subseteq given
    \/ name = "RebootInstance" /\ "bad_type" \in given
    \/ name = "ReplaceInstanceDisks" /\ {"iallocator", "no_allocator"} \subseteq given

\* Calls that raise once the features are known, and before the request that
\* would change something.
CreateRaises(given, features) ==
    INST_CREATE_REQV1 \notin features \/ "conflict" \in given

ReinstallRaises(given, features) ==
    INST_REINSTALL_REQV1 \notin features /\ "osparams" \in given

EvacuateRaises(given, features) ==
    NODE_EVAC_RES1 \notin features /\ ("accept_old" \notin given \/ "mode" \in given)

\* The check forgotten when the parameter was added.
MigrateRaises_Unchecked(given, features) == FALSE

MigrateRaises(given, features) ==
    NODE_MIGRATE_REQV1 \notin features /\ "target_node" \in given

RaisesUnsent(name, given, features) ==
    \/ name = "CreateInstance" /\ CreateRaises(given, features)
    \/ name = "ReinstallInstance" /\ ReinstallRaises(given, features)
    \/ name = "EvacuateNode" /\ EvacuateRaises(given, features)
    \/ name = "MigrateNode" /\ MigrateRaises(given, features)

-----------------------------------------------------------------------------
(* The pages with a form: the boxes that may be ticked together, and the   *)
(* arguments the view passes on.  `no_allocator' says that the cluster has *)
(* no default iallocator.                                                  *)

\* The view passes the mode only; so does that of the role of a node.
MigrateForm == [boxes |-> SUBSET {"mode", "cleanup_box"},
                passes |-> [ticked \in SUBSET {"mode", "cleanup_box"} |->
                                ticked \ {"cleanup_box"}]]

RoleForm == [boxes |-> {{"role"}, {"role", "force_box"}},
             passes |-> [ticked \in SUBSET {"role", "force_box"} |->
                             ticked \ {"force_box"}]]

NodeMigrateForm == [boxes |-> {{}, {"mode"}},
                    passes |-> [ticked \in SUBSET {"mode"} |-> ticked]]

\* Of cluster_default_info() the forms read the iallocator: a name, blank, or
\* none where the server does not announce it.
DefaultAllocator(ticked) ==
    IF "unannounced" \in ticked THEN "None"
    ELSE IF "no_allocator" \in ticked THEN "blank" ELSE "named"

\* The allocator wins over the node; without a default its name is blank.
EvacuateForm ==
    LET all == SUBSET {"iallocator", "no_allocator", "unannounced", "remote_node"}
    IN [boxes |-> {t \in all : /\ t \cap {"iallocator", "remote_node"} # {}
                              /\ ~({"no_allocator", "unannounced"} \subseteq t)},
        passes |-> [ticked \in all |->
            IF "iallocator" \notin ticked THEN ticked \cap {"remote_node"}
            ELSE IF DefaultAllocator(ticked) = "named" THEN {"iallocator"} ELSE {"blank"}]]

\* A new secondary is placed by the node or by the allocator, whose name is in
\* a field of the form: empty if it is not announced, and when the default is
\* blank there is no such field and the view fails.  The disks are passed as
\* one text, and several of them are not what the client expects.
ReplaceDisksForm ==
    LET all == SUBSET {"mode", "new_secondary", "disks", "several", "remote_node",
                       "iallocator", "no_allocator", "unannounced"}
    IN [boxes |-> {t \in all :
            /\ "new_secondary" \in t =>
                 "mode" \notin t /\ Cardinality(t \cap {"remote_node", "iallocator"}) = 1
            /\ "several" \in t => "disks" \in t
            /\ {"no_allocator", "unannounced"} \cap t # {} => "iallocator" \in t
            /\ ~({"no_allocator", "unannounced"} \subseteq t)},
        passes |-> [ticked \in all |->
            (ticked \ ((IF "several" \in ticked THEN {"disks", "several"} ELSE {})
                       \cup (IF DefaultAllocator(ticked) = "None"
                             THEN {"iallocator", "unannounced"} ELSE {})))
            \cup (IF "several" \in ticked THEN {"characters"} ELSE {})]]

Forms == [MigrateInstance |-> MigrateForm, SetNodeRole |-> RoleForm,
          MigrateNode |-> NodeMigrateForm, EvacuateNode |-> EvacuateForm,
          ReplaceInstanceDisks |-> ReplaceDisksForm]

-----------------------------------------------------------------------------
(* The state.                                                              *)

Stages == {"idle", "features", "request", "sent", "returned", "raised"}

ClientTypeOK ==
    /\ call.name \in Names \cup {"none"}
    /\ call.given \in SUBSET STRING /\ call.asked \in SUBSET STRING
    /\ call.at \in Stages /\ call.features \in Releases
    /\ {call.try, call.timeouts, call.unread} \subseteq 0 .. MaxTries
    /\ answer \in {"none", "ok", "refused"}
    /\ release \in Releases /\ changes \in 0 .. MaxChanges

ClientInit ==
    /\ call = [name |-> "none", asked |-> {}, given |-> {}, at |-> "idle", features |-> {},
               try |-> 0, timeouts |-> 0, unread |-> 0]
    /\ wire = {} /\ answer = "none" /\ effects = {}
    /\ release \in Releases /\ changes = 0

\* The arguments the server reads: one that lacks the feature of a call
\* reads the query alone.
Got(r, has) ==
    IF r.name \in DOMAIN FeatureOf /\ FeatureOf[r.name] \notin has
    THEN r.query ELSE r.query \cup r.body

-----------------------------------------------------------------------------
(* The caller.                                                             *)

\* GanetiApiError, or what the requests library raises: the caller sees no
\* result of the call, and knows a status only if an answer came.
Raised == [call EXCEPT !.at = "raised"]

\* The query of a request: prepare_query() sends a boolean as 0 or 1 and None
\* as an empty text, which the server takes as not given.
Prepared(form, given) == (form.query \cap given) \cup form.sets

FirstStage(name, given) ==
    IF RaisesAtOnce(name, given) THEN "raised"
    ELSE IF name \in DOMAIN FeatureOf THEN "features" ELSE "request"

\* A view or a model calls a method of the client.
Call(name, asked, given) ==
    /\ call.at = "idle"
    /\ call' = [call EXCEPT !.name = name, !.asked = asked, !.given = given, !.try = 1,
                            !.at = FirstStage(name, given)]
    /\ UNCHANGED <<wire, answer, effects, release, changes>>

\* A form is sent that its checks accept.
Click(name, ticked) == Call(name, ticked, Forms[name].passes[ticked])

\* The same click again, after an error was shown.
Retry ==
    /\ call.at = "raised" /\ call.try < MaxTries
    /\ call' = [call EXCEPT !.try = @ + 1, !.features = {},
                            !.at = FirstStage(call.name, call.given)]
    /\ answer' = "none"
    /\ UNCHANGED <<wire, effects, release, changes>>

\* The answer to the first of two requests: the list of features, a 404 of a
\* server without such a page, another status, or (no status) none in time.
GetFeatures(status) ==
    /\ call.at = "features"
    /\ status = "ok" => release # {}
    /\ status = "not_found" => release = {}
    /\ call' = IF status \in {"ok", "not_found"}
               THEN [call EXCEPT !.at = "request",
                                 !.features = IF status = "ok" THEN release ELSE {}]
               ELSE Raised
    /\ UNCHANGED <<wire, answer, effects, release, changes>>

\* _SendRequest: the request leaves, unless the call raises instead.
Send ==
    LET form == Requests(call.features)[call.name]
    IN /\ call.at = "request"
       /\ IF RaisesUnsent(call.name, call.given, call.features)
          THEN /\ call' = Raised
               /\ UNCHANGED wire
          ELSE /\ call' = [call EXCEPT !.at = "sent"]
               /\ wire' = wire \cup
                    {[try |-> call.try, name |-> call.name, asked |-> call.asked,
                      verb |-> form.verb, features |-> call.features,
                      query |-> Prepared(form, call.given),
                      body |-> form.body \cap call.given]}
       /\ UNCHANGED <<answer, effects, release, changes>>

\* The answer has come: 200 returns, any other status raises with its code.
Receive ==
    /\ call.at = "sent" /\ answer # "none"
    /\ call' = [call EXCEPT !.at = IF answer = "ok" THEN "returned" ELSE "raised"]
    /\ UNCHANGED <<wire, answer, effects, release, changes>>

\* A retry within the client: a request that timed out is sent once more.
TimeOut_Resends ==
    /\ call.at = "sent"
    /\ IF call.try < MaxTries
       THEN /\ call' = [call EXCEPT !.try = @ + 1]
            /\ wire' = wire \cup {[r EXCEPT !.try = @ + 1] : r \in wire}
       ELSE /\ call' = [call EXCEPT !.at = "raised", !.timeouts = @ + 1]
            /\ UNCHANGED wire
    /\ UNCHANGED <<answer, effects, release, changes>>

\* A request without a timeout: only a broken connection ends it.
TimeOut_Unlimited ==
    /\ call.at = "sent" /\ \A r \in wire : r.try # call.try
    /\ call' = [call EXCEPT !.at = "raised", !.timeouts = @ + 1]
    /\ UNCHANGED <<wire, answer, effects, release, changes>>

\* ConnectionError or Timeout: an error without a code.  The request may be
\* on its way still, or its answer lost.
TimeOut ==
    /\ call.at = "sent"
    /\ call' = [Raised EXCEPT !.timeouts = @ + 1]
    /\ UNCHANGED <<wire, answer, effects, release, changes>>

\* A view that submits a job refreshes it at once (job.refresh()), in the same
\* `try': the call has returned, and an error is shown all the same.
RefreshedAfter ==
    {"StartupInstance", "ShutdownInstance", "RebootInstance", "MigrateInstance",
     "ReplaceInstanceDisks", "SetNodeRole", "MigrateNode", "EvacuateNode",
     "RedistributeConfig"}

RefreshFails ==
    /\ call.at = "returned" /\ call.name \in RefreshedAfter
    /\ call' = [Raised EXCEPT !.unread = @ + 1]
    /\ UNCHANGED <<wire, answer, effects, release, changes>>

-----------------------------------------------------------------------------
(* The cluster and the network.                                            *)

\* The server takes a request and answers; it carries out what changes
\* something, unless it refuses, as it must a list of disks with gaps.
Serve(r, refuses) ==
    /\ "characters" \in r.query => refuses
    /\ wire' = wire \ {r}
    /\ effects' = IF refuses \/ r.verb = "get" THEN effects
                  ELSE effects \cup {[try |-> r.try, name |-> r.name, asked |-> r.asked,
                                      features |-> r.features, release |-> release,
                                      got |-> Got(r, release)]}
    /\ answer' = IF call.at = "sent" /\ r.try = call.try
                 THEN IF refuses THEN "refused" ELSE "ok"
                 ELSE answer
    /\ UNCHANGED <<call, release, changes>>

Lose(r) ==
    /\ wire' = wire \ {r}
    /\ UNCHANGED <<call, answer, effects, release, changes>>

\* The cluster is upgraded or downgraded.
Change(other) ==
    /\ changes < MaxChanges /\ other # release
    /\ release' = other /\ changes' = changes + 1
    /\ UNCHANGED <<call, wire, answer, effects>>

-----------------------------------------------------------------------------
CallerStep ==
    \/ \E status \in {"ok", "not_found", "failed", "timeout"} : GetFeatures(status)
    \/ Send \/ Receive \/ TimeOut

ClientNext ==
    \/ CallerStep \/ RefreshFails \/ Retry
    \/ \E name \in Names : \E given \in Givens(name) : Call(name, given, given)
    \/ \E name \in DOMAIN Forms : \E ticked \in Forms[name].boxes : Click(name, ticked)
    \/ \E r \in wire : Lose(r) \/ \E refuses \in BOOLEAN : Serve(r, refuses)
    \/ \E other \in Releases : Change(other)

\* The process of the caller runs on; nothing is asked of server or network.
ClientSpec == ClientInit /\ [][ClientNext]_clientVars /\ WF_clientVars(CallerStep)

-----------------------------------------------------------------------------
(* Properties.                                                             *)

\* MigrateNode sends no iallocator to a server without the feature, and a
\* server that evacuates secondaries only need not be told to.  The pages
\* drop the boxes `cleanup' and `force', and `Automatic Allocation' on a cluster
\* without a default allocator; it wins over a node chosen next to it.
Dropped(e) ==
    {"accept_old", "cleanup_box", "force_box", "no_allocator", "unannounced", "several"}
    \cup (IF e.name = "MigrateNode" THEN {"iallocator"} ELSE {})
    \cup (IF e.name = "EvacuateNode" THEN {"secondary"} ELSE {})
    \cup (IF e.name = "EvacuateNode" /\ "iallocator" \in e.asked THEN {"remote_node"} ELSE {})
    \cup (IF e.asked \cap {"no_allocator", "unannounced"} # {} THEN {"iallocator"} ELSE {})

\* The cluster was downgraded after it had announced the feature.
Downgraded(e) ==
    e.name \in DOMAIN FeatureOf /\ FeatureOf[e.name] \in e.features \ e.release

\* What the cluster does is what was ticked on the page, or asked by the
\* caller: a call whose arguments the server cannot take raises and does
\* nothing, rather than do it without them.  The exception is a downgrade
\* between the two requests, and even then a dry run stays dry
\* (client.py:770, 1112, 1174 and the query arguments; forms.py:585, 625).
ArgumentsReach ==
    \A e \in effects :
        /\ "dry_run" \in e.asked => "dry_run" \in e.got
        /\ Downgraded(e) \/ e.asked \ Dropped(e) \subseteq e.got

\* The cluster does what was asked once, and once more for every error shown
\* after the call had, or may have, succeeded: it could not connect, had waited
\* too long, or could not read the job it had submitted.  Every other error,
\* one with a status or one raised before sending, may safely be clicked again
\* (client.py:246, views.py:388).
EffectsNeedDoubt ==
    Cardinality(effects) <=
        call.timeouts + call.unread + (IF call.at = "raised" THEN 0 ELSE 1)

\* Every call returns or raises, whatever the server and the network do: the
\* request that hangs is given up (client.py:158, `timeout=60').
CallEnds == call.at \in {"features", "request", "sent"} ~> call.at \in {"returned", "raised"}

=============================================================================
