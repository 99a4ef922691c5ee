# Ganeti Web Manager in TLA+

Ganeti Web Manager is a Django application that manages clusters of virtual
machines through Ganeti's remote API (RAPI).  It keeps rows about clusters,
nodes, virtual machines and jobs in its own database and brings them up to date
while it loads them.  What makes that hard is that three things change at the
same time: several web server processes run requests, each with its own cache
of API clients and its own copies of rows in memory; the cluster runs jobs that
end whenever they end; and the API may fail, or forget a job.  On top of that,
users fill in pages in several tabs while names, grants and quotas change.

These modules model that core.  TLC checks them on small instances, TLAPS proves
the main invariants for every size.  Paths below are relative to
`src/ganeti_webmgr/`.


## 1. The system

### How it runs

* A request is one database transaction (`TransactionMiddleware`,
  `ganeti_web/settings/base.py:136`).  What it writes takes effect when it ends,
  or not at all.  What it asked of the cluster takes effect at once and is never
  undone.  A management command commits each statement.
* Several single-threaded processes serve requests (`processes=2` in
  `docs/source/deployment/uwsgi.ini`).  Module globals, such as `RAPI_CACHE`,
  are per process.
* A model instance does things in its **constructor**: a cached object refreshes
  itself when its cache has expired (`clusters/models.py:59`), a job polls
  itself (`jobs/models.py:57`).  Loading a row is therefore an operation.
* `save()` writes the whole row, `update()` writes the named columns.  Many of
  the hazards below come from that difference.
* Pages that hand values on keep them outside the database: the wizard in a
  cookie, the modification of a VM in the session.  Tabs share both.

### Components

| component | state | operations | correct when |
|---|---|---|---|
| Cached objects (`clusters/models.py`: `CachedClusterObject`) | `cached`, `mtime`, `ignore_cache`, `last_job`, serialized info | `load_info`, `refresh`, `check_job_status` | a tracked job bypasses the cache, is followed to its end and then released |
| Virtual machines (`virtualmachines/models.py`, `views.py`, `ganeti_web/backend/templates.py`) | the above, `pending_delete`, owner, permissions on the object | start, stop, reboot, migrate, rename, reinstall, modify, destroy, reparent, create | the row of a living instance is kept, a destroyed one is dropped |
| Jobs (`jobs/models.py`, `jobs/views.py`) | status, op, `ignore_cache`, info | create, poll, list, clear | a row says what became of its job, and then stays as it is |
| RAPI clients (`utils/__init__.py`, `clusters/forms.py`, `ganeti_web/models.py`) | two dictionaries per process; `hash` and `cluster_hash` columns | `get_rapi`, `update_cluster_hash`, the cluster form | a request talks to its cluster with its credentials |
| Ganeti errors (`utils/models.py`) | rows with object, code, message, `cleared` | store, clear, dismiss | what is shown is what fails, once |
| Synchronisation and import (`clusters/models.py`, `ganeti_web/views/importing*.py`) | rows of VMs and nodes against the cluster's lists, owner tags | sync, import, adopt, delete missing | only what is gone is deleted, only in its cluster |
| Nodes and clusters' own jobs (`nodes/`, `Cluster.redistribute_config`) | as cached objects, role | set role, migrate, evacuate, redistribute | as cached objects |
| Lazy cache (`clusters/models.py:88`, `refreshcache`) | clock, `cached`, `mtime` | expiry, bulk update | information is not older than the limit |
| Quotas (`utils/models.py`, `clusters/models.py`, `authentication/models.py`) | limits per user and cluster | get, set, used resources, the checks of start and modify | what runs fits the limits |
| VM forms and templates (`virtualmachines/forms.py`, `views.py`, `vm_templates/`) | a cookie, a session, stored templates | the wizard's six pages, modify and confirm, rename, template to VM and back | what is submitted was checked as a whole, for this VM, by this user |
| Permissions, users and groups (`authentication/`, `muddle_users/`, `ganeti_web/backend/queries.py`) | grants to users and groups, members, owners | grant, revoke, add, delete, the queries | a view lets in who may, a list shows what a user may use |
| RAPI client (`utils/client.py`) | a request on its way | some sixty calls, features of the server | the cluster does what was asked, once |
| Console, search, tables, logs, fields, plugins, migrations | little or none | presentation and conversion | not modelled |

They interact through calls (a view loads a VM, its constructor refreshes it,
which polls its jobs over the client found by its hash), through rows that
several of them write (`last_job` is written by the VM's operations, by
`refresh()`, by the clear view and, on cascade, by the deletion of a job),
through a signal (saving a cluster writes the hash of all its objects), and
through the cluster itself.

### What is hard to test

The list with the line of each is under `hazards` in `PROJECT.json`.  The
families are: rows loaded, overtaken and saved whole; polls that fail and look
like an answer; lists that are empty because nobody answered; values in memory
that the database does not have; jobs that end in an order nobody waited for;
deletions that cascade; names that are reused while a rename is pending; pages
posted from several tabs; checks that read rows older than the cluster; rights
written down in two places; features asked for before the server is replaced.


## 2. The plan

| | module | composes | state |
|---|---|---|---|
| 1 | `CachedClusterObject` | | operators |
| 2 | `VirtualMachineJobs` | 1 | checked, proved |
| 3 | `JobCache` | | checked, proved |
| 4 | `RapiCache` | | checked, proved |
| 5 | `GanetiErrors` | | checked, proved |
| 6 | `ClusterSync` | | checked, proved |
| 7 | `LazyCache`, the abstract specification | | |
| 8 | `NodeCache`, which implements 7 | 1, 7 | refinement checked and proved |
| 9 | `Quotas` | | checked, proved |
| 10 | `VMWizard` | | checked, proved |
| 11 | `ModifyPages` | | checked, proved |
| 12 | `Access` | | checked, proved |
| 13 | `RapiClient` | | checked, proved |

Every safety invariant and every action property that a run checks is proved
too.  What is left, in this order: theorems about more than one process where
the runs show that they hold; the wizard with an operating system list that
fails between two pages; `ClusterSync` with a request in several steps; an
abstract job tracking that both `VirtualMachineJobs` and `NodeCache` implement;
the copy of a template; the sums of free memory and disk; the user's own profile
page.


## 3. The modules

### CachedClusterObject

No state: what one `refresh()` decides, as operators over a row and the answers
of the API.  `check_job_status()` loops over the jobs of an object and keeps
`status` and `op` from one iteration to the next when a poll fails; `HeardBy`,
`StatusAt` and `OpAt` state this without the loop: the status seen for job *j* is
that of the latest job up to *j* that was heard.  `ResetsTracking`,
`ClearsPendingDelete` and `RemovalsSeen` are what it makes of that, `Updated` is
the object in memory afterwards, `NarrowUpdated` the `UPDATE` of some columns and
`WritesWholeRow` the condition of the full save.

### VirtualMachineJobs

One VM, its `Job` rows, the permissions on it, the job queue and the instance of
the cluster, and per process the request in flight.

| TLA+ | code |
|---|---|
| `vm` | the row: `last_job`, `ignore_cache`, `pending_delete`, `mtime` |
| `jobs`, `grants` | the `Job` rows with `obj` = the VM; whether its object permissions are stored |
| `gjobs`, `instance` | external: the jobs `GetJobStatus` knows, the instance's `mtime` (0: none) |
| `req[p].copy`, `write`, `drop`, `new` | the model instance in memory, what its refresh wrote, the jobs it deleted, the jobs submitted |
| `Open`, `OpenClear`, `OpenCreate` | the `SELECT` and constructor of a view; `Refresh` is the `refresh()` in it |
| `Submit`, `FindMissing`, `Fail` | a call that submits a job; `_refresh()` answering 404 in `_destroy`; an exception |
| `FinishVisit` ... `FinishCreate` | the rest of each view and its commit, cascades included |
| `JobEnds`, `JobArchived`, `Crash` | the cluster; a process that is killed |

A commit whose row names a job that is gone is refused (the foreign key).  A
request's writes concern this VM only, so a row lock only delays them; they are
one step.  The expiry of the cache is a nondeterministic choice.  So is `lost`, the
set of jobs whose poll raised or gave an answer without status (an archived job is
always in it).  Loading the jobs of the VM and polling them is one step: the jobs'
own rows, which poll and save themselves in that loop, are the subject of
`JobCache`.  Templates' legacy rows are left out; owner tags are in `ClusterSync`,
a rename's new host name in `ModifyPages`.

### JobCache

One row of the jobs table.  `Open` is its constructor, `PollAnswered`,
`PollArchived` and `PollFailed` the three outcomes of `GetJobStatus` in
`load_info()`, `Show` and `Clear` the end of the request.  `Listed` is the query of
the list of running jobs, which filters on the stored status, so that a job which
was never polled is not in it.  `save()` of a row that was deleted inserts it
again; this is why `Show` writes whatever the row is.  `req[p].stale` is history:
another request has written or deleted the row since this one loaded it, so that
its save is a `StaleSave`.  Ganeti's `queued`, `waiting`
and `running` are one status.

### RapiCache

Per process `cache` (`RAPI_CACHE`: hash to client, a client being its
credentials) and `hashes` (`RAPI_CACHE_HASHES`: cluster to hash); `cluster` the
credentials of each cluster, `child` the `cluster_hash` of one of its VMs, nodes
or jobs.  `GetRapi` and `GetRapiRaises` are `get_rapi()`; `Client` is what it
returns.  `AddCluster` and `EditCluster` take what was typed through the form,
whose check of user name and password comes before the save; `CommitCluster` is
the commit with what the signal handler wrote, and perhaps a new object;
`CommitChild` is the whole row of an object saved.  `HashOf` is `create_hash()` and
is a constant, so that what depends on its being free of collisions shows (section
4).  The docstring of `get_rapi()` announces `Cluster.DoesNotExist` for an unknown
cluster; the code unpacks an empty result and raises `ValueError`; the model only
says it raises.

### GanetiErrors

`errors` is the table in the order of its keys, `api` what the API answers for
each object.  `StoreError`, `ErrorsOf` and `ClearErrors` are the methods of the
table, `Refreshed` the two branches of `refresh()` that call them, for an
instance whose `error` attribute was set or not.  `Load` constructs an instance,
`RefreshAgain` refreshes one that failed in this request (the refresh view, the
synchronisations).  `Seen` is the table as a transaction sees it: what is
committed, and its own writes (the isolation level is `READ COMMITTED`).  A
call of the API and the lookup after it are one step.

### ClusterSync

Several clusters whose instances and nodes may have equal names, and the tables
that mirror them.

| TLA+ | code |
|---|---|
| `vm`, `node`, `cluster`, `owner` | the tables; `vm[i].current` says whether the row's `mtime` is the instance's, `fetched` whether it has info |
| `ginst`, `gnode`, `up` | external: instances with node and owner tags; the cluster of each node; whether the API answers |
| `tagjob` | external: the tag jobs queued for an instance |
| `Retagged`, `Refreshed`, `Assigned` | `VirtualMachine.save()` from a refresh and from a page |
| `RefreshView` | the refresh page: `sync_virtual_machines(True)` and `sync_nodes(True)` |
| `ImportVMs`, `ImportNodes`, `AdoptOrphans`, `DeleteMissingVMs`, `DeleteMissingNodes` | the five pages of `importing.py` and `importing_nodes.py`, with their `missing_in_...` queries |
| `RefreshCacheForgets`, `RefreshCacheNodes`, `LoadVM` | the statements of `refreshcache`; a load that refreshes one row |
| `SubmitCreation`, `CommitCreation` | `CreateInstance`, and the commit of the new row |
| `AddCluster`, `DeleteCluster`, `DeleteOwner` | with the cascades of `django`'s deletions |

A deleted node takes with it the VM rows that name it as primary or secondary
node.  `Node.hostname` is unique over all clusters, `VirtualMachine.hostname` per
cluster.  A request is one step, a command several, a creation two.

`AddInstanceTags` and `DeleteInstanceTags` only submit a job (`utils/client.py:617`).
`save()` takes the tags for changed, and writes the row; the jobs change the tags
later, in any order (`TagJobSucceeds`, which also gives the instance a new `mtime`),
or fail (`TagJobFails`).  What a refresh compares is the tags it has just read, what a
page compares is the info in the row (`vm[i].tags`): setting an owner does not
serialise the info again (`clusters/models.py:51`), so that it keeps the tags of the
last refresh.  `vm[i].failed` is history: the tag jobs that failed since the row has
the instance's `mtime`, and left a tag other than they were to.

### LazyCache and NodeCache

`LazyCache` is what the cache promises the reader of a page: what is shown is what
the cluster has now or had at most `Expiry` ago; now, while a job of the object is
pending; or the page says that nobody answered.  It is off (`excused`) from the
write of a refresh that was overtaken to the next one that was not.

`NodeCache` is the code: `LoadInfo` decides between cache and refresh
(`load_info()`), `CheckJobs` polls, `Refresh` and `RefreshFails` are the answer of
the cluster, `Save` the full or narrow write, `SetRole` and `Evacuate` submit a job,
`Track` writes it, `Close` ends the request.  `ForgetTime` is the bulk update of
`refreshcache`.  Times are ages, the times of `Tick` are `LAZY_CACHE_REFRESH` units.
`Promise` maps the cluster's version of the node to `truth`, "a job is tracked by
the row" to `pending` and `raced` to `excused`.  The cluster's own row is the same
code with other operations (`redistribute_config`).  `_complete_job()` does nothing
for either.  An `mtime` of `None` from Ganeti ("never modified") is not modelled.

### Quotas

`row[v]` is what the last refresh parsed, `inst[v]` the instance, `job[v]` what is
pending for it, `quota` the `Quota` rows and the cluster's default.  Memory and
virtual CPUs are checked alike but for a limit of zero, so that one `resource` is
followed, which `QuotaInit` chooses; a check of both can only refuse more.
`UsedResources`, `GetQuota` and `SetQuota` are the methods of those names.

| TLA+ | code |
|---|---|
| `Startup`, `CheckQuotaStart` | the startup view; the check is skipped for a superuser, for a quota row of zeros only, and of CPUs for a limit of zero (`virtualmachines/views.py:349`) |
| `Modify`, `CheckQuotaModify` | the check of the modify form, made again by `modify_confirm`; only for a VM whose row runs |
| `Reboot` | no check, neither of the quota nor that the VM runs; Ganeti starts one that does not |
| `Create` | `template_to_instance()`, for the wizard and from a template: no check, and `start` as ticked |
| `Reparent` | the reparent view, import and adoption: no check |
| `SetQuota` | the quota page, the removal of a user, the default on the cluster's form |
| `JobEnds`, `InstanceStops`, `InstanceChanges`, `Refresh` | the cluster, its users and administrators; a refresh |

`BareZero` is a quota row whose only limit is zero, which `any(quota.values())` takes
for none.  `Total` is a sum of sizes, written as the number of units it counts, which
is what the proofs need: a sum folded over a set would call for induction.
`cause[o]` is history: something happened for which `o` may exceed the quota, and
since then what the VMs have and are being given (`Needed`) has not fitted it.  Most
reasons are actions; two are about a check: `Unenforced`, and `Misled`, a check for a
VM whose row is not what its instance is, or of an owner of whose VMs some row tells
less than the VM has or is being given.  The specification is
`QuotaSpec`; `RapiClient` has `ClientSpec` and `ModifyPages` has `EditSpec` for the same
reason: each shares its proof module with another component.
All VMs have a known hypervisor (without one the modify view raises).

### VMWizard

`page` is the cookie.  `PostCluster`, `PostOwner`, `PostBasics`, `PostAdvanced` and
`PostHv` are the five pages, each validated by its own form against what the cookie
holds of the others; `Done` is the sixth, which validates all of them again and
stores a template, submits an instance, or both.  `CreateFromTemplate`,
`TemplateFromInstance` and `DeleteTemplate` are the other ways.  `SetAllowed` and
`SetTaken` are grants and host names that change between two posts.  `Classify` and
`HasCdrom2` are the capabilities of the cluster.

### ModifyPages

Two pages and a session.  `OpenForm` shows the form of a VM, `PostForm` puts its
values in `edit_form` and the VM's id in `edit_vm`, `ConfirmPage` reads `edit_form`,
`Confirm` sends.  `Rename` submits a job and changes the row at once, or, for a name
in use, submits and is rolled back.  `modified` relates the VM reached to the VM whose
values were entered.  `crossed` and `failed` are history.

### Access

Users, groups, members and grants, one cluster, VMs with owners, quota rows.
The actions are the forms that write them, with the guard of their view; deletions
cascade as `object_permissions` and the signal handlers do.  The `May...` operators
are the guards of the views, `Listed`, `Shown`, `Menu...`, `Offered` what lists, detail
pages, menus and forms show; they come from different functions of the code, and
the properties relate them.  A request is one step.

### RapiClient

`ClusterCalls` ... `QueryCalls` list every method of the client: its verb, its
required arguments, and which arguments go into the query and which into the body.
`Call` begins one; the four that first ask for the server's features are two
requests (`GetFeatures`, `Send`).  `Serve`, `Lose` and `Change` are the server and the
network, `TimeOut` gives up, `Retry` is a person who clicks again, with the same
values.  `RefreshFails` is `job.refresh()` in the `try` of the views that submit a job
(`virtualmachines/views.py:388`): the call has returned, and an error is shown all the
same (`call.unread` counts these).  `sets` are arguments sent whatever was given: the
old format of `EvacuateNode` always sends `early_release`.  `Click` is a form (`nodes/forms.py`, `virtualmachines/forms.py`) with the boxes
ticked, and what the view makes of them before it calls.  What a server does with
a call of another release is an assumption about Ganeti: a server without the
feature reads only the query, and a list of disks with gaps is refused.


## 4. The runs

A run asks one question of one component, with every property that holds of
that instance.  Deadlock is not checked: once the ids of a bound are used and
no user opens a page, the system may rightly stop (`ClusterSync_alone` checks it).

| run | instance | shows |
|---|---|---|
| `VMJobs_concurrent` | 2 processes, 2 jobs, operations and destroy, API failing, crashes | types; a tracked job bypasses the cache; no living instance loses its row |
| `VMJobs_sequential` | 1 process, 3 jobs, all six views, archiving, fair | the newest job is tracked to its end; a page releases only jobs that ended; clearing a job keeps the VM; when the deletion flag may be stranded; every tracking ends, with the exceptions named |
| `JobCache_alone` | 2 processes, all faults, fair | truthful; complete statuses and cleared jobs change only by a save that was overtaken; the outcome is recorded in the end |
| `RapiCache_alone` | 1 process, 2 clusters, 4 credentials, some refused | rows have their cluster's hash; clients are current; none is left behind |
| `GanetiErrors_alone` | 1 process, a cluster with 2 children, 2 failures, dismissals | 401 on the cluster; one row per failure; children silenced |
| `ClusterSync_alone` | 2 clusters (one may be silent, one is read only), 1 host name, 2 nodes, 1 owner | owner tags are right, or a job to put them right is queued or failed; placement in step; rows are lost only for the causes named; the refresh page converges |
| `NodeCache_alone` | 2 processes, expiry after 1 unit, 2 versions, 1 job, all faults | types; `NodeCache` implements `LazyCache` |
| `Quotas_alone` | 2 VMs of 1 owner, sizes up to 2, limits 0 and 3, memory or CPUs | an owner is over the quota only for one of the reasons named |
| `VMWizard_tabs` | 2 clusters with 2 and 1 nodes, different hypervisors and releases | nodes and hypervisor fit; still allowed; only what was asked |
| `ModifyPages_alone` | 2 VMs, 3 names, 2 tabs | what is sent was entered for its VM; requests reach the own instance |
| `Access_alone` | a superuser, a user, a group, a cluster, a VM, two permissions each | quota shown is the one enforced; what one may do is shown; keys are of admins; who creates has owners to choose and may administer |
| `RapiClient_alone` | 2 optional arguments, 2 clicks, 1 change of release out of 4 | arguments reach the cluster; what is done twice was timed out or could not be read; every call ends |

### Where the properties stop holding

Some properties hold of an instance and not of a larger one, or name exceptions;
that is part of what they say, and much of what this project found out about the
code is here.  Changing one constant of the configuration shows each of the first
group.

*Jobs and rows of VMs.*
* A full save overwrites `last_job` of an operation that came in between: with
  two processes a pending job is forgotten, and `NewestJobTracked` fails.
* With the fault `"rapi"` a lost poll of a running job releases it as 'unknown'
  (`ReleasesOnlyEndedJobs`), and clearing a job during an outage deletes the row of
  a living VM (`ClearKeepsVM`): the deletion cascades over `last_job`.
* Dropping a VM whose row names a last job cascades as well, through the
  permissions users hold on it (`virtualmachines/views.py:187`): the grants are lost
  even when the destruction then fails.
* `DeletesOnlyTheDead` fails with `"create"` in `View` and a destroy: while the
  creation job runs `GetInstance` answers 404, the destroy view drops the row,
  and then the instance appears.
* `TrackingEnds` names its exceptions.  A canceled job is never in the statuses
  that end tracking (`clusters/models.py:245`); a job archived unpolled takes the
  status the job before it left behind; and `refresh()` writes nothing when
  `GetInstance` does not answer (`clusters/models.py:136`), after a creation that
  failed or a removal that was archived before it was polled.
* `StrandedDeleteExplained` says when a deletion flag outlives its job.
* A job polled before it ended, or loaded before it was cleared, is saved whole: a
  complete row goes back to an older status, a cleared one is there again.
  `Immutable` and `ClearedStaysCleared` name this save (`StaleSave`) as their one
  exception, and fail without it in the run as it is.  The run has both processes.

*Clients and errors.*
* `RowsCurrent` and `ClientCurrent` fail with two processes: an object loaded
  before an edit is saved, with the old hash, after it; and both processes keep
  their own clients.  `ClientCurrent` fails with one process when `HashOf` gives two
  credentials one hash: `create_hash()` joins the parts without a separator.
* With credentials the constructor refuses (`utils/client.py:177`) the second
  dictionary keeps naming a client that is gone (`utils/__init__.py:86`); this is
  why the theorem `ClientsIndexed` assumes `Rejected = {}`.  The password `None`,
  spelt, is taken for none.
* `OneRowPerFailure` and `ChildrenSilenced` fail with two processes: both look up
  and then insert.
* An error that was cleared and comes back stays cleared (`utils/models.py:177`
  looks for a row of any kind), and success in a later request clears no stored
  error: only the very instance that failed does (`clusters/models.py:179`), and it
  lives for one request.

*Synchronisation.*
* `LossNeedsCause` has five causes.  A silent cluster looks like an empty one: the
  list of missing VMs then has all of them.  Missing VMs are deleted by host name
  over all clusters (`ganeti_web/views/importing.py:116`).  A node row is deleted
  with the rows of the VMs that name it, and may name an old node or be filed under
  another cluster, since its host name is unique over all of them.
* A VM refreshed before its node has a row keeps no node until its `mtime` changes
  (`PlacementCurrent` says "or none").
* The page of orphans, failing midway, leaves tag jobs submitted while the rows roll
  back.
* A tag job that fails, because the instance is busy or its tag was changed by
  another one, leaves the tag other than the row's owner, and nobody notices: the row
  has the instance's `mtime`, so that no refresh saves it, until something else
  changes the instance or `refreshcache` forgets the times.  `TagsInStep` names the
  case, and the tags of an owner who was deleted, which stay as they are.
* Overlapping refreshes of a node may write in the wrong order; the promise of
  `LazyCache` is then `excused`.  A canceled job bypasses the cache for ever.

*Names, quotas, pages.*
* A row takes its new name when the rename is only submitted
  (`virtualmachines/views.py:944`).  When the job fails and the names are used
  again, requests for one row reach another VM's instance (`ReachesOwnInstance`).  A
  name in use is refused after the job was submitted.
* The session of a modification is shared: two tabs mix up the values of two VMs
  (`SentWasEntered`), because the confirmation never looks at `edit_vm`.
* An owner's VMs exceed the quota after a superuser's start, a reboot of a VM that
  was stopped, a creation that starts its VM, a new owner, a new limit, a change by
  an administrator of the cluster, a start under a quota that startup skips (a row of
  zeros only; for CPUs any limit of zero, `virtualmachines/views.py:376`), or a check
  against rows that tell too little (`Misled`): older than the cluster, or with a job
  pending.  A stopped VM may be modified to any size, which by itself exceeds
  nothing.  Together these are `cause`; without any one of them `QuotaHasCause` fails.
  Superusers bypass the check at start and not at modify.  The disk
  check of the modify form never runs, and a NIC cannot be removed.
* A user without the right to reboot gets the refusal after the modification was
  submitted.
* The wizard raises `KeyError` when done on a cluster without default allocator, and
  `AttributeError` for a host name without a cluster.  An edited template keeps its
  old second node.  A VM made from a template is asked for without looking up its
  name, and without a quota.
* Cluster permissions mean different things to different pages: `create_vm` opens
  the list of a cluster's VMs while its tab is hidden; `migrate` alone lets one
  migrate and not see the VM; the clusters menu is shown to holders of `migrate` or
  `replace_disks` whose list is empty.  `MayIsShown` is stated for the pairs that
  agree.  A new owner given by reparent, adoption or import gets no grant, and the
  old one keeps his.  The log of a VM is looked up by host name only.

*Client.*
* An error without a status (a time-out, a refused connection) may hide a request
  that was carried out; so may any error of a view that submits a job, if it is its
  `job.refresh()` that failed (`EffectsNeedDoubt`).  A status other than 200 is taken
  for a request that was refused.
* `ArgumentsReach` excepts what the code drops: the boxes `cleanup` and `force`, the
  allocator on old servers, and automatic allocation without a default allocator.
  The disks typed into replace-disks are joined by character, so several are refused.

### Bounds, and why they are enough

* **Processes**: two where the properties survive two.  Every race in the code is
  between one request that read and one that wrote in between.
* **Jobs** (`MaxJobs`): two with two processes, so that a request's job and an
  earlier one exist; three with one, so that the loop of `check_job_status()` has
  a job before, between and after.  When no id is left a first submission is
  refused, as the API may do.  One for the node: two jobs of one row are the
  subject of `VirtualMachineJobs`.
* **One VM per behaviour** (`VirtualMachineJobs`): a second would share nothing with
  the first.  **One object per cluster, keys not reused** (`RapiCache`): objects of
  one cluster differ in nothing, and `update_cluster_hash` writes all of them.
* **Failures** (`GanetiErrors`): a 401 and a 404, which the code tells apart;
  another code takes neither branch.
* **Two clusters, one host name, two nodes** (`ClusterSync`): the same name twice,
  a node to move to; instances of one cluster do not meet in any query but by node.
  **One owner**, whose tag may be wanted or not; tags of several owners are covered by
  the proof.  `tagjob` says of which kinds some jobs are queued, not how many: one may
  end and an equal one remain.  `Taggings`: nobody compares the tags of instances of a
  cluster without user name, so that they are always empty.
* **Expiry 1, versions 2** (`NodeCache`): fresh, at the limit, too old; before and
  after one change.
* **Sizes up to 2, limits 0 and 3** (`Quotas`): one VM of any size fits, two do unless
  both are large, and none does where the limit is the special value zero.  One job per
  VM: the reboot that `modify_confirm` may submit after the modification is a `Reboot`
  that comes when the modification has ended.  The instances that there are at the
  beginning are those of an administrator.
* **Clusters of the wizard**: one with two nodes, for replication, KVM and PVM and a
  release without a second CD-ROM, one with one node and HVM only.  `Filled` holds a
  page good for PVM only and one good for the others; `Changing` is one cluster, since
  the other only has to differ from it.
* **Names** (`ModifyPages`): one more than VMs, so that a rename has somewhere to go.
* **People** (`Access`): one user and one group beside a superuser nobody edits; a
  grant is the user's own, the group's or both.  The permissions kept are the ones
  that `admin` does not behave alike with.
* **Calls** (`RapiClient`): two optional arguments, since a call drops an argument
  because of itself or of one other; one change of release falls between the two
  requests of a call; disk numbers have one digit.
* Symmetry is used for processes and for nodes that are alike, never with liveness.

### Fairness

`FairSpec` of `VirtualMachineJobs`: Ganeti ends its jobs; a process ends the
request it has begun; users come back to the VM's page again and again, which is
strong fairness of `Open(p, "visit")`, since a process is now busy and now free.
Nothing in the web manager polls by itself, so that without visits no job is
ever released; this is the assumption the code makes.  Operations, destructions
and clears have no fairness.  `JobCache` assumes the same of the page of a job:
weak fairness of the rest of a request, and strong fairness of opening the page,
of a poll that is answered (or answered 404) and of a save that is not cut off by
a crash.  So faults may happen without end, but not every time.  `RapiClient` has
weak fairness of the process of the caller, and none of the server or the network:
the time-out of the client ends a call that hangs.  The time-out is per read; a
server that sends a byte now and then is not modelled.  The other specifications
have safety only.


## 5. The proofs

Every statement holds for any number of processes, jobs, clusters, objects, VMs,
names and tabs.

| module | theorems | state |
|---|---|---|
| `VirtualMachineJobs_proofs` | `TypeCorrect`, `TrackedBypass`, `DeletionsSafe` | types; a tracked job bypasses the cache; without creations and clears no living instance loses its row |
| | `NewestTracked`, `StrandedExplained`, `ReleasesOnlyEnded`, `ClearsKeepVM` | with one process and an API that answers: every safety property of `VMJobs_sequential` |
| `JobCache_proofs` | `JobsTruthful`, `CompleteIsFinal`, `ClearedForGood` | a job row claims no outcome its job did not have; it is final, and cleared for good, but for the save of a request that was overtaken |
| `RapiCache_proofs` | `SavedWhole`, `ClientsKeyed`, `ClientsKept`, `ClientsIndexed`, `RowsStayCurrent`, `ClientsStayCurrent` | user name and password together or neither; clients under their own hash; none left behind; if no constructor raises, the dictionaries agree; with one process rows and (without collisions of the hash) clients are current |
| the same, of `RapiClient` | `TwiceNeedsDoubt`, `AskedIsDone` | what is done twice was timed out, or its job could not be read; what is done has the arguments that were asked for |
| `GanetiErrors_proofs` | `UnauthorizedOnCluster`, `OneRowAlone`, `SilencedAlone` | 401 errors are the cluster's; one process stores each error once, and no 404 for a child of a cluster that shows it |
| the same, of `Quotas` | `QuotaTypeCorrect`, `OverQuotaExplained` | types; the property of the run |
| `ClusterSync_proofs` | `TypeCorrect`, `TagsFollowOwners`, `PlacementFollows`, `LossHasACause`, `RefreshDoesConverge` | every property of the run |
| `NodeCache_proofs` | `TypeCorrect`, `Implements` | types; `Spec` implements `LazyCache` |
| `VMWizard_proofs` | `TypeCorrect`, `NodesFitHolds`, `HypervisorFitsHolds`, `StillAllowedHolds`, `OnlyAskedHolds` | types; every property of the run |
| the same, of `ModifyPages` | `PagesTypeCorrect`, `SentEntered`, `ReachesOwn` | types; every property of the run |
| `Access_proofs` | `TypeCorrect`, `ShownQuotaEnforced`, `MayAlwaysShown`, `KeysAlwaysOfAdmins`, `AlwaysOwnerToChoose`, `CreatorAlwaysManages` | types; every property of the run |

**VirtualMachineJobs.**  `TrackedIsBypassed` is not inductive: a copy in memory
may become the row.  `IInv` adds that every copy is bypassed too
(`CopiesBypassed`).  `DeletionsSafe` needs more (`DInv`): no job is a creation; a
removal that succeeded means there is no instance, now and for ever; a request
that is about to delete has seen it gone (`DeletersSawDead`), which for a refresh
follows from the carried-over status and operation being those of one and the
same job; and a copy that is saved whole still has its key.  The assumption
`UncreatedUncleared` (nobody calls the creation or clear views) is needed:
section 4 says what happens otherwise.

The four theorems about `Single(p)` (one process, and no poll of a job the cluster
knows is lost; crashes and archived jobs remain) rest on one invariant, `SInv`.  As
there is one process, the copy a request has in memory tracks what the row tracks,
or has released it because it ended (`Follows`, `SameJob`).  Jobs are numbered as
they are submitted (`Numbered`), so that a row which tracks the last of its jobs
(`LastIsNewest`) tracks the newest, unless that one is over.  A row flagged for
deletion either waits for a job that is a removal or came after one (`Awaited`), or
some removal failed, was lost sight of or was overtaken (`Explained`); this is kept
for the row and for the copy that may become it (`DueRows`).  `Kept` says, for VMs
that nobody creates, that a request drops the row only of an instance that is gone;
`ClearsKeepVM` follows from it and from a job that was released being over.

**JobCache.**  A copy in memory is as truthful as the row, since it may become
it; that is inductive because a job that has ended stays as it ended (`TInv`).  What a
request in flight has loaded is the row as it is, unless another one wrote or deleted
that meanwhile, in which case the request is stale (`InFlight`); a complete status
needs no poll (`Settled`), so that a request that polled and is not stale writes over a
row that is there and not complete.

**RapiCache.**  One step of `get_rapi()` removes the client of the cluster and
inserts the new one, both in both dictionaries; `Indexed` is kept because the new
key is not in the cache (it was just looked up) and so is in no index.
`Rejected = {}` is needed for that and not for `NoClientLeaks`: a constructor
that raises leaves an index without a client, never a client without an index.
The hash may have collisions.  With one process the hash that a request carries
is the one of the credentials it has loaded or saved, or of its cluster as it is
(`OnlyRequest`); a commit writes both together.  `ClientsStayCurrent` assumes that
the hash tells credentials apart.

**GanetiErrors.**  The rows a request will insert are rightly blamed like those
of the table (`IInv`).  For `OneRowAlone` the invariant is about the table *as the
only request sees it*: what it stores next is compared with exactly that.  For
`SilencedAlone` it is about what the request will insert: of every child's 404 in it,
the cluster's own row is cleared, or will be by the same commit (`Quieted`).
`Proc = {p}` is needed (section 4).

**Quotas.**  `QuotaHasCause` says nothing of a job under way, which may end at any
time.  `QuotaInv` says of each owner without a cause that what their VMs have *and are
being given* fits the quota (`Foreseen`): a VM that runs or is being started needs the
larger of its size and the one that a job gives it.  A check that the rows do not
mislead establishes that, since what rows tell is then at least what is needed
(`RowsTell`); a job that ends, well or not, and a VM that stops need no more than before;
every other action blames the owner.  A name without a row has neither instance nor
job (`Unmade`), so that a creation adds one VM to the others.  `NeedChanges` splits
what an owner needs into the VM that changes and the rest, by `TotalAdds`: the units of
one more VM are disjoint from those of the others, and are as many as its size.

**ClusterSync.**  `IInv` says of every row what its flag `current` promises and what
was asked for its tags (`RowOK`), and of every instance that it runs on a node of its own
cluster.  For the tags (`TagsOK`): each tag of the instance is in the row's info and is
the owner's, or its deletion was asked; the owner's tag is there, or was asked for.
"Asked" means that the job is queued or has failed.  A page that sets an owner
compares with the info and not with the instance, so that the invariant also says that
the info has no living owner's tag but the row's own: of another one the deletion would
have to be asked again.
Lemmas show that the two operators which save a VM keep `RowOK`, and each action is
assembled from them.  The two theorems about steps follow from the invariant and
from what each deletion may name.

**NodeCache.**  `IInv` says of every request in flight what the row and the
instance in memory know by then: the information is a version the cluster had, no
older than `cached` says, and the present one unless the request was overtaken.  With
it each step of the code is a step of `LazyCache` or a stutter: only `Save` and
`LoadInfo` show something.

**RapiClient.**  `TriesInv` says that each click has at most one request on its way or
carried out (`OnePerTry`), and that the clicks among these whose caller has given up
are at most as many as the errors that leave it in doubt (`Doubts`: time-outs, and jobs
submitted that could not be read): any other error was raised before sending, or
answers a request that was refused.  `AskedIsDone` is mostly about the tables of calls: for
every call and every set of arguments the request that the code builds has them
all, but for the exceptions the property names (`ReachInv` carries this from the
call over the question for the features to the request that is served).

**VMWizard.**  `Done` validates everything at once, so that the properties are about
what it reads; the invariant is that a stored template was made by it.  Most of
the work is that the forms, as written, imply what they should.

**ModifyPages.**  As long as edits did not cross, all open pages and the session are
about one VM, whose values they hold; as long as no rename failed, names of rows
are different and a row's name is its instance's or the one it is being renamed to.

**Access.**  Most properties relate two queries over the same grants: the lemmas show
of any state of the right types which grants put an entry in a list or menu and
which open a guard.  `ShownQuotaEnforced` needs the history: a quota row is removed
with its owner's last permission on the cluster, so that whoever has one and was
not given it without a permission (`unfounded`) has a permission (`QuotasFounded`).
`CreatorAlwaysManages` is about a step.

### Only model-checked

Liveness (`TrackingEnds`, `OutcomeRecorded`, `CallEnds`) is out of the prover's reach.
Where a theorem assumes one process (`Proc = {p}`), an API that answers (`Single`), no
creation and no clear (`UncreatedUncleared`), or a hash without collisions, section 4
says what fails without it.

The proofs rest on the assumptions the modules name, each of which TLC evaluates:
that special values are no members of the sets they stand beside, that bounds are
natural numbers, that the set of VMs of `Quotas` is finite (`VMAssumption`: a
table has finitely many rows), and that users, groups, VMs and the cluster are
told apart (`KindAssumption`: they are rows of different tables).

### Not modelled

* The wizard takes the list of operating systems (`GetOperatingSystems`,
  `virtualmachines/forms.py:833`) as always answered.  When it fails midway through
  `done()`, the page of basics counts as unreadable for the pages after it, so that
  hypervisor page and nodes pass unchecked.
* `Access` takes a request as one step.  `user_profile()` saves the whole user row
  (`muddle_users/views/user.py:181`), and may undo a change made in between.
  Registration, passwords and profiles are left out.
* `ClusterSync` takes a request as one step, so that two synchronisations at once are
  not covered.
* `Quotas` has no removal of VMs, which only frees, and no rename, which changes no size.
* The copy of a template, the validation of single fields, the graphical choice of
  disks and NICs, the sums of free memory and disk.
* The cluster list's `create_vm` flag, which asks `has_perm` on a class; the pages of
  refresh and job status, which have no permission check to speak of.
* The handlers of `view_remove_user`, which expect another sender than the view
  gives and never run.
* Search, tables, template tags, logs, fields, console forwarding, migrations and
  the plugin framework keep no state that the core depends on.
