# A TLA+ model of vitictl

`viti` is a command-line tool for a Vitistack fleet: clusters, machines and
networks in several availability zones, each behind a management cluster's
Kubernetes API. Much of it reads and prints. What is hard is what destroys or
changes things that other programs, or another terminal, change at the same
time, and what decides, from several answers of which some may fail, what a
command does and reports. This project models that: TLA+ modules translated
from the Go source, TLC configurations that check them on small instances, and
theorems checked by TLAPS for instances of any size.

## 1. The system

| Component (source) | State it keeps or touches | Operations | What is hard | What makes it correct |
|---|---|---|---|---|
| **Decommission** (`internal/decommission`, `cmd/kubernetescluster_delete.go`) | `Runner.failed`, the ROR goroutine; the guest's and the management cluster's API objects | `kc delete`, `kc delete --skip-preclean`, `kc preclean` | a dozen controllers release, cascade and re-create objects while it works; calls fail; waits expire; kills and restarts; a goroutine beside it | a cluster is destroyed only when nothing outside it is still held; a run that says "deleted" left nothing; a healthy run succeeds; every run ends |
| **Target resolution** (`cmd/kubernetescluster.go`, `cmd/fleetguard.go`, `cmd/resource_builder.go`, `internal/kube`) | the connected zones | find an object by name in all zones | a zone that is down, or fails half-way | the "only match" is the only one; "none" means none |
| **Scaling** (`cmd/kubernetescluster_scale*.go`) | the KubernetesCluster's topology | scale, add pool, delete pool | read, prompt, patch with optimistic locking, against other operators and status writes | an edit is made once at most, on the counts approved; control planes stay odd, pools stay at least one |
| **Network namespaces** (`internal/netns`, `cmd/networknamespace_*.go`) | evidence of use from four kinds of objects | delete with gates, orphan audit | lists made one after another; a prompt between check and deletion; a same-named successor | what is in use, or cannot be shown unused, is not deleted; the audit misses nothing it claims to have seen |
| **Plugin manager** (`internal/pluginmgr`, `cmd/plugin_install.go`) | binaries, alias links, one record per plugin | install, upgrade, reconcile aliases, uninstall | several files, not changed together; kills; two terminals; other people's files | nothing torn run, nothing of another taken, nothing left behind |
| **Download** (`index.go`, `auth.go`, `install.go`, `pkg/plugin/release`) | a temporary directory | indexes, latest release, assets, checksum, signature | tokens refused, API budget used up between requests, damaged or missing assets | what can be had is had, and only as published |
| **Upgrade** (`cmd/upgrade.go`, `internal/release`, `pkg/plugin/selfupgrade`) | the versions on disk | `upgrade`, `plugin upgrade`, a plugin's own | a release appears between check, prompt and installation; tags that are no versions | never a downgrade; the exit code says what was not done |
| **Dispatch and list** (`cmd/plugin_dispatch.go`, `cmd/plugin.go`, `internal/plugin`) | none | which plugin runs; which rows a list has | flags with values; aliases, links, duplicates | runs what was typed; lists each install once |
| **Configuration files** (`internal/login`, `cmd/configmerge.go`, `internal/settings`, `cmd/config.go`) | kubeconfig, talosconfig, their backups; the list of zones | merge, login, zone add and remove | two processes, no lock, writes in place, kills | others' entries kept; the file replaced is in a backup |
| **Talos and etcd** (`internal/login/endpoints.go`, `internal/talos`, `internal/etcd`, `internal/console`, `cmd/*console.go`, `cmd/kubernetescluster_etcd.go`) | a temporary talosconfig | login, backup, restore, dashboards, deep health | reports mix cards, bridges and pods; lists fail; endpoints do not answer | talosctl is directed at this cluster only; credentials do not stay behind |
| **Health** (`internal/health`, `cmd/kubernetescluster_health.go`) | none | `kc health`, `kc health-all` | several answers of a server that changes | healthy means that every answer said so |
| **Preflight, information, printing, picker, GUI** | none that outlives a call | | | see section 8 |

How they interact: every command on the fleet resolves its target through the
zones, may prompt, and then works on one zone's API; a decommission also works
on the guest's API and runs the `viti-nhn` plugin. The plugin commands share
files with each other and with users, the configuration commands theirs.
Nothing but API objects and files is shared between two processes, and none of
the families above shares any with another: each is a state machine of its own.

`PROJECT.json` lists all components with their status, and under `hazards` what
can go wrong at which line.

## 2. The modules

### The decommission

    Runner          pc, failed          the polling loop, and the call sites that may err
    GuestCluster    present, deleting,  (external) the guest's API and its controllers
                    argo, appset,
                    autosync, guestUp
    RORPurge        agents, registered, startRORPurge, runRORPurge, collectRORResult
                    purge
    Preclean        problems            phase 1: extends RORPurge
    Teardown        kc, owned,          phase 2: extends Runner; the operator is external
                    leftovers
    Decommission    mode, waived        commands, kills and restarts; extends both
    DecommissionGate                    the abstract specification
    DecommissionProofs                  theorems without conditions
    CleanVerdictProofs                  no false clean verdict
    DecommissionGateProofs              the refinement
    MCDecommission                      instances

**A process** is sequential: `pc` names the next call `Runner.preclean` or
`Runner.teardown` makes. `Start` is a command that found its cluster, `Killed`
ends it anywhere (the commands run under `context.Background()` and install no
signal handler, so a context is never cancelled half-way and every
`ctx.Done()` branch is unreachable). A step that lists objects and deletes each
of them is one action: an object that goes in between is a `NotFound`, which the
code ignores, and one that appears in between is as if it had appeared after.
Waits are not collapsed: every poll can find something else.

**The guest** is a set of objects `<<kind, id>>`. The kinds that stand for
something outside the cluster are Ingress, Gateway, LoadBalancer service, PVC, PV
and VolumeAttachment. A delete marks an object; its controller removes it when
what it waits for is gone (`Releasable`); what it owned follows (`Cascade`); and
a live owner, or ArgoCD, brings things back (`Recreate`). A webhook without a
backend refuses every write but one to a webhook configuration. These are
assumptions about Kubernetes, CSI and ArgoCD that the code's comments state; none
of it is viti's own code, and `map` marks it external.

**Errors.** `Flaky` names the call sites that may fail, told apart by what the
code does with a failure: `list` and `delete` block the verdict, `ror` and
`mgmt` too; `argo`, `scale` and `agents` are only warned about. `DeadlinesHit`
lets every wait expire. A guest whose machines are gone answers nothing.

**Phase 1** (`Preclean`) follows `guest.go` from `preclean` on. Its last read,
`verifyLB`, is the verdict. `problems` keeps the kinds verifyPreclean complained
about. `sweepGatewayAPIConfig` is left out: it deletes configuration objects
that hold nothing and reports nothing to the verdict.

**Phase 2** (`Teardown`) has one object of each kind that belongs to the
cluster; the operator releases them in any order once the cluster is deleted.

**The abstract specification** (`DecommissionGate`) has four variables: what is
held outside the cluster, whether somebody relies on nothing being held, the
cluster, and whether that was waived. Its steps say that the gate opens only when
nothing is held, that nothing is acquired while it is open, and that the cluster
goes only through the gate or by waiver. `Decommission` implements it under the
mapping in `Gate`: the gate is open at a clean verdict, until another run
starts, and for ever once the cluster was deleted on it.

### Zones, scaling, network namespaces

    FleetResolve    ConnectAll, lists per zone, Conclude    one object meant by a name
    NetNSOps        extends FleetResolve: nn delete, nn orphans
    ScaleCluster    kc scale, from flags to the patch
    TopologyEdits                       its abstract specification
    NetNSProofs     theorems about FleetResolve and NetNSOps
    ScaleClusterProofs                  theorems about ScaleCluster, and the refinement
    MCNetNSOps, MCScaleCluster          instances

`FleetResolve` has one object of a name per site (a namespace of a zone), told
from its successors by `gen`, as a UID does. Each zone is listed at a moment of
its own. The commands that look for one are of five sorts: `kc` (those that change
a cluster), `use` (those that only use one, or a machine: login, consoles, health,
etcd), `nn delete`, `get` (the generic one) and `plain get` (`kc get`,
`machine get`). They differ in what they go on after: `WholeFleet` must connect
to every zone, all but `nn delete` are `Lenient` about one that fails to list, and
only `get` says in its output that something was missed (`Partial`). `SpeaksFor`
are the zones a verdict is about in each case. Others create, delete and rewrite
objects meanwhile. `NetNSOps` reads the four lists
of a zone one by one (`List`), with claims that come and go between any two;
`load` is the snapshot, `Confirm` throws it away, `recheckGates` judges the one
made after the prompt. The audit reads all zones at once.

`ScaleCluster` follows a run through `idle`, `prompt`, `attempt`, `patch`,
`answer`. A resource version is modelled by what it is compared for: `fresh`
says that nobody wrote the object since this run read it. The patch is a merge
patch: only what differs is sent, pools as a whole list. `TopologyEdits` is the
promise: an approved edit takes effect in one step, at most once, and only
where what it was computed from still holds.

### Plugins

    PluginDir       files, dirs, parts, states: what is on disk, who an alias belongs to
    PluginManager   install, upgrade, uninstall, step by step
    PluginManagerProofs  theorems about them
    ReleaseFetch    how a plugin is had from GitHub
    Upgrade         viti upgrade, viti plugin upgrade, a plugin's own upgrade
    PluginList      the rows of viti plugin list
    PluginDispatch  which command line runs which plugin

A command in a terminal (`procs[t]`) has one step per file operation that
another process or a kill can come between: download, copy to `.tmp`, rename,
one per alias, truncate and write of the record. A name is run from the directory
that is first on `PATH` (`First`), but whose it is is asked of the one that
`plugin.List` has first, which sorts by name and path (`Listed`); the two orders
are constants of their own. An alias is a link, or on Windows (`Windows`) a copy
of the binary (`Forms`), and each step that makes or removes one may fail. `lost`
remembers the files that a record no longer has though they are there, and why is
the step that adds to it: `Drops` (an install elsewhere or with fewer aliases),
`LinkAlias` (what could not be replaced), `EnsureAlias` and `Unlink` (a copy or a
dangling link that is not known again).

`ReleaseFetch` reads the indexes against one deadline for all of them, `late`, and gives every request all
answers GitHub may give in its situation, each anew. `Upgrade` has versions as
a number and a flag for what follows it; 0 is a tag that is no version.

### Configuration, Talos, health

    LocalFiles      kubeconfig and talosconfig: merge, login
    LocalFilesProofs  theorems about them
    ZoneSettings    the zones of ctl.config.yaml
    LoginEndpoints  where endpoints and nodes come from
    TalosOps        extends LoginEndpoints: everything that runs talosctl
    ClusterHealth   probes, nodes, verdict
    ToolsProofs     theorems about these but LocalFiles, and about the last four above
    MCTools         instances of these, and of the last four above

`LocalFiles` keeps of each entry who wrote it last, and whether it has fields
viti does not know. A merge reads, makes a backup and renames; a login reads,
truncates and writes. An address in `LoginEndpoints` is known by what it
belongs to, which the code cannot see: that is what the properties compare its
choice with. `Report` is any set of interfaces, of cards or of bridges, with types
and names that tell which or mislead, and any three lists of addresses; `Names`
include those of clusters whose ids continue this one's, which the code's
prefixes take in. `PluginList` has programs and links in every place, links to a
file, to a link (by what it leads to in the end), to a program off `PATH` or to
nothing, directories that are on `PATH` twice, and any aliases recorded.
`ClusterHealth` lets a server turn between any two probes.

`MCTools` is a sum: a behaviour is one of a tool, the others stay as they
start. They share no variable, so nothing is lost by it. The theorems are about
each tool's own specification (`HealthSpec`, `FetchSpec`, `UpgradeSpec`,
`LoginSpec`, `TalosSpec`, `ListSpec`, `DispatchSpec`, `SettingsSpec`).

## 3. Runs

| Run | Question | Instance |
|---|---|---|
| `network` | does a clean verdict mean that addresses are released? | 1 Ingress, 1 Gateway, 1 service, 1 webhook, ArgoCD that holds the Ingress and the service and restarts; lists and deletes fail, waits expire, kills, re-runs |
| `storage` | the same for volumes; are finalizers kept? | 3 volumes of the three interesting sorts; lists and deletes fail, waits expire |
| `decommission` | is deletion gated; does "deleted" mean released? | all three commands, ROR purge, 1 Ingress, both clusters' calls fail |
| `live` | does a healthy run succeed? | patient waits, dead webhook, ArgoCD with ApplicationSets, gateway, 2 volumes, ROR |
| `ends` | does every run end, and never lie about machines? | every call site fails, a stuck volume, a late reconcile, ROR with a missing secret or identity; with and without phase 1 |
| `scale` | is every edit of the topology atomic, and the cluster viable? | 2 operators, 2 pool names and pools without one, up to 2 pools, 1 node a pool, 3 control planes, 2 attempts |
| `netns` | is only what is unused deleted; do audits and searches tell the truth? | 2 zones, one without IPAllocations, 2 sites, objects old, young and new, claims of all kinds, 2 changes by others; all sorts of commands |
| `plugins` | are files and records consistent, and others' left alone? | 2 plugins, 1 alias, 2 directories, on `PATH` in one order and listed in the other, links or copies, 2 terminals, 3 events (commands, kills, changes by others) |
| `tools` | the rest, tool by tool | see below |
| `argo_unread`, `zone_unread`, `uninstall_leaves` | where code and documentation part | see section 5 |

**Bounds.** *Decommission:* there is no counter to cap: every set is finite, and
TLC explores all of it. One object of a kind is enough for the network kinds
because the steps treat the objects of a kind alike and independently; the three
volumes differ in how they are held, which is what the volume steps tell apart.
Kinds interact only along ownership (gateway and service,
workload-pod-claim-volume-attachment), and each such chain is whole in one run.
Networks and storage are checked apart because no step relates them.
*Scale:* two operators make every conflict there is, since all that a run sees
of others is that the object was written, and to what; outside edits choose any
viable topology. Two pools are the boundary of "not the last one". `MaxAttempts`
is 5 in the source; with 2 the retried and the last attempt are both there.
*Network namespaces:* two zones and sites make a wrong zone and a wrong match;
`MaxChanges = 2` is a claim that moves, or an object that is replaced, between
two lists. *Plugins:* `MaxEvents = 3` bounds commands started, kills and other
people's changes together: an install, another with other flags, and an
uninstall; or a command, one that is killed, and a change by others. One
terminal has every flag, the other none, which is enough for every pair. All
plugins may be installed at the start, as links or as copies. Longer chains
exist: one was met in the proofs and is in section 5. *Tools:* command lines of
four words over two plugin names with a common prefix, a flag, a flag with a
value in both forms and a built-in; two indexes and all four sorts of tokens;
one plugin, two releases and one published meanwhile; two names in two places on
`PATH`, which may be one directory, with every link and every record there can
be; two entries, two terminals, three commands or kills and two backups a second
(100 in the source); lists of three zones; two machines, named as control plane,
as worker, and as those of clusters `<id>-2`, `<id>-ctp2` and any other, with
reports of nine shapes (`FewReports`, one for each way a report is read or
misleads; the theorems have any `Report`); two clusters and one turn of a
server.

**Which calls may fail in the passing runs.** `network`, `storage` and
`decommission` exclude `argo`, `scale` and `agents`: a failure of one of these
is only warned about, and TLC finds a false clean verdict as soon as one is
allowed (`argo_unread` is the smallest). They also exclude an ApplicationSet
controller together with an ArgoCD that restarts: one that outlives its
scale-down writes the sync policies back, and the restarted controller then heals.
`ends` allows every failure, and so do all runs of the other modules. `netns`
runs all sorts of commands; what the `kc` commands miss of a zone that fails to list
is `zone_unread`.

**Deadlock.** Every command ends; the configurations say `CHECK_DEADLOCK FALSE`
where nothing runs for ever beside them.

**Fairness** (`Fairness`, used by `live` and `ends`). The process takes a step
whenever it can: every call returns and every wait has a deadline. Controllers
release and cascade what they can, pods exit, the plugin and the polling
goroutine move, the operator releases what it does not forget. Nothing is
assumed of what re-creates objects, of agents that restart, or of kills;
`OneRun` has none of the latter, because a run that is killed need not succeed.
`live` has patient waits (`DeadlinesHit = FALSE`): "succeeds" is a claim about
order, not about time limits. The other components have no loop that waits for
somebody else, but for the deletion of a namespace, which has a deadline; no
liveness is stated of them.

## 4. Properties

Decommission:

* `CleanMeansReleased` — from a clean verdict on, the guest holds nothing
  outside itself and is not registered in ROR, whatever its controllers still do.
* `ImplementsGate` — the refinement of `DecommissionGate`.
* `DeletedOnlyAfterVerdict` — a live cluster goes only by `--skip-preclean`, or
  by a run against whose phase 1 nothing stands.
* `FinalizersKept` — phase 1 itself takes no object that holds external state
  out of the API, but a Terminating attachment whose volume is gone.
* `DeletedMeansReleased`, `DeletedMeansDead` — what "fully deleted" leaves
  behind: nothing, against an operator that creates nothing late; no machine, VIP
  or cluster object, against any.
* `HealthyRunSucceeds`, `RunEnds` — liveness.

Zones, scaling, network namespaces:

* `ResolvesTheOnlyOne` — a match that is acted on is the only one that was there
  all along, and "none" is said only where there was none: in all zones of `nn
  delete` and `get`, in all but those that failed to list of the `kc` commands that
  change a cluster, and in those that answered of the others.
* `ImplementsEdits`, `StaysViable` — the refinement of `TopologyEdits`; an odd
  control plane, a last pool and distinct names survive any interleaving.
* `DeletesOnlyUnused`, `GoneMeansGone`, `AuditTellsTheTruth` — nothing that was
  claimed since the confirmation is deleted, nor a successor; "gone" is of the
  object deleted; what an audit calls deletable was not claimed all along, and a
  complete one has missed nothing.

Plugins:

* `NeverTorn` — a binary in place is whole, whatever was killed.
* `UninstallIsComplete` — once the record of a plugin is gone, so is all that its
  commands made, links and copies, but what the record had lost (`lost`).
* `TakesOnlyItsOwn` — an uninstall or a reconciliation touches only what stands for its
  plugin; an install spares what it saw listed first under an alias.
* `NeverConflictsWithItself` — an install is refused only over what it saw of
  others, or what its record had lost.
* `RecordsWhatIsThere` — of aliases and binary, when a record is written.
  Each names, in its comment, what it excuses: two commands on one plugin at once
  share one `.tmp`; a kill leaves links nothing records.
* `PublicPluginsInstall`, `InstallsWhatWasPublished` — a public plugin installs
  whatever answers come, if its index was read in time; a damaged archive never
  does.
* `InstallsOnlyUpgrades`, `ExitTellsTheTruth` — what replaces a version is a
  version, and no older; success means that everything was looked at.
* `ListsWhatIsInstalled` — an installed plugin is listed under its own name, a
  program is listed at all, and not as two plugins; with the exceptions of section 5.
* `RunsWhatWasTyped`.

Configuration, Talos, health:

* `NeverHalfWritten`, `PreviousIsKept`, `TouchesOnlyItsEntries`.
* `EditsOneZone` — a zone command that nobody overtook replaces the file it read;
  and whoever else was there, what it writes has the zone it names as it says,
  and the others of the list it read, in their order.
* `EndpointsAreControlPlanes`, `DirectedAtTheCluster` — what is dialled has the
  names of this cluster's machines, in the right role; it is a card and not a bridge
  where the report tells them apart (`Telling`); it has the right family and, for
  what changes etcd, has answered.
* `TempConfigRemoved`.
* `HealthyIsHealthy`.

Each is broken by a mutant (`PROJECT.json`, `mutants`): an operator next to the
one it changes, named for the mistake.

## 5. Where code and documentation part

Shown by a run:

* `argo_unread` (`guest.go:73`): any error reading the `argocd` namespace counts
  as "no ArgoCD". One failed read, and ArgoCD restores an Ingress after the clean
  verdict. `startRORPurge` tells NotFound from an error in the same situation.
* `zone_unread` (`cmd/kubernetescluster.go:134`): a zone that connects but fails
  to list is dropped with a warning, though the README says that a same-named
  cluster there cannot go unseen.
* `uninstall_leaves` (`cmd/plugin_install.go:165`): an install overwrites the record
  of an earlier one and leaves what that one made: installed again with
  `--no-aliases`, or with another `--prefix`, and uninstalled, a plugin leaves its
  alias. `state.go:28` says that what is recorded is removed "exactly" as created.

Met while modelling. Where a property has to be weaker for it, its comment says so:

* Decommission: a workload whose pod is being replaced keeps its replicas
  (`guest.go:300`); the last check re-checks "everything" but network
  configurations (`mgmt.go:151`); node-IP allocations are read once, not waited
  for (`mgmt.go:80`).
* Scaling: of several pools without a name the first is removed, whichever was
  picked (`pooledit.go:690`).
* Resolution: `kc get`, `machine get`, `machine console` and the commands that only
  use a cluster go on without zones that failed to connect or to list, with a
  warning, and then say that there is none, or act on the only match
  (`cmd/machine.go:98`, `cmd/machine_console.go:52`, `kubernetescluster.go:171`);
  `resource_builder.go:225` says of the generic `get` that this would be a silent
  wrong answer. `ResolvesTheOnlyOne` has their verdicts speak for the zones that
  answered.
* Network namespaces: a claim that is handed over from one object to another between
  two lists of a zone is seen in neither; the properties are about claims that
  stand all along.
* Plugins, what an uninstall leaves beside the case of `uninstall_leaves`: an alias
  dropped from the index meanwhile; one that an install could not replace (it is
  only reported, and not recorded); on Windows, a copy of the binary, which an
  upgrade of a plugin that is up to date does not take for the plugin's and drops
  from the record (`alias.go:104`), and a stale copy, which uninstall does not take
  for it either; a link whose binary is gone, dropped in the same way. All these are
  in `lost`.
* Plugins, reinstalling: what was left so is "another plugin" to a later install,
  which refuses; and so is the link of a first install that was killed before its
  record was written, though `alias.go:43` says that reinstalling never conflicts with
  itself.
* Plugins, other people's files: an install looks only at the file listed first under
  an alias (`plugin_install.go:44`; the comment says "first on PATH wins, matching
  dispatch", but the list is sorted by path), and then removes whatever is in its
  own directory: a file there that is shadowed, or that a user has put there since,
  or in a directory off `PATH`, is lost, and so is one under an alias that is recorded
  as the plugin's (`plugin_install.go:57`). An alias equal to the name of a plugin
  that is not installed is not refused.
* Plugins, records: an upgrade over a conflict keeps the aliases of the old record,
  also when the old directory is gone and it goes to another, where they were never
  made (`RecordsWhatIsThere` has the exception `moved`; six events away, out of the
  bounds of `plugins`: the proof did not go through without it). A record that
  survived a kill makes an upgrade say "up to date" of a binary that is older, or
  gone. A record that cannot be parsed is skipped without a word by `ListStates`
  (`state.go:132`), so that an upgrade passes over the plugin and succeeds: it is
  outside of `Upgrade`, whose records are all readable or not at all.
* Plugins, list: a recorded alias hides every row of that name, also of a plugin that
  is installed (`cmd/plugin.go:128`); a name that is in another directory the same
  file as another plugin is hidden everywhere (`plugin.go:151`); of a link that
  leads nowhere nothing is known but its name, so it keeps a row; one file in two
  directories that are one is listed twice, under one name.
* Downloads: one limit of five seconds is shared by all indexes and both attempts at
  each (`index.go:51,111`), so that one that hangs makes the readable ones after it
  unreadable, where `index.go:106` says that "one unreachable internal index does not
  block installing everything else". `PublicPluginsInstall`
  is of indexes whose turn came in time (`InTime`). A download answered 429 does not
  fall back to the public URL, as 403 does (`auth.go`).
* Talosconfig: a login rewrites the file without the fields that viti does not know,
  those of contexts it does not touch included: `talosCtxEntry.Extra` is tagged
  `json:"-"` and never filled (`talosconfig.go:36`), where `talosconfig.go:22` says
  that unknown fields on both sides are preserved verbatim. A merge keeps them, which
  `TouchesOnlyItsEntries` says.
* Upgrade: over a `dev` build, a release tag that is no version runs the
  installer unpinned; on Windows the exit code is 0 where only plugins were
  upgraded though viti is outdated.
* Endpoints: of several matching shared addresses the warning says that the first
  is used, and none is. Where all interfaces of a machine are filtered away its
  lists of addresses are used, bridges included (`endpoints.go:299`), though
  `endpoints.go:263` calls interfaces the source of truth; the same of a report of
  addresses only, and of a bridge whose name the filter does not know, of which
  `machine_console.go:211` says so. The properties ask for cards only of a report that
  tells (`Telling`); the other reports are in the model and in the theorems.
* Names: machines are a cluster's by the prefix `<id>-`, so those of a cluster
  `<id>-2` are taken in by health (as workers) and consoles, and those of
  `<id>-ctp2` as control planes by login and etcd (`endpoints.go:138,199,235`). The
  properties say "names with the prefix"; no id that continues another's is ruled out
  by the code. With `--use-vip` etcd is backed up through the load balancer, and not
  from one control-plane node.
* Talos: a signal leaves the temporary talosconfig, though a comment
  (`console/talos.go:58`) says that it is removed then, too.
* Health: `health-all` exits with success when it found no cluster, or when a
  zone was dropped.

## 6. Proofs

Every property of the passing runs but the two of liveness is also a theorem, for
every value of the constants that the modules' named assumptions allow.

Those about the decommission come first. They hold for every guest (any sets of ingresses, volumes, webhooks,
...), every set of failing calls and commands, under the modules' named
assumptions on constants (`GuestAssumption`, `RorAssumption`,
`RunnerAssumption`, `TeardownAssumption`, `DecommissionAssumption`: which sets
are subsets of which, and that flags are Boolean).

`DecommissionProofs`, without further conditions:

* `TypeCorrect` — `Spec => []TypeOK`. `TypeOK` is inductive as it stands.
  One lemma for each shape of step (`DeleteAllType`, `WaitGoneType`, ...), from
  which `Phase1Moves` and `Phase2Moves` follow; these also say where a step can
  go. The one conjunct with content is that only existing objects are marked for
  deletion (`DeleteKeepsMarks`).
* `DeletionIsGated` — `Spec => DeletedOnlyAfterVerdict`. Strengthened by
  `VerdictStands`: in phase 2 the command is not `preclean`, and at the deletion
  after phase 1 no failure and no problem stands. It is inductive because only the
  last read of the verdict reaches the deletion, and because a step of phase 2
  never comes back to it.
* `FinalizersUntouched` — `Spec => FinalizersKept`, from the actions of phase 1
  alone (`Phase1Removes`).
* `DeadWhenDeleted` — `Spec => []DeletedMeansDead`. `TeardownInv` adds that an
  absent cluster has no machine (its finalizer outlives them, and only a cluster
  that is being deleted gets one), and that a run which has come to its last read
  without a problem saw the cluster absent.
* `ReleasedWhenDeleted` — `~LateMachines` implies `Spec => []DeletedMeansReleased`:
  with nothing created late, what a wait of an unfailed run found released stays so
  (`ReleasedInv`). TLC finds the property violated without it.

`CleanVerdictProofs` — `NoFalseClean`: under `Quiescible`,
`Spec => []CleanMeansReleased`. `Quiescible` says: the calls that are only warned
about (`argo`, `scale`, `agents`) do not fail; no ApplicationSet writes sync
policies back; no workload is caught between two pods; a webhook that rejects
every write has no finalizer, and there is none where ROR agents must be scaled
down. TLC finds a false verdict without any one of them.

The property is far from inductive: whether the last read of the verdict is
true later depends on what the first steps stopped. `CleanInv` says what an
unfailed phase 1 knows at each step, and that the guest cannot undo it:

* `ArgoQuiet` — from the deletion of ingresses on, no Application syncs (an
  ArgoCD that survives its scale-down, or comes back, then restores nothing);
* `WorkloadsQuiet` — from the eviction on, no workload that holds a claim is
  live, and from the deletion of claims on no pod is. The delicate case is a
  webhook that still rejects writes: then the scale-down did nothing, and the
  eviction that follows fails unless there is no pod, which, with writes rejected,
  only ArgoCD could have brought about (`GapsShrink`, `Evicted`);
* `RorQuiet` — where the purge stands, and that it succeeds only when no agent
  is left to register the cluster again;
* `ReadSoFar` — each kind already read is gone, and stays gone because the kinds
  are read owners first: claims before volumes, gateways before their services;
* `ReliesOnVerdict => Quiet` — with a clean verdict nothing is held, and nothing
  is left that would acquire anything; `Quiet` is stable under every step.

Phase 1's steps are first shown to be `Gentle` (they create nothing and take no
mark back) and to come from where they come (`Phase1Comes`); each conjunct of
`CleanInv` is then one lemma per actor. TLC checked `CleanInv` as an invariant
before it was proved.

`DecommissionGateProofs` — `GateRefinement`: under `Quiescible`,
`Spec => ImplementsGate`. `GateInv` is `CleanInv` and "waived only of a deleted
cluster"; `ClusterSteps` shows which steps change the cluster, `GateMoves` that
what is held does not change in the step that opens or closes the gate.

`LocalFilesProofs`, for any set of terminals, entries and any bounds, under
`LocalFilesAssumption` (there are entries, none is called "none", and a second has
room for a backup):

* `OnlyALoginCutsTheFile` — `FilesSpec => []NeverHalfWritten`. `WholeInv` adds types
  and `CommandOK`: a command brings a whole file, so what it writes is whole
  (`MergedType`), and only a login is ever between truncating and writing.
* `ReplacedIsBackedUp` — `FilesSpec => []PreviousIsKept`. `BackupInv` says what a
  merge that has read the file knows at each step, unless another command wrote
  since: the file is as it was read (`Fresh`) and could be parsed (`Parsed`), the
  name it has reserved for the backup is nobody else's and still holds nothing
  (`Claimed`), and at the rename the backup is there (`Saved`). A backup in use
  is written over only from its reservation, so those of others stay (`BackupsGrow`).
* `CommandsTouchTheirEntries` — `FilesSpec => TouchesOnlyItsEntries`: with these,
  what a command is about to write is what it has made of the file it read
  (`MergedOK`), and that touches only the entries brought (`OutcomeTouches`).

`ScaleClusterProofs`, for any operators, pools, counts and number of attempts:

* `IInv` is the types (`Typed`), that the cluster is viable, and for each run
  `Runs`: its plan is made of valid counts and never an even number of control
  planes, and, while nobody wrote the cluster since it was read (`fresh`), the plan
  was verified on the cluster as it stands and the patch is the difference the plan
  makes to it. That link between `fresh` and the patch is what optimistic locking
  gives, and all three theorems rest on it.
* `TypeCorrect`, `ClusterStaysViable` — `Spec => []TypeOK`, `Spec => []StaysViable`.
  The two lemmas with content are that merging a difference gives what the
  difference was taken to (`MergeBack`, `Undisturbed`), and that deleting,
  adding and scaling keep pools' names apart and one pool at least.
* `ScaleImplementsEdits` — `Spec => ImplementsEdits`: each step is an edit of
  `TopologyEdits`, or changes nothing it speaks of. The patch that is sent last
  counts as the edit; another operator's write in between makes it a conflict.

`NetNSProofs`, for any zones, sites, claims and numbers of changes. Others go on
changing what was read; what carries the proof is what a list still says then:
whatever stood all the time since the read began is in it (`Listed` of the
search, `LoadTells` of the four lists). The rest of `IInv` says which command is
where (`PhaseOK`), which zones were connected to, answered or failed (`ZonesOK`),
that a deletion reads only its own zone (`LoadsOK`), and that what is about to
be deleted passed the gates on four complete lists (`TargetOK`).

* `TypeCorrect` — `Spec => []TypeOK`.
* `ResolvesTheOnlyMatch` — `Spec => []ResolvesTheOnlyOne`, for every sort of command,
  each for the zones it speaks for. That a `kc` command misses a match in a zone that
  fails to list is `zone_unread`.
* `SuccessMeansGone`, `AuditIsTruthful`, `DeletesOnlyWhatNobodyClaims` —
  `GoneMeansGone`, `AuditTellsTheTruth`, `DeletesOnlyUnused`, without conditions.
  Claims whose references cannot be evaluated are IP allocations only
  (`ClaimsAssumption`): the code reads the three other kinds as typed objects.

`PluginManagerProofs`, for any plugins, aliases, directories, orders of `PATH` and of
the list, terminals and number of events, with links and copies. Files are shared,
so little is true of a plugin on which two commands work at once (`overlapped`),
or whose command was killed (`killed`). `IInv` therefore says, of each terminal, what
holds in any case (`SoundProc`, `Refused`) and what it can be sure of while it is
alone on its plugin (`SureProc`: the record is as it read it, the temporary file and
the binary are its own, what it counts as made is a link or the binary's copy,
what it has unlinked is gone or lost); and of each plugin (`Known`) that while it
is undisturbed the record, what is lost and what the command at work remembers
account for everything its commands left (`Covers`), and that, unless it `moved`,
what the record has is there (`Kept`).

* `TypeCorrect`, `BinariesAreWhole` — `TypeOK`, `NeverTorn`.
* `NothingLeftBehind` — `UninstallIsComplete`: from `Covers`, when the record goes.
* `ReinstallsAreNotRefused` — `NeverConflictsWithItself`: what refuses an install was
  a file that stands for another, or is lost (`Refused`, from `Covers`).
* `OthersFilesAreLeft`, `RecordsAreTrue` — `TakesOnlyItsOwn`, `RecordsWhatIsThere`.

`ToolsProofs` has one invariant for each tool, which says what it has learnt so
far; what it reports or does at the end follows.

* `HealthyMeansHealthy` — `HealthSpec => []HealthyIsHealthy`, for any number of
  clusters, whose servers may fall ill and recover between any two probes
  (`RowTrue`: a row that is still well has the cluster's own secret and nothing
  but 200 for an answer).
* `PublicPluginsAreInstalled`, `InstallsThePublished` — for any number of indexes,
  any moment at which their time is up, and all answers (`EntryIsLast`, `Arrived`, `Verified`: which asset came how, and
  which checks it has passed at each step).
* `ExitsTellTheTruth`, `OnlyUpgradesAreInstalled` — for any number of plugins and
  releases, whatever is published meanwhile. `VitiKnown` and `Accounted` say of
  viti and of each plugin what was seen of it, what it is now, and what the run
  will have to admit.
* `LoginDialsControlPlanes`, `TalosctlReachesTheCluster`, `TempConfigsAreRemoved` —
  for any machines, interfaces, addresses and names, also those that mislead, under
  the properties' own exceptions (section 5). `LoginGiven` is what the endpoints were
  taken from.
* `ListIsComplete` — `ListsWhatIsInstalled`, for any names, places on `PATH`, links
  and records. A plugin without a row is recorded as an alias, or is in some place the
  same file as another one that is installed; of the names of one file only its owner
  has a row.
* `PluginsRunAsTyped` — `RunsWhatWasTyped`, for command lines of every length. The
  search passes over flags and their values as the definition of what was
  typed does; both are recursive functions on the numbers of words, which are
  shown to exist and then compared word by word (`EachNumber`, `Greatest`).
  `DispatchAssumption` says that names of plugins are words without dashes, as
  `internal/plugin` splits them out of file names.
* `ConfigEditsOneZone` — `EditsOneZone`, for lists of every length: what a zone
  command holds is the file it read (`Editing`) and, until somebody else writes,
  the file as it is; the loop that drops a zone keeps the others in order, by
  induction on its steps.

The library's induction theorems cannot be used (they take an operator as a
parameter); where a proof needs induction it takes the least counterexample,
from the well-foundedness of `<` on the naturals (`Smallest`, `Least`).

What the proofs corrected: places where the models were not what the code does,
or where the run's instance hid it. In `ScaleCluster`, two arms of a `CASE`
overlapped and `TypeOK` bounded pools by what only the run bounds; in `NetNSOps`,
the precedence of a disjunction in the wait for a deletion; in `PluginList`, that of
`UNION` in the names an alias may have; in `PluginManager`, a copy that cannot be
made (`NotCopied`) had no step, a failed install may have made the directory,
a plugin's own recorded aliases counted as somebody else's, and `moved` is the last
of the findings about records in section 5. `EditsOneZone` excused every command that had been overtaken,
and is stronger now.

Only model-checked: liveness (`HealthyRunSucceeds`, `RunEnds`), which needs
`ENABLED` of the fair actions, out of this prover's reach; and that the three
disagreements of section 5 are reachable, which runs show by a trace.

## 7. What is left

1. Pure functions against reference definitions, for every input: name
   ownership (`hasClusterNodeName`), the count syntax of `scale`.
2. The theorems with a condition, for what their condition leaves out:
   `NoFalseClean` under weaker assumptions than `Quiescible` with a property that
   names what is then lost; `ResolvesTheOnlyOne` of `kc` as far as its warning says.
3. A theorem for the whole of `MCTools`, of which the parts are proved.

## 8. Not modelled

* Preflight, `kc info`, lists and printing, sorting and fuzzy search: they read
  and print, over the zones as `FleetResolve` has them, and what they print is not
  acted on.
* The picker and its forms, and the graphical viewer of secrets: one loop over
  keys or requests each, whose state is what is on the screen.
* `pkg/plugin/output` and `viticli`: thin wrappers.
* Of plugins: that the copy of an alias has a temporary file of its own, which two
  plugins that copy to one alias share (it is one step here); directories on `PATH`
  that are links to each other, in `PluginDir` (in `PluginList` they are); links made
  by hand, which an install takes for the plugin's if they lead to it.
* Of the decommission: prompts and dry runs; `sweepGatewayAPIConfig`; the
  ownership test by name (a resource of the cluster is one, and another
  cluster's is not seen); that the plugin may outlive a killed viti and finish
  its purge; more than one process decommissioning one cluster at a time.
* How a pool is cloned, what an index entry must look like, which characters a
  version has: data that no property tells apart.
* Whether two logins, merges or zone edits at once lose an edit: they do, there
  is no lock; the properties say what holds of a command nobody interfered with,
  and what holds of the file in any case.
