-------------------------------- MODULE MCTools --------------------------------
(***************************************************************************)
(* Small instances, for TLC, of the commands that share no state with each *)
(* other: a behaviour is one of a tool, the others stay as they start.     *)
(***************************************************************************)
EXTENDS PluginDispatch, ReleaseFetch, Upgrade, PluginList, LocalFiles, ZoneSettings,
        TalosOps, ClusterHealth, TLC

CONSTANTS q, r, t1, t2

VARIABLE tool

Tools == {"dispatch", "fetch", "upgrade", "list", "files", "settings", "login", "talos", "health"}

vars == <<tool, dispatchVars, fetchVars, upgradeVars, listVars, filesVars, settingsVars,
          talosVars, healthVars>>

OwnPlugins == {{<<"a">>}, {<<"a">>, <<"a", "b">>}, {<<"get">>, <<"b">>}}
TwoNames   == <<"a", "b">>
TwoPlaces  == <<"bin", "opt">>

\* What is reported of machine m: by kubevirt, which says what the virtual machine
\* has; by others, which have names; by a guest whose interfaces are all filtered
\* away, that has a bridge without a known name or a card with a bridge's; of
\* old, addresses only; or nothing.
FewReports(m) ==
    LET Face(of, attached, virtual, A) ==
            {[of |-> of, attached |-> attached, virtual |-> virtual, addrs |-> A]}
        Of(ifaces, ips, private, public) ==
            [ifaces |-> ifaces, ips |-> ips, private |-> private, public |-> public]
        V(v6) == {Address("card", m, v6)}
    IN {Of(Face("card", TRUE, FALSE, Card(m)) \cup Face("bridge", FALSE, FALSE, Bridge(m)),
           Card(m) \cup Bridge(m), {}, {}),
        Of(Face("card", FALSE, FALSE, V(FALSE) \cup Loop(m)) \cup Face("bridge", FALSE, TRUE, Bridge(m)),
           Bridge(m), {}, {}),
        Of(Face("bridge", FALSE, TRUE, Bridge(m)), Card(m) \cup Bridge(m), {}, {}),
        Of(Face("card", FALSE, FALSE, V(TRUE)) \cup Face("bridge", FALSE, FALSE, Bridge(m)), {}, {}, {}),
        Of(Face("card", FALSE, TRUE, Card(m)), {}, Bridge(m), V(FALSE)),
        Of(Face("card", FALSE, FALSE, {}), Card(m) \cup Loop(m), {}, {}),
        Of({}, Loop(m), {}, V(FALSE)),
        Of({}, {}, {}, V(TRUE)),
        Of({}, {}, {}, {})}

FewFleets ==
    LET Ways == UNION {FewReports(m) : m \in Machines}
    IN fleet \in {f \in [Machines -> [name : Names, report : Ways]] :
                     \A m \in Machines : f[m].report \in FewReports(m)}

\* Machines that report in one way, that of their provider.
Alike(m, n) ==
    LET Sizes(rep) == <<Cardinality(rep.ifaces), Cardinality(rep.ips), Cardinality(rep.public),
                        {<<i.of, i.attached, i.virtual>> : i \in rep.ifaces}>>
    IN Sizes(fleet[m].report) = Sizes(fleet[n].report)

\* How each tool starts, and what it is while another runs.
Init ==
    /\ tool \in Tools
    /\ IF tool = "dispatch" THEN DispatchInit ELSE args = <<>> /\ onPath = {} /\ ran = Waiting
    /\ IF tool = "fetch" THEN FetchInit
       ELSE /\ site = [token |-> "none", public |-> TRUE, complete |-> TRUE, cosign |-> TRUE,
                       skipChecksum |-> FALSE, skipCosign |-> FALSE]
            /\ step = [at |-> "index", i |-> 1] /\ indexes = <<>> /\ entry = 0 /\ late = 0
            /\ got = <<>> /\ spoiled = FALSE
    /\ IF tool = "upgrade" THEN UpgradeInit
       ELSE /\ call = [what |-> "viti"] /\ at = "check viti" /\ latest = <<>>
            /\ local = [c \in Components |-> Dev] /\ seen = [c \in Components |-> None] /\ todo = {} /\ work = {} /\ errs = {} /\ published = 0
    /\ IF tool = "list" THEN ListInit /\ real[1] = 1 ELSE real = <<>> /\ tree = <<>> /\ records = <<>> /\ rows = NotListed
    /\ IF tool = "files" THEN FilesInit
       ELSE /\ kind = "kubeconfig" /\ config = Missing /\ backups = <<>>
            /\ shell = [t \in Shells |-> AtRest] /\ replaced = {} /\ cut = FALSE /\ runs = 0
    /\ IF tool = "settings" THEN SettingsInit
       ELSE ctlConfig = Truncated /\ editor = [t \in Terms |-> NoEdit] /\ edits = 0
    /\ IF tool = "login" THEN FewFleets /\ LoginInit
       ELSE IF tool = "talos" THEN FewFleets
       ELSE fleet = <<>> /\ cpvips = <<>> /\ wish = [from |-> "secret"] /\ endpoints = Unset
    /\ IF tool = "talos"
       THEN /\ TalosInit /\ cpvips.count < 2 /\ ~cpvips.spec
            /\ \A m, n \in Machines : Alike(m, n)
            /\ \E m \in Machines : fleet[m].name = "id-ctp"
       ELSE op = [what |-> "console"] /\ talos = [at |-> "endpoints", temp |-> FALSE]
    /\ IF tool = "health" THEN HealthInit
       ELSE /\ check = <<>> /\ vault = <<>> /\ nodes = <<>> /\ server = <<>> /\ row = <<>>
            /\ exit = "running" /\ answers = <<>> /\ turns = 0

Others(mine) ==
    /\ UNCHANGED tool
    /\ mine # "dispatch" => UNCHANGED dispatchVars
    /\ mine # "fetch" => UNCHANGED fetchVars
    /\ mine # "upgrade" => UNCHANGED upgradeVars
    /\ mine # "list" => UNCHANGED listVars
    /\ mine # "files" => UNCHANGED filesVars
    /\ mine # "settings" => UNCHANGED settingsVars
    /\ mine \notin {"login", "talos"} => UNCHANGED loginVars
    /\ mine # "talos" => UNCHANGED <<op, talos>>
    /\ mine # "health" => UNCHANGED healthVars

Next ==
    \/ tool = "dispatch" /\ maybeDispatchPlugin /\ Others("dispatch")
    \/ tool = "fetch"    /\ FetchNext           /\ Others("fetch")
    \/ tool = "upgrade"  /\ UpgradeNext         /\ Others("upgrade")
    \/ tool = "list"     /\ listInstalledPlugins /\ Others("list")
    \/ tool = "files"    /\ FilesNext           /\ Others("files")
    \/ tool = "settings" /\ SettingsNext        /\ Others("settings")
    \/ tool = "login"    /\ doTalosconfig       /\ Others("login")
    \/ tool = "talos"    /\ TalosNext           /\ Others("talos")
    \/ tool = "health"   /\ HealthNext          /\ Others("health")

Spec == Init /\ [][Next]_vars

Sym == {f @@ g : f \in Permutations({q, r}), g \in Permutations({t1, t2})}
=============================================================================
