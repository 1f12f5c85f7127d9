-------------------------------- MODULE Upgrade --------------------------------
(***************************************************************************)
(* `viti upgrade`, `viti plugin upgrade`, and the `upgrade --run` that     *)
(* every plugin has: what they check, plan, ask and install, and how they  *)
(* exit, while releases are published and requests fail.                   *)
(***************************************************************************)
EXTENDS Integers, FiniteSets

CONSTANTS
    Installables,  \* the plugins installed, by records that can be parsed (ListStates skips others)
    Newest,        \* release tags are numbered 1..Newest
    MaxPublished   \* bound: releases published meanwhile

\* Plugins go by their names; viti is not one of them.
Viti == "viti"

ASSUME UpgradeAssumption ==
    Newest \in Nat \ {0} /\ MaxPublished \in Nat /\ Viti \notin Installables

VARIABLES
    call,          \* which command, its flags, its machine
    at,            \* what it does next, or how it ended
    local,         \* local[c]: the version of viti, or of a plugin
    latest,        \* latest[c]: the tag of the latest release
    seen,          \* seen[c]: the tag the run has read last
    todo,          \* plugins still to look at
    work,          \* plugins that need work
    errs,          \* what the run reports at its end
    published

upgradeVars == <<call, at, local, latest, seen, todo, work, errs, published>>

Components == {Viti} \cup Installables

\* A version: its number X.Y.Z, and whether more follows it, as in
\* v1.2.3-5-gabc1234.  Number 0 stands for what does not parse, as "nightly".
Version(n, more) == [n |-> n, more |-> more]
Stray == Version(0, FALSE)
Tags  == {Stray} \cup {Version(n, b) : n \in 1..Newest, b \in BOOLEAN}
Dev   == Version(0, TRUE)          \* "dev": not built from a release
None  == Version(-1, FALSE)

Calls == {c \in [what: {"viti", "plugin", "own"}, check: BOOLEAN, noPlugins: BOOLEAN,
                 yes: BOOLEAN, tty: BOOLEAN, windows: BOOLEAN] :
            /\ c.noPlugins => c.what = "viti"
            /\ c.what = "plugin" => ~c.check /\ ~c.yes /\ ~c.tty}

UpgradeInit ==
    /\ call \in Calls
    /\ at = CASE call.what = "viti" -> "check viti" [] call.what = "plugin" -> "index" [] OTHER -> "check own"
    /\ local \in [Components -> Tags \cup {Dev}] /\ \A p \in Installables : local[p] # Dev
    /\ latest \in [Components -> {Stray, Version(1, FALSE), Version(1, TRUE)}]
    /\ seen = [c \in Components |-> None]
    /\ todo = {} /\ errs = {} /\ published = 0
    /\ work = IF call.what = "plugin" THEN Installables ELSE {}

\* Mutant of Compare: the local version is parsed first.
CompareLocalFirst(v, tag) ==
    CASE v = Dev -> "development"
      [] v = tag -> "up to date"
      [] v.n < tag.n \/ v.n = 0 -> "outdated"
      [] v.n > tag.n /\ tag.n > 0 -> "ahead"
      [] OTHER -> "development"

\* Compare: the status of version v where the latest release is tag.
Compare(v, tag) ==
    CASE v = Dev -> "development"
      [] v = tag -> "up to date"
      [] v # Dev /\ v # tag /\ tag.n = 0 -> "unknown"
      [] v # Dev /\ tag.n > 0 /\ v.n < tag.n -> "outdated"
      [] v # Dev /\ tag.n > 0 /\ v.n > tag.n -> "ahead"
      [] OTHER -> "development"

\* upgradeDecision, planRun and skipUpgradeLine agree on what installs.
Proceed(status) == status \in {"outdated", "development"}

Exit(how) == at' = "exited" /\ errs' = errs \cup how
KeepOn(next) == at' = next /\ UNCHANGED errs

-----------------------------------------------------------------------------
\* An unchecked viti is reported, and the plugins still go ahead.
CheckViti ==
    /\ at = "check viti"
    /\ \/ /\ seen' = [seen EXCEPT ![Viti] = latest[Viti]]
          /\ UNCHANGED errs
       \/ /\ errs' = errs \cup {"unchecked"}
          /\ UNCHANGED seen
    /\ todo' = IF call.noPlugins THEN {} ELSE Installables
    /\ at' = IF call.noPlugins /\ "unchecked" \in errs' THEN "exited" ELSE "check plugins"
    /\ UNCHANGED <<call, local, latest, work, published>>

\* The directory of records cannot be read.
ListStatesFails ==
    /\ at = "check plugins" /\ todo = Installables /\ ~call.noPlugins
    /\ todo' = {}
    /\ errs' = errs \cup {"warned"}
    /\ UNCHANGED <<call, at, local, latest, seen, work, published>>

\* Mutant of CheckPlugin: a plugin that cannot be checked is passed over.
CheckPluginKnown(p) ==
    /\ at = "check plugins" /\ p \in todo
    /\ todo' = todo \ {p}
    /\ \/ /\ seen' = [seen EXCEPT ![p] = latest[p]]
          /\ work' = IF Compare(local[p], latest[p]) = "outdated" THEN work \cup {p} ELSE work
       \/ UNCHANGED <<seen, work>>
    /\ UNCHANGED <<call, at, local, latest, errs, published>>

CheckPlugin(p) ==
    /\ at = "check plugins" /\ p \in todo
    /\ todo' = todo \ {p}
    /\ \/ /\ seen' = [seen EXCEPT ![p] = latest[p]]
          /\ work' = IF Compare(local[p], latest[p]) = "outdated" THEN work \cup {p} ELSE work
       \/ work' = work \cup {p} /\ UNCHANGED seen
    /\ UNCHANGED <<call, at, local, latest, errs, published>>

NeedSelf == seen[Viti] # None /\ Proceed(Compare(local[Viti], seen[Viti]))

planRun ==
    /\ at = "check plugins" /\ todo = {}
    /\ CASE call.check -> Exit({"asked only"})
         [] ~call.check /\ work = {} /\ NeedSelf /\ call.windows -> Exit({"windows"})
         [] ~call.check /\ work = {} /\ ~NeedSelf -> Exit({})
         [] OTHER -> KeepOn("confirm")
    /\ UNCHANGED <<call, local, latest, seen, todo, work, published>>

\* The `upgrade` of a plugin.
CheckOwn(p) ==
    /\ at = "check own"
    /\ \/ /\ seen' = [seen EXCEPT ![p] = latest[p]]
          /\ work' = {p}
          /\ CASE ~Proceed(Compare(local[p], latest[p])) -> Exit({})
               [] Proceed(Compare(local[p], latest[p])) /\ call.check -> Exit({"asked only"})
               [] Proceed(Compare(local[p], latest[p])) /\ ~call.check /\ call.windows -> Exit({"windows"})
               [] OTHER -> KeepOn("confirm")
       \/ Exit({"unchecked"}) /\ UNCHANGED <<seen, work>>
    /\ UNCHANGED <<call, local, latest, todo, published>>

\* --yes, or an answer; who is not at a terminal is not asked, but refused.
confirm ==
    /\ at = "confirm"
    /\ \/ (call.yes \/ call.tty) /\ KeepOn(IF call.what = "own" THEN "spawn" ELSE "installer")
       \/ ~call.yes /\ Exit(IF call.tty THEN {"aborted"} ELSE {"not asked"})
    /\ UNCHANGED <<call, local, latest, seen, todo, work, published>>

\* runPluginUpgrade: `viti plugin upgrade` of the plugin itself, if viti is
\* on PATH.
runPluginUpgrade ==
    /\ at = "spawn"
    /\ KeepOn("index") \/ Exit({"no viti"})
    /\ UNCHANGED <<call, local, latest, seen, todo, work, published>>

\* Mutant of Installed: the installer is not told which release.
InstalledUnpinned(tag) == latest[Viti]

\* InstallCommand: a tag that is a version is pinned; else the installer looks
\* for the latest one itself.
Installed(tag) == IF tag.n > 0 THEN tag ELSE latest[Viti]

runInstaller ==
    /\ at = "installer"
    /\ IF NeedSelf /\ ~call.windows
       THEN \/ /\ local' = [local EXCEPT ![Viti] = Installed(seen[Viti])]
               /\ KeepOn("index")
            \/ Exit({"installer"}) /\ UNCHANGED local
       ELSE KeepOn("index") /\ UNCHANGED local
    /\ UNCHANGED <<call, latest, seen, todo, work, published>>

FetchIndex ==
    /\ at = "index"
    /\ KeepOn("upgrade") \/ (work # {} /\ Exit({"index"}))
    /\ UNCHANGED <<call, local, latest, seen, todo, work, published>>

\* upgradeOne: the latest release is looked up once more.
upgradeOne(p) ==
    /\ at = "upgrade" /\ p \in work
    /\ work' = work \ {p}
    /\ \/ /\ seen' = [seen EXCEPT ![p] = latest[p]]
          /\ IF Proceed(Compare(local[p], latest[p]))
             THEN \/ local' = [local EXCEPT ![p] = latest[p]] /\ UNCHANGED errs
                  \/ errs' = errs \cup {"failed"} /\ UNCHANGED local
             ELSE UNCHANGED <<local, errs>>
       \/ errs' = errs \cup {"failed"} /\ UNCHANGED <<local, seen>>
    /\ UNCHANGED <<call, at, latest, todo, published>>

Summarised ==
    /\ at = "upgrade" /\ work = {}
    /\ Exit({})
    /\ UNCHANGED <<call, local, latest, seen, todo, work, published>>

\* A release becomes the latest one.
Publish(c, tag) ==
    /\ published < MaxPublished /\ at # "exited"
    /\ tag # latest[c]
    /\ latest' = [latest EXCEPT ![c] = tag]
    /\ published' = published + 1
    /\ UNCHANGED <<call, at, local, seen, todo, work, errs>>

UpgradeNext ==
    \/ CheckViti \/ ListStatesFails \/ planRun \/ confirm \/ runPluginUpgrade
    \/ runInstaller \/ FetchIndex \/ Summarised
    \/ \E p \in Installables : CheckPlugin(p) \/ CheckOwn(p) \/ upgradeOne(p)
    \/ \E c \in Components, tag \in {Stray, Version(Newest, FALSE)} : Publish(c, tag)

UpgradeSpec == UpgradeInit /\ [][UpgradeNext]_upgradeVars

-----------------------------------------------------------------------------
\* "StatusUnknown means the latest release tag is not a version [...] Callers
\* must not treat it as an upgrade" (internal/release): whatever is published
\* between the check and the installation, what replaces a version is a
\* version, never an older one; and of viti itself the one that was shown.
\* Only over a build that is "dev" anything may come.
InstallsOnlyUpgrades ==
    [][\A c \in Components :
         local'[c] # local[c] =>
            \/ local[c] = Dev /\ (local'[c] = seen[c] \/ seen[c] = Stray)
            \/ /\ local'[c].n > 0 /\ local'[c].n >= local[c].n
               /\ c = Viti => local'[c] = seen[c]]_<<local>>

\* "The command still exits non-zero at the end: viti was not checked"
\* (upgrade.go): a run that was to upgrade, and ends without an error, has
\* looked at everything, and left nothing older than the release it saw; but
\* on Windows, where viti cannot replace itself, or when it warned that the
\* records could not be read.
ExitTellsTheTruth ==
    at = "exited" /\ errs \subseteq {"warned"} =>
      \A c \in Components :
        \/ c = Viti /\ (call.what # "viti" \/ call.windows)
        \/ c # Viti /\ (call.noPlugins \/ "warned" \in errs)
        \/ call.what = "own" /\ seen[c] = None
        \/ seen[c] # None /\ Compare(local[c], seen[c]) # "outdated"
=============================================================================
