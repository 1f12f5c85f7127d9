------------------------------ MODULE LocalFiles ------------------------------
(***************************************************************************)
(* A kubeconfig or a talosconfig of a user, and the commands that write to *)
(* it: `viti kubeconfig merge` and `viti talosconfig merge`, which keep a  *)
(* backup and swap the file, and `viti kc login`, which writes in place,   *)
(* from several terminals, without a lock, and killed anywhere.            *)
(***************************************************************************)
EXTENDS Integers, Sequences, FiniteSets, Functions

CONSTANTS
    Entries,      \* names of clusters, users and contexts
    Shells,       \* terminals
    MaxBackups,   \* backups that may be made within one second: 100
    MaxRuns       \* bound: commands run, and kills

ASSUME LocalFilesAssumption ==
    /\ MaxBackups \in Nat \ {0} /\ MaxRuns \in Nat
    /\ Entries # {} /\ "none" \notin Entries

VARIABLES
    kind,         \* which of the two files it is
    config,       \* the file
    backups,      \* its backups of this second, in order
    shell,        \* shell[t]: the command that runs in terminal t
    replaced,     \* (history) what merges have replaced
    cut,          \* (history) a login was killed while it wrote
    runs

filesVars == <<kind, config, backups, shell, replaced, cut, runs>>

\* A file: whether it is there; from whom each entry is, 0 being the user
\* himself; the entries with fields that viti does not know; the current
\* context.
File(there, from, extra, current) ==
    [there |-> there, from |-> from, extra |-> extra, current |-> current]
Missing == File("no", <<>>, {}, "none")
Empty   == File("yes", <<>>, {}, "none")   \* just truncated: reads as a config without entries
Half    == File("half", <<>>, {}, "none")  \* not to be parsed

AtRest == [step |-> "rest", what |-> "merge", in |-> Missing, activate |-> FALSE,
           old |-> Missing, new |-> Missing, name |-> 0, raced |-> FALSE]

FilesInit ==
    /\ kind \in {"kubeconfig", "talosconfig"}
    /\ \/ config = Missing
       \/ \E E \in (SUBSET Entries) \ {{}}, X \in SUBSET Entries, c \in Entries \cup {"none"} :
            config = File("yes", [e \in E |-> 0], X, c)
    /\ config.extra \cup ({config.current} \cap Entries) \subseteq DOMAIN config.from
    /\ kind = "kubeconfig" => config.extra = {}
    /\ backups = <<>>
    /\ shell = [t \in Shells |-> AtRest]
    /\ replaced = {} /\ cut = FALSE /\ runs = 0

-----------------------------------------------------------------------------
Become(t, r) == shell' = [shell EXCEPT ![t] = r]
Done(t) == Become(t, AtRest)

\* Terminal t goes on with r, having written the file; who has read it before
\* has not read this.
Wrote(t, r) ==
    shell' = [u \in Shells |-> IF u = t THEN r
                               ELSE [shell[u] EXCEPT !.raced = shell[u].step # "rest"]]

\* A file somebody handed over, or the one a cluster's secret holds.
Start(t, what, in, activate) ==
    /\ shell[t].step = "rest" /\ runs < MaxRuns
    /\ runs' = runs + 1
    /\ Become(t, [AtRest EXCEPT !.step = "read", !.what = what, !.in = in, !.activate = activate])
    /\ UNCHANGED <<kind, config, backups, replaced, cut>>

Over(new, old) == [e \in DOMAIN new \cup DOMAIN old |-> IF e \in DOMAIN new THEN new[e] ELSE old[e]]

\* mergeNamed, and which current context remains.
MergedVerbatim(c, in) ==
    File("yes", Over(in.from, c.from), (c.extra \ DOMAIN in.from) \cup in.extra,
         IF c.current = "none" THEN in.current ELSE c.current)

\* Mutant of MergedLogin: the context becomes the current one in any case.
MergedLoginActive(c, in, activate) ==
    File("yes", Over(in.from, c.from), IF kind = "talosconfig" THEN {} ELSE c.extra, in.current)

\* MergeKubeconfig and MergeTalosconfig, with force: one context, by a new name.
\* Of a talosconfig only the fields that viti knows are read and written.
MergedLogin(c, in, activate) ==
    File("yes", Over(in.from, c.from), IF kind = "talosconfig" THEN {} ELSE c.extra,
         IF activate THEN in.current ELSE c.current)

Read(t) ==
    LET c   == shell[t]
        old == config
    IN /\ c.step = "read"
       /\ IF old.there = "half" THEN Done(t)
          ELSE Become(t, [c EXCEPT
                 !.old = old, !.raced = FALSE,
                 !.new = IF c.what = "merge" THEN MergedVerbatim(old, c.in)
                         ELSE MergedLogin(old, c.in, c.activate),
                 !.step = IF c.what = "login" THEN "truncate"
                          ELSE IF old.there = "no" THEN "swap" ELSE "backup"])
       /\ UNCHANGED <<kind, config, backups, replaced, cut, runs>>

\* Mutant of CreateBackup: the name is not looked at.
CreateBackupAnyway(t) ==
    LET c == shell[t] IN
    /\ c.step = "backup"
    /\ backups' = <<Half>>
    /\ Become(t, [c EXCEPT !.step = "write backup", !.name = 1])
    /\ UNCHANGED <<kind, config, replaced, cut, runs>>

\* writeBackup: the first name that is not taken, or an error.
CreateBackup(t) ==
    LET c == shell[t] IN
    /\ c.step = "backup"
    /\ IF Len(backups) < MaxBackups
       THEN /\ backups' = Append(backups, Half)
            /\ Become(t, [c EXCEPT !.step = "write backup", !.name = Len(backups) + 1])
       ELSE Done(t) /\ UNCHANGED backups
    /\ UNCHANGED <<kind, config, replaced, cut, runs>>

WriteBackup(t) ==
    LET c == shell[t] IN
    /\ c.step = "write backup"
    /\ backups' = [backups EXCEPT ![c.name] = c.old]
    /\ Become(t, [c EXCEPT !.step = "swap"])
    /\ UNCHANGED <<kind, config, replaced, cut, runs>>

\* Mutant of Swap: the file is written in place.
SwapInPlace(t) ==
    LET c == shell[t] IN
    /\ c.step = "swap"
    /\ Become(t, [c EXCEPT !.step = "write"])
    /\ config' = Half
    /\ UNCHANGED <<kind, backups, replaced, cut, runs>>

\* replaceFile: the new file, written beside the old, is renamed over it.
Swap(t) ==
    LET c == shell[t] IN
    /\ c.step = "swap"
    /\ Wrote(t, AtRest)
    /\ config' = c.new
    /\ replaced' = IF config.there = "no" \/ c.raced THEN replaced
                   ELSE replaced \cup {config}
    /\ UNCHANGED <<kind, backups, cut, runs>>

\* WriteToFile and writeTalosconfig: truncate, then write.
Truncate(t) ==
    LET c == shell[t] IN
    /\ c.step = "truncate"
    /\ Wrote(t, [c EXCEPT !.step = "write"])
    /\ config' = Empty
    /\ UNCHANGED <<kind, backups, replaced, cut, runs>>

Write(t) ==
    LET c == shell[t] IN
    /\ c.step = "write"
    /\ Wrote(t, AtRest)
    /\ config' = c.new
    /\ UNCHANGED <<kind, backups, replaced, cut, runs>>

\* A write in place may be cut short in the middle.
Kill(t) ==
    LET c == shell[t] IN
    /\ c.step # "rest" /\ runs < MaxRuns
    /\ runs' = runs + 1
    /\ IF c.step = "write"
       THEN /\ cut' = (cut \/ c.what = "login")
            /\ config' \in {config, Half}
            /\ Wrote(t, AtRest)
       ELSE Done(t) /\ UNCHANGED <<config, cut>>
    /\ UNCHANGED <<kind, backups, replaced>>

\* A handed-over file has one entry or all of them; a login adds one.
FilesNext ==
    \E t \in Shells :
       \/ \E E \in {{e} : e \in Entries} \cup {Entries} : \E cur \in E \cup {"none"} :
            Start(t, "merge", File("yes", [e \in E |-> runs + 1], {}, cur), FALSE)
       \/ \E e \in Entries, activate \in BOOLEAN :
            Start(t, "login", File("yes", [x \in {e} |-> runs + 1], {}, e), activate)
       \/ Read(t) \/ CreateBackup(t) \/ WriteBackup(t) \/ Swap(t)
       \/ Truncate(t) \/ Write(t) \/ Kill(t)

FilesSpec == FilesInit /\ [][FilesNext]_filesVars

-----------------------------------------------------------------------------
\* "A failure never leaves a half-written config" (merge.go): only a login
\* that is killed while it writes leaves one, or one without its entries.
NeverHalfWritten ==
    config \in {Half, Empty} =>
        cut \/ \E t \in Shells : shell[t].step = "write" /\ shell[t].what = "login"

\* "The previous file is backed up first" (merge.go), "rather than
\* overwriting an earlier backup from the same second": whatever a merge has
\* replaced is in a backup, and stays there, but for what another command
\* wrote after the merge had read the file.
PreviousIsKept == replaced \subseteq Range(backups)

OnlyItsEntries(t) ==
    LET c == shell[t]
        old == IF c.step = "write" THEN c.old ELSE config
        new == config'
    IN shell'[t] = AtRest /\ c.step \in {"swap", "write"} /\ new = c.new /\ config' # config
       /\ ~c.raced =>
         /\ DOMAIN new.from = DOMAIN old.from \cup DOMAIN c.in.from
         /\ \A e \in DOMAIN old.from \ DOMAIN c.in.from : new.from[e] = old.from[e]
         /\ \A e \in DOMAIN c.in.from : new.from[e] = c.in.from[e]
         /\ new.current = old.current \/ c.activate \/ (old.current = "none" /\ c.what = "merge")
         /\ c.what = "merge" => old.extra \ DOMAIN c.in.from \subseteq new.extra

\* A command touches the entries it brings and no others, and the current
\* context only if there was none or it was to be made current: unless the
\* file changed since it was read.
TouchesOnlyItsEntries == [][\A t \in Shells : OnlyItsEntries(t)]_<<config, shell>>
=============================================================================
