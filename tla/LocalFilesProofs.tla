--------------------------- MODULE LocalFilesProofs ---------------------------
(***************************************************************************)
(* What holds of a kubeconfig or talosconfig, whatever number of terminals *)
(* merge, log in and are killed: it is never half-written but by a login,  *)
(* what a merge replaced stays in a backup, and a command writes what it   *)
(* has read with its own entries laid over it.                             *)
(***************************************************************************)
EXTENDS LocalFiles, SequenceTheorems, TLAPS

Steps == {"rest", "read", "backup", "write backup", "swap", "truncate", "write"}

Config ==
    [there : {"yes", "no", "half"}, from : UNION {[E -> Nat] : E \in SUBSET Entries},
     extra : SUBSET Entries, current : Entries \cup {"none"}]

Command ==
    [step : Steps, what : {"merge", "login"}, in : Config, activate : BOOLEAN,
     old : Config, new : Config, name : Nat, raced : BOOLEAN]

FilesTypeOK ==
    /\ kind \in {"kubeconfig", "talosconfig"}
    /\ config \in Config
    /\ backups \in Seq(Config)
    /\ shell \in [Shells -> Command]
    /\ replaced \subseteq Config
    /\ cut \in BOOLEAN
    /\ runs \in Nat

\* A config that has entries, as a command brings and writes.
Whole(c) == c.there = "yes" /\ DOMAIN c.from # {}

\* What a command that has read the file is about to write, and that only a
\* login writes in place.
CommandOK(c) ==
    /\ c.step # "rest" => Whole(c.in)
    /\ c.step \notin {"rest", "read"} => Whole(c.new)
    /\ c.step \in {"truncate", "write"} => c.what = "login"

Commands == \A t \in Shells : CommandOK(shell[t])

WholeInv == FilesTypeOK /\ Commands /\ NeverHalfWritten

\* What a merge knows of the file it has read, and of its backup: nobody else
\* writes to that, and once written it stays.
ReadsLast == {"backup", "write backup", "swap"}

\* It has the file as it is.
Fresh(t) == shell[t].step \in ReadsLast /\ ~shell[t].raced => config = shell[t].old

Parsed(t) == shell[t].step \in ReadsLast => shell[t].old.there # "half"

\* The name it has taken for the backup is its own.
Claimed(t) ==
    shell[t].step = "write backup" =>
       /\ shell[t].name \in DOMAIN backups /\ backups[shell[t].name] = Half
       /\ \A u \in Shells \ {t} :
             shell[u].step = "write backup" => shell[u].name # shell[t].name

Saved(t) ==
    shell[t].step = "swap" /\ shell[t].old.there = "yes" => shell[t].old \in Range(backups)

BackupOK(t) == Fresh(t) /\ Parsed(t) /\ Claimed(t) /\ Saved(t)

BackupInv ==
    /\ FilesTypeOK
    /\ \A t \in Shells : BackupOK(t)
    /\ Half \notin replaced
    /\ PreviousIsKept

-----------------------------------------------------------------------------
(***************************************************************************)
(* Types.                                                                  *)
(***************************************************************************)

\* The configs that the definitions name.
LEMMA NamedConfigs == Missing \in Config /\ Empty \in Config /\ Half \in Config /\ AtRest \in Command
  <1>1. <<>> \in [{} -> Nat]
    OBVIOUS
  <1>2. <<>> \in UNION {[E -> Nat] : E \in SUBSET Entries}
    BY <1>1
  <1>3. Missing \in Config /\ Empty \in Config /\ Half \in Config
    BY <1>2 DEF Missing, Empty, Half, File, Config
  <1>. QED
    BY <1>3 DEF AtRest, Command, Steps

\* Entries of one map laid over those of another make a map of both.
LEMMA OverType ==
    ASSUME NEW f \in UNION {[E -> Nat] : E \in SUBSET Entries},
           NEW g \in UNION {[E -> Nat] : E \in SUBSET Entries}
    PROVE  /\ Over(f, g) \in UNION {[E -> Nat] : E \in SUBSET Entries}
           /\ DOMAIN Over(f, g) = DOMAIN f \cup DOMAIN g
  <1>1. PICK D \in SUBSET Entries : f \in [D -> Nat]
    OBVIOUS
  <1>2. PICK E \in SUBSET Entries : g \in [E -> Nat]
    OBVIOUS
  <1>3. Over(f, g) \in [D \cup E -> Nat]
    BY <1>1, <1>2 DEF Over
  <1>. QED
    BY <1>1, <1>2, <1>3

\* Both ways of merging make a whole config of whatever was read (merge.go,
\* kubeconfig.go, talosconfig.go).
LEMMA MergedType ==
    ASSUME NEW c \in Config, NEW in \in Config, Whole(in), NEW activate \in BOOLEAN
    PROVE  /\ MergedVerbatim(c, in) \in Config /\ Whole(MergedVerbatim(c, in))
           /\ MergedLogin(c, in, activate) \in Config /\ Whole(MergedLogin(c, in, activate))
  <1>1. /\ Over(in.from, c.from) \in UNION {[E -> Nat] : E \in SUBSET Entries}
        /\ DOMAIN Over(in.from, c.from) # {}
    <2>1. /\ in.from \in UNION {[E -> Nat] : E \in SUBSET Entries}
          /\ c.from \in UNION {[E -> Nat] : E \in SUBSET Entries}
      BY DEF Config
    <2>2. /\ Over(in.from, c.from) \in UNION {[E -> Nat] : E \in SUBSET Entries}
          /\ DOMAIN Over(in.from, c.from) = DOMAIN in.from \cup DOMAIN c.from
      BY <2>1, OverType
    <2>3. DOMAIN in.from # {}
      BY DEF Whole
    <2>. QED BY <2>2, <2>3
  <1>2. (c.extra \ DOMAIN in.from) \cup in.extra \in SUBSET Entries
    BY DEF Config
  <1>3. ASSUME NEW X \in SUBSET Entries, NEW cur \in Entries \cup {"none"}
        PROVE  LET m == File("yes", Over(in.from, c.from), X, cur) IN m \in Config /\ Whole(m)
    BY <1>1 DEF File, Config, Whole
  <1>4. /\ (IF kind = "talosconfig" THEN {} ELSE c.extra) \in SUBSET Entries
        /\ (IF c.current = "none" THEN in.current ELSE c.current) \in Entries \cup {"none"}
        /\ (IF activate THEN in.current ELSE c.current) \in Entries \cup {"none"}
    BY DEF Config
  <1>5. MergedVerbatim(c, in) \in Config /\ Whole(MergedVerbatim(c, in))
    BY <1>2, <1>3, <1>4 DEF MergedVerbatim
  <1>6. MergedLogin(c, in, activate) \in Config /\ Whole(MergedLogin(c, in, activate))
    BY <1>3, <1>4 DEF MergedLogin
  <1>. QED BY <1>5, <1>6

\* What each step does to the command of its terminal, and to the others.
LEMMA BecomeType ==
    ASSUME FilesTypeOK, NEW t \in Shells, NEW r \in Command,
           Become(t, r) \/ Wrote(t, r)
    PROVE  /\ shell' \in [Shells -> Command]
           /\ shell'[t] = r
           /\ \A u \in Shells \ {t} :
                \/ shell'[u] = shell[u]
                \/ shell'[u] = [shell[u] EXCEPT !.raced = shell[u].step # "rest"]
  <1>1. \A u \in Shells : [shell[u] EXCEPT !.raced = shell[u].step # "rest"] \in Command
    BY DEF FilesTypeOK, Command
  <1>2. CASE Become(t, r)
    BY <1>2 DEF Become, FilesTypeOK
  <1>3. CASE Wrote(t, r)
    BY <1>1, <1>3 DEF Wrote, FilesTypeOK
  <1>. QED
    BY <1>2, <1>3

\* A file handed over, or taken from a secret.
LEMMA BroughtType ==
    ASSUME NEW E \in SUBSET Entries, E # {}, NEW n \in Nat, NEW cur \in E \cup {"none"}
    PROVE  LET in == File("yes", [e \in E |-> n], {}, cur) IN in \in Config /\ Whole(in)
  <1>1. [e \in E |-> n] \in UNION {[D -> Nat] : D \in SUBSET Entries}
    OBVIOUS
  <1>. QED BY <1>1 DEF File, Config, Whole

\* When a terminal goes on with a command that is well formed, all are.
LEMMA CommandsKept ==
    ASSUME FilesTypeOK, Commands, NEW t \in Shells, NEW r \in Command, CommandOK(r),
           Become(t, r) \/ Wrote(t, r)
    PROVE  shell' \in [Shells -> Command] /\ Commands'
  <1>1. /\ shell' \in [Shells -> Command] /\ shell'[t] = r
        /\ \A u \in Shells \ {t} :
             \/ shell'[u] = shell[u]
             \/ shell'[u] = [shell[u] EXCEPT !.raced = shell[u].step # "rest"]
    BY BecomeType
  <1>2. ASSUME NEW u \in Shells PROVE CommandOK(shell'[u])
    <2>1. CASE u = t BY <2>1, <1>1
    <2>2. CASE u # t
      <3>1. CommandOK(shell[u]) /\ shell[u] \in Command
        BY DEF Commands, FilesTypeOK
      <3>2. /\ shell'[u].step = shell[u].step /\ shell'[u].what = shell[u].what
            /\ shell'[u].in = shell[u].in /\ shell'[u].new = shell[u].new
        BY <2>2, <1>1, <3>1 DEF Command
      <3>. QED BY <3>1, <3>2 DEF CommandOK
    <2>. QED BY <2>1, <2>2
  <1>. QED BY <1>1, <1>2 DEF Commands

\* A terminal without a command.
LEMMA RestOK == AtRest \in Command /\ CommandOK(AtRest)
  BY NamedConfigs DEF AtRest, CommandOK

\* The steps of a command, in the order of the code.
LEMMA StartType ==
    ASSUME FilesTypeOK, Commands, NEW t \in Shells, NEW what \in {"merge", "login"},
           NEW in \in Config, Whole(in), NEW activate \in BOOLEAN, Start(t, what, in, activate)
    PROVE  FilesTypeOK' /\ Commands'
  <1> DEFINE r == [AtRest EXCEPT !.step = "read", !.what = what, !.in = in, !.activate = activate]
  <1>1. r \in Command /\ CommandOK(r)
    BY NamedConfigs DEF AtRest, Command, CommandOK, Steps
  <1>2. shell' \in [Shells -> Command] /\ Commands'
    <2> HIDE DEF r
    <2>1. Become(t, r) BY DEF Start, r
    <2>. QED BY <1>1, <2>1, CommandsKept
  <1>. QED BY <1>2 DEF Start, FilesTypeOK, LocalFilesAssumption

\* The command of a terminal, once it has read the file.
AfterRead(c, old, new, step) ==
    [c EXCEPT !.old = old, !.raced = FALSE, !.new = new, !.step = step]

\* What the fields of that command are.
LEMMA Fields ==
    ASSUME NEW c \in Command, NEW old \in Config, NEW new \in Config, NEW step \in Steps
    PROVE  /\ AfterRead(c, old, new, step) \in Command
           /\ AfterRead(c, old, new, step).step = step
           /\ AfterRead(c, old, new, step).old = old
           /\ AfterRead(c, old, new, step).new = new
           /\ AfterRead(c, old, new, step).what = c.what
           /\ AfterRead(c, old, new, step).in = c.in
           /\ AfterRead(c, old, new, step).activate = c.activate
  <1> DEFINE c1 == [c EXCEPT !.old = old]
             c2 == [c1 EXCEPT !.raced = FALSE]
             c3 == [c2 EXCEPT !.new = new]
             c4 == [c3 EXCEPT !.step = step]
  <1>1. /\ c1 \in Command /\ c1.old = old
        /\ c1.what = c.what /\ c1.in = c.in /\ c1.activate = c.activate
    BY DEF Command
  <1>2. /\ c2 \in Command /\ c2.old = c1.old /\ c2.raced = FALSE
        /\ c2.what = c1.what /\ c2.in = c1.in /\ c2.activate = c1.activate
    <2> HIDE DEF c1
    <2>. QED BY <1>1 DEF Command
  <1>3. /\ c3 \in Command /\ c3.old = c2.old /\ c3.raced = c2.raced /\ c3.new = new
        /\ c3.what = c2.what /\ c3.in = c2.in /\ c3.activate = c2.activate
    <2> HIDE DEF c2
    <2>. QED BY <1>2 DEF Command
  <1>4. /\ c4 \in Command /\ c4.old = c3.old /\ c4.raced = c3.raced /\ c4.new = c3.new
        /\ c4.step = step
        /\ c4.what = c3.what /\ c4.in = c3.in /\ c4.activate = c3.activate
    <2> HIDE DEF c3
    <2>. QED BY <1>3 DEF Command
  <1>5. AfterRead(c, old, new, step) = c4
    BY DEF AfterRead
  <1> HIDE DEF c1, c2, c3, c4
  <1>. QED BY <1>1, <1>2, <1>3, <1>4, <1>5

\* Reading the file.
LEMMA ReadType ==
    ASSUME FilesTypeOK, Commands, NEW t \in Shells, Read(t)
    PROVE  FilesTypeOK' /\ Commands'
  <1>1. UNCHANGED <<kind, config, backups, replaced, cut, runs>>
    BY DEF Read
  <1>2. shell[t] \in Command /\ CommandOK(shell[t]) /\ config \in Config
    BY DEF FilesTypeOK, Commands
  <1>3. CASE config.there = "half"
    <2>1. Become(t, AtRest) BY <1>3 DEF Read, Done
    <2>. QED BY <1>1, <2>1, RestOK, CommandsKept DEF FilesTypeOK
  <1>4. CASE config.there # "half"
    <2> DEFINE c == shell[t]
               merged == IF c.what = "merge" THEN MergedVerbatim(config, c.in)
                         ELSE MergedLogin(config, c.in, c.activate)
               next == IF c.what = "login" THEN "truncate"
                       ELSE IF config.there = "no" THEN "swap" ELSE "backup"
               r == AfterRead(c, config, merged, next)
    <2>1. c.step = "read" /\ Become(t, r)
      BY <1>4 DEF Read, AfterRead
    <2>2. c.in \in Config /\ Whole(c.in) /\ c.activate \in BOOLEAN
      BY <1>2, <2>1 DEF Command, CommandOK
    <2>3. merged \in Config /\ Whole(merged)
      BY <1>2, <2>2, MergedType
    <2>4. next \in {"truncate", "swap", "backup"} /\ (next = "truncate" => c.what = "login")
      OBVIOUS
    <2>5. r \in Command /\ CommandOK(r)
      <3> HIDE DEF merged, next
      <3>1. next \in Steps
        BY <2>4 DEF Steps
      <3>2. c \in Command /\ config \in Config /\ merged \in Config
        BY <1>2, <2>3
      <3> HIDE DEF c
      <3>3. r \in Command
        BY <3>1, <3>2, Fields
      <3>4. r.step = next /\ r.new = merged
        BY <3>1, <3>2, Fields
      <3>5. r.what = c.what /\ r.in = c.in
        BY <3>1, <3>2, Fields
      <3> HIDE DEF r
      <3>. QED BY <2>2, <2>3, <2>4, <3>3, <3>4, <3>5 DEF CommandOK
    <2>6. shell' \in [Shells -> Command] /\ Commands'
      <3> HIDE DEF r
      <3>. QED BY <2>1, <2>5, CommandsKept
    <2>. QED BY <1>1, <2>6 DEF FilesTypeOK
  <1>. QED BY <1>3, <1>4

\* Taking a name for the backup.
LEMMA CreateBackupType ==
    ASSUME FilesTypeOK, Commands, NEW t \in Shells, CreateBackup(t)
    PROVE  FilesTypeOK' /\ Commands'
  <1>1. shell[t] \in Command /\ CommandOK(shell[t]) /\ shell[t].step = "backup"
    BY DEF FilesTypeOK, Commands, CreateBackup
  <1>2. CASE Len(backups) < MaxBackups
    <2> DEFINE r == [shell[t] EXCEPT !.step = "write backup", !.name = Len(backups) + 1]
    <2>1. Len(backups) + 1 \in Nat
      BY DEF FilesTypeOK
    <2>2. r \in Command /\ CommandOK(r)
      BY <1>1, <2>1 DEF Command, CommandOK, Steps
    <2>3. Become(t, r) /\ backups' = Append(backups, Half)
      BY <1>2 DEF CreateBackup
    <2>4. shell' \in [Shells -> Command] /\ Commands'
      <3> HIDE DEF r
      <3>. QED BY <2>2, <2>3, CommandsKept
    <2>5. backups' \in Seq(Config)
      BY <2>3, NamedConfigs DEF FilesTypeOK
    <2>. QED BY <2>4, <2>5 DEF CreateBackup, FilesTypeOK
  <1>3. CASE ~(Len(backups) < MaxBackups)
    <2>1. Become(t, AtRest) /\ UNCHANGED backups BY <1>3 DEF CreateBackup, Done
    <2>. QED BY <2>1, RestOK, CommandsKept DEF CreateBackup, FilesTypeOK
  <1>. QED BY <1>2, <1>3

\* Filling the backup.
LEMMA WriteBackupType ==
    ASSUME FilesTypeOK, Commands, NEW t \in Shells, WriteBackup(t)
    PROVE  FilesTypeOK' /\ Commands'
  <1> DEFINE r == [shell[t] EXCEPT !.step = "swap"]
  <1>1. shell[t] \in Command /\ CommandOK(shell[t]) /\ shell[t].step = "write backup"
    BY DEF FilesTypeOK, Commands, WriteBackup
  <1>2. r \in Command /\ CommandOK(r)
    BY <1>1 DEF Command, CommandOK, Steps
  <1>3. Become(t, r)
    BY DEF WriteBackup
  <1>4. shell' \in [Shells -> Command] /\ Commands'
    <2> HIDE DEF r
    <2>. QED BY <1>2, <1>3, CommandsKept
  <1>5. backups' \in Seq(Config)
    <2>1. backups' = [backups EXCEPT ![shell[t].name] = shell[t].old]
      BY DEF WriteBackup
    <2>2. shell[t].old \in Config
      BY <1>1 DEF Command
    <2>3. backups \in Seq(Config)
      BY DEF FilesTypeOK
    <2>4. Len(backups) \in Nat /\ backups \in [1..Len(backups) -> Config]
      BY <2>3, LenProperties
    <2>5. backups' \in [1..Len(backups) -> Config]
      BY <2>1, <2>2, <2>4
    <2>. QED BY <2>4, <2>5, SeqDef
  <1>. QED BY <1>4, <1>5 DEF WriteBackup, FilesTypeOK

\* Renaming the new file over the old.
LEMMA SwapType ==
    ASSUME FilesTypeOK, Commands, NEW t \in Shells, Swap(t)
    PROVE  FilesTypeOK' /\ Commands'
  <1>1. shell' \in [Shells -> Command] /\ Commands'
    BY RestOK, CommandsKept DEF Swap
  <1>2. config' \in Config /\ replaced' \subseteq Config
    BY DEF Swap, FilesTypeOK, Command
  <1>. QED BY <1>1, <1>2 DEF Swap, FilesTypeOK

\* Opening the file for a write in place.
LEMMA TruncateType ==
    ASSUME FilesTypeOK, Commands, NEW t \in Shells, Truncate(t)
    PROVE  FilesTypeOK' /\ Commands'
  <1> DEFINE r == [shell[t] EXCEPT !.step = "write"]
  <1>1. shell[t] \in Command /\ CommandOK(shell[t]) /\ shell[t].step = "truncate"
    BY DEF FilesTypeOK, Commands, Truncate
  <1>2. r \in Command /\ CommandOK(r)
    BY <1>1 DEF Command, CommandOK, Steps
  <1>3. Wrote(t, r)
    BY DEF Truncate
  <1>4. shell' \in [Shells -> Command] /\ Commands'
    <2> HIDE DEF r
    <2>. QED BY <1>2, <1>3, CommandsKept
  <1>. QED BY <1>4, NamedConfigs DEF Truncate, FilesTypeOK

\* Writing it.
LEMMA WriteType ==
    ASSUME FilesTypeOK, Commands, NEW t \in Shells, Write(t)
    PROVE  FilesTypeOK' /\ Commands'
  <1>1. shell' \in [Shells -> Command] /\ Commands'
    BY RestOK, CommandsKept DEF Write
  <1>2. config' \in Config
    BY DEF Write, FilesTypeOK, Command
  <1>. QED BY <1>1, <1>2 DEF Write, FilesTypeOK

\* Being killed.
LEMMA KillType ==
    ASSUME FilesTypeOK, Commands, NEW t \in Shells, Kill(t)
    PROVE  FilesTypeOK' /\ Commands'
  <1>1. Become(t, AtRest) \/ Wrote(t, AtRest)
    BY DEF Kill, Done
  <1>2. shell' \in [Shells -> Command] /\ Commands'
    BY <1>1, RestOK, CommandsKept
  <1>3. config' \in Config /\ cut' \in BOOLEAN
    <2>1. CASE shell[t].step = "write"
      BY <2>1, NamedConfigs DEF Kill, FilesTypeOK
    <2>2. CASE shell[t].step # "write"
      BY <2>2 DEF Kill, FilesTypeOK
    <2>. QED BY <2>1, <2>2
  <1>4. runs' \in Nat
    BY DEF Kill, FilesTypeOK
  <1>. QED BY <1>2, <1>3, <1>4 DEF Kill, FilesTypeOK

\* A command that begins brings a whole file.
Begin(t) ==
    \E what \in {"merge", "login"}, in \in Config, activate \in BOOLEAN :
       Whole(in) /\ Start(t, what, in, activate)

FilesStep(t) ==
    \/ Begin(t) \/ Read(t) \/ CreateBackup(t) \/ WriteBackup(t) \/ Swap(t)
    \/ Truncate(t) \/ Write(t) \/ Kill(t)

\* A step of the files is a step of one terminal.
LEMMA StepCases == FilesTypeOK /\ FilesNext => \E t \in Shells : FilesStep(t)
  <1>. SUFFICES ASSUME FilesTypeOK, FilesNext PROVE \E t \in Shells : FilesStep(t)
    OBVIOUS
  <1>0. PICK t \in Shells :
          \/ \E E \in {{e} : e \in Entries} \cup {Entries} : \E cur \in E \cup {"none"} :
               Start(t, "merge", File("yes", [e \in E |-> runs + 1], {}, cur), FALSE)
          \/ \E e \in Entries, activate \in BOOLEAN :
               Start(t, "login", File("yes", [x \in {e} |-> runs + 1], {}, e), activate)
          \/ Read(t) \/ CreateBackup(t) \/ WriteBackup(t) \/ Swap(t)
          \/ Truncate(t) \/ Write(t) \/ Kill(t)
    BY DEF FilesNext
  <1>n. runs + 1 \in Nat
    BY DEF FilesTypeOK
  <1>1. ASSUME NEW E \in {{e} : e \in Entries} \cup {Entries}, NEW cur \in E \cup {"none"},
               Start(t, "merge", File("yes", [e \in E |-> runs + 1], {}, cur), FALSE)
        PROVE  Begin(t)
    <2> DEFINE in == File("yes", [e \in E |-> runs + 1], {}, cur)
    <2>1. E \in SUBSET Entries /\ E # {}
      BY LocalFilesAssumption
    <2>2. in \in Config /\ Whole(in)
      BY <1>n, <2>1, BroughtType
    <2>3. Start(t, "merge", in, FALSE)
      BY <1>1
    <2> HIDE DEF in
    <2>. QED BY <2>2, <2>3 DEF Begin
  <1>2. ASSUME NEW e \in Entries, NEW activate \in BOOLEAN,
               Start(t, "login", File("yes", [x \in {e} |-> runs + 1], {}, e), activate)
        PROVE  Begin(t)
    <2> DEFINE in == File("yes", [x \in {e} |-> runs + 1], {}, e)
    <2>1. in \in Config /\ Whole(in)
      BY <1>n, BroughtType
    <2>2. Start(t, "login", in, activate)
      BY <1>2
    <2> HIDE DEF in
    <2>. QED BY <2>1, <2>2 DEF Begin
  <1>. QED
    BY <1>0, <1>1, <1>2 DEF FilesStep

\* Types, and what commands hold, are kept.
LEMMA TypeStep ==
    ASSUME FilesTypeOK, Commands, FilesNext
    PROVE  FilesTypeOK' /\ Commands'
  <1>1. PICK t \in Shells : FilesStep(t)
    BY StepCases
  <1>2. CASE Begin(t)
    BY <1>2, StartType DEF Begin
  <1>. QED
    BY <1>1, <1>2, ReadType, CreateBackupType, WriteBackupType, SwapType, TruncateType, WriteType,
       KillType DEF FilesStep

\* The file at the start: missing, or with entries.
LEMMA InitConfig == FilesInit => config = Missing \/ (config \in Config /\ Whole(config))
  <1>. SUFFICES ASSUME FilesInit, config # Missing PROVE config \in Config /\ Whole(config)
    OBVIOUS
  <1>1. PICK E \in (SUBSET Entries) \ {{}}, X \in SUBSET Entries, c \in Entries \cup {"none"} :
          config = File("yes", [e \in E |-> 0], X, c)
    BY DEF FilesInit
  <1>2. /\ [e \in E |-> 0] \in UNION {[D -> Nat] : D \in SUBSET Entries}
        /\ DOMAIN [e \in E |-> 0] = E /\ E # {}
    OBVIOUS
  <1> DEFINE from == [e \in E |-> 0]
  <1>3. config = File("yes", from, X, c)
    BY <1>1
  <1>4. from \in UNION {[D -> Nat] : D \in SUBSET Entries} /\ DOMAIN from # {}
    BY <1>2
  <1> HIDE DEF from
  <1>. QED BY <1>3, <1>4 DEF File, Config, Whole

\* They hold at the start.
LEMMA TypeInit == FilesInit => FilesTypeOK /\ Commands
  <1>. SUFFICES ASSUME FilesInit PROVE FilesTypeOK /\ Commands
    OBVIOUS
  <1>1. config \in Config
    BY InitConfig, NamedConfigs
  <1>2. shell \in [Shells -> Command] /\ Commands
    BY RestOK DEF FilesInit, Commands
  <1>3. backups \in Seq(Config)
    BY EmptySeq DEF FilesInit
  <1>4. kind \in {"kubeconfig", "talosconfig"} /\ replaced \subseteq Config
    BY DEF FilesInit
  <1>5. cut \in BOOLEAN /\ runs \in Nat
    BY DEF FilesInit
  <1>. QED BY <1>1, <1>2, <1>3, <1>4, <1>5 DEF FilesTypeOK

-----------------------------------------------------------------------------
(***************************************************************************)
(* What the steps of one terminal leave of the others.                     *)
(***************************************************************************)
Undisturbed(t) ==
    \A u \in Shells \ {t} :
       /\ shell'[u].step = shell[u].step /\ shell'[u].what = shell[u].what
       /\ shell'[u].in = shell[u].in /\ shell'[u].new = shell[u].new
       /\ shell'[u].old = shell[u].old /\ shell'[u].name = shell[u].name
       /\ shell'[u].activate = shell[u].activate

\* Who has read the file before it changes is marked.
Marked(t) ==
    \A u \in Shells \ {t} :
       \/ (config' = config /\ shell'[u].raced = shell[u].raced)
       \/ (shell[u].step # "rest" => shell'[u].raced)

\* Both hold, however terminal t goes on.
LEMMA OthersStay ==
    ASSUME FilesTypeOK, NEW t \in Shells, NEW r,
           (Become(t, r) /\ config' = config) \/ Wrote(t, r)
    PROVE  Undisturbed(t) /\ Marked(t) /\ shell'[t] = r
  <1>1. \A u \in Shells : shell[u] \in Command
    BY DEF FilesTypeOK
  <1>2. CASE Become(t, r) /\ config' = config
    BY <1>2 DEF Become, FilesTypeOK, Undisturbed, Marked
  <1>3. CASE Wrote(t, r)
    <2>1. ASSUME NEW u \in Shells \ {t}
          PROVE  shell'[u] = [shell[u] EXCEPT !.raced = shell[u].step # "rest"]
      BY <1>3 DEF Wrote
    <2>2. Undisturbed(t)
      <3>1. SUFFICES ASSUME NEW u \in Shells \ {t}
                     PROVE  /\ shell'[u].step = shell[u].step /\ shell'[u].what = shell[u].what
                            /\ shell'[u].in = shell[u].in /\ shell'[u].new = shell[u].new
                            /\ shell'[u].old = shell[u].old /\ shell'[u].name = shell[u].name
                            /\ shell'[u].activate = shell[u].activate
        BY DEF Undisturbed
      <3>2. shell[u] \in Command /\ shell'[u] = [shell[u] EXCEPT !.raced = shell[u].step # "rest"]
        BY <1>1, <2>1
      <3>. QED BY <3>2 DEF Command
    <2>3. Marked(t)
      BY <1>1, <2>1 DEF Marked, Command
    <2>. QED BY <1>3, <2>2, <2>3 DEF Wrote
  <1>. QED BY <1>2, <1>3

\* Both hold of every step.
LEMMA StepStays ==
    ASSUME FilesTypeOK, NEW t \in Shells, FilesStep(t)
    PROVE  Undisturbed(t) /\ Marked(t)
  <1>1. CASE Begin(t) BY <1>1, OthersStay DEF Begin, Start
  <1>2. CASE Read(t) BY <1>2, OthersStay DEF Read, Done
  <1>3. CASE CreateBackup(t) BY <1>3, OthersStay DEF CreateBackup, Done
  <1>4. CASE WriteBackup(t) BY <1>4, OthersStay DEF WriteBackup
  <1>5. CASE Swap(t) BY <1>5, OthersStay DEF Swap
  <1>6. CASE Truncate(t) BY <1>6, OthersStay DEF Truncate
  <1>7. CASE Write(t) BY <1>7, OthersStay DEF Write
  <1>8. CASE Kill(t) BY <1>8, OthersStay DEF Kill, Done
  <1>. QED BY <1>1, <1>2, <1>3, <1>4, <1>5, <1>6, <1>7, <1>8 DEF FilesStep

-----------------------------------------------------------------------------
(***************************************************************************)
(* No half-written file but a login's.                                     *)
(***************************************************************************)

\* A whole config is neither cut short nor just truncated.
LEMMA WholeIsNotHalf == ASSUME NEW c, Whole(c) PROVE c \notin {Half, Empty}
  <1>1. Half.there = "half" /\ Empty.from = <<>>
    BY DEF Half, Empty, File
  <1>2. DOMAIN <<>> = {}
    OBVIOUS
  <1>. QED BY <1>1, <1>2 DEF Whole

\* A step that leaves the file as it is, of a command that was not writing.
LEMMA HalfKept ==
    ASSUME NeverHalfWritten, NEW t \in Shells, Undisturbed(t), shell[t].step # "write",
           config' = config, cut' = cut
    PROVE  NeverHalfWritten'
  <1>1. SUFFICES ASSUME config \in {Half, Empty}, ~cut
                 PROVE  \E u \in Shells : shell'[u].step = "write" /\ shell'[u].what = "login"
    BY DEF NeverHalfWritten
  <1>2. PICK u \in Shells : shell[u].step = "write" /\ shell[u].what = "login"
    BY <1>1 DEF NeverHalfWritten
  <1>3. u # t
    BY <1>2
  <1>. QED BY <1>2, <1>3 DEF Undisturbed

\* Every step keeps the file whole, but for a login's.
LEMMA HalfStep ==
    ASSUME FilesTypeOK, Commands, NeverHalfWritten, FilesNext
    PROVE  NeverHalfWritten'
  <1>1. PICK t \in Shells : FilesStep(t)
    BY StepCases
  <1>2. Undisturbed(t) /\ CommandOK(shell[t]) /\ shell[t] \in Command
    BY <1>1, StepStays DEF Commands, FilesTypeOK
  <1>3. CASE Begin(t) BY <1>2, <1>3, HalfKept DEF Begin, Start
  <1>4. CASE Read(t) BY <1>2, <1>4, HalfKept DEF Read
  <1>5. CASE CreateBackup(t) BY <1>2, <1>5, HalfKept DEF CreateBackup
  <1>6. CASE WriteBackup(t) BY <1>2, <1>6, HalfKept DEF WriteBackup
  <1>7. CASE Swap(t) \/ Write(t)
    <2>1. Whole(config')
      BY <1>2, <1>7 DEF Swap, Write, CommandOK
    <2>. QED BY <2>1, WholeIsNotHalf DEF NeverHalfWritten
  <1>8. CASE Truncate(t)
    <2>1. Wrote(t, [shell[t] EXCEPT !.step = "write"])
      BY <1>8 DEF Truncate
    <2>2. shell'[t] = [shell[t] EXCEPT !.step = "write"]
      BY <2>1, OthersStay
    <2>3. shell'[t].step = "write" /\ shell'[t].what = "login"
      BY <1>2, <1>8, <2>2 DEF Truncate, CommandOK, Command
    <2>. QED BY <2>3 DEF NeverHalfWritten
  <1>9. CASE Kill(t)
    <2>1. CASE shell[t].step = "write"
      <3>1. cut'
        BY <1>2, <1>9, <2>1 DEF Kill, CommandOK
      <3>. QED BY <3>1 DEF NeverHalfWritten
    <2>2. CASE shell[t].step # "write"
      BY <1>2, <1>9, <2>2, HalfKept DEF Kill
    <2>. QED BY <2>1, <2>2
  <1>. QED
    BY <1>1, <1>3, <1>4, <1>5, <1>6, <1>7, <1>8, <1>9 DEF FilesStep

\* "A failure never leaves a half-written config" (merge.go): what is
\* half-written, or empty, a login in place is writing or was killed in.
THEOREM OnlyALoginCutsTheFile == FilesSpec => []NeverHalfWritten
  <1>1. FilesInit => WholeInv
    <2>. SUFFICES ASSUME FilesInit PROVE NeverHalfWritten
      BY TypeInit DEF WholeInv
    <2>1. CASE config = Missing
      BY <2>1 DEF Missing, Half, Empty, File, NeverHalfWritten
    <2>2. CASE Whole(config)
      BY <2>2, WholeIsNotHalf DEF NeverHalfWritten
    <2>. QED BY <2>1, <2>2, InitConfig
  <1>2. WholeInv /\ [FilesNext]_filesVars => WholeInv'
    <2>1. WholeInv /\ FilesNext => WholeInv'
      BY TypeStep, HalfStep DEF WholeInv
    <2>2. WholeInv /\ UNCHANGED filesVars => WholeInv'
      BY DEF WholeInv, FilesTypeOK, Commands, CommandOK, NeverHalfWritten, filesVars
    <2>. QED BY <2>1, <2>2
  <1>3. WholeInv => NeverHalfWritten
    BY DEF WholeInv
  <1>. QED BY <1>1, <1>2, <1>3, PTL DEF FilesSpec

-----------------------------------------------------------------------------
(***************************************************************************)
(* What a merge has replaced is in a backup.                               *)
(***************************************************************************)

\* Backups are added and filled, and a filled one stays.
BackupsGrow ==
    /\ \A b \in Range(backups) \ {Half} : b \in Range(backups')
    /\ DOMAIN backups \subseteq DOMAIN backups'

\* What holds for the others after a step of terminal t.
LEMMA OthersBackup ==
    ASSUME FilesTypeOK, NEW t \in Shells, NEW u \in Shells \ {t}, Undisturbed(t), Marked(t),
           BackupOK(u), BackupsGrow,
           shell[u].step = "write backup" => backups'[shell[u].name] = backups[shell[u].name],
           shell'[t].step = "write backup" /\ shell[u].step = "write backup" =>
              shell'[t].name # shell[u].name
    PROVE  BackupOK(u)'
  <1>1. /\ shell'[u].step = shell[u].step /\ shell'[u].old = shell[u].old
        /\ shell'[u].name = shell[u].name
    BY DEF Undisturbed
  <1>2. Fresh(u)'
    BY <1>1 DEF BackupOK, Fresh, Marked, ReadsLast
  <1>3. Parsed(u)'
    BY <1>1 DEF BackupOK, Parsed
  <1>4. Claimed(u)'
    <2>1. SUFFICES ASSUME shell[u].step = "write backup"
                   PROVE  /\ shell[u].name \in DOMAIN backups' /\ backups'[shell[u].name] = Half
                          /\ \A v \in Shells \ {u} :
                                shell'[v].step = "write backup" => shell'[v].name # shell[u].name
      BY <1>1 DEF Claimed
    <2>2. /\ shell[u].name \in DOMAIN backups /\ backups[shell[u].name] = Half
          /\ \A v \in Shells \ {u} : shell[v].step = "write backup" => shell[v].name # shell[u].name
      BY <2>1 DEF BackupOK, Claimed
    <2>3. ASSUME NEW v \in Shells \ {u}, shell'[v].step = "write backup"
          PROVE  shell'[v].name # shell[u].name
      <3>1. CASE v = t
        BY <2>1, <2>3, <3>1
      <3>2. CASE v # t
        BY <2>2, <2>3, <3>2 DEF Undisturbed
      <3>. QED BY <3>1, <3>2
    <2>. QED BY <2>1, <2>2, <2>3 DEF BackupsGrow
  <1>5. Saved(u)'
    <2>1. SUFFICES ASSUME shell[u].step = "swap", shell[u].old.there = "yes"
                   PROVE  shell[u].old \in Range(backups')
      BY <1>1 DEF Saved, Range
    <2>2. shell[u].old \in Range(backups)
      BY <2>1 DEF BackupOK, Saved
    <2>3. shell[u].old # Half
      BY <2>1 DEF Half, File
    <2>. QED BY <2>2, <2>3 DEF BackupsGrow
  <1>. QED BY <1>2, <1>3, <1>4, <1>5 DEF BackupOK

\* A command that is at no step of a merge has nothing to keep.
LEMMA NotMerging ==
    ASSUME NEW t \in Shells, shell'[t].step \notin ReadsLast
    PROVE  BackupOK(t)'
  BY DEF BackupOK, Fresh, Parsed, Claimed, Saved, ReadsLast

\* A step that does not touch the backups, of a command that has not taken a name.
LEMMA SameBackups ==
    ASSUME BackupInv, NEW t \in Shells, FilesStep(t), backups' = backups,
           shell'[t].step # "write backup", BackupOK(t)'
    PROVE  \A u \in Shells : BackupOK(u)'
  <1>1. Undisturbed(t) /\ Marked(t)
    BY StepStays DEF BackupInv
  <1>2. BackupsGrow
    BY DEF BackupsGrow
  <1>3. ASSUME NEW u \in Shells \ {t} PROVE BackupOK(u)'
    BY <1>1, <1>2, OthersBackup DEF BackupInv
  <1>. QED BY <1>3

\* What has just been read is as it is, and can be parsed.
LEMMA ReadKeeps ==
    ASSUME BackupInv, NEW t \in Shells, Read(t)
    PROVE  BackupOK(t)' /\ shell'[t].step # "write backup"
  <1>1. CASE config.there = "half"
    <2>1. shell'[t] = AtRest
      BY <1>1 DEF Read, Done, Become, BackupInv, FilesTypeOK
    <2>2. shell'[t].step = "rest"
      BY <2>1 DEF AtRest
    <2>. QED BY <2>2, NotMerging DEF ReadsLast
  <1>2. CASE config.there # "half"
    <2> DEFINE c == shell[t]
               merged == IF c.what = "merge" THEN MergedVerbatim(config, c.in)
                         ELSE MergedLogin(config, c.in, c.activate)
               next == IF c.what = "login" THEN "truncate"
                       ELSE IF config.there = "no" THEN "swap" ELSE "backup"
               r == [c EXCEPT !.old = config, !.raced = FALSE, !.new = merged, !.step = next]
    <2>1. Become(t, r) /\ config' = config
      BY <1>2 DEF Read
    <2>2. c \in Command /\ config \in Config
      BY DEF BackupInv, FilesTypeOK
    <2>3. r.old = config /\ r.step = next
      <3> HIDE DEF merged, next, c
      <3>. QED BY <2>2 DEF Command
    <2>4. next \in {"truncate", "swap", "backup"} /\ (next = "swap" => config.there = "no")
      OBVIOUS
    <2> HIDE DEF r, next
    <2>5. shell'[t] = r
      BY <2>1 DEF Become, BackupInv, FilesTypeOK
    <2>. QED BY <1>2, <2>1, <2>3, <2>4, <2>5 DEF BackupOK, Fresh, Parsed, Claimed, Saved
  <1>. QED BY <1>1, <1>2

\* A new name at the end: nobody else has it.
LEMMA CreateBackupKeeps ==
    ASSUME BackupInv, NEW t \in Shells, CreateBackup(t)
    PROVE  /\ \A u \in Shells : BackupOK(u)'
           /\ BackupsGrow
  <1>1. /\ Undisturbed(t) /\ Marked(t)
        /\ backups \in Seq(Config) /\ shell \in [Shells -> Command]
    BY StepStays DEF BackupInv, FilesTypeOK, FilesStep
  <1>2. CASE Len(backups) < MaxBackups
    <2> DEFINE c == shell[t]
               r == [c EXCEPT !.step = "write backup", !.name = Len(backups) + 1]
    <2>1. /\ Become(t, r) /\ backups' = Append(backups, Half)
          /\ c.step = "backup" /\ config' = config
      BY <1>2 DEF CreateBackup
    <2>2. c \in Command /\ shell'[t] = r
      BY <1>1, <2>1 DEF Become
    <2>3. /\ r.step = "write backup" /\ r.name = Len(backups) + 1
          /\ r.old = c.old /\ r.raced = c.raced
      <3> HIDE DEF c
      <3>. QED BY <2>2 DEF Command
    <2>4. /\ Len(backups) \in Nat /\ DOMAIN backups = 1..Len(backups)
          /\ DOMAIN backups' = 1..(Len(backups) + 1)
          /\ \A i \in 1..Len(backups) : backups'[i] = backups[i]
          /\ backups'[Len(backups) + 1] = Half
      BY <1>1, <2>1, NamedConfigs
    <2>5. shell'[t].step = "write backup" /\ shell'[t].name = Len(backups) + 1
      <3> HIDE DEF r
      <3>. QED BY <2>2, <2>3
    <2>6. BackupsGrow
      BY <2>4 DEF BackupsGrow, Range
    <2>7. \A u \in Shells : shell[u].step = "write backup" => shell[u].name \in 1..Len(backups)
      BY <2>4 DEF BackupInv, BackupOK, Claimed
    <2>8. \A i \in 1..Len(backups) : i # Len(backups) + 1
      BY <2>4
    <2>9. ASSUME NEW u \in Shells \ {t} PROVE BackupOK(u)'
      <3>1. shell[u].step = "write backup" => backups'[shell[u].name] = backups[shell[u].name]
        BY <2>4, <2>7
      <3>2. shell[u].step = "write backup" => shell'[t].name # shell[u].name
        BY <2>7, <2>5, <2>8, Zenon
      <3>. QED BY <1>1, <2>6, <3>1, <3>2, OthersBackup DEF BackupInv
    <2>10. BackupOK(t)'
      <3> HIDE DEF r
      <3>1. Fresh(t) /\ Parsed(t)
        BY DEF BackupInv, BackupOK
      <3>2. Fresh(t)' /\ Parsed(t)'
        BY <2>1, <2>2, <2>3, <3>1 DEF Fresh, Parsed, ReadsLast
      <3>3. Claimed(t)'
        <4>1. ASSUME NEW u \in Shells \ {t}, shell'[u].step = "write backup"
              PROVE  shell'[u].name # Len(backups) + 1
          <5>1. shell[u].step = "write backup" /\ shell'[u].name = shell[u].name
            BY <1>1, <4>1 DEF Undisturbed
          <5>. QED BY <2>7, <2>8, <5>1, Zenon
        <4>2. Len(backups) + 1 \in DOMAIN backups'
          BY <2>4
        <4>. QED BY <2>4, <2>5, <4>1, <4>2 DEF Claimed
      <3>4. Saved(t)'
        BY <2>2, <2>3 DEF Saved
      <3>. QED BY <3>2, <3>3, <3>4 DEF BackupOK
    <2>. QED BY <2>6, <2>9, <2>10
  <1>3. CASE ~(Len(backups) < MaxBackups)
    <2>1. shell'[t] = AtRest /\ backups' = backups
      BY <1>1, <1>3 DEF CreateBackup, Done, Become
    <2>2. shell'[t].step = "rest"
      BY <2>1 DEF AtRest
    <2>3. BackupOK(t)'
      BY <2>2, NotMerging DEF ReadsLast
    <2>. QED BY <2>1, <2>2, <2>3, SameBackups DEF FilesStep, BackupsGrow
  <1>. QED BY <1>2, <1>3

\* Only what this command has reserved is written over.
LEMMA WriteBackupKeeps ==
    ASSUME BackupInv, NEW t \in Shells, WriteBackup(t)
    PROVE  /\ \A u \in Shells : BackupOK(u)'
           /\ BackupsGrow
  <1> DEFINE c == shell[t]
             r == [c EXCEPT !.step = "swap"]
  <1>1. /\ Undisturbed(t) /\ Marked(t)
        /\ backups \in Seq(Config) /\ shell \in [Shells -> Command]
    BY StepStays DEF BackupInv, FilesTypeOK, FilesStep
  <1>2. /\ Become(t, r) /\ backups' = [backups EXCEPT ![c.name] = c.old]
        /\ c.step = "write backup" /\ config' = config
    BY DEF WriteBackup
  <1>3. c \in Command /\ shell'[t] = r
    BY <1>1, <1>2 DEF Become
  <1>4. r.step = "swap" /\ r.old = c.old /\ r.raced = c.raced
    <2> HIDE DEF c
    <2>. QED BY <1>3 DEF Command
  <1>5. /\ c.name \in DOMAIN backups /\ backups[c.name] = Half
        /\ \A u \in Shells \ {t} : shell[u].step = "write backup" => shell[u].name # c.name
    BY <1>2 DEF BackupInv, BackupOK, Claimed
  <1>6. /\ DOMAIN backups' = DOMAIN backups /\ backups'[c.name] = c.old
        /\ \A i \in DOMAIN backups \ {c.name} : backups'[i] = backups[i]
    <2> HIDE DEF c
    <2>. QED BY <1>1, <1>2, <1>5
  <1>7. BackupsGrow
    <2> HIDE DEF c
    <2>1. ASSUME NEW b \in Range(backups) \ {Half} PROVE b \in Range(backups')
      <3>1. PICK i \in DOMAIN backups : backups[i] = b
        BY DEF Range
      <3>2. i # c.name
        BY <1>5, <3>1
      <3>3. i \in DOMAIN backups' /\ backups'[i] = b
        BY <1>6, <3>1, <3>2
      <3>. QED BY <3>3 DEF Range
    <2>. QED BY <1>6, <2>1 DEF BackupsGrow
  <1>8. ASSUME NEW u \in Shells \ {t} PROVE BackupOK(u)'
    <2>1. shell[u].step = "write backup" => backups'[shell[u].name] = backups[shell[u].name]
      BY <1>5, <1>6 DEF BackupInv, BackupOK, Claimed
    <2>2. shell'[t].step # "write backup"
      BY <1>3, <1>4
    <2>. QED BY <1>1, <1>7, <2>1, <2>2, OthersBackup DEF BackupInv
  <1>9. BackupOK(t)'
    <2> HIDE DEF r
    <2>1. Fresh(t) /\ Parsed(t)
      BY DEF BackupInv, BackupOK
    <2>2. Fresh(t)' /\ Parsed(t)'
      BY <1>2, <1>3, <1>4, <2>1 DEF Fresh, Parsed, ReadsLast
    <2>3. Claimed(t)'
      BY <1>3, <1>4 DEF Claimed
    <2>4. Saved(t)'
      BY <1>3, <1>4, <1>5, <1>6 DEF Saved, Range
    <2>. QED BY <2>2, <2>3, <2>4 DEF BackupOK
  <1>. QED BY <1>7, <1>8, <1>9

\* Every step keeps the backups.
LEMMA BackupStep ==
    ASSUME BackupInv, FilesTypeOK', FilesNext
    PROVE  BackupInv'
  <1>1. PICK t \in Shells : FilesStep(t)
    BY StepCases DEF BackupInv
  <1>2. FilesTypeOK /\ shell[t] \in Command
    BY DEF BackupInv, FilesTypeOK
  <1>3. CASE CreateBackup(t) \/ WriteBackup(t)
    <2>1. replaced' = replaced /\ (\A u \in Shells : BackupOK(u)') /\ BackupsGrow
      BY <1>3, CreateBackupKeeps, WriteBackupKeeps DEF CreateBackup, WriteBackup
    <2>. QED BY <2>1 DEF BackupInv, PreviousIsKept, BackupsGrow
  <1>4. CASE Read(t)
    BY <1>1, <1>4, ReadKeeps, SameBackups DEF Read, BackupInv, PreviousIsKept
  <1>5. CASE Begin(t) \/ Swap(t) \/ Truncate(t) \/ Write(t) \/ Kill(t)
    <2>1. shell'[t].step \in {"rest", "read", "write"}
      <3>1. CASE Begin(t)
        BY <1>2, <3>1 DEF Begin, Start, Become, AtRest, FilesTypeOK
      <3>2. CASE Truncate(t)
        BY <1>2, <3>2 DEF Truncate, Wrote, Command
      <3>3. CASE Swap(t) \/ Write(t) \/ Kill(t)
        BY <1>2, <3>3 DEF Swap, Write, Kill, Done, Become, Wrote, AtRest, FilesTypeOK
      <3>. QED BY <1>5, <3>1, <3>2, <3>3
    <2>2. backups' = backups
      BY <1>5 DEF Begin, Start, Swap, Truncate, Write, Kill
    <2>3. BackupOK(t)'
      BY <2>1, NotMerging DEF ReadsLast
    <2>4. \A u \in Shells : BackupOK(u)'
      BY <1>1, <2>1, <2>2, <2>3, SameBackups
    <2>5. Half \notin replaced' /\ PreviousIsKept'
      <3>1. CASE replaced' = replaced
        BY <2>2, <3>1 DEF BackupInv, PreviousIsKept
      <3>2. CASE replaced' # replaced
        <4>1. Swap(t)
          BY <1>5, <3>2 DEF Begin, Start, Truncate, Write, Kill
        <4>2. config.there # "no" /\ ~shell[t].raced /\ replaced' = replaced \cup {config}
          BY <3>2, <4>1 DEF Swap
        <4>3. config = shell[t].old /\ shell[t].old.there # "half"
          BY <4>1, <4>2 DEF Swap, BackupInv, BackupOK, Fresh, Parsed, ReadsLast
        <4>4. config.there = "yes"
          BY <1>2, <4>2, <4>3 DEF FilesTypeOK, Config
        <4>5. config \in Range(backups)
          BY <4>1, <4>3, <4>4 DEF Swap, BackupInv, BackupOK, Saved
        <4>6. config # Half
          BY <4>4 DEF Half, File
        <4>. QED BY <2>2, <4>2, <4>5, <4>6 DEF BackupInv, PreviousIsKept
      <3>. QED BY <3>1, <3>2
    <2>. QED BY <2>4, <2>5 DEF BackupInv
  <1>. QED BY <1>1, <1>3, <1>4, <1>5 DEF FilesStep

\* "The previous file is backed up first" (merge.go): for what a merge
\* replaced, whatever the others and kills do.
THEOREM ReplacedIsBackedUp == FilesSpec => []PreviousIsKept
  <1> DEFINE Inv == Commands /\ BackupInv
  <1>1. FilesInit => Inv
    <2>. SUFFICES ASSUME FilesInit PROVE (\A t \in Shells : BackupOK(t)) /\ replaced = {}
      BY TypeInit DEF BackupInv, PreviousIsKept
    <2>1. ASSUME NEW t \in Shells PROVE BackupOK(t)
      <3>1. shell[t].step = "rest"
        BY DEF FilesInit, AtRest
      <3>. QED BY <3>1 DEF BackupOK, Fresh, Parsed, Claimed, Saved, ReadsLast
    <2>. QED BY <2>1 DEF FilesInit
  <1>2. Inv /\ [FilesNext]_filesVars => Inv'
    <2>1. Inv /\ FilesNext => Inv'
      BY TypeStep, BackupStep DEF BackupInv
    <2>2. Inv /\ UNCHANGED filesVars => Inv'
      <3>. SUFFICES ASSUME Inv, UNCHANGED filesVars PROVE Inv'
        OBVIOUS
      <3>1. /\ kind' = kind /\ config' = config /\ backups' = backups /\ shell' = shell
            /\ replaced' = replaced /\ cut' = cut /\ runs' = runs
        BY DEF filesVars
      <3>2. Commands' /\ FilesTypeOK'
        BY <3>1 DEF BackupInv, FilesTypeOK, Commands, CommandOK
      <3>3. ASSUME NEW t \in Shells PROVE BackupOK(t)'
        BY <3>1 DEF BackupInv, BackupOK, Fresh, Parsed, Claimed, Saved
      <3>4. Half \notin replaced' /\ PreviousIsKept'
        BY <3>1 DEF BackupInv, PreviousIsKept
      <3>. QED BY <3>2, <3>3, <3>4 DEF BackupInv
    <2>. QED BY <2>1, <2>2
  <1>3. Inv => PreviousIsKept
    BY DEF BackupInv
  <1>. QED BY <1>1, <1>2, <1>3, PTL DEF FilesSpec

-----------------------------------------------------------------------------
(***************************************************************************)
(* A command writes what it has read, with its own entries laid over it.   *)
(***************************************************************************)
Outcome(c) ==
    IF c.what = "merge" THEN MergedVerbatim(c.old, c.in) ELSE MergedLogin(c.old, c.in, c.activate)

HasRead == {"backup", "write backup", "swap", "truncate", "write"}

MergedOK(t) == shell[t].step \in HasRead => shell[t].new = Outcome(shell[t])

\* A step that goes on with the same command, or ends it.
GoesOn(t) ==
    \/ shell'[t].step \notin HasRead
    \/ /\ shell[t].step \in HasRead
       /\ shell'[t].what = shell[t].what /\ shell'[t].in = shell[t].in
       /\ shell'[t].old = shell[t].old /\ shell'[t].new = shell[t].new
       /\ shell'[t].activate = shell[t].activate
    \/ shell'[t].new = Outcome(shell'[t])

\* The kind of the file does not change.
LEMMA SameKind == ASSUME NEW t, FilesStep(t) PROVE kind' = kind
  BY DEF FilesStep, Begin, Start, Read, CreateBackup, WriteBackup, Swap, Truncate, Write, Kill

\* Every step does.
LEMMA StepGoesOn ==
    ASSUME FilesTypeOK, NEW t \in Shells, FilesStep(t)
    PROVE  GoesOn(t)
  <1> DEFINE c == shell[t]
  <1>1. c \in Command /\ shell \in [Shells -> Command]
    BY DEF FilesTypeOK
  <1>2. AtRest.step \notin HasRead
    BY DEF AtRest, HasRead
  <1>3. CASE Begin(t)
    BY <1>1, <1>3 DEF Begin, Start, Become, AtRest, GoesOn, HasRead
  <1>4. CASE Read(t)
    <2>1. CASE config.there = "half"
      BY <1>1, <1>2, <1>4, <2>1 DEF Read, Done, Become, GoesOn
    <2>2. CASE config.there # "half"
      <3> DEFINE merged == IF c.what = "merge" THEN MergedVerbatim(config, c.in)
                           ELSE MergedLogin(config, c.in, c.activate)
                 next == IF c.what = "login" THEN "truncate"
                         ELSE IF config.there = "no" THEN "swap" ELSE "backup"
                 r == [c EXCEPT !.old = config, !.raced = FALSE, !.new = merged, !.step = next]
      <3>1. shell'[t] = r
        BY <1>1, <1>4, <2>2 DEF Read, Become
      <3>2. r.old = config /\ r.new = merged /\ r.what = c.what /\ r.in = c.in
            /\ r.activate = c.activate
        <4> HIDE DEF merged, next, c
        <4>. QED BY <1>1 DEF Command
      <3>3. r.new = Outcome(r)
        <4> HIDE DEF r
        <4>. QED BY <3>2 DEF Outcome
      <3> HIDE DEF r
      <3>. QED BY <3>1, <3>3 DEF GoesOn
    <2>. QED BY <2>1, <2>2
  <1>5. CASE CreateBackup(t)
    <2>1. CASE Len(backups) < MaxBackups
      <3>1. shell'[t] = [c EXCEPT !.step = "write backup", !.name = Len(backups) + 1]
            /\ c.step = "backup"
        BY <1>1, <1>5, <2>1 DEF CreateBackup, Become
      <3> HIDE DEF c
      <3>2. /\ shell'[t].what = c.what /\ shell'[t].in = c.in /\ shell'[t].old = c.old
            /\ shell'[t].new = c.new /\ shell'[t].activate = c.activate
        BY <1>1, <3>1 DEF Command
      <3>. QED BY <3>1, <3>2 DEF GoesOn, HasRead, c
    <2>2. CASE ~(Len(backups) < MaxBackups)
      BY <1>1, <1>2, <1>5, <2>2 DEF CreateBackup, Done, Become, GoesOn
    <2>. QED BY <2>1, <2>2
  <1>6. CASE WriteBackup(t)
    <2>1. shell'[t] = [c EXCEPT !.step = "swap"] /\ c.step = "write backup"
      BY <1>1, <1>6 DEF WriteBackup, Become
    <2>. QED BY <1>1, <2>1 DEF Command, GoesOn, HasRead
  <1>7. CASE Truncate(t)
    <2>1. shell'[t] = [c EXCEPT !.step = "write"] /\ c.step = "truncate"
      BY <1>1, <1>7 DEF Truncate, Wrote
    <2>. QED BY <1>1, <2>1 DEF Command, GoesOn, HasRead
  <1>8. CASE Swap(t) \/ Write(t) \/ Kill(t)
    BY <1>1, <1>2, <1>8 DEF Swap, Write, Kill, Done, Become, Wrote, GoesOn
  <1>. QED
    BY <1>3, <1>4, <1>5, <1>6, <1>7, <1>8 DEF FilesStep

\* So what a command is to write stays what it has made of the file.
LEMMA MergedStep ==
    ASSUME FilesTypeOK, \A t \in Shells : MergedOK(t), FilesNext
    PROVE  \A t \in Shells : MergedOK(t)'
  <1>1. PICK t \in Shells : FilesStep(t)
    BY StepCases
  <1>2. kind' = kind /\ Undisturbed(t) /\ GoesOn(t)
    BY <1>1, SameKind, StepStays, StepGoesOn
  <1>3. ASSUME NEW u \in Shells \ {t} PROVE MergedOK(u)'
    BY <1>2, <1>3 DEF MergedOK, Undisturbed, Outcome, MergedLogin, MergedVerbatim
  <1>4. MergedOK(t)'
    BY <1>2 DEF MergedOK, GoesOn, Outcome, MergedLogin, MergedVerbatim
  <1>. QED BY <1>3, <1>4

\* What a merge or a login makes of the file it has read.
LEMMA OutcomeTouches ==
    ASSUME NEW c \in Command
    PROVE  LET new == Outcome(c) old == c.old IN
           /\ DOMAIN new.from = DOMAIN old.from \cup DOMAIN c.in.from
           /\ \A e \in DOMAIN old.from \ DOMAIN c.in.from : new.from[e] = old.from[e]
           /\ \A e \in DOMAIN c.in.from : new.from[e] = c.in.from[e]
           /\ new.current = old.current \/ c.activate \/ (old.current = "none" /\ c.what = "merge")
           /\ c.what = "merge" => old.extra \ DOMAIN c.in.from \subseteq new.extra
  <1>1. Outcome(c).from = Over(c.in.from, c.old.from)
    BY DEF Outcome, MergedVerbatim, MergedLogin, File
  <1>2. Outcome(c).current = c.old.current \/ c.activate
        \/ (c.old.current = "none" /\ c.what = "merge")
    BY DEF Outcome, MergedVerbatim, MergedLogin, File
  <1>3. c.what = "merge" => c.old.extra \ DOMAIN c.in.from \subseteq Outcome(c).extra
    BY DEF Outcome, MergedVerbatim, File
  <1>. QED BY <1>1, <1>2, <1>3 DEF Over

\* A command leaves the entries of others and the user's choice of the
\* current context as it has read them.
THEOREM CommandsTouchTheirEntries == FilesSpec => TouchesOnlyItsEntries
  <1> DEFINE Inv == Commands /\ BackupInv /\ \A t \in Shells : MergedOK(t)
  <1>1. FilesInit => Inv
    <2>. SUFFICES ASSUME FilesInit
                  PROVE (\A t \in Shells : BackupOK(t) /\ MergedOK(t)) /\ replaced = {}
      BY TypeInit DEF BackupInv, PreviousIsKept
    <2>1. ASSUME NEW t \in Shells PROVE BackupOK(t) /\ MergedOK(t)
      <3>1. shell[t].step = "rest"
        BY DEF FilesInit, AtRest
      <3>. QED BY <3>1 DEF BackupOK, Fresh, Parsed, Claimed, Saved, ReadsLast, MergedOK, HasRead
    <2>. QED BY <2>1 DEF FilesInit
  <1>2. Inv /\ [FilesNext]_filesVars => Inv'
    <2>1. Inv /\ FilesNext => Inv'
      BY TypeStep, BackupStep, MergedStep DEF BackupInv
    <2>2. Inv /\ UNCHANGED filesVars => Inv'
      <3>. SUFFICES ASSUME Inv, UNCHANGED filesVars PROVE Inv'
        OBVIOUS
      <3>1. /\ kind' = kind /\ config' = config /\ backups' = backups /\ shell' = shell
            /\ replaced' = replaced /\ cut' = cut /\ runs' = runs
        BY DEF filesVars
      <3>2. Commands' /\ FilesTypeOK'
        BY <3>1 DEF BackupInv, FilesTypeOK, Commands, CommandOK
      <3>3. ASSUME NEW t \in Shells PROVE BackupOK(t)' /\ MergedOK(t)'
        <4>1. BackupOK(t)'
          BY <3>1 DEF BackupInv, BackupOK, Fresh, Parsed, Claimed, Saved
        <4>2. MergedOK(t)'
          BY <3>1 DEF MergedOK, Outcome, MergedLogin, MergedVerbatim
        <4>. QED BY <4>1, <4>2
      <3>4. Half \notin replaced' /\ PreviousIsKept'
        BY <3>1 DEF BackupInv, PreviousIsKept
      <3>. QED BY <3>2, <3>3, <3>4 DEF BackupInv
    <2>. QED BY <2>1, <2>2
  <1>3. Inv => \A t \in Shells : OnlyItsEntries(t)
    <2>. SUFFICES ASSUME Inv, NEW t \in Shells,
                         shell[t].step \in {"swap", "write"}, config' = shell[t].new,
                         ~shell[t].raced
                  PROVE  OnlyItsEntries(t)
      BY DEF OnlyItsEntries
    <2>1. shell[t] \in Command
      BY DEF BackupInv, FilesTypeOK
    <2>2. config' = Outcome(shell[t])
      BY DEF MergedOK, HasRead
    <2>3. shell[t].step = "swap" => config = shell[t].old
      BY DEF BackupInv, BackupOK, Fresh, ReadsLast
    <2>4. (IF shell[t].step = "write" THEN shell[t].old ELSE config) = shell[t].old
      BY <2>3
    <2> DEFINE c == shell[t]
               old == IF c.step = "write" THEN c.old ELSE config
    <2>5. /\ DOMAIN Outcome(c).from = DOMAIN c.old.from \cup DOMAIN c.in.from
          /\ \A e \in DOMAIN c.old.from \ DOMAIN c.in.from : Outcome(c).from[e] = c.old.from[e]
          /\ \A e \in DOMAIN c.in.from : Outcome(c).from[e] = c.in.from[e]
          /\ \/ Outcome(c).current = c.old.current \/ c.activate
             \/ (c.old.current = "none" /\ c.what = "merge")
          /\ c.what = "merge" => c.old.extra \ DOMAIN c.in.from \subseteq Outcome(c).extra
      <3>1. c \in Command
        BY <2>1
      <3> HIDE DEF c
      <3>. QED BY <3>1, OutcomeTouches
    <2>6. old = c.old
      BY <2>4
    <2> HIDE DEF old
    <2>7. /\ DOMAIN config'.from = DOMAIN old.from \cup DOMAIN c.in.from
          /\ \A e \in DOMAIN old.from \ DOMAIN c.in.from : config'.from[e] = old.from[e]
          /\ \A e \in DOMAIN c.in.from : config'.from[e] = c.in.from[e]
          /\ config'.current = old.current \/ c.activate \/ (old.current = "none" /\ c.what = "merge")
          /\ c.what = "merge" => old.extra \ DOMAIN c.in.from \subseteq config'.extra
      BY <2>2, <2>5, <2>6, Zenon
    <2>. QED BY <2>7, Zenon DEF OnlyItsEntries, old
  <1>4. Inv /\ [FilesNext]_filesVars => [\A t \in Shells : OnlyItsEntries(t)]_<<config, shell>>
    BY <1>3
  <1>. QED BY <1>1, <1>2, <1>4, PTL DEF FilesSpec, TouchesOnlyItsEntries
=============================================================================
