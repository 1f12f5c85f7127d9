---------------------------- MODULE PluginManager ----------------------------
(***************************************************************************)
(* `viti plugin install`, `upgrade` and `uninstall`, from several          *)
(* terminals at once.  Nothing is locked: a command reads the record of a  *)
(* plugin and the PATH, downloads, replaces the binary, makes the links,   *)
(* and writes the record, and may be killed between any two.  Meanwhile    *)
(* the index changes, a newer viti claims a name, and users put programs   *)
(* of their own in the same directories.                                   *)
(***************************************************************************)
EXTENDS PluginDir, Functions

CONSTANTS
    Terminals,
    Options,     \* Options[t]: the @version (0: the latest), --prefix and --no-aliases
                 \* that an install in terminal t may be given
    MaxEvents    \* bound: commands started, kills, and changes by others

ASSUME PluginManagerAssumption ==
    /\ Options \in [Terminals -> SUBSET ((0..Latest) \X Dirs \X BOOLEAN)]
    /\ MaxEvents \in Nat

VARIABLES
    parts,       \* parts[d][p]: viti-p.tmp in d
    states,      \* states[p]: the record of p
    index,       \* index[p]: the aliases the index declares for p, or that it has no p
    reserved,    \* names viti itself answers to
    procs,       \* procs[t]: the command that runs in terminal t
    writer,      \* (history) writer[d][n]: whose command wrote viti-n in d last
    killed,      \* (history) plugins whose command was killed
    lost,        \* (history) lost[p]: files of p that its record has not any more
    moved,       \* (history) plugins of which aliases were recorded where none were made
    overlapped,  \* (history) plugins that two commands were at work on at once
    events       \* of those that MaxEvents bounds, so far

world == <<index, reserved>>
history == <<writer, killed, lost, moved, overlapped>>
vars == <<files, dirs, parts, states, world, procs, history, events>>

NotListed == {"not listed"}
Declared(p) == IF index[p] = NotListed THEN {} ELSE index[p]

Idle == [step |-> "idle", p |-> Nobody, version |-> 0, dir |-> Home, declared |-> {},
         todo |-> {}, done |-> {}, st |-> NoState, taken |-> {}, theirs |-> {}, lost |-> {}]

Resting == {"idle", "refused"}
Steps == Resting \cup {"compare", "download", "copy", "rename", "link", "truncate", "write",
                       "ensure", "unlink", "remove", "forget"}

TypeOK ==
    /\ files \in [Dirs -> [Names -> Contents]] /\ dirs \subseteq Dirs
    /\ parts \in [Dirs -> [Plugins -> Contents]]
    /\ states \in [Plugins -> States]
    /\ \A d \in Dirs \ dirs : \A n \in Names : ~Exists(d, n)
    /\ \A t \in Terminals :
         /\ procs[t].step \in Steps
         /\ procs[t].step \notin Resting => procs[t].p \in Plugins
         /\ procs[t].done \subseteq Aliases /\ procs[t].todo \subseteq Aliases

\* Some plugins have been installed in d, with the aliases the index declares,
\* as links or as copies.
Installed(S, d, copied) ==
    /\ \A p1, p2 \in S : p1 # p2 => Declared(p1) \cap Declared(p2) = {}
    /\ LET holder(n) == {p \in S : n = p \/ n \in Declared(p)}
           whose(n)  == CHOOSE p \in holder(n) : TRUE
           placed(n) == IF n \in S \/ copied THEN Binary(whose(n), 1) ELSE Link(whose(n))
       IN /\ files = [e \in Dirs |-> [n \in Names |->
                          IF e = d /\ holder(n) # {} THEN placed(n) ELSE Nothing]]
          /\ writer = [e \in Dirs |-> [n \in Names |->
                          IF e = d /\ holder(n) # {} THEN whose(n) ELSE Nobody]]
    /\ states = [p \in Plugins |-> IF p \in S THEN State(1, d, Declared(p)) ELSE NoState]

Init ==
    /\ index \in [Plugins -> SUBSET Aliases]
    /\ \E S \in SUBSET Plugins, d \in Dirs, copied \in BOOLEAN : (copied => Windows) /\ Installed(S, d, copied)
    /\ dirs = Dirs
    /\ parts = [d \in Dirs |-> [p \in Plugins |-> Nothing]]
    /\ reserved = {}
    /\ procs = [t \in Terminals |-> Idle]
    /\ killed = {} /\ lost = [p \in Plugins |-> {}] /\ moved = {} /\ overlapped = {}
    /\ events = 0

-----------------------------------------------------------------------------
Run(t, r) == procs' = [procs EXCEPT ![t] = r]
Step(t, s) == Run(t, [procs[t] EXCEPT !.step = s])
Event == events < MaxEvents /\ events' = events + 1

\* The command of terminal t makes viti-n in d be f.
Put(t, d, n, f) ==
    /\ files' = [files EXCEPT ![d][n] = f]
    /\ writer' = [writer EXCEPT ![d][n] = procs[t].p]

\* What a record says of p when it is read; one cut short cannot be parsed.
ReadState(p) == IF states[p].kind = "cut" THEN NoState ELSE states[p]

\* What p's command sees of others on PATH: the files that are listed first
\* and are not p's, unless the record st of p has the name.
Theirs(p, st) ==
    {<<Listed(n), n>> : n \in {m \in Aliases \ st.aliases : OnPath(m) /\ files[Listed(m)][m] \notin Forms(p)}}

\* Some command is at work on p.
AtWork(p) == \E t \in Terminals : procs[t].step \notin Resting /\ procs[t].p = p

Begin(t, p) ==
    /\ procs[t].step \in Resting
    /\ Event
    /\ overlapped' = IF AtWork(p) THEN overlapped \cup {p} ELSE overlapped

\* FetchIndex, Find and aliasConflicts.
StartInstall(t, p, version, dir, noAliases) ==
    /\ Begin(t, p)
    /\ index[p] # NotListed
    /\ LET st     == ReadState(p)
           taken  == IF noAliases THEN {} ELSE aliasConflicts(p, Declared(p), st, reserved)
           links  == IF noAliases THEN {} ELSE Declared(p)
       IN Run(t, [Idle EXCEPT !.step = IF taken # {} THEN "refused" ELSE "download",
                              !.p = p, !.version = version, !.dir = dir, !.todo = links,
                              !.declared = links, !.st = st, !.taken = taken, !.theirs = Theirs(p, st),
                              !.lost = {f \in lost[p] : f[2] \in taken}])
    /\ UNCHANGED <<files, dirs, parts, states, world, writer, killed, lost, moved>>

StartUpgrade(t, p) ==
    /\ Begin(t, p)
    /\ states[p].kind = "ok"
    /\ Run(t, [Idle EXCEPT !.step = "compare", !.p = p, !.st = states[p]])
    /\ UNCHANGED <<files, dirs, parts, states, world, writer, killed, lost, moved>>

StartUninstall(t, p) ==
    /\ Begin(t, p)
    /\ states[p].kind = "ok"
    /\ Run(t, [Idle EXCEPT !.step = "unlink", !.p = p, !.st = states[p], !.todo = states[p].aliases])
    /\ UNCHANGED <<files, dirs, parts, states, world, writer, killed, lost, moved>>

\* upgradeOne: reconcile the aliases of a plugin that is up to date, install
\* the latest release of one that is not.  aliasConflicts reads the record
\* once more.
Compare(t) ==
    LET c == procs[t]
        taken == aliasConflicts(c.p, Declared(c.p), ReadState(c.p), reserved)
        links == IF taken # {} THEN {} ELSE Declared(c.p)
        r == [c EXCEPT !.taken = taken, !.todo = links, !.declared = Declared(c.p),
                       !.theirs = Theirs(c.p, ReadState(c.p))]
    IN /\ c.step = "compare"
       /\ \/ c.st.version < Latest
             /\ Run(t, [r EXCEPT !.step = "download", !.version = Latest,
                                 !.dir = upgradePrefix(c.p, c.st)])
          \/ c.st.version >= Latest /\ (taken # {} \/ Declared(c.p) \cup c.st.aliases = {})
             /\ Run(t, Idle)
          \/ c.st.version >= Latest /\ taken = {} /\ Declared(c.p) \cup c.st.aliases # {}
             /\ Run(t, [r EXCEPT !.step = "ensure", !.version = c.st.version, !.dir = c.st.dir])
       /\ UNCHANGED <<files, dirs, parts, states, world, history, events>>

\* The index, the release, its checksum or its signature cannot be had: the
\* latter three when the directory has been made.
NotInstalled(t) ==
    /\ procs[t].step \in {"compare", "download"}
    /\ \/ UNCHANGED dirs
       \/ procs[t].step = "download" /\ dirs' = dirs \cup {procs[t].dir}
    /\ Run(t, Idle)
    /\ UNCHANGED <<files, parts, states, world, history, events>>

-----------------------------------------------------------------------------
\* Mutant of Download: a directory that is not there is not made.
DownloadOnly(t) ==
    LET c == procs[t] IN
    /\ c.step = "download"
    /\ parts' = [parts EXCEPT ![c.dir][c.p] = Torn(c.p)]
    /\ Run(t, [c EXCEPT !.step = "copy", !.version = IF @ = 0 THEN Latest ELSE @])
    /\ UNCHANGED <<files, dirs, states, world, history, events>>

\* Install up to the copy: release, checksum, signature, unpacked binary.
Download(t) ==
    LET c == procs[t] IN
    /\ c.step = "download"
    /\ parts' = [parts EXCEPT ![c.dir][c.p] = Torn(c.p)]
    /\ dirs' = dirs \cup {c.dir}
    /\ Run(t, [c EXCEPT !.step = "copy", !.version = IF @ = 0 THEN Latest ELSE @])
    /\ UNCHANGED <<files, states, world, history, events>>

\* Mutant of Copy: the binary is copied into place, without a temporary file.
CopyInPlace(t) ==
    LET c == procs[t] IN
    /\ c.step = "copy"
    /\ parts' = [parts EXCEPT ![c.dir][c.p] = Binary(c.p, c.version)]
    /\ Put(t, c.dir, c.p, Torn(c.p))
    /\ Step(t, "rename")
    /\ UNCHANGED <<dirs, states, world, killed, lost, moved, overlapped, events>>

\* installFile: truncate viti-p.tmp, copy, rename.  Two commands that write
\* it at once share the file, wherever it is renamed to.
Copy(t) ==
    LET c == procs[t] IN
    /\ c.step = "copy"
    /\ \E f \in {Binary(c.p, c.version)} \cup (IF c.p \in overlapped THEN {Torn(c.p)} ELSE {}) :
         IF parts[c.dir][c.p] # Nothing
         THEN parts' = [parts EXCEPT ![c.dir][c.p] = f] /\ UNCHANGED <<files, writer>>
         ELSE /\ UNCHANGED parts
              /\ IF files[c.dir][c.p].kind \in {"binary", "torn"} THEN Put(t, c.dir, c.p, f)
                 ELSE UNCHANGED <<files, writer>>
    /\ Step(t, "rename")
    /\ UNCHANGED <<dirs, states, world, killed, lost, moved, overlapped, events>>

Rename(t) ==
    LET c == procs[t] IN
    /\ c.step = "rename"
    /\ IF parts[c.dir][c.p] = Nothing
       THEN Run(t, Idle) /\ UNCHANGED <<files, parts, writer>>
       ELSE /\ Put(t, c.dir, c.p, parts[c.dir][c.p])
            /\ parts' = [parts EXCEPT ![c.dir][c.p] = Nothing]
            /\ Step(t, "link")
    /\ UNCHANGED <<dirs, states, world, killed, lost, moved, overlapped, events>>

\* The copy or the rename fails, and the temporary file is removed.
NotCopied(t) ==
    LET c == procs[t] IN
    /\ c.step \in {"copy", "rename"}
    /\ parts' = [parts EXCEPT ![c.dir][c.p] = Nothing]
    /\ Run(t, Idle)
    /\ UNCHANGED <<files, dirs, states, world, history, events>>

\* linkAlias on a name that is free: a link, where links are refused a copy of
\* the binary, or, when neither can be made, nothing.
Made(d, p) == {Link(p)} \cup (Copies(p) \cap {files[d][p]})

\* Mutant of LinkAlias: a link that could not be made is recorded all the same.
LinkAliasRecorded(t, a) ==
    LET c == procs[t] IN
    /\ c.step = "link" /\ a \in c.todo
    /\ \E f \in Made(c.dir, c.p) \cup {Nothing} : Put(t, c.dir, a, f)
    /\ Run(t, [c EXCEPT !.todo = @ \ {a}, !.done = @ \cup {a}])
    /\ UNCHANGED <<dirs, parts, states, world, killed, lost, moved, overlapped, events>>

\* The links of an install: whatever is there is removed first.  What cannot
\* be removed stays; a failure is only reported.
LinkAlias(t, a) ==
    LET c == procs[t] IN
    /\ c.step = "link" /\ a \in c.todo
    /\ \/ \E f \in Made(c.dir, c.p) : Put(t, c.dir, a, f)
          /\ Run(t, [c EXCEPT !.todo = @ \ {a}, !.done = @ \cup {a}])
          /\ UNCHANGED lost
       \/ Put(t, c.dir, a, Nothing)
          /\ Run(t, [c EXCEPT !.todo = @ \ {a}])
          /\ UNCHANGED lost
       \/ Exists(c.dir, a)
          /\ Run(t, [c EXCEPT !.todo = @ \ {a}])
          /\ lost' = [lost EXCEPT ![c.p] = @ \cup {<<c.dir, a>>}]
          /\ UNCHANGED <<files, writer>>
    /\ UNCHANGED <<dirs, parts, states, world, killed, moved, overlapped, events>>

\* EnsureAliases takes viti-a in d for p's alias.
resolvesTo(d, a, p) == Exists(d, p) /\ Resolved(d, a) \cap Resolved(d, p) # {}

\* EnsureAliases on a name that is taken: it counts if it leads to the binary.
\* A copy does not, nor does a link when the binary is gone, and both are left.
EnsureAlias(t, a) ==
    LET c == procs[t]
        mine == resolvesTo(c.dir, a, c.p)
        overlooked == files[c.dir][a] \in Copies(c.p) \/ ~Exists(c.dir, c.p)
    IN
    /\ c.step = "ensure" /\ a \in c.todo /\ Exists(c.dir, a)
    /\ Run(t, [c EXCEPT !.todo = @ \ {a}, !.done = IF mine THEN @ \cup {a} ELSE @])
    /\ lost' = IF overlooked THEN [lost EXCEPT ![c.p] = @ \cup {<<c.dir, a>>}] ELSE lost
    /\ UNCHANGED <<files, dirs, parts, states, world, writer, killed, moved, overlapped, events>>

\* On a name that is free.
EnsureMade(t, a) ==
    LET c == procs[t] IN
    /\ c.step = "ensure" /\ a \in c.todo /\ ~Exists(c.dir, a)
    /\ c.dir \in dirs
    /\ \E f \in Made(c.dir, c.p) : Put(t, c.dir, a, f)
    /\ Run(t, [c EXCEPT !.todo = @ \ {a}, !.done = @ \cup {a}])
    /\ UNCHANGED <<dirs, parts, states, world, killed, lost, moved, overlapped, events>>

\* The link cannot be made: the recorded directory may be gone.
EnsureFails(t, a) ==
    LET c == procs[t] IN
    /\ c.step = "ensure" /\ a \in c.todo /\ ~Exists(c.dir, a)
    /\ Run(t, [c EXCEPT !.todo = @ \ {a}])
    /\ UNCHANGED <<files, dirs, parts, states, world, history, events>>

\* Mutant of Recorded: the aliases linked, also when none was to be.
RecordedLinked(c) == c.done

\* The aliases that an install or an upgrade records.
Recorded(c) == IF c.taken # {} THEN c.st.aliases ELSE c.done

\* What the record had and is not to have any more, though it stays on disk:
\* all of an install elsewhere, and the aliases that are not declared now.
Drops(c, old) ==
    IF old.kind # "ok" THEN {}
    ELSE IF old.dir # c.dir THEN {old.dir} \X ({c.p} \cup old.aliases)
    ELSE {c.dir} \X (old.aliases \ (c.declared \cup Recorded(c)))

\* WriteState truncates the file, then writes it.
Truncate(t) ==
    LET c == procs[t] IN
    /\ c.step \in {"link", "ensure"} /\ c.todo = {}
    /\ IF c.step = "ensure" /\ c.done = c.st.aliases
       THEN Run(t, Idle) /\ UNCHANGED <<states, lost, moved>>
       ELSE /\ states' = [states EXCEPT ![c.p] = CutState]
            /\ lost' = [lost EXCEPT ![c.p] = (@ \ ({c.dir} \X ({c.p} \cup Recorded(c))))
                                             \cup Drops(c, states[c.p])]
            /\ moved' = IF c.taken # {} /\ c.st.dir # c.dir THEN moved \cup {c.p} ELSE moved
            /\ Step(t, "write")
    /\ UNCHANGED <<files, dirs, parts, world, writer, killed, overlapped, events>>

Write(t) ==
    LET c == procs[t] IN
    /\ c.step = "write"
    /\ states' = [states EXCEPT ![c.p] = State(c.version, c.dir, Recorded(c))]
    /\ Run(t, Idle)
    /\ UNCHANGED <<files, dirs, parts, world, history, events>>

-----------------------------------------------------------------------------
\* Mutant of unlinkAlias: whatever has the name goes.
unlinkAny(p, d, a) == Nothing

\* Mutant of unlinkAlias: only links are known for one's own.
unlinkLinks(p, d, a) == IF files[d][a] = Link(p) THEN Nothing ELSE files[d][a]

\* unlinkAlias: what becomes of viti-a; a link to p goes, and a file that is
\* identical to the binary, and anything else stays.
unlinkAlias(p, d, a) == IF files[d][a] \in {Link(p), files[d][p]} THEN Nothing ELSE files[d][a]

\* Uninstall: the aliases, then the binary, then the record.  A copy of
\* another release than the binary stays.
Unlink(t, a) ==
    LET c == procs[t]
        d == c.st.dir
        stale == files[d][a] \in Copies(c.p) \ {files[d][c.p]}
    IN
    /\ c.step = "unlink" /\ a \in c.todo
    /\ files' = [files EXCEPT ![d][a] = unlinkAlias(c.p, d, a)]
    /\ writer' = IF files'[d][a] # files[d][a] THEN [writer EXCEPT ![d][a] = Nobody] ELSE writer
    /\ lost' = IF stale THEN [lost EXCEPT ![c.p] = @ \cup {<<d, a>>}] ELSE lost
    /\ Run(t, [c EXCEPT !.todo = @ \ {a}])
    /\ UNCHANGED <<dirs, parts, states, world, killed, moved, overlapped, events>>

\* A link, the binary or the record cannot be removed: the rest is left.
NotRemoved(t) ==
    /\ procs[t].step \in {"unlink", "forget"}
    /\ Run(t, Idle)
    /\ UNCHANGED <<files, dirs, parts, states, world, history, events>>

Remove(t) ==
    LET c == procs[t] IN
    /\ c.step = "unlink" /\ c.todo = {}
    /\ Put(t, c.st.dir, c.p, Nothing)
    /\ Step(t, "forget")
    /\ UNCHANGED <<dirs, parts, states, world, killed, lost, moved, overlapped, events>>

Forget(t) ==
    LET c == procs[t] IN
    /\ c.step = "forget"
    /\ states' = [states EXCEPT ![c.p] = NoState]
    /\ Run(t, Idle)
    /\ UNCHANGED <<files, dirs, parts, world, history, events>>

-----------------------------------------------------------------------------
\* A command that is killed, or cannot write its record; before its download,
\* that is as NotInstalled.
Killed(t) ==
    /\ procs[t].step \notin Resting \cup {"compare", "download"}
    /\ Event
    /\ killed' = killed \cup {procs[t].p}
    /\ Run(t, Idle)
    /\ UNCHANGED <<files, dirs, parts, states, world, writer, lost, moved, overlapped>>

Changes == Event /\ UNCHANGED <<states, procs, killed, lost, moved, overlapped>>

\* A change of the index; a viti with a new command.
Relisted(p, entry) ==
    /\ index[p] # entry
    /\ index' = [index EXCEPT ![p] = entry]
    /\ Changes /\ UNCHANGED <<files, dirs, parts, reserved, writer>>

Claimed(a) ==
    /\ a \notin reserved
    /\ reserved' = reserved \cup {a}
    /\ Changes /\ UNCHANGED <<files, dirs, parts, index, writer>>

\* A user puts a program of his own on the PATH, or removes what is there.
UserPuts(d, n, f) ==
    /\ d \in dirs \cap Range(Path) /\ files[d][n] # f
    /\ files' = [files EXCEPT ![d][n] = f]
    /\ writer' = [writer EXCEPT ![d][n] = Nobody]
    /\ Changes /\ UNCHANGED <<dirs, parts, world>>

\* A directory is removed, while no command works in it.
DirRemoved(d) ==
    /\ d \in dirs \ {Home}
    /\ \A t \in Terminals : procs[t].step \in Resting
    /\ dirs' = dirs \ {d}
    /\ files' = [files EXCEPT ![d] = [n \in Names |-> Nothing]]
    /\ parts' = [parts EXCEPT ![d] = [p \in Plugins |-> Nothing]]
    /\ writer' = [writer EXCEPT ![d] = [n \in Names |-> Nobody]]
    /\ Changes /\ UNCHANGED world

Command(t) ==
    \/ \E p \in Plugins :
         \/ \E o \in Options[t] : StartInstall(t, p, o[1], o[2], o[3])
         \/ StartUpgrade(t, p) \/ StartUninstall(t, p)
    \/ Compare(t) \/ NotInstalled(t)
    \/ Download(t) \/ Copy(t) \/ Rename(t) \/ NotCopied(t) \/ Truncate(t) \/ Write(t)
    \/ \E a \in Aliases :
         LinkAlias(t, a) \/ EnsureAlias(t, a) \/ EnsureMade(t, a) \/ EnsureFails(t, a) \/ Unlink(t, a)
    \/ Remove(t) \/ NotRemoved(t) \/ Forget(t)

OtherPeople ==
    \/ \E p \in Plugins, e \in {NotListed} \cup SUBSET Aliases : Relisted(p, e)
    \/ \E a \in Aliases : Claimed(a)
    \/ \E d \in Dirs : DirRemoved(d) \/ \E a \in Aliases, f \in {Other, Nothing} : UserPuts(d, a, f)

Next ==
    \/ \E t \in Terminals : Command(t) \/ Killed(t)
    \/ OtherPeople

Spec == Init /\ [][Next]_vars

-----------------------------------------------------------------------------
\* Nobody ever runs part of a binary, whatever is killed ("installFile
\* atomically replaces dst", install.go), unless two commands were at
\* work on that plugin at once, with one temporary file between them.
NeverTorn ==
    \A d \in Dirs, p \in Plugins : files[d][p] = Torn(p) => p \in overlapped

\* "Someone else's viti-kv on the same PATH is their business" (alias.go): a
\* command replaces or removes a file under an alias of its plugin only if it
\* is a link to the plugin or a copy of it, or if it installs, and the file
\* was not the one listed first under that name when it looked through PATH,
\* or the alias had been recorded as the plugin's by then.
TakesOnlyItsOwn ==
    [][\A t \in Terminals, d \in Dirs, a \in Aliases :
         procs[t] # procs'[t] /\ files[d][a] # files'[d][a] =>
            \/ files[d][a] \in {Nothing} \cup Forms(procs[t].p)
            \/ procs[t].step = "link" /\ <<d, a>> \notin procs[t].theirs]_vars

\* A command that completes has recorded what is there, whatever was killed
\* before it and whatever the commands of other plugins did meanwhile: each
\* alias it records is a link to the plugin or the same file as its binary,
\* which uninstall knows them by, and a release it installed is its binary,
\* unless somebody else wrote over them since.  An upgrade that finds an alias
\* taken repeats what was recorded before: links, or copies of some release,
\* unless a command was killed, or such an upgrade went to another directory,
\* where it records aliases that it has not made.
RecordsWhatIsThere ==
    [][\A t \in Terminals :
         LET c  == procs[t]
             st == states'[c.p]
             there(a, F) == writer[st.dir][a] = c.p => files[st.dir][a] \in F
         IN c.step = "write" /\ procs'[t] # c /\ st.kind = "ok" /\ c.p \notin overlapped =>
               /\ c.taken = {} =>
                    \A a \in st.aliases : there(a, {Link(c.p), files[st.dir][c.p]} \ {Nothing})
               /\ c.p \notin killed \cup moved =>
                    \A a \in st.aliases : there(a, Forms(c.p) \ {Torn(c.p)})
               /\ \/ st.version = c.st.version \/ writer[st.dir][c.p] # c.p
                  \/ files[st.dir][c.p] = Binary(c.p, st.version)]_vars

\* What the commands of p left behind, though its record is gone, none of
\* them was killed, and no two were at work at once.
LeftBy(p) ==
    {f \in Dirs \X Names :
        /\ states[p] = NoState /\ p \notin killed \cup overlapped /\ ~AtWork(p)
        /\ writer[f[1]][f[2]] = p /\ Exists(f[1], f[2])}

\* "Recorded so uninstall removes exactly what install created" (state.go):
\* once the record of a plugin is gone so is all that its commands left, also
\* when a removal failed in between and was tried again, but for the files
\* that the record had lost: the plugin was installed again elsewhere, or
\* without the alias; the alias could not be replaced; or it was a copy that
\* uninstall or upgrade does not know again, or a link whose binary was gone.
UninstallIsComplete == \A p \in Plugins : LeftBy(p) \subseteq lost[p]

\* "Recorded so uninstall removes exactly what install created" (state.go), as
\* it is said there of aliases: without exceptions.
UninstallRemovesItsAliases == \A p \in Plugins : LeftBy(p) \cap (Dirs \X Aliases) = {}

\* "Reinstalling never conflicts with itself" (CheckAliases, alias.go): an
\* install that is refused over an alias saw a file there that is not the
\* plugin's, or one that its record had lost, unless a kill, or two commands
\* at once, have left a link that nothing records.
NeverConflictsWithItself ==
    \A t \in Terminals :
       procs[t].step = "refused" /\ procs[t].p \notin killed \cup overlapped =>
          \A a \in procs[t].taken \ reserved :
             \E d \in Dirs : <<d, a>> \in procs[t].theirs \cup procs[t].lost
=============================================================================
