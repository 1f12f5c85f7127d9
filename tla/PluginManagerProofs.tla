------------------------ MODULE PluginManagerProofs ------------------------
(***************************************************************************)
(* Proofs about PluginManager, for any plugins, aliases, directories,      *)
(* terminals and number of events. What carries them: while one command    *)
(* alone is at work on a plugin, what the record says, what the command    *)
(* remembers and what its links and binary are add up to all that the      *)
(* plugin's commands ever left.                                            *)
(***************************************************************************)
EXTENDS PluginManager, WellFoundedInduction, TLAPS

\* A command of p wrote viti-n in d, and it is still there.
Mine(p, d, n) == writer[d][n] = p /\ Exists(d, n)

\* What a terminal may remember.
Proc == [step: Steps, p: Plugins \cup {Nobody}, version: 0..Latest, dir: Dirs,
         declared: SUBSET Aliases, todo: SUBSET Aliases, done: SUBSET Aliases,
         st: States \ {CutState}, taken: SUBSET Aliases, theirs: SUBSET (Dirs \X Aliases),
         lost: SUBSET (Dirs \X Names)]

\* A command runs in terminal t.
Working(t) == procs[t].step \notin Resting

\* The directories, the records, the index and the terminals.
WorldOK ==
    /\ dirs \subseteq Dirs
    /\ states \in [Plugins -> States]
    /\ index \in [Plugins -> {NotListed} \cup SUBSET Aliases]
    /\ reserved \subseteq Aliases
    /\ killed \subseteq Plugins /\ moved \subseteq Plugins /\ overlapped \subseteq Plugins
    /\ lost \in [Plugins -> SUBSET (Dirs \X Names)]
    /\ events \in Nat
    /\ procs \in [Terminals -> Proc]

\* What viti-p of a plugin p may be.
Programs(p) == {Nothing, Torn(p)} \cup {Binary(p, v) : v \in 1..Latest}

\* What a file of p's may be.
Own(p) == {Link(p)} \cup (Programs(p) \ {Nothing})

\* Under the name of a plugin is its binary or a part of it, and a link or a
\* copy is of the plugin whose command wrote it.
FilesOK ==
    /\ files \in [Dirs -> [Names -> Contents]]
    /\ writer \in [Dirs -> [Names -> Plugins \cup {Nobody}]]
    /\ parts \in [Dirs -> [Plugins -> Contents]]
    /\ \A d \in Dirs \ dirs : \A n \in Names : ~Exists(d, n)
    /\ \A d \in Dirs, p \in Plugins :
         /\ files[d][p] \in Programs(p) /\ writer[d][p] \in {p, Nobody}
         /\ parts[d][p] \in Programs(p)
    /\ \A d \in Dirs, a \in Aliases, p \in Plugins :
         /\ files[d][a] \in Own(p) => writer[d][a] = p
         /\ writer[d][a] = p => files[d][a] \in {Nothing} \cup Forms(p)

\* Two commands on one plugin were noticed.
Alone ==
    \A t, u \in Terminals :
      Working(t) /\ Working(u) /\ procs[t].p = procs[u].p /\ t # u => procs[t].p \in overlapped

\* What a command knows of itself, whoever else is at work: what it is to link
\* was not there for others to see.
SoundProc(t) ==
    LET c == procs[t] IN
    /\ Working(t) => c.p \in Plugins
    /\ c.step \in {"copy", "rename", "link"} => c.dir \in dirs
    /\ c.step \in {"copy", "rename", "link", "ensure", "write"} => c.version \in 1..Latest
    /\ c.step \in {"compare", "ensure", "unlink", "forget"} => c.st.kind = "ok"
    /\ c.step = "ensure" => c.dir = c.st.dir /\ c.taken = {} /\ c.version = c.st.version
    /\ c.step \in {"compare", "download", "copy", "rename"} => c.done = {}
    /\ c.step \in {"download", "copy", "rename"} /\ c.taken = {} => c.todo = c.declared
    /\ c.step \in {"link", "ensure"} => c.todo \cap c.done = {}
    /\ c.step \in {"download", "copy", "rename", "link", "write"} /\ c.taken # {} => c.todo = {} /\ c.done = {}
    /\ c.step \in {"download", "copy", "rename", "link"} => \A a \in c.todo, d \in Dirs : <<d, a>> \notin c.theirs

\* At work, and nobody else was on the same plugin.
Sole(t) == Working(t) /\ procs[t].p \notin overlapped

\* Nobody else changes the record.
KnowsRecord(t) ==
    Sole(t) => /\ procs[t].step # "write" => procs[t].st = ReadState(procs[t].p)
               /\ procs[t].step = "write" => states[procs[t].p] = CutState

\* Nobody else has the temporary file.
HasPart(t) ==
    Sole(t) => LET f == parts[procs[t].dir][procs[t].p] IN
               /\ procs[t].step = "copy" => f # Nothing
               /\ procs[t].step = "rename" => f = Binary(procs[t].p, procs[t].version)

\* The release it installed is in place.
HasBinary(t) ==
    Sole(t) /\ procs[t].step \in {"link", "ensure", "write"} =>
       \/ procs[t].version = procs[t].st.version
       \/ files[procs[t].dir][procs[t].p] = Binary(procs[t].p, procs[t].version)

\* What p's commands wrote at viti-a in d is there, and whole.
Linked(p, d, a) == writer[d][a] = p => files[d][a] \notin {Nothing, Torn(p)}

\* It is a link to p, or the same file as p's binary beside it.
Fits(p, d, a) == writer[d][a] = p => files[d][a] \in {Link(p), files[d][p]} \ {Nothing}

\* What it counts as linked is,
HasLinks(t) ==
    Sole(t) /\ procs[t].step \in {"link", "ensure"} =>
       \A a \in procs[t].done : Fits(procs[t].p, procs[t].dir, a)

\* what it was to link and has not linked is gone, or lost,
HasSettled(t) ==
    Sole(t) /\ procs[t].step \in {"link", "ensure"} /\ procs[t].taken = {} =>
       \A a \in procs[t].declared \ (procs[t].todo \cup procs[t].done) :
          Mine(procs[t].p, procs[t].dir, a) => <<procs[t].dir, a>> \in lost[procs[t].p]

\* so is what it has unlinked,
HasUnlinked(t) ==
    Sole(t) /\ procs[t].step = "unlink" =>
       \A a \in procs[t].st.aliases \ procs[t].todo :
          Mine(procs[t].p, procs[t].st.dir, a) => <<procs[t].st.dir, a>> \in lost[procs[t].p]

\* and before the record goes, all is.
HasRemoved(t) ==
    Sole(t) /\ procs[t].step = "forget" /\ procs[t].p \notin killed =>
       \A d \in Dirs, n \in Names : Mine(procs[t].p, d, n) => <<d, n>> \in lost[procs[t].p]

\* What it is about to record as an alias is one.
WillRecord(t) ==
    Sole(t) /\ procs[t].step = "write" =>
       /\ procs[t].taken = {} => \A a \in Recorded(procs[t]) : Fits(procs[t].p, procs[t].dir, a)
       /\ procs[t].p \notin killed \cup moved =>
            \A a \in Recorded(procs[t]) : Linked(procs[t].p, procs[t].dir, a)

\* What a command can be sure of while it is alone on its plugin.
SureProc(t) ==
    /\ KnowsRecord(t) /\ HasPart(t) /\ HasBinary(t) /\ HasLinks(t)
    /\ HasSettled(t) /\ HasUnlinked(t) /\ HasRemoved(t) /\ WillRecord(t)

\* A plugin that no kill and no second command has disturbed.
Clean(p) == p \notin killed \cup overlapped

\* A record is cut short only while it is being written.
Cuts(p) ==
    Clean(p) /\ states[p].kind = "cut" => \E t \in Terminals : procs[t].p = p /\ procs[t].step = "write"

\* The record of p has viti-n in d.
InRecord(p, d, n) ==
    states[p].kind = "ok" /\ d = states[p].dir /\ (n = p \/ n \in states[p].aliases)

\* The command of terminal t is to record viti-n in d.
Pending(t, d, n) ==
    /\ procs[t].step \in {"link", "ensure", "write"}
    /\ d = procs[t].dir
    /\ n = procs[t].p \/ n \in IF procs[t].step = "write" THEN Recorded(procs[t]) ELSE procs[t].done

\* All that p's commands left is in the record, or about to be, or lost.
Covers(p) ==
    Clean(p) => \A d \in Dirs, n \in Names : Mine(p, d, n) =>
       InRecord(p, d, n) \/ <<d, n>> \in lost[p] \/ \E t \in Terminals : procs[t].p = p /\ Pending(t, d, n)

\* The command of terminal t may be at odds with the old record.
Undoing(t) == procs[t].step = "link" /\ procs[t].taken = {}

\* What the record has as an alias is there, or is being dealt with.
Kept(p) ==
    Clean(p) /\ p \notin moved /\ states[p].kind = "ok" => \A a \in states[p].aliases :
       Linked(p, states[p].dir, a) \/ \E t \in Terminals : procs[t].p = p /\ Undoing(t)

\* What the record of a plugin tells.
Known(p) == Cuts(p) /\ Covers(p) /\ Kept(p)

\* An install that was refused over an alias saw a file there that was
\* somebody else's, or lost.
Refused(t) ==
    procs[t].step = "refused" /\ procs[t].p \notin killed \cup overlapped =>
       \A a \in procs[t].taken \ reserved :
          \E d \in Dirs : <<d, a>> \in procs[t].theirs \cup procs[t].lost

\* Part of a binary is in place only if two commands shared the temporary file.
NoTorn(p) == \A d \in Dirs : files[d][p] = Torn(p) => p \in overlapped

\* The inductive invariant.
IInv ==
    /\ WorldOK /\ FilesOK /\ Alone
    /\ \A t \in Terminals : SoundProc(t) /\ SureProc(t) /\ Refused(t)
    /\ \A p \in Plugins : Known(p) /\ NoTorn(p)
-----------------------------------------------------------------------------
\* The order of the naturals, as a relation.
Below == {ss \in Nat \X Nat : ss[1] < ss[2]}

\* A set of naturals that is not empty has a least element.
LEMMA Least ==
  ASSUME NEW T \in SUBSET Nat, T # {}
  PROVE  \E i \in T : \A j \in T : i <= j
<1>1. OpToRel(<, Nat) = Below
  BY Zenon DEF OpToRel, Below
<1>2. IsWellFoundedOn(Below, Nat)
  BY <1>1, NatLessThanWellFounded
<1>3. PICK i \in T : \A j \in T : <<j, i>> \notin Below
  BY <1>2, WFMin
<1>4. \A j \in T : ~(j < i)
  BY <1>3 DEF Below
<1>5. QED BY <1>4

\* A name on PATH is in the directory it is found in first.
LEMMA FirstThere ==
  ASSUME NEW n, OnPath(n)
  PROVE  First(n) \in Dirs /\ Exists(First(n), n)
<1>1. Path \in Seq(Dirs)
  BY PluginDirAssumption
<1>2. Holding(n) \subseteq 1..Len(Path) /\ Len(Path) \in Nat
  BY <1>1 DEF Holding
<1>3. \E i \in Holding(n) : \A j \in Holding(n) : i <= j
  BY <1>2, Least DEF OnPath
<1> DEFINE i == CHOOSE k \in Holding(n) : \A j \in Holding(n) : k <= j
<1>4. i \in Holding(n)
  BY <1>3
<1>5. First(n) = Path[i]
  BY DEF First
<1> HIDE DEF i
<1>6. Path[i] \in Dirs
  BY <1>1, <1>2, <1>4
<1>7. QED BY <1>4, <1>5, <1>6 DEF Holding

\* So it is in the one it is listed in first.
LEMMA ListedThere ==
  ASSUME NEW n, OnPath(n)
  PROVE  Listed(n) \in Dirs /\ Exists(Listed(n), n)
<1>1. Path \in Seq(Dirs) /\ Rank \in [Dirs -> Nat]
  BY PluginDirAssumption
<1> DEFINE where == {Path[i] : i \in Holding(n)}
           ranks == {Rank[d] : d \in where}
<1>2. \A i \in Holding(n) : i \in 1..Len(Path) /\ Path[i] \in Dirs /\ Exists(Path[i], n)
  BY <1>1 DEF Holding
<1>3. ranks \in SUBSET Nat /\ ranks # {}
  BY <1>1, <1>2 DEF OnPath
<1> HIDE DEF ranks
<1>4. PICK r \in ranks : \A k \in ranks : r <= k
  BY <1>3, Least
<1>5. \E d \in where : \A e \in where : Rank[d] <= Rank[e]
  BY <1>4 DEF ranks
<1>6. Listed(n) \in where
  BY <1>5 DEF Listed
<1>7. QED BY <1>2, <1>6

\* Files of different kinds differ.
LEMMA KindsApart ==
  /\ \A p, q : Link(p) # Torn(q) /\ Link(p) # Nothing /\ Link(p) # Other /\ Torn(p) # Nothing /\ Torn(p) # Other
  /\ \A p, q : Link(p) = Link(q) <=> p = q
  /\ \A p, q : Torn(p) = Torn(q) <=> p = q
  /\ \A p, q, v : Binary(p, v) # Link(q) /\ Binary(p, v) # Torn(q) /\ Binary(p, v) # Nothing /\ Binary(p, v) # Other
  /\ Nothing # Other
BY DEF Link, Torn, Binary, Nothing, Other, File

\* What stands for one plugin stands for no other, and is somebody's own.
LEMMA FormsApart ==
  /\ \A p : Link(p) \in Forms(p) /\ Nothing \notin Own(p) /\ Other \notin Own(p)
  /\ \A p, q, f : f \in Own(p) /\ f \in Own(q) => p = q
  /\ \A p : Forms(p) \subseteq Own(p)
  /\ \A p \in Plugins : Forms(p) \subseteq Contents /\ Nothing \in Contents
  /\ \A p, f : f \in Forms(p) => f = Link(p) \/ f \in Copies(p)
  /\ \A p : Copies(p) \subseteq Forms(p) /\ Link(p) \notin Copies(p)
<1>1. \A p, f : f \in Own(p) => f.of = p /\ f.kind \in {"link", "torn", "binary"}
  BY DEF Own, Programs, Link, Torn, Binary, Nothing, File
<1>2. \A p : Link(p) \in Forms(p) /\ Nothing \notin Own(p) /\ Other \notin Own(p)
  BY <1>1 DEF Forms, Nothing, Other, File
<1>3. \A p : Copies(p) \subseteq Forms(p) /\ \A f \in Forms(p) : f = Link(p) \/ f \in Copies(p)
  BY DEF Forms
<1>4. \A p : Copies(p) \subseteq Programs(p) \ {Nothing, Link(p)}
  BY DEF Copies, Programs, Nothing, Link, Torn, Binary, File
<1>5. \A p : Forms(p) \subseteq Own(p)
  BY <1>3, <1>4 DEF Own
<1>6. \A p \in Plugins : Forms(p) \subseteq Contents /\ Nothing \in Contents
  BY <1>3 DEF Copies, Contents
<1>7. QED BY <1>1, <1>2, <1>3, <1>4, <1>5, <1>6

\* What is not there, or whole, of a plugin's files.
LEMMA ProgramForms ==
  ASSUME NEW p \in Plugins
  PROVE  /\ \A f \in Programs(p) : f # Link(p)
         /\ \A d : Made(d, p) \subseteq Forms(p)
BY DEF Programs, Made, Forms, Copies, Link, Torn, Binary, Nothing, File

\* A plugin is no alias, and nobody is no plugin.
LEMMA NamesApart ==
  /\ \A p \in Plugins : p \in Names /\ p \notin Aliases /\ p # Nobody
  /\ \A a \in Aliases : a \in Names /\ a \notin Plugins
BY PluginDirAssumption DEF Names

\* A step that changes no record of q and writes nothing for q,
Untouched(q) ==
    /\ states'[q] = states[q] /\ lost'[q] = lost[q]
    /\ \A d \in Dirs, n \in Names : writer'[d][n] = q => writer[d][n] = q /\ files'[d][n] = files[d][n]

\* nor its binary and its temporary file.
Apart(q) ==
    /\ \A d \in Dirs : files'[d][q] = files[d][q] /\ parts'[d][q] = parts[d][q]
    /\ Untouched(q)

\* What is remembered of the past only grows.
Grows == killed \subseteq killed' /\ moved \subseteq moved' /\ overlapped \subseteq overlapped' /\ reserved \subseteq reserved'

\* Frames: what a step leaves right of a command it is not a step of.
LEMMA SoundFrame ==
  ASSUME NEW u \in Terminals, SoundProc(u), procs'[u] = procs[u], Working(u) => dirs \subseteq dirs'
  PROVE  SoundProc(u)'
BY DEF SoundProc, Working, Resting

\* A refused install.
LEMMA RefusedFrame ==
  ASSUME NEW u \in Terminals, Refused(u), procs'[u] = procs[u], Grows
  PROVE  Refused(u)'
BY DEF Refused, Grows

\* Where a command works, and on what.
LEMMA ProcTypes ==
  ASSUME NEW u \in Terminals, procs[u] \in Proc, SoundProc(u)
  PROVE  /\ procs[u].dir \in Dirs /\ procs[u].done \subseteq Names /\ procs[u].declared \subseteq Names
         /\ procs[u].st.kind = "ok" => procs[u].st.dir \in Dirs
         /\ procs[u].st.aliases \subseteq Names /\ Recorded(procs[u]) \subseteq Names
         /\ Working(u) => procs[u].p \in Plugins /\ procs[u].p \in Names
<1>2. procs[u].st \in States /\ procs[u].done \subseteq Aliases /\ procs[u].declared \subseteq Aliases
      /\ procs[u].dir \in Dirs
  BY DEF Proc
<1>3. /\ procs[u].st.kind = "ok" => procs[u].st.dir \in Dirs
      /\ procs[u].st.aliases \subseteq Aliases
  BY <1>2 DEF States, State, NoState, CutState
<1>4. Aliases \subseteq Names
  BY DEF Names
<1>5. Recorded(procs[u]) \subseteq Aliases
  BY <1>2, <1>3 DEF Recorded
<1>6. Working(u) => procs[u].p \in Plugins /\ procs[u].p \in Names
  BY NamesApart DEF SoundProc
<1>7. QED BY <1>2, <1>3, <1>4, <1>5, <1>6

\* What is Mine and Linked is so still.
LEMMA ApartOnes ==
  ASSUME NEW q, Apart(q), NEW d \in Dirs
  PROVE  /\ \A n \in Names : Mine(q, d, n)' => Mine(q, d, n)
         /\ \A n \in Names : Linked(q, d, n) => Linked(q, d, n)'
         /\ \A n \in Names : Fits(q, d, n) => Fits(q, d, n)'
BY DEF Apart, Untouched, Mine, Linked, Fits, Exists

\* What a command is sure of, when the step is of another plugin.
LEMMA SureFrame ==
  ASSUME NEW u \in Terminals, procs[u] \in Proc, SoundProc(u), SureProc(u), procs'[u] = procs[u], Grows,
         Working(u) => Apart(procs[u].p) \/ procs[u].p \in overlapped'
  PROVE  SureProc(u)'
<1>1. CASE ~Sole(u)'
  BY <1>1 DEF SureProc, KnowsRecord, HasPart, HasBinary, HasLinks, HasSettled, HasUnlinked, HasRemoved, WillRecord
<1>2. CASE Sole(u)'
  <2>1. Sole(u) /\ Apart(procs[u].p) /\ (procs[u].p \notin killed' => procs[u].p \notin killed)
        /\ (procs[u].p \notin moved' => procs[u].p \notin moved)
        /\ lost'[procs[u].p] = lost[procs[u].p] /\ Working(u)
    BY <1>2 DEF Sole, Working, Grows, Apart, Untouched
  <2> DEFINE p == procs[u].p
             d == procs[u].dir
  <2>2. /\ d \in Dirs /\ procs[u].done \subseteq Names /\ procs[u].declared \subseteq Names
        /\ procs[u].st.kind = "ok" => procs[u].st.dir \in Dirs
        /\ procs[u].st.aliases \subseteq Names /\ Recorded(procs[u]) \subseteq Names
        /\ p \in Plugins /\ p \in Names
    BY <2>1, ProcTypes
  <2>3. KnowsRecord(u)'
    BY <2>1 DEF SureProc, KnowsRecord, Apart, Untouched, ReadState
  <2>4. HasPart(u)'
    BY <2>1, <2>2 DEF SureProc, HasPart, Apart, Untouched
  <2>5. HasBinary(u)'
    BY <2>1, <2>2 DEF SureProc, HasBinary, Apart, Untouched
  <2>6. /\ \A n \in Names : Linked(p, d, n) => Linked(p, d, n)'
        /\ \A n \in Names : Mine(p, d, n)' => Mine(p, d, n)
        /\ \A n \in Names : Fits(p, d, n) => Fits(p, d, n)'
    BY <2>1, <2>2, ApartOnes DEF Linked, Mine, Fits, Exists
  <2>7. HasLinks(u)'
    BY <2>1, <2>2, <2>6 DEF SureProc, HasLinks, Fits
  <2>8. HasSettled(u)'
    BY <2>1, <2>2, <2>6 DEF SureProc, HasSettled, Mine, Exists
  <2>9. HasUnlinked(u)'
    <3>1. procs[u].step = "unlink" => procs[u].st.dir \in Dirs
      BY <2>2 DEF SoundProc
    <3>2. procs[u].step = "unlink" => \A n \in Names : Mine(p, procs[u].st.dir, n)' => Mine(p, procs[u].st.dir, n)
      BY <2>1, <3>1 DEF Apart, Untouched, Mine, Exists
    <3>3. QED BY <2>1, <2>2, <3>2 DEF SureProc, HasUnlinked, Mine, Exists
  <2>10. HasRemoved(u)'
    BY <2>1 DEF SureProc, HasRemoved, Mine, Exists, Apart, Untouched
  <2>11. WillRecord(u)'
    BY <2>1, <2>2, <2>6 DEF SureProc, WillRecord, Linked, Fits, Recorded
  <2>12. QED
    BY <2>3, <2>4, <2>5, <2>7, <2>8, <2>9, <2>10, <2>11 DEF SureProc
<1>3. QED BY <1>1, <1>2

\* What a record tells, when the step neither touches the plugin nor moves a
\* command that links or unlinks.
LEMMA KnownFrame ==
  ASSUME NEW q \in Plugins, Known(q), states \in [Plugins -> States], Untouched(q), Grows,
         \A u \in Terminals : procs[u].p = q /\ procs[u].step \in {"link", "ensure", "write", "unlink", "forget"}
                                => procs'[u] = procs[u]
  PROVE  Known(q)'
<1>1. CASE ~Clean(q)'
  BY <1>1 DEF Known, Cuts, Covers, Kept
<1>2. CASE Clean(q)'
  <2>1. Clean(q) /\ states'[q] = states[q]
    BY <1>2 DEF Clean, Grows, Apart, Untouched
  <2>3. Cuts(q)'
    BY <2>1 DEF Known, Cuts
  <2>4. Covers(q)'
    <3> SUFFICES ASSUME NEW d \in Dirs, NEW n \in Names, Mine(q, d, n)'
                 PROVE  \/ InRecord(q, d, n)' \/ <<d, n>> \in lost'[q]
                        \/ \E t \in Terminals : procs'[t].p = q /\ Pending(t, d, n)'
      BY DEF Covers, Mine, InRecord, Pending, Exists, Recorded
    <3>1. Mine(q, d, n)
      BY DEF Untouched, Mine, Exists
    <3>2. CASE InRecord(q, d, n)
      BY <2>1, <3>2 DEF InRecord
    <3>3. CASE \E t \in Terminals : procs[t].p = q /\ Pending(t, d, n)
      BY <3>3 DEF Pending, Recorded
    <3>4. CASE <<d, n>> \in lost[q]
      BY <3>4 DEF Untouched
    <3>5. QED BY <2>1, <3>1, <3>2, <3>3, <3>4 DEF Known, Covers
  <2>5. Kept(q)'
    <3> SUFFICES ASSUME states[q].kind = "ok", NEW a \in states[q].aliases, q \notin moved'
                 PROVE  \/ Linked(q, states[q].dir, a)'
                        \/ \E t \in Terminals : procs'[t].p = q /\ Undoing(t)'
      BY <2>1 DEF Kept, Linked, Undoing
    <3>0. q \notin moved
      BY DEF Grows
    <3>1. states[q].dir \in Dirs /\ a \in Names
      BY DEF States, State, NoState, CutState, Names
    <3>2. CASE Linked(q, states[q].dir, a)
      BY <2>1, <3>1, <3>2 DEF Apart, Untouched, Linked
    <3>3. CASE \E t \in Terminals : procs[t].p = q /\ Undoing(t)
      BY <3>3 DEF Undoing
    <3>4. QED BY <2>1, <3>0, <3>2, <3>3 DEF Known, Kept
  <2>6. QED BY <2>3, <2>4, <2>5 DEF Known
<1>3. QED BY <1>1, <1>2

\* A step of terminal t on plugin p leaves right what is said of the other
\* terminals and plugins.
LEMMA OthersFrame ==
  ASSUME IInv, NEW t \in Terminals, NEW p \in Plugins,
         \A u \in Terminals : u # t => procs'[u] = procs[u],
         Working(t) => procs[t].p = p,
         Working(t)' => procs'[t].p = p,
         Working(t) \/ (AtWork(p) => p \in overlapped'),
         Grows, dirs \subseteq dirs',
         \A q \in Plugins : q # p => Apart(q)
  PROVE  /\ Alone'
         /\ \A u \in Terminals : u # t => SoundProc(u)' /\ SureProc(u)' /\ Refused(u)'
         /\ \A q \in Plugins : q # p => Known(q)' /\ NoTorn(q)'
<1>1. ASSUME NEW u \in Terminals, u # t, Working(u), procs[u].p = p
      PROVE  p \in overlapped'
  BY <1>1 DEF IInv, Alone, AtWork, Working, Grows
<1>2. Alone'
  <2> SUFFICES ASSUME NEW u \in Terminals, NEW v \in Terminals, Working(u)', Working(v)',
                      procs'[u].p = procs'[v].p, u # v
               PROVE  procs'[u].p \in overlapped'
    BY DEF Alone, Working
  <2>1. CASE u # t /\ v # t
    BY <2>1 DEF IInv, Alone, Working, Grows
  <2>2. CASE u = t
    BY <1>1, <2>2 DEF Working
  <2>3. CASE v = t
    BY <1>1, <2>3 DEF Working
  <2>4. QED BY <2>1, <2>2, <2>3
<1>3. ASSUME NEW u \in Terminals, u # t
      PROVE  SoundProc(u)' /\ SureProc(u)' /\ Refused(u)'
  <2>1. procs'[u] = procs[u] /\ procs[u] \in Proc
    BY <1>3 DEF IInv, WorldOK
  <2>2. Working(u) => procs[u].p \in Plugins
    BY DEF IInv, SoundProc
  <2>3. Working(u) => Apart(procs[u].p) \/ procs[u].p \in overlapped'
    BY <1>1, <1>3, <2>2
  <2>4. QED BY <2>1, <2>3, SoundFrame, SureFrame, RefusedFrame DEF IInv
<1>4. ASSUME NEW q \in Plugins, q # p
      PROVE  Known(q)' /\ NoTorn(q)'
  <2>1. \A u \in Terminals : procs[u].p = q /\ procs[u].step \in {"link", "ensure", "write", "unlink", "forget"}
                                => procs'[u] = procs[u]
    BY <1>4 DEF Working, Resting
  <2>2. Known(q)'
    BY <1>4, <2>1, KnownFrame DEF IInv, WorldOK, Apart
  <2>3. NoTorn(q)'
    BY <1>4 DEF IInv, NoTorn, Apart, Untouched, Grows
  <2>4. QED BY <2>2, <2>3
<1>5. QED BY <1>2, <1>3, <1>4

\* A step that writes no file.
LEMMA FilesFrame ==
  ASSUME FilesOK, UNCHANGED <<files, writer, parts>>, dirs \subseteq dirs'
  PROVE  FilesOK'
BY DEF FilesOK, Exists

\* A step that writes one.
LEMMA PutFrame ==
  ASSUME FilesOK, NEW d \in Dirs, NEW n \in Names, NEW f \in Contents, NEW w \in Plugins \cup {Nobody},
         files' = [files EXCEPT ![d][n] = f], writer' = [writer EXCEPT ![d][n] = w],
         dirs \subseteq dirs', d \in dirs' \/ f = Nothing,
         n \in Plugins => f \in Programs(n) /\ w \in {n, Nobody},
         n \in Aliases => /\ \A p \in Plugins : f \in Own(p) => w = p
                          /\ w \in Plugins => f \in {Nothing} \cup Forms(w),
         parts' \in [Dirs -> [Plugins -> Contents]],
         \A e \in Dirs, p \in Plugins : parts'[e][p] \in Programs(p)
  PROVE  FilesOK'
<1>1. /\ files' \in [Dirs -> [Names -> Contents]]
      /\ writer' \in [Dirs -> [Names -> Plugins \cup {Nobody}]]
  BY DEF FilesOK
<1>2. files'[d][n] = f /\ writer'[d][n] = w
  BY DEF FilesOK
<1>3. \A e \in Dirs, m \in Names : e # d \/ m # n => files'[e][m] = files[e][m] /\ writer'[e][m] = writer[e][m]
  BY DEF FilesOK
<1>4. \A e \in Dirs \ dirs' : \A m \in Names : files'[e][m] = Nothing
  BY <1>2, <1>3 DEF FilesOK, Exists
<1>5. ASSUME NEW e \in Dirs, NEW p \in Plugins
      PROVE  files'[e][p] \in Programs(p) /\ writer'[e][p] \in {p, Nobody}
  <2>1. CASE e = d /\ p = n
    BY <1>2, <2>1
  <2>2. CASE e # d \/ p # n
    BY <1>3, <2>2, NamesApart DEF FilesOK
  <2>3. QED BY <2>1, <2>2
<1>6. ASSUME NEW e \in Dirs, NEW a \in Aliases, NEW p \in Plugins
      PROVE  /\ files'[e][a] \in Own(p) => writer'[e][a] = p
             /\ writer'[e][a] = p => files'[e][a] \in {Nothing} \cup Forms(p)
  <2>1. CASE e = d /\ a = n
    BY <1>2, <2>1
  <2>2. CASE e # d \/ a # n
    BY <1>3, <2>2, NamesApart DEF FilesOK
  <2>3. QED BY <2>1, <2>2
<1>7. QED BY <1>1, <1>4, <1>5, <1>6 DEF FilesOK, Exists

\* Plugins whose file it is not are left alone.
LEMMA PutApart ==
  ASSUME FilesOK, NEW d \in Dirs, NEW n \in Names, NEW f, NEW w, NEW q \in Plugins,
         files' = [files EXCEPT ![d][n] = f], writer' = [writer EXCEPT ![d][n] = w],
         w # q, n # q, states'[q] = states[q], lost'[q] = lost[q], \A e \in Dirs : parts'[e][q] = parts[e][q]
  PROVE  Apart(q)
<1>1. q \in Names
  BY NamesApart
<1>2. \A e \in Dirs, m \in Names : e # d \/ m # n => files'[e][m] = files[e][m] /\ writer'[e][m] = writer[e][m]
  BY DEF FilesOK
<1>3. writer'[d][n] = w
  BY DEF FilesOK
<1>4. QED BY <1>1, <1>2, <1>3 DEF Apart, Untouched

\* An idle terminal.
LEMMA IdleProc ==
  /\ Idle \in Proc /\ Idle.step = "idle"
BY PluginDirAssumption DEF Idle, Proc, Steps, Resting, Nobody, States, NoState, CutState, State

\* Of an idle terminal nothing more is said.
LEMMA RestingOK ==
  ASSUME NEW t \in Terminals, procs'[t].step = "idle"
  PROVE  SoundProc(t)' /\ SureProc(t)' /\ Refused(t)'
<1>1. ~Working(t)' /\ ~Sole(t)'
  BY DEF Working, Sole, Resting
<1>2. SoundProc(t)' /\ Refused(t)'
  BY <1>1 DEF SoundProc, Refused
<1>3. SureProc(t)'
  BY <1>1 DEF SureProc, KnowsRecord, HasPart, HasBinary, HasLinks, HasSettled, HasUnlinked, HasRemoved, WillRecord
<1>4. QED BY <1>2, <1>3

\* So a step of a terminal preserves the invariant if it does for its own
\* terminal and plugin.
LEMMA Whole ==
  ASSUME IInv, NEW t \in Terminals, NEW p \in Plugins,
         \A u \in Terminals : u # t => procs'[u] = procs[u],
         Working(t) => procs[t].p = p,
         Working(t)' => procs'[t].p = p,
         Working(t) \/ (AtWork(p) => p \in overlapped'),
         Grows, dirs \subseteq dirs',
         \A q \in Plugins : q # p => Apart(q),
         WorldOK', FilesOK',
         SoundProc(t)', SureProc(t)', Refused(t)',
         Known(p)', NoTorn(p)'
  PROVE  IInv'
<1>1. /\ Alone'
      /\ \A u \in Terminals : u # t => SoundProc(u)' /\ SureProc(u)' /\ Refused(u)'
      /\ \A q \in Plugins : q # p => Known(q)' /\ NoTorn(q)'
  BY OthersFrame
<1>2. \A u \in Terminals : SoundProc(u)' /\ SureProc(u)' /\ Refused(u)'
  BY <1>1
<1>3. \A q \in Plugins : Known(q)' /\ NoTorn(q)'
  BY <1>1
<1>4. QED BY <1>1, <1>2, <1>3 DEF IInv

\* What is read of a record.
LEMMA ReadStateOK ==
  ASSUME WorldOK, NEW p \in Plugins
  PROVE  /\ ReadState(p) \in States \ {CutState} /\ ReadState(p).aliases \subseteq Aliases
         /\ ReadState(p).kind \in {"none", "ok"}
         /\ states[p].kind = "ok" => ReadState(p) = states[p]
         /\ ReadState(p).kind = "ok" => states[p].kind = "ok"
         /\ ReadState(p).kind = "none" => ReadState(p).aliases = {}
<1>1. states[p] \in States
  BY DEF WorldOK
<1>2. /\ NoState.kind = "none" /\ NoState.aliases = {} /\ CutState.kind = "cut"
      /\ NoState \in States /\ CutState \in States
  BY DEF NoState, CutState, State, States
<1>3. /\ states[p] \in {NoState, CutState} \/ states[p].kind = "ok"
      /\ states[p].aliases \subseteq Aliases
  BY <1>1 DEF States, State, NoState, CutState
<1>4. QED BY <1>1, <1>2, <1>3 DEF ReadState

\* An alias that is not in conflict is not seen to be somebody else's.
LEMMA NotTaken ==
  ASSUME FilesOK, NEW p \in Plugins, NEW st, st.kind = "ok" => st.dir \in Dirs,
         NEW a \in Aliases, NEW D, NEW R, a \in D, a \notin aliasConflicts(p, D, st, R), NEW d
  PROVE  <<d, a>> \notin Theirs(p, st)
<1> SUFFICES ASSUME <<d, a>> \in Theirs(p, st)
             PROVE  FALSE
  OBVIOUS
<1>1. a \notin st.aliases /\ OnPath(a) /\ files[Listed(a)][a] \notin Forms(p)
  BY DEF Theirs
<1> DEFINE e == Listed(a)
<1>2. e \in Dirs
  BY <1>1, ListedThere
<1>3. a \in Names \ {p}
  BY NamesApart
<1>4. st.kind = "ok" /\ sameFile(e, a, st.dir, p)
  BY <1>1, <1>3 DEF aliasConflicts, Others
<1> HIDE DEF e
<1>5. files[st.dir][p] \in Programs(p)
  BY <1>4 DEF FilesOK
<1>6. files[st.dir][p].kind # "link"
  <2>1. /\ Nothing.kind = "none" /\ Torn(p).kind = "torn"
        /\ \A v \in 1..Latest : Binary(p, v).kind = "binary"
    BY DEF Nothing, Torn, Binary, File
  <2>2. QED BY <1>5, <2>1 DEF Programs
<1>7. Resolved(st.dir, p) = {<<st.dir, p>>}
  BY <1>6 DEF Resolved
<1>8. <<st.dir, p>> \in Resolved(e, a)
  BY <1>4, <1>7 DEF sameFile
<1>9. files[e][a].kind = "link" /\ files[e][a].of = p
  BY <1>3, <1>8 DEF Resolved
<1>10. files[e][a] \in Contents
  BY <1>2, <1>3 DEF FilesOK
<1>11. files[e][a] = Link(p)
  BY <1>9, <1>10 DEF Contents, Nothing, Other, Link, Torn, Binary, File
<1>12. QED BY <1>1, <1>11, FormsApart DEF e

\* An alias that is, and that viti does not claim, is.
LEMMA TakenSeen ==
  ASSUME IInv, NEW p \in Plugins, Clean(p), ~AtWork(p), NEW a \in Aliases, NEW D, NEW R,
         a \in aliasConflicts(p, D, ReadState(p), R) \ R
  PROVE  \E d \in Dirs : <<d, a>> \in Theirs(p, ReadState(p)) \cup lost[p]
<1> DEFINE st == ReadState(p)
           d == Listed(a)
<1>1. /\ a # p /\ a \in Names /\ OnPath(a)
      /\ st.kind = "ok" => a \notin st.aliases
  BY NamesApart DEF aliasConflicts, Others
<1>2. d \in Dirs /\ Exists(d, a)
  BY <1>1, ListedThere
<1>3. a \notin st.aliases
  BY <1>1, ReadStateOK DEF IInv
<1>4. ASSUME files[d][a] \in Forms(p)
      PROVE  <<d, a>> \in lost[p]
  <2>1. Mine(p, d, a)
    BY <1>2, <1>4, FormsApart DEF IInv, FilesOK, Mine
  <2>2. ~\E t \in Terminals : procs[t].p = p /\ Pending(t, d, a)
    BY DEF AtWork, Pending, Resting
  <2>3. InRecord(p, d, a) \/ <<d, a>> \in lost[p]
    BY <1>1, <1>2, <2>1, <2>2 DEF IInv, Known, Covers
  <2>4. QED BY <1>1, <1>3, <2>3, ReadStateOK DEF InRecord, IInv
<1>5. files[d][a] \notin Forms(p) => <<d, a>> \in Theirs(p, st)
  BY <1>1, <1>3 DEF Theirs
<1>6. QED BY <1>2, <1>4, <1>5
-----------------------------------------------------------------------------
\* The invariant holds at first.
LEMMA InitOK == Init => IInv
<1> SUFFICES ASSUME Init PROVE IInv
  OBVIOUS
<1>1. /\ index \in [Plugins -> SUBSET Aliases] /\ dirs = Dirs
      /\ parts = [d \in Dirs |-> [p \in Plugins |-> Nothing]]
      /\ reserved = {} /\ procs = [t \in Terminals |-> Idle]
      /\ killed = {} /\ lost = [p \in Plugins |-> {}] /\ moved = {} /\ overlapped = {} /\ events = 0
  BY DEF Init
<1>2. PICK S \in SUBSET Plugins, d \in Dirs, copied \in BOOLEAN : (copied => Windows) /\ Installed(S, d, copied)
  BY DEF Init
<1> DEFINE holder(n) == {p \in S : n = p \/ n \in Declared(p)}
           whose(n)  == CHOOSE p \in holder(n) : TRUE
           placed(n) == IF n \in S \/ copied THEN Binary(whose(n), 1) ELSE Link(whose(n))
<1>3. /\ files = [e \in Dirs |-> [n \in Names |->
                     IF e = d /\ holder(n) # {} THEN placed(n) ELSE Nothing]]
      /\ writer = [e \in Dirs |-> [n \in Names |->
                     IF e = d /\ holder(n) # {} THEN whose(n) ELSE Nobody]]
      /\ states = [p \in Plugins |-> IF p \in S THEN State(1, d, Declared(p)) ELSE NoState]
  BY <1>2 DEF Installed
<1>4. \A p \in Plugins : Declared(p) \subseteq Aliases
  BY <1>1 DEF Declared
<1>5. \A p \in Plugins : p \in Names /\ p \notin Aliases
  BY NamesApart
<1>6. \A p \in Plugins : holder(p) = {p} \cap S
  BY <1>4, <1>5
<1>7. \A e \in Dirs, p \in Plugins :
        /\ files[e][p] = IF e = d /\ p \in S THEN Binary(p, 1) ELSE Nothing
        /\ writer[e][p] = IF e = d /\ p \in S THEN p ELSE Nobody
  <2> SUFFICES ASSUME NEW e \in Dirs, NEW p \in Plugins
               PROVE  /\ files[e][p] = IF e = d /\ p \in S THEN Binary(p, 1) ELSE Nothing
                      /\ writer[e][p] = IF e = d /\ p \in S THEN p ELSE Nobody
    OBVIOUS
  <2>1. p \in S => whose(p) = p
    BY <1>6
  <2>2. holder(p) # {} <=> p \in S
    BY <1>6
  <2> HIDE DEF holder, whose
  <2>3. QED BY <1>3, <1>5, <2>1, <2>2
<1>8. \A e \in Dirs, a \in Aliases :
        \/ files[e][a] = Nothing /\ writer[e][a] = Nobody
        \/ \E p \in S : /\ e = d /\ a \in Declared(p) /\ writer[e][a] = p
                         /\ files[e][a] \in Forms(p) \cap {Link(p), Binary(p, 1)}
  <2> SUFFICES ASSUME NEW e \in Dirs, NEW a \in Aliases,
                      ~(files[e][a] = Nothing /\ writer[e][a] = Nobody)
               PROVE  \E p \in S : /\ e = d /\ a \in Declared(p) /\ writer[e][a] = p
                              /\ files[e][a] \in Forms(p) \cap {Link(p), Binary(p, 1)}
    OBVIOUS
  <2>1. a \in Names /\ a \notin Plugins
    BY NamesApart
  <2>2. e = d /\ holder(a) # {}
    BY <1>3, <2>1
  <2> DEFINE q == whose(a)
  <2>3. q \in holder(a)
    BY <2>2
  <2>4. files[e][a] \in Forms(q) \cap {Link(q), Binary(q, 1)} /\ writer[e][a] = q
    <3>1. files[e][a] = placed(a) /\ writer[e][a] = q
      BY <1>3, <2>1, <2>2, Zenon
    <3>2. placed(a) = IF copied THEN Binary(q, 1) ELSE Link(q)
      BY <2>1
    <3>3. copied => Binary(q, 1) \in Forms(q)
      BY <1>2, PluginDirAssumption DEF Forms, Copies
    <3>4. Link(q) \in Forms(q)
      BY DEF Forms
    <3> HIDE DEF q, placed
    <3>5. QED BY <3>1, <3>2, <3>3, <3>4
  <2> HIDE DEF q, whose
  <2>5. QED BY <2>1, <2>2, <2>3, <2>4
<1> HIDE DEF holder, whose, placed
<1>9. 1 \in 1..Latest
  BY PluginDirAssumption
<1>10. WorldOK
  <2>1. states \in [Plugins -> States]
    BY <1>3, <1>4, <1>9 DEF States
  <2>2. procs \in [Terminals -> Proc]
    BY <1>1, IdleProc
  <2>3. lost \in [Plugins -> SUBSET (Dirs \X Names)]
    BY <1>1
  <2>4. QED BY <1>1, <2>1, <2>2, <2>3 DEF WorldOK
<1>11. FilesOK
  <2>1. \A e \in Dirs, n \in Names : files[e][n] \in Contents /\ writer[e][n] \in Plugins \cup {Nobody}
    <3>1. Nothing \in Contents /\ \A p \in Plugins : Link(p) \in Contents /\ Binary(p, 1) \in Contents
      BY <1>9 DEF Contents
    <3>2. QED BY <1>7, <1>8, <3>1 DEF Names
  <2>2. files \in [Dirs -> [Names -> Contents]] /\ writer \in [Dirs -> [Names -> Plugins \cup {Nobody}]]
    BY <1>3, <2>1
  <2>3. \A e \in Dirs, p \in Plugins :
          files[e][p] \in Programs(p) /\ writer[e][p] \in {p, Nobody} /\ parts[e][p] \in Programs(p)
    BY <1>1, <1>7, <1>9 DEF Programs
  <2>4. parts \in [Dirs -> [Plugins -> Contents]]
    BY <1>1 DEF Contents
  <2>5. \A e \in Dirs, a \in Aliases, p \in Plugins :
          /\ files[e][a] \in Own(p) => writer[e][a] = p
          /\ writer[e][a] = p => files[e][a] \in {Nothing} \cup Forms(p)
    <3> SUFFICES ASSUME NEW e \in Dirs, NEW a \in Aliases, NEW p \in Plugins
                 PROVE  /\ files[e][a] \in Own(p) => writer[e][a] = p
                        /\ writer[e][a] = p => files[e][a] \in {Nothing} \cup Forms(p)
      OBVIOUS
    <3>2. CASE files[e][a] = Nothing /\ writer[e][a] = Nobody
      BY <3>2, FormsApart, NamesApart
    <3>3. ASSUME NEW q \in S, writer[e][a] = q, files[e][a] \in Forms(q)
          PROVE  /\ files[e][a] \in Own(p) => writer[e][a] = p
                 /\ writer[e][a] = p => files[e][a] \in {Nothing} \cup Forms(p)
      BY <3>3, FormsApart
    <3>4. QED BY <1>8, <3>2, <3>3
  <2>6. QED BY <1>1, <2>2, <2>3, <2>4, <2>5 DEF FilesOK
<1>12. \A t \in Terminals : procs[t] = Idle /\ procs[t].step = "idle"
  BY <1>1, IdleProc
<1>13. Alone
  BY <1>12 DEF Alone, Working, Resting
<1>14. ASSUME NEW t \in Terminals
       PROVE  SoundProc(t) /\ SureProc(t) /\ Refused(t)
  <2>1. ~Working(t) /\ ~Sole(t) /\ procs[t].step = "idle"
    BY <1>12 DEF Working, Sole, Resting
  <2>2. SoundProc(t) /\ Refused(t)
    BY <2>1 DEF SoundProc, Refused
  <2>3. SureProc(t)
    BY <2>1 DEF SureProc, KnowsRecord, HasPart, HasBinary, HasLinks, HasSettled, HasUnlinked, HasRemoved, WillRecord
  <2>4. QED BY <2>2, <2>3
<1>15. ASSUME NEW p \in Plugins
       PROVE  Known(p) /\ NoTorn(p)
  <2>1. Cuts(p)
    BY <1>3 DEF Cuts, State, NoState
  <2>2. Covers(p)
    <3> SUFFICES ASSUME NEW e \in Dirs, NEW n \in Names, Mine(p, e, n)
                 PROVE  InRecord(p, e, n)
      BY DEF Covers
    <3>0. writer[e][n] = p /\ files[e][n] # Nothing /\ p # Nobody /\ (n \in Plugins \/ n \in Aliases)
      BY NamesApart DEF Mine, Exists, Names
    <3>1. p \in S /\ e = d /\ (n = p \/ n \in Declared(p))
      BY <1>7, <1>8, <3>0
    <3>2. QED BY <1>3, <3>1 DEF InRecord, State
  <2>3. Kept(p)
    <3> SUFFICES ASSUME states[p].kind = "ok", NEW a \in states[p].aliases
                 PROVE  Linked(p, states[p].dir, a)
      BY DEF Kept
    <3>1. p \in S /\ states[p].dir = d /\ a \in Aliases
      BY <1>3, <1>4 DEF State, NoState
    <3>2. QED BY <1>8, <3>1, NamesApart, KindsApart DEF Linked
  <2>4. NoTorn(p)
    BY <1>7, KindsApart DEF NoTorn
  <2>5. QED BY <2>1, <2>2, <2>3, <2>4 DEF Known
<1>16. QED BY <1>10, <1>11, <1>13, <1>14, <1>15 DEF IInv

\* A command that starts: if another is at work on the plugin it is noticed.
LEMMA BeginOK ==
  ASSUME IInv, NEW t \in Terminals, NEW p \in Plugins, Begin(t, p), NEW r \in Proc, r.p = p,
         r.step \in {"refused", "download", "compare", "unlink"},
         r.step = "unlink" => r.todo = r.st.aliases,
         p \notin overlapped' => r.st = ReadState(p),
         procs' = [procs EXCEPT ![t] = r],
         UNCHANGED <<files, dirs, parts, states, world, writer, killed, lost, moved>>,
         SoundProc(t)', Refused(t)'
  PROVE  IInv'
<1>1. /\ procs[t].step \in Resting /\ events' = events + 1
      /\ overlapped' = IF AtWork(p) THEN overlapped \cup {p} ELSE overlapped
      /\ UNCHANGED <<index, reserved>>
  BY DEF Begin, Event, world
<1>2. procs'[t] = r /\ \A u \in Terminals : u # t => procs'[u] = procs[u]
  BY DEF IInv, WorldOK
<1>3. Grows /\ \A q \in Plugins : Apart(q)
  BY <1>1 DEF Grows, Apart, Untouched
<1>4. WorldOK'
  <2>1. events' \in Nat
    <3>1. events \in Nat /\ events' = events + 1
      BY <1>1 DEF IInv, WorldOK
    <3>2. QED BY <3>1
  <2>2. QED BY <1>1, <2>1 DEF IInv, WorldOK
<1>5. FilesOK'
  BY FilesFrame DEF IInv
<1>6. Known(p)' /\ NoTorn(p)'
  <2>1. \A u \in Terminals : procs[u].step \in {"link", "ensure", "write", "unlink", "forget"} => procs'[u] = procs[u]
    BY <1>1, <1>2 DEF Resting
  <2>2. Known(p)'
    BY <1>3, <2>1, KnownFrame DEF IInv, WorldOK, Apart
  <2>3. NoTorn(p)'
    BY <1>3 DEF IInv, NoTorn, Grows
  <2>4. QED BY <2>2, <2>3
<1>7. SureProc(t)'
  <2>1. KnowsRecord(t)'
    BY <1>2 DEF KnowsRecord, ReadState, Sole, Working, Resting
  <2>2. HasUnlinked(t)'
    BY <1>2 DEF HasUnlinked
  <2>3. QED BY <1>2, <2>1, <2>2 DEF SureProc, HasPart, HasBinary, HasLinks, HasSettled, HasRemoved, WillRecord
<1>8. ~Working(t) /\ (AtWork(p) => p \in overlapped') /\ procs'[t].p = p
  BY <1>1, <1>2 DEF Working
<1>9. QED BY <1>2, <1>3, <1>4, <1>5, <1>6, <1>7, <1>8, Whole

\* An install,
LEMMA StartInstallOK ==
  ASSUME IInv, NEW t \in Terminals, NEW p \in Plugins, NEW o \in Options[t], StartInstall(t, p, o[1], o[2], o[3])
  PROVE  IInv'
<1> DEFINE st == ReadState(p)
           links == IF o[3] THEN {} ELSE Declared(p)
           taken == IF o[3] THEN {} ELSE aliasConflicts(p, Declared(p), st, reserved)
           r == [Idle EXCEPT !.step = IF taken # {} THEN "refused" ELSE "download",
                             !.p = p, !.version = o[1], !.dir = o[2], !.todo = links,
                             !.declared = links, !.st = st, !.taken = taken, !.theirs = Theirs(p, st),
                             !.lost = {f \in lost[p] : f[2] \in taken}]
<1>1. /\ Begin(t, p) /\ procs' = [procs EXCEPT ![t] = r]
      /\ overlapped' = IF AtWork(p) THEN overlapped \cup {p} ELSE overlapped
      /\ UNCHANGED <<files, dirs, parts, states, world, reserved, writer, killed, lost, moved>>
  BY DEF StartInstall, Begin, Run, world
<1>2. o[1] \in 0..Latest /\ o[2] \in Dirs
  BY PluginManagerAssumption
<1>3. st \in States \ {CutState} /\ Declared(p) \subseteq Aliases
  BY ReadStateOK DEF IInv, WorldOK, Declared
<1>4. Theirs(p, st) \subseteq Dirs \X Aliases /\ lost[p] \subseteq Dirs \X Names
  BY ListedThere DEF Theirs, IInv, WorldOK
<1>5. links \subseteq Aliases /\ taken \subseteq Aliases
  BY <1>3 DEF aliasConflicts
<1>6. /\ r.step = (IF taken # {} THEN "refused" ELSE "download")
      /\ r.p = p /\ r.version = o[1] /\ r.dir = o[2] /\ r.todo = links /\ r.declared = links
      /\ r.done = {} /\ r.st = st /\ r.taken = taken /\ r.theirs = Theirs(p, st)
      /\ r.lost = {f \in lost[p] : f[2] \in taken}
  BY DEF Idle
<1>7. r \in Proc
  BY <1>2, <1>3, <1>4, <1>5 DEF Proc, Idle, Steps, Resting
<1> HIDE DEF r, taken, links, st
<1>8. procs'[t] = r
  BY <1>1 DEF IInv, WorldOK
<1>9. SoundProc(t)'
  <2>1. ASSUME taken = {}, NEW a \in links, NEW d \in Dirs
        PROVE  <<d, a>> \notin r.theirs
    <3>1. a \in Aliases /\ a \in Declared(p) /\ a \notin aliasConflicts(p, Declared(p), st, reserved)
      BY <1>5, <2>1 DEF links, taken
    <3>2. st.kind = "ok" => st.dir \in Dirs
      BY <1>3 DEF States, State, NoState, CutState
    <3>3. QED BY <1>6, <3>1, <3>2, NotTaken DEF IInv
  <2>2. QED BY <1>6, <1>8, <2>1 DEF SoundProc, Working, Resting
<1>10. Refused(t)'
  <2> SUFFICES ASSUME taken # {}, p \notin killed \cup overlapped', NEW a \in taken \ reserved
               PROVE  \E d \in Dirs : <<d, a>> \in Theirs(p, st) \cup r.lost
    BY <1>1, <1>6, <1>8 DEF Refused
  <2>1. Clean(p) /\ ~AtWork(p)
    BY <1>1 DEF Clean
  <2>2. a \in aliasConflicts(p, Declared(p), st, reserved) \ reserved /\ a \in Aliases
    BY <1>5 DEF taken
  <2>3. PICK d \in Dirs : <<d, a>> \in Theirs(p, st) \cup lost[p]
    BY <2>1, <2>2, TakenSeen DEF st
  <2>4. <<d, a>> \in lost[p] => <<d, a>> \in r.lost
    BY <1>6
  <2>5. QED BY <2>3, <2>4
<1>11. r.step \in {"refused", "download"} /\ r.st = ReadState(p)
  BY <1>6 DEF st
<1>12. QED BY <1>1, <1>6, <1>7, <1>9, <1>10, <1>11, BeginOK

\* an upgrade
LEMMA StartUpgradeOK ==
  ASSUME IInv, NEW t \in Terminals, NEW p \in Plugins, StartUpgrade(t, p)
  PROVE  IInv'
<1> DEFINE r == [Idle EXCEPT !.step = "compare", !.p = p, !.st = states[p]]
<1>1. states[p] \in States \ {CutState} /\ states[p].kind = "ok" /\ ReadState(p) = states[p]
  BY ReadStateOK DEF StartUpgrade, IInv
<1>2. r.step = "compare" /\ r.p = p /\ r.st = states[p] /\ r.done = {} /\ r \in Proc
  BY <1>1, IdleProc DEF Idle, Proc, Steps
<1> HIDE DEF r
<1>3. /\ Begin(t, p) /\ procs' = [procs EXCEPT ![t] = r]
      /\ UNCHANGED <<files, dirs, parts, states, world, writer, killed, lost, moved>>
  BY DEF StartUpgrade, Run, r
<1>4. procs'[t] = r
  BY <1>3 DEF IInv, WorldOK
<1>5. SoundProc(t)' /\ Refused(t)'
  BY <1>1, <1>2, <1>4 DEF SoundProc, Refused
<1>6. QED BY <1>1, <1>2, <1>3, <1>5, BeginOK

\* and an uninstall.
LEMMA StartUninstallOK ==
  ASSUME IInv, NEW t \in Terminals, NEW p \in Plugins, StartUninstall(t, p)
  PROVE  IInv'
<1> DEFINE r == [Idle EXCEPT !.step = "unlink", !.p = p, !.st = states[p], !.todo = states[p].aliases]
<1>1. states[p] \in States \ {CutState} /\ states[p].kind = "ok" /\ ReadState(p) = states[p]
      /\ states[p].aliases \subseteq Aliases
  BY ReadStateOK DEF StartUninstall, IInv
<1>2. r.step = "unlink" /\ r.p = p /\ r.st = states[p] /\ r.todo = r.st.aliases /\ r \in Proc
  BY <1>1, IdleProc DEF Idle, Proc, Steps
<1> HIDE DEF r
<1>3. /\ Begin(t, p) /\ procs' = [procs EXCEPT ![t] = r]
      /\ UNCHANGED <<files, dirs, parts, states, world, writer, killed, lost, moved>>
  BY DEF StartUninstall, Run, r
<1>4. procs'[t] = r
  BY <1>3 DEF IInv, WorldOK
<1>5. SoundProc(t)' /\ Refused(t)'
  BY <1>1, <1>2, <1>4 DEF SoundProc, Refused
<1>6. QED BY <1>1, <1>2, <1>3, <1>5, BeginOK
-----------------------------------------------------------------------------
\* A step of a terminal that leaves the index alone.
LEMMA RunOK ==
  ASSUME WorldOK, NEW t \in Terminals, NEW r \in Proc, procs' = [procs EXCEPT ![t] = r],
         UNCHANGED <<index, reserved, overlapped, events>>, dirs' \subseteq Dirs,
         states' \in [Plugins -> States], killed' \subseteq Plugins, moved' \subseteq Plugins, lost' \in [Plugins -> SUBSET (Dirs \X Names)]
  PROVE  WorldOK' /\ procs'[t] = r /\ \A u \in Terminals : u # t => procs'[u] = procs[u]
<1>1. procs' \in [Terminals -> Proc]
  BY DEF WorldOK
<1>2. QED BY <1>1 DEF WorldOK

\* Of a plugin with two commands on it nothing is promised.
LEMMA OverlapOK ==
  ASSUME NEW t \in Terminals, NEW p \in Plugins, p \in overlapped', procs'[t].p = p
  PROVE  SureProc(t)' /\ Known(p)' /\ NoTorn(p)'
<1>1. ~Sole(t)' /\ ~Clean(p)'
  BY DEF Sole, Clean
<1>2. SureProc(t)'
  BY <1>1 DEF SureProc, KnowsRecord, HasPart, HasBinary, HasLinks, HasSettled, HasUnlinked, HasRemoved, WillRecord
<1>3. Known(p)'
  BY <1>1 DEF Known, Cuts, Covers, Kept
<1>4. QED BY <1>2, <1>3 DEF NoTorn

\* A command up to the rename changes nothing that a record is about.
LEMMA EarlyOK ==
  ASSUME IInv, NEW t \in Terminals, procs[t].step \in {"compare", "download", "copy", "rename"},
         NEW p \in Plugins, procs[t].p = p, NEW r \in Proc, r.step = "idle" \/ r.p = p,
         procs' = [procs EXCEPT ![t] = r],
         UNCHANGED <<files, writer, states, index, reserved, killed, lost, moved, overlapped, events>>,
         dirs \subseteq dirs', dirs' \subseteq Dirs,
         parts' \in [Dirs -> [Plugins -> Contents]],
         \A d \in Dirs, q \in Plugins : q # p => parts'[d][q] = parts[d][q],
         \A d \in Dirs : parts'[d][p] \in Programs(p),
         SoundProc(t)', SureProc(t)', Refused(t)'
  PROVE  IInv'
<1>1. Working(t)
  BY DEF Working, Resting
<1>2. WorldOK' /\ procs'[t] = r /\ \A u \in Terminals : u # t => procs'[u] = procs[u]
  BY RunOK DEF IInv, WorldOK
<1>3. FilesOK'
  BY DEF IInv, FilesOK, Exists
<1>4. Grows /\ Untouched(p) /\ \A q \in Plugins : q # p => Apart(q)
  BY DEF Grows, Apart, Untouched
<1>5. Known(p)'
  <2>1. \A u \in Terminals : procs[u].step \in {"link", "ensure", "write", "unlink", "forget"} => procs'[u] = procs[u]
    BY <1>2
  <2>2. QED BY <1>1, <1>4, <2>1, KnownFrame DEF IInv, WorldOK
<1>6. NoTorn(p)'
  BY <1>1 DEF IInv, NoTorn
<1>7. Working(t)' => procs'[t].p = p
  BY <1>2 DEF Working, Resting
<1>8. QED BY <1>1, <1>2, <1>3, <1>4, <1>5, <1>6, <1>7, Whole

\* What a record holds.
LEMMA StateTypes ==
  ASSUME NEW st \in States, st.kind = "ok"
  PROVE  st.version \in 1..Latest /\ st.dir \in Dirs /\ st.aliases \subseteq Aliases
BY DEF States, State, NoState, CutState

\* Comparing preserves the invariant: it reads the record and PATH anew,
LEMMA CompareOK ==
  ASSUME IInv, NEW t \in Terminals, Compare(t)
  PROVE  IInv'
<1>0. PICK p \in Plugins : procs[t].p = p
  BY DEF Compare, IInv, SoundProc, Working, Resting
<1> DEFINE c == procs[t]
           taken == aliasConflicts(p, Declared(p), ReadState(p), reserved)
           links == IF taken # {} THEN {} ELSE Declared(p)
           r == [c EXCEPT !.taken = taken, !.todo = links, !.declared = Declared(p),
                          !.theirs = Theirs(p, ReadState(p))]
           down == [r EXCEPT !.step = "download", !.version = Latest, !.dir = upgradePrefix(p, c.st)]
           ens == [r EXCEPT !.step = "ensure", !.version = c.st.version, !.dir = c.st.dir]
<1>1. /\ c.step = "compare"
      /\ \/ procs' = [procs EXCEPT ![t] = down]
         \/ procs' = [procs EXCEPT ![t] = Idle]
         \/ procs' = [procs EXCEPT ![t] = ens] /\ taken = {}
      /\ UNCHANGED <<files, writer, states, index, reserved, killed, lost, moved, overlapped, events, dirs, parts>>
  BY <1>0 DEF Compare, Run, world, history
<1>2. c \in Proc /\ c.st.kind = "ok" /\ c.done = {} /\ c.st \in States
  <2>1. c \in Proc /\ SoundProc(t)
    BY DEF IInv, WorldOK
  <2>2. QED BY <1>1, <2>1 DEF SoundProc, Working, Resting, Proc
<1>3. c.st.version \in 1..Latest /\ c.st.dir \in Dirs /\ Latest \in 1..Latest
  BY <1>2, StateTypes, PluginDirAssumption
<1>4. Declared(p) \subseteq Aliases /\ links \subseteq Aliases /\ taken \subseteq Aliases
  BY <1>2 DEF Declared, IInv, WorldOK, aliasConflicts
<1>5. Theirs(p, ReadState(p)) \subseteq Dirs \X Aliases
  BY ListedThere DEF Theirs
<1>6. upgradePrefix(p, c.st) \in Dirs
  BY FirstThere, PluginDirAssumption DEF upgradePrefix, IInv, WorldOK
<1>7. /\ r \in Proc /\ r.taken = taken /\ r.todo = links /\ r.declared = Declared(p) /\ r.theirs = Theirs(p, ReadState(p))
      /\ r.done = {} /\ r.p = p /\ r.st = c.st
  BY <1>0, <1>2, <1>4, <1>5 DEF Proc
<1> HIDE DEF r
<1>8a. "download" \in Steps /\ "ensure" \in Steps /\ Latest \in 0..Latest /\ c.st.version \in 0..Latest
  BY <1>3 DEF Steps
<1>8b. down \in Proc
  BY <1>6, <1>7, <1>8a DEF Proc
<1>9b. ens \in Proc
  BY <1>3, <1>7, <1>8a DEF Proc
<1>8. /\ down.taken = taken /\ down.todo = links /\ down.declared = Declared(p)
      /\ down.theirs = Theirs(p, ReadState(p)) /\ down.done = {} /\ down.p = p /\ down.st = c.st
      /\ down.step = "download"
  BY <1>7 DEF Proc
<1>9. /\ ens.taken = taken /\ ens.todo = links /\ ens.declared = Declared(p)
      /\ ens.done = {} /\ ens.p = p /\ ens.st = c.st
      /\ ens.step = "ensure" /\ ens.dir = c.st.dir /\ ens.version = c.st.version
  BY <1>7 DEF Proc
<1> HIDE DEF down, ens
<1>10. KnowsRecord(t) /\ Working(t)
  BY <1>1 DEF IInv, SureProc, Working, Resting
<1>11. CASE procs' = [procs EXCEPT ![t] = down]
  <2>1. procs'[t] = down
    BY <1>11 DEF IInv, WorldOK
  <2>2. ASSUME taken = {}, NEW a \in links, NEW d \in Dirs
        PROVE  <<d, a>> \notin Theirs(p, ReadState(p))
    <3>1. a \in Aliases /\ a \in Declared(p) /\ a \notin aliasConflicts(p, Declared(p), ReadState(p), reserved)
      BY <1>4, <2>2
    <3>2. ReadState(p).kind = "ok" => ReadState(p).dir \in Dirs
      BY <1>2, ReadStateOK, StateTypes DEF IInv
    <3>3. QED BY <1>2, <3>1, <3>2, NotTaken DEF IInv
  <2> HIDE DEF taken
  <2>3. SoundProc(t)'
    BY <1>0, <1>2, <1>8, <2>1, <2>2 DEF SoundProc, Working, Resting
  <2>4. SureProc(t)'
    <3>1. KnowsRecord(t)'
      BY <1>0, <1>1, <1>8, <1>10, <2>1 DEF KnowsRecord, ReadState, Sole, Working, Resting
    <3>2. QED BY <1>8, <2>1, <3>1
          DEF SureProc, HasPart, HasBinary, HasLinks, HasSettled, HasUnlinked, HasRemoved, WillRecord
  <2>5. Refused(t)'
    BY <1>8, <2>1 DEF Refused
  <2>6. QED BY <1>0, <1>1, <1>2, <1>8, <1>8b, <1>11, <2>3, <2>4, <2>5, EarlyOK DEF IInv, FilesOK, WorldOK
<1>12. CASE procs' = [procs EXCEPT ![t] = Idle]
  <2>1. procs'[t].step = "idle"
    BY <1>12, IdleProc DEF IInv, WorldOK
  <2>2. QED BY <1>0, <1>1, <1>2, <1>12, <2>1, IdleProc, RestingOK, EarlyOK DEF IInv, FilesOK, WorldOK
<1>13. CASE procs' = [procs EXCEPT ![t] = ens] /\ taken = {}
  <2>1. procs'[t] = ens
    BY <1>13 DEF IInv, WorldOK
  <2>2. ens.todo = ens.declared /\ ens.taken = {}
    BY <1>9, <1>13
  <2> HIDE DEF taken
  <2>3. SoundProc(t)'
    BY <1>0, <1>2, <1>3, <1>9, <2>1, <2>2 DEF SoundProc, Working, Resting
  <2>4. SureProc(t)'
    <3>1. KnowsRecord(t)'
      BY <1>0, <1>1, <1>9, <1>10, <2>1 DEF KnowsRecord, ReadState, Sole, Working, Resting
    <3>2. HasBinary(t)' /\ HasLinks(t)' /\ HasSettled(t)'
      BY <1>9, <2>1, <2>2 DEF HasBinary, HasLinks, HasSettled
    <3>3. QED BY <1>9, <2>1, <3>1, <3>2 DEF SureProc, HasPart, HasUnlinked, HasRemoved, WillRecord
  <2>5. Refused(t)'
    BY <1>9, <2>1 DEF Refused
  <2>6. QED BY <1>0, <1>1, <1>2, <1>9, <1>9b, <1>13, <2>3, <2>4, <2>5, EarlyOK DEF IInv, FilesOK, WorldOK
<1>14. QED BY <1>1, <1>11, <1>12, <1>13

\* and giving up.
LEMMA NotInstalledOK ==
  ASSUME IInv, NEW t \in Terminals, NotInstalled(t)
  PROVE  IInv'
<1>1. /\ procs[t].step \in {"compare", "download"}
      /\ procs' = [procs EXCEPT ![t] = Idle] /\ dirs \subseteq dirs'
      /\ dirs' \subseteq dirs \cup {procs[t].dir}
      /\ UNCHANGED <<files, writer, states, index, reserved, killed, lost, moved, overlapped, events, parts>>
  BY DEF NotInstalled, Run, world, history
<1>2. procs[t].dir \in Dirs
  BY DEF IInv, WorldOK, Proc
<1>2a. PICK p \in Plugins : procs[t].p = p
  BY <1>1 DEF IInv, SoundProc, Working, Resting
<1>3. procs'[t].step = "idle"
  BY <1>1, IdleProc DEF IInv, WorldOK
<1>4. dirs' \subseteq Dirs
  BY <1>1, <1>2 DEF IInv, WorldOK
<1>5. QED BY <1>1, <1>2a, <1>3, <1>4, IdleProc, RestingOK, EarlyOK DEF IInv, FilesOK, WorldOK

\* Writing a temporary file.
LEMMA PartTypes ==
  ASSUME FilesOK, NEW d \in Dirs, NEW p \in Plugins, NEW f, f \in Programs(p),
         parts' = [parts EXCEPT ![d][p] = f]
  PROVE  /\ parts' \in [Dirs -> [Plugins -> Contents]] /\ parts'[d][p] = f
         /\ \A e \in Dirs, q \in Plugins : e # d \/ q # p => parts'[e][q] = parts[e][q]
         /\ \A e \in Dirs, q \in Plugins : parts'[e][q] \in Programs(q)
<1>1. f \in Contents
  BY DEF Programs, Contents
<1>2. parts' \in [Dirs -> [Plugins -> Contents]] /\ parts'[d][p] = f
  BY <1>1 DEF FilesOK
<1>3. \A e \in Dirs, q \in Plugins : e # d \/ q # p => parts'[e][q] = parts[e][q]
  BY DEF FilesOK
<1>4. ASSUME NEW e \in Dirs, NEW q \in Plugins
      PROVE  parts'[e][q] \in Programs(q)
  BY <1>2, <1>3 DEF FilesOK
<1>5. QED BY <1>2, <1>3, <1>4

\* Removing it,
LEMMA NotCopiedOK ==
  ASSUME IInv, NEW t \in Terminals, NotCopied(t)
  PROVE  IInv'
<1>1. /\ procs[t].step \in {"copy", "rename"}
      /\ procs' = [procs EXCEPT ![t] = Idle]
      /\ parts' = [parts EXCEPT ![procs[t].dir][procs[t].p] = Nothing]
      /\ UNCHANGED <<files, dirs, writer, states, index, reserved, killed, lost, moved, overlapped, events>>
  BY DEF NotCopied, Run, world, history
<1>2. PICK p \in Plugins : procs[t].p = p
  BY <1>1 DEF IInv, SoundProc, Working, Resting
<1>3. PICK d \in Dirs : procs[t].dir = d
  BY DEF IInv, WorldOK, Proc
<1>4. procs'[t].step = "idle"
  BY <1>1, IdleProc DEF IInv, WorldOK
<1>5. Nothing \in Programs(p) /\ parts' = [parts EXCEPT ![d][p] = Nothing]
  BY <1>1, <1>2, <1>3 DEF Programs
<1>6. /\ parts' \in [Dirs -> [Plugins -> Contents]]
      /\ \A e \in Dirs, q \in Plugins : q # p => parts'[e][q] = parts[e][q]
      /\ \A e \in Dirs : parts'[e][p] \in Programs(p)
  <2>1. FilesOK
    BY DEF IInv
  <2>2. parts' \in [Dirs -> [Plugins -> Contents]]
    BY <1>5, <2>1, PartTypes
  <2>3. \A e \in Dirs, q \in Plugins : q # p => parts'[e][q] = parts[e][q]
    BY <1>5, <2>1, PartTypes
  <2>4. \A e \in Dirs : parts'[e][p] \in Programs(p)
    BY <1>5, <2>1, PartTypes
  <2>5. QED BY <2>2, <2>3, <2>4
<1>7. QED BY <1>1, <1>2, <1>4, <1>6, IdleProc, RestingOK, EarlyOK DEF IInv, WorldOK

\* starting it
LEMMA DownloadOK ==
  ASSUME IInv, NEW t \in Terminals, Download(t)
  PROVE  IInv'
<1> DEFINE c == procs[t]
           r == [c EXCEPT !.step = "copy", !.version = IF @ = 0 THEN Latest ELSE @]
<1>1. /\ c.step = "download"
      /\ procs' = [procs EXCEPT ![t] = r]
      /\ parts' = [parts EXCEPT ![c.dir][c.p] = Torn(c.p)]
      /\ dirs' = dirs \cup {c.dir}
      /\ UNCHANGED <<files, writer, states, index, reserved, killed, lost, moved, overlapped, events>>
  BY DEF Download, Run, world, history
<1>2. c \in Proc /\ SoundProc(t) /\ KnowsRecord(t) /\ c.version \in 0..Latest
  BY DEF IInv, WorldOK, SureProc, Proc
<1>3. PICK p \in Plugins : c.p = p
  BY <1>1, <1>2 DEF SoundProc, Working, Resting
<1>4. PICK d \in Dirs : c.dir = d
  BY <1>2 DEF Proc
<1> DEFINE v == IF c.version = 0 THEN Latest ELSE c.version
<1>5. v \in 1..Latest
  BY <1>2, PluginDirAssumption
<1>6. "copy" \in Steps /\ v \in 0..Latest
  BY <1>5 DEF Steps
<1> HIDE DEF v
<1>7. r = [c EXCEPT !.step = "copy", !.version = v]
  BY DEF v
<1>8. /\ r.step = "copy" /\ r.version = v /\ r.p = c.p /\ r.dir = c.dir
      /\ r.todo = c.todo /\ r.done = c.done /\ r.declared = c.declared /\ r.taken = c.taken
      /\ r.theirs = c.theirs /\ r.st = c.st
  BY <1>2 DEF Proc, v
<1>9. r \in Proc
  BY <1>2, <1>6, <1>7 DEF Proc
<1> HIDE DEF r
<1>10. procs'[t] = r
  BY <1>1 DEF IInv, WorldOK
<1>11. Torn(p) \in Programs(p) /\ Torn(p) # Nothing
  BY KindsApart DEF Programs
<1>12. parts' = [parts EXCEPT ![d][p] = Torn(p)]
  BY <1>1, <1>3, <1>4
<1>13. /\ parts' \in [Dirs -> [Plugins -> Contents]] /\ parts'[d][p] = Torn(p)
       /\ \A e \in Dirs, q \in Plugins : q # p => parts'[e][q] = parts[e][q]
       /\ \A e \in Dirs : parts'[e][p] \in Programs(p)
  <2>1. FilesOK
    BY DEF IInv
  <2>2. parts' \in [Dirs -> [Plugins -> Contents]]
    BY <1>11, <1>12, <2>1, PartTypes
  <2>3. parts'[d][p] = Torn(p)
    BY <1>11, <1>12, <2>1, PartTypes
  <2>4. \A e \in Dirs, q \in Plugins : q # p => parts'[e][q] = parts[e][q]
    BY <1>11, <1>12, <2>1, PartTypes
  <2>5. \A e \in Dirs : parts'[e][p] \in Programs(p)
    BY <1>11, <1>12, <2>1, PartTypes
  <2>6. QED BY <2>2, <2>3, <2>4, <2>5
<1>14. SoundProc(t)'
  BY <1>1, <1>2, <1>3, <1>5, <1>8, <1>10 DEF SoundProc
<1>15. SureProc(t)'
  <2>1. KnowsRecord(t)'
    BY <1>1, <1>2, <1>8, <1>10 DEF KnowsRecord, ReadState, Sole, Working, Resting
  <2>2. HasPart(t)'
    BY <1>3, <1>4, <1>8, <1>10, <1>11, <1>13 DEF HasPart
  <2>3. QED BY <1>8, <1>10, <2>1, <2>2
        DEF SureProc, HasBinary, HasLinks, HasSettled, HasUnlinked, HasRemoved, WillRecord
<1>16. Refused(t)'
  BY <1>8, <1>10 DEF Refused
<1>17. dirs \subseteq dirs' /\ dirs' \subseteq Dirs
  BY <1>1, <1>4 DEF IInv, WorldOK
<1>18. QED BY <1>1, <1>3, <1>8, <1>9, <1>13, <1>14, <1>15, <1>16, <1>17, EarlyOK

\* What a record tells after a step on its plugin that does not change it: what
\* is new is pending, what is pending no more is recorded or gone.
LEMMA KnownStep ==
  ASSUME NEW t \in Terminals, NEW p \in Plugins, Known(p), states'[p] = states[p], Grows,
         procs[t].step # "write", \A u \in Terminals : u # t => procs'[u] = procs[u],
         lost[p] \subseteq lost'[p],
         \A d \in Dirs, n \in Names : Mine(p, d, n)' =>
            \/ Mine(p, d, n) /\ ~Pending(t, d, n)
            \/ procs'[t].p = p /\ Pending(t, d, n)'
            \/ InRecord(p, d, n)' \/ <<d, n>> \in lost'[p],
         \/ procs'[t].p = p /\ Undoing(t)'
         \/ /\ \A d \in Dirs, a \in Aliases : Linked(p, d, a) => Linked(p, d, a)'
            /\ ~Undoing(t),
         states \in [Plugins -> States]
  PROVE  Known(p)'
<1>1. CASE ~Clean(p)'
  BY <1>1 DEF Known, Cuts, Covers, Kept
<1>2. CASE Clean(p)'
  <2>1. Clean(p)
    BY <1>2 DEF Clean, Grows
  <2>2. Cuts(p)'
    BY <2>1 DEF Known, Cuts
  <2>3. Covers(p)'
    <3> SUFFICES ASSUME NEW d \in Dirs, NEW n \in Names, Mine(p, d, n)'
                 PROVE  \/ InRecord(p, d, n)' \/ <<d, n>> \in lost'[p]
                        \/ \E u \in Terminals : procs'[u].p = p /\ Pending(u, d, n)'
      BY DEF Covers, Mine, InRecord, Pending, Exists, Recorded
    <3>1. CASE Mine(p, d, n) /\ ~Pending(t, d, n)
      <4>1. CASE InRecord(p, d, n)
        BY <4>1 DEF InRecord
      <4>2. CASE \E u \in Terminals : procs[u].p = p /\ Pending(u, d, n)
        BY <3>1, <4>2 DEF Pending, Recorded
      <4>3. QED BY <2>1, <3>1, <4>1, <4>2 DEF Known, Covers
    <3>2. QED BY <3>1
  <2>4. Kept(p)'
    <3> SUFFICES ASSUME states[p].kind = "ok", NEW a \in states[p].aliases, p \notin moved'
                 PROVE  \/ Linked(p, states[p].dir, a)'
                        \/ \E u \in Terminals : procs'[u].p = p /\ Undoing(u)'
      BY DEF Kept, Linked, Undoing
    <3>1. states[p].dir \in Dirs /\ a \in Aliases /\ p \notin moved
      BY StateTypes DEF Grows
    <3>2. CASE Linked(p, states[p].dir, a)
      BY <3>1, <3>2
    <3>3. CASE \E u \in Terminals : procs[u].p = p /\ Undoing(u)
      BY <3>3 DEF Undoing
    <3>4. QED BY <2>1, <3>1, <3>2, <3>3 DEF Known, Kept
  <2>5. QED BY <2>2, <2>3, <2>4 DEF Known
<1>3. QED BY <1>1, <1>2

\* A command at work has a plugin and a directory.
LEMMA AtWorkOn ==
  ASSUME IInv, NEW t \in Terminals, Working(t)
  PROVE  /\ \E p \in Plugins : procs[t].p = p
         /\ \E d \in Dirs : procs[t].dir = d
         /\ procs[t] \in Proc
<1>1. procs[t] \in Proc /\ SoundProc(t)
  BY DEF IInv, WorldOK
<1>2. QED BY <1>1 DEF SoundProc, Proc

\* and copying into it. A temporary file that is not there was taken by a
\* second command.
LEMMA CopyOK ==
  ASSUME IInv, NEW t \in Terminals, Copy(t)
  PROVE  IInv'
<1> DEFINE c == procs[t]
           r == [c EXCEPT !.step = "rename"]
<1>0. c.step = "copy" /\ Working(t)
  BY DEF Copy, Working, Resting
<1>1. PICK p \in Plugins : c.p = p
  BY <1>0, AtWorkOn
<1>2. PICK d \in Dirs : c.dir = d
  BY <1>0, AtWorkOn
<1>3. PICK f \in {Binary(p, c.version)} \cup (IF p \in overlapped THEN {Torn(p)} ELSE {}) :
         IF parts[d][p] # Nothing
         THEN parts' = [parts EXCEPT ![d][p] = f] /\ UNCHANGED <<files, writer>>
         ELSE /\ UNCHANGED parts
              /\ IF files[d][p].kind \in {"binary", "torn"} THEN Put(t, d, p, f)
                 ELSE UNCHANGED <<files, writer>>
  BY <1>1, <1>2 DEF Copy
<1>4. /\ procs' = [procs EXCEPT ![t] = r]
      /\ UNCHANGED <<dirs, states, index, reserved, killed, lost, moved, overlapped, events>>
  BY DEF Copy, Run, Step, world
<1>5. c \in Proc /\ SoundProc(t) /\ SureProc(t) /\ "rename" \in Steps
  BY <1>0, AtWorkOn DEF IInv, Steps
<1>6. r \in Proc
  BY <1>5 DEF Proc
<1>7. /\ r.step = "rename" /\ r.version = c.version /\ r.p = p /\ r.dir = d
      /\ r.todo = c.todo /\ r.done = c.done /\ r.declared = c.declared /\ r.taken = c.taken
      /\ r.theirs = c.theirs /\ r.st = c.st
  BY <1>1, <1>2, <1>5 DEF Proc
<1> HIDE DEF r
<1>8. WorldOK' /\ procs'[t] = r /\ \A u \in Terminals : u # t => procs'[u] = procs[u]
  BY <1>4, <1>6, RunOK DEF IInv, WorldOK
<1>9. c.version \in 1..Latest /\ d \in dirs
  BY <1>0, <1>2, <1>5 DEF SoundProc
<1>10. f \in Programs(p) /\ f \in Contents
  BY <1>3, <1>9 DEF Programs, Contents
<1>11. SoundProc(t)'
  BY <1>0, <1>1, <1>2, <1>4, <1>5, <1>7, <1>8 DEF SoundProc
<1>12. Refused(t)'
  BY <1>7, <1>8 DEF Refused
<1>13. CASE parts[d][p] # Nothing
  <2>1. parts' = [parts EXCEPT ![d][p] = f] /\ UNCHANGED <<files, writer>>
    BY <1>3, <1>13
  <2>2. parts' \in [Dirs -> [Plugins -> Contents]]
    BY <1>10, <2>1, PartTypes DEF IInv
  <2>3. parts'[d][p] = f
    BY <1>10, <2>1, PartTypes DEF IInv
  <2>4. \A e \in Dirs, q \in Plugins : q # p => parts'[e][q] = parts[e][q]
    BY <1>10, <2>1, PartTypes DEF IInv
  <2>5. \A e \in Dirs : parts'[e][p] \in Programs(p)
    BY <1>10, <2>1, PartTypes DEF IInv
  <2>6. SureProc(t)'
    <3>1. KnowsRecord(t)'
      BY <1>0, <1>1, <1>4, <1>5, <1>7, <1>8 DEF SureProc, KnowsRecord, ReadState, Sole, Working, Resting
    <3>2. HasPart(t)'
      BY <1>3, <1>4, <1>7, <1>8, <2>3 DEF HasPart, Sole
    <3>3. QED BY <1>7, <1>8, <3>1, <3>2
          DEF SureProc, HasBinary, HasLinks, HasSettled, HasUnlinked, HasRemoved, WillRecord
  <2>7. QED BY <1>0, <1>1, <1>4, <1>6, <1>7, <1>11, <1>12, <2>1, <2>2, <2>4, <2>5, <2>6, EarlyOK DEF IInv, WorldOK
<1>14. CASE parts[d][p] = Nothing
  <2>1. p \in overlapped /\ p \in overlapped'
    BY <1>0, <1>1, <1>2, <1>4, <1>5, <1>14 DEF SureProc, HasPart, Sole
  <2>2. UNCHANGED parts /\ (Put(t, d, p, f) \/ UNCHANGED <<files, writer>>)
    BY <1>3, <1>14
  <2>3. SureProc(t)' /\ Known(p)' /\ NoTorn(p)'
    BY <1>7, <1>8, <2>1, OverlapOK
  <2>4. p \in Names /\ p \notin Aliases
    BY NamesApart
  <2>5. CASE Put(t, d, p, f)
    <3>1. files' = [files EXCEPT ![d][p] = f] /\ writer' = [writer EXCEPT ![d][p] = p]
      BY <1>1, <2>5 DEF Put
    <3>2. FilesOK'
      BY <1>4, <1>9, <1>10, <2>2, <2>4, <3>1, PutFrame DEF IInv, FilesOK
    <3>3. \A q \in Plugins : q # p => Apart(q)
      BY <1>4, <2>2, <2>4, <3>1, PutApart DEF IInv
    <3>4. QED BY <1>0, <1>1, <1>4, <1>7, <1>8, <1>11, <1>12, <2>3, <3>2, <3>3, Whole DEF Grows
  <2>6. CASE UNCHANGED <<files, writer>>
    <3>1. FilesOK'
      BY <1>4, <2>2, <2>6, FilesFrame DEF IInv
    <3>2. \A q \in Plugins : q # p => Apart(q)
      BY <1>4, <2>2, <2>6 DEF Apart, Untouched
    <3>3. QED BY <1>0, <1>1, <1>4, <1>7, <1>8, <1>11, <1>12, <2>3, <3>1, <3>2, Whole DEF Grows
  <2>7. QED BY <2>2, <2>5, <2>6
<1>15. QED BY <1>13, <1>14

\* The rename puts the whole binary in place.
LEMMA RenameOK ==
  ASSUME IInv, NEW t \in Terminals, Rename(t)
  PROVE  IInv'
<1> DEFINE c == procs[t]
           r == [c EXCEPT !.step = "link"]
<1>0. c.step = "rename" /\ Working(t)
  BY DEF Rename, Working, Resting
<1>1. PICK p \in Plugins : c.p = p
  BY <1>0, AtWorkOn
<1>2. PICK d \in Dirs : c.dir = d
  BY <1>0, AtWorkOn
<1>3. UNCHANGED <<dirs, states, index, reserved, killed, lost, moved, overlapped, events>>
  BY DEF Rename, world
<1>4. CASE parts[d][p] = Nothing
  <2>1. procs' = [procs EXCEPT ![t] = Idle] /\ UNCHANGED <<files, parts, writer>>
    BY <1>1, <1>2, <1>4 DEF Rename, Run
  <2>2. procs'[t].step = "idle"
    BY <2>1, IdleProc DEF IInv, WorldOK
  <2>3. QED BY <1>0, <1>1, <1>3, <2>1, <2>2, IdleProc, RestingOK, EarlyOK DEF IInv, FilesOK, WorldOK
<1>5. CASE parts[d][p] # Nothing
  <2>0. PICK f : f = parts[d][p]
    OBVIOUS
  <2>1. /\ procs' = [procs EXCEPT ![t] = r]
        /\ files' = [files EXCEPT ![d][p] = f] /\ writer' = [writer EXCEPT ![d][p] = p]
        /\ parts' = [parts EXCEPT ![d][p] = Nothing]
    BY <1>1, <1>2, <1>5, <2>0 DEF Rename, Run, Step, Put
  <2>2. c \in Proc /\ SoundProc(t) /\ SureProc(t) /\ "link" \in Steps
    BY <1>0, AtWorkOn DEF IInv, Steps
  <2>3. r \in Proc
    BY <2>2 DEF Proc
  <2>4. /\ r.step = "link" /\ r.version = c.version /\ r.p = p /\ r.dir = d
        /\ r.todo = c.todo /\ r.done = c.done /\ r.declared = c.declared /\ r.taken = c.taken
        /\ r.theirs = c.theirs /\ r.st = c.st
    BY <1>1, <1>2, <2>2 DEF Proc
  <2> HIDE DEF r
  <2>5. WorldOK' /\ procs'[t] = r /\ \A u \in Terminals : u # t => procs'[u] = procs[u]
    BY <1>3, <2>1, <2>3, RunOK DEF IInv, WorldOK
  <2>6. f \in Programs(p) /\ f \in Contents /\ Nothing \in Programs(p)
    BY <2>0 DEF IInv, FilesOK, Programs
  <2>7. p \in Names /\ p \notin Aliases
    BY NamesApart
  <2>8. d \in dirs /\ c.version \in 1..Latest /\ c.done = {} /\ (c.taken = {} => c.todo = c.declared)
    BY <1>0, <1>2, <2>2 DEF SoundProc
  <2>9. parts' \in [Dirs -> [Plugins -> Contents]]
    BY <2>1, <2>6, PartTypes DEF IInv
  <2>10. \A e \in Dirs, q \in Plugins : parts'[e][q] \in Programs(q)
    BY <2>1, <2>6, PartTypes DEF IInv
  <2>11. \A e \in Dirs, q \in Plugins : q # p => parts'[e][q] = parts[e][q]
    BY <2>1, <2>6, PartTypes DEF IInv
  <2>12. FilesOK'
    BY <1>3, <2>1, <2>6, <2>7, <2>8, <2>9, <2>10, PutFrame DEF IInv
  <2>13. \A q \in Plugins : q # p => Apart(q)
    BY <1>3, <2>1, <2>7, <2>11, PutApart DEF IInv
  <2>14. SoundProc(t)'
    BY <1>0, <1>1, <1>2, <1>3, <2>2, <2>4, <2>5, <2>8 DEF SoundProc
  <2>15. Refused(t)'
    BY <2>4, <2>5 DEF Refused
  <2>16. SureProc(t)' /\ Known(p)' /\ NoTorn(p)'
    <3>1. CASE p \in overlapped
      BY <1>3, <2>4, <2>5, <3>1, OverlapOK
    <3>2. CASE p \notin overlapped
      <4>1. Sole(t) /\ f = Binary(p, c.version)
        BY <1>0, <1>1, <1>2, <2>0, <2>2, <3>2 DEF Sole, SureProc, HasPart
      <4>2. files'[d][p] = f
        BY <2>1, <2>7 DEF IInv, FilesOK
      <4>3. \A e \in Dirs, n \in Names : e # d \/ n # p => files'[e][n] = files[e][n] /\ writer'[e][n] = writer[e][n]
        BY <2>1, <2>7 DEF IInv, FilesOK
      <4>4. KnowsRecord(t)'
        BY <1>0, <1>1, <1>3, <2>2, <2>4, <2>5, <4>1 DEF SureProc, KnowsRecord, ReadState
      <4>5. HasBinary(t)'
        BY <2>4, <2>5, <4>1, <4>2 DEF HasBinary
      <4>6. HasLinks(t)' /\ HasSettled(t)'
        BY <2>4, <2>5, <2>8 DEF HasLinks, HasSettled
      <4>7. SureProc(t)'
        BY <2>4, <2>5, <4>4, <4>5, <4>6 DEF SureProc, HasPart, HasUnlinked, HasRemoved, WillRecord
      <4>8. NoTorn(p)'
        <5>1. files'[d][p] # Torn(p)
          BY <4>1, <4>2, KindsApart
        <5>2. \A e \in Dirs : e # d => files'[e][p] = files[e][p]
          BY <2>7, <4>3
        <5>3. QED BY <1>3, <5>1, <5>2 DEF IInv, NoTorn
      <4>9. \A e \in Dirs, n \in Names : Mine(p, e, n)' =>
               \/ Mine(p, e, n) /\ ~Pending(t, e, n)
               \/ procs'[t].p = p /\ Pending(t, e, n)'
        <5> SUFFICES ASSUME NEW e \in Dirs, NEW n \in Names, Mine(p, e, n)', ~(e = d /\ n = p)
                     PROVE  Mine(p, e, n) /\ ~Pending(t, e, n)
          BY <2>4, <2>5 DEF Pending
        <5>1. Mine(p, e, n)
          BY <4>3 DEF Mine, Exists
        <5>2. QED BY <1>0, <5>1 DEF Pending
      <4>10. \A e \in Dirs, a \in Aliases : Linked(p, e, a) => Linked(p, e, a)'
        BY <2>7, <4>3, NamesApart DEF Linked
      <4>11. Known(p)'
        BY <1>0, <1>3, <2>5, <4>9, <4>10, KnownStep DEF IInv, WorldOK, Undoing, Grows
      <4>12. QED BY <4>7, <4>8, <4>11
    <3>3. QED BY <3>1, <3>2
  <2>17. QED BY <1>0, <1>1, <1>3, <2>4, <2>5, <2>12, <2>13, <2>14, <2>15, <2>16, Whole DEF Grows
<1>6. QED BY <1>4, <1>5

\* A name is the same file as the plugin's binary when it is a link to it.
LEMMA SameAsLink ==
  ASSUME FilesOK, NEW d \in Dirs, NEW a \in Aliases, NEW p \in Plugins, Exists(d, p)
  PROVE  Resolved(d, a) \cap Resolved(d, p) # {} <=> files[d][a] = Link(p)
<1>1. files[d][p] \in Programs(p) /\ files[d][a] \in Contents
  BY NamesApart DEF FilesOK
<1>2. files[d][p].kind # "link"
  BY <1>1 DEF Programs, Nothing, Torn, Binary, File
<1>3. Resolved(d, p) = {<<d, p>>}
  BY <1>2 DEF Resolved
<1>4. a # p
  BY NamesApart
<1>5. ASSUME Resolved(d, a) \cap Resolved(d, p) # {}
      PROVE  files[d][a] = Link(p)
  <2>1. <<d, p>> \in Resolved(d, a)
    BY <1>3, <1>5
  <2>2. files[d][a].kind = "link" /\ files[d][a].of = p
    BY <1>4, <2>1 DEF Resolved
  <2>3. QED BY <1>1, <2>2 DEF Contents, Nothing, Other, Link, Torn, Binary, File
<1>6. ASSUME files[d][a] = Link(p)
      PROVE  Resolved(d, a) \cap Resolved(d, p) # {}
  <2>1. files[d][a].kind = "link" /\ files[d][a].of = p
    BY <1>6 DEF Link, File
  <2>2. <<d, p>> \in Resolved(d, a)
    BY <2>1 DEF Resolved
  <2>3. QED BY <1>3, <2>2
<1>7. QED BY <1>5, <1>6

\* Dealing with an alias without writing a file: it is counted and fits, or it
\* is not the plugin's, or lost.
LEMMA QuietOK ==
  ASSUME IInv, NEW t \in Terminals, procs[t].step \in {"link", "ensure"},
         NEW p \in Plugins, procs[t].p = p, NEW d \in Dirs, procs[t].dir = d,
         NEW a \in Aliases, a \in procs[t].todo, NEW all, all \in {procs[t].done, procs[t].done \cup {a}},
         procs' = [procs EXCEPT ![t] = [procs[t] EXCEPT !.todo = @ \ {a}, !.done = all]],
         UNCHANGED <<files, writer, dirs, parts, states, index, reserved, killed, moved, overlapped, events>>,
         lost' \in {lost, [lost EXCEPT ![p] = @ \cup {<<d, a>>}]},
         a \in all => Fits(p, d, a),
         a \notin all /\ Mine(p, d, a) => <<d, a>> \in lost'[p]
  PROVE  IInv'
<1> DEFINE c == procs[t]
           r == [c EXCEPT !.todo = @ \ {a}, !.done = all]
<1>0. Working(t)
  BY DEF Working, Resting
<1>1. c \in Proc /\ SoundProc(t) /\ SureProc(t)
  BY <1>0, AtWorkOn DEF IInv
<1>2. c.done \subseteq Aliases /\ all \subseteq Aliases /\ c.declared \subseteq Aliases
  BY <1>1 DEF Proc
<1>3. r \in Proc
  BY <1>1, <1>2 DEF Proc
<1>4. /\ r.step = c.step /\ r.version = c.version /\ r.p = p /\ r.dir = d /\ r.declared = c.declared
      /\ r.taken = c.taken /\ r.theirs = c.theirs /\ r.st = c.st /\ r.todo = c.todo \ {a}
      /\ r.done = all
  BY <1>1 DEF Proc
<1>5. procs' = [procs EXCEPT ![t] = r]
  OBVIOUS
<1> HIDE DEF r
<1>6. a \in Names /\ <<d, a>> \in Dirs \X Names
  BY NamesApart
<1>7. /\ lost' \in [Plugins -> SUBSET (Dirs \X Names)]
      /\ lost[p] \subseteq lost'[p] /\ \A q \in Plugins : q # p => lost'[q] = lost[q]
  BY <1>6 DEF IInv, WorldOK
<1>8. WorldOK' /\ procs'[t] = r /\ \A u \in Terminals : u # t => procs'[u] = procs[u]
  BY <1>3, <1>5, <1>7, RunOK DEF IInv, WorldOK
<1>9. FilesOK' /\ \A q \in Plugins : q # p => Apart(q)
  BY <1>7, FilesFrame DEF IInv, Apart, Untouched
<1>10. c.taken = {} /\ c.todo \cap c.done = {}
  BY <1>1 DEF SoundProc
<1>11. SoundProc(t)'
  BY <1>0, <1>1, <1>4, <1>8, <1>10 DEF SoundProc, Working
<1>12. Refused(t)'
  BY <1>4, <1>8 DEF Refused
<1>13. SureProc(t)' /\ Known(p)' /\ NoTorn(p)'
  <2>1. CASE p \in overlapped
    BY <1>4, <1>8, <2>1, OverlapOK
  <2>2. CASE p \notin overlapped
    <3>1. Sole(t)
      BY <1>0, <2>2 DEF Sole
    <3>2. KnowsRecord(t)'
      BY <1>1, <1>4, <1>8, <3>1 DEF SureProc, KnowsRecord, ReadState
    <3>3. HasBinary(t)'
      BY <1>1, <1>4, <1>8, <3>1 DEF SureProc, HasBinary
    <3>4. HasLinks(t)'
      <4> SUFFICES ASSUME NEW b \in all PROVE Fits(p, d, b)
        BY <1>4, <1>8 DEF HasLinks, Fits
      <4>1. CASE b \in c.done
        BY <1>1, <3>1, <4>1 DEF SureProc, HasLinks
      <4>2. QED BY <4>1
    <3>5. HasSettled(t)'
      <4> SUFFICES ASSUME NEW b \in c.declared, b \notin c.todo \ {a}, b \notin all, Mine(p, d, b)
                   PROVE  <<d, b>> \in lost'[p]
        BY <1>4, <1>8 DEF HasSettled, Mine, Exists
      <4>1. CASE b = a
        BY <4>1
      <4>2. CASE b # a
        BY <1>1, <1>7, <1>10, <3>1, <4>2 DEF SureProc, HasSettled
      <4>3. QED BY <4>1, <4>2
    <3>6. SureProc(t)'
      BY <1>4, <1>8, <3>2, <3>3, <3>4, <3>5 DEF SureProc, HasPart, HasUnlinked, HasRemoved, WillRecord
    <3>7. NoTorn(p)'
      BY DEF IInv, NoTorn
    <3>8. ASSUME NEW e \in Dirs, NEW n \in Names, Mine(p, e, n)'
          PROVE  \/ Mine(p, e, n) /\ ~Pending(t, e, n)
                 \/ procs'[t].p = p /\ Pending(t, e, n)'
      <4>1. Mine(p, e, n)
        BY <3>8 DEF Mine, Exists
      <4>2. Pending(t, e, n) => procs'[t].p = p /\ Pending(t, e, n)'
        BY <1>4, <1>8 DEF Pending
      <4>3. QED BY <4>1, <4>2
    <3>9. \/ procs'[t].p = p /\ Undoing(t)'
          \/ ~Undoing(t) /\ \A e \in Dirs, b \in Aliases : Linked(p, e, b) => Linked(p, e, b)'
      BY <1>4, <1>8, <1>10 DEF Undoing, Linked
    <3>10. Known(p)'
      BY <1>7, <1>8, <3>8, <3>9, KnownStep DEF IInv, WorldOK, Grows
    <3>11. QED BY <3>6, <3>7, <3>10
  <2>3. QED BY <2>1, <2>2
<1>14. Working(t)' => procs'[t].p = p
  BY <1>4, <1>8
<1>15. QED BY <1>0, <1>8, <1>9, <1>11, <1>12, <1>13, <1>14, Whole DEF Grows

\* Writing an alias: it is there and counted, or it is neither.
LEMMA PutAliasOK ==
  ASSUME IInv, NEW t \in Terminals, procs[t].step \in {"link", "ensure"},
         NEW p \in Plugins, procs[t].p = p, NEW d \in dirs, procs[t].dir = d,
         NEW a \in Aliases, a \in procs[t].todo, NEW f \in Made(d, p) \cup {Nothing}, NEW all,
         \/ f \in Made(d, p) /\ all = procs[t].done \cup {a}
         \/ f = Nothing /\ all = procs[t].done /\ procs[t].step = "link",
         procs' = [procs EXCEPT ![t] = [procs[t] EXCEPT !.todo = @ \ {a}, !.done = all]],
         Put(t, d, a, f),
         UNCHANGED <<dirs, parts, states, index, reserved, killed, lost, moved, overlapped, events>>
  PROVE  IInv'
<1> DEFINE c == procs[t]
           r == [c EXCEPT !.todo = @ \ {a}, !.done = all]
<1>0. Working(t) /\ d \in Dirs
  BY DEF Working, Resting, IInv, WorldOK
<1>1. c \in Proc /\ SoundProc(t) /\ SureProc(t)
  BY <1>0, AtWorkOn DEF IInv
<1>2. c.done \subseteq Aliases /\ all \subseteq Aliases /\ c.declared \subseteq Aliases
  BY <1>1 DEF Proc
<1>3. r \in Proc
  BY <1>1, <1>2 DEF Proc
<1>4. /\ r.step = c.step /\ r.version = c.version /\ r.p = p /\ r.dir = d /\ r.declared = c.declared
      /\ r.taken = c.taken /\ r.theirs = c.theirs /\ r.st = c.st /\ r.todo = c.todo \ {a}
      /\ r.done = all
  BY <1>1 DEF Proc
<1>5. /\ procs' = [procs EXCEPT ![t] = r]
      /\ files' = [files EXCEPT ![d][a] = f] /\ writer' = [writer EXCEPT ![d][a] = p]
  BY DEF Put
<1> HIDE DEF r
<1>6. WorldOK' /\ procs'[t] = r /\ \A u \in Terminals : u # t => procs'[u] = procs[u]
  BY <1>3, <1>5, RunOK DEF IInv, WorldOK
<1>7. a \in Names /\ a \notin Plugins /\ p \in Names /\ p \notin Aliases
  BY NamesApart
<1>8. c.taken = {} /\ c.todo \cap c.done = {}
  BY <1>1 DEF SoundProc
<1>9. /\ files'[d][a] = f /\ writer'[d][a] = p
      /\ \A e \in Dirs, m \in Names : e # d \/ m # a => files'[e][m] = files[e][m] /\ writer'[e][m] = writer[e][m]
  <2>1. files'[d][a] = f /\ writer'[d][a] = p
    BY <1>0, <1>5, <1>7 DEF IInv, FilesOK
  <2>2. \A e \in Dirs, m \in Names : e # d \/ m # a => files'[e][m] = files[e][m] /\ writer'[e][m] = writer[e][m]
    BY <1>5, <1>7 DEF IInv, FilesOK
  <2>3. QED BY <2>1, <2>2
<1>10. f \in {Nothing} \cup Forms(p) /\ (f \in Made(d, p) => f # Nothing /\ f \in {Link(p), files[d][p]})
  BY ProgramForms, FormsApart DEF Made
<1>11. FilesOK'
  <2>1. f \in Contents
    BY <1>10, FormsApart
  <2>2. /\ parts' \in [Dirs -> [Plugins -> Contents]]
        /\ \A e \in Dirs, q \in Plugins : parts'[e][q] \in Programs(q)
    BY DEF IInv, FilesOK
  <2>3. \A q \in Plugins : f \in Own(q) => p = q
    BY <1>10, FormsApart
  <2>4. FilesOK /\ p \in Plugins \cup {Nobody} /\ dirs' = dirs /\ f \in {Nothing} \cup Forms(p)
    BY <1>10 DEF IInv
  <2>5. /\ d \in Dirs /\ a \in Names /\ dirs \subseteq dirs' /\ d \in dirs' /\ (a \notin Plugins)
        /\ files' = [files EXCEPT ![d][a] = f] /\ writer' = [writer EXCEPT ![d][a] = p]
    BY <1>0, <1>5, <1>7
  <2> HIDE DEF c
  <2>6. QED BY ONLY <2>1, <2>2, <2>3, <2>4, <2>5, PutFrame
<1>12. \A q \in Plugins : q # p => Apart(q)
  BY <1>0, <1>5, <1>7, PutApart DEF IInv
<1>13. SoundProc(t)'
  BY <1>0, <1>1, <1>4, <1>6, <1>8 DEF SoundProc, Working
<1>14. Refused(t)'
  BY <1>4, <1>6 DEF Refused
<1>15. SureProc(t)' /\ Known(p)' /\ NoTorn(p)'
  <2>1. CASE p \in overlapped
    BY <1>4, <1>6, <2>1, OverlapOK
  <2>2. CASE p \notin overlapped
    <3>1. Sole(t)
      BY <1>0, <2>2 DEF Sole
    <3>2. KnowsRecord(t)'
      BY <1>1, <1>4, <1>6, <3>1 DEF SureProc, KnowsRecord, ReadState
    <3>3. files'[d][p] = files[d][p]
      BY <1>0, <1>7, <1>9
    <3>4. HasBinary(t)'
      BY <1>1, <1>4, <1>6, <3>1, <3>3 DEF SureProc, HasBinary
    <3>5. HasLinks(t)'
      <4> SUFFICES ASSUME NEW b \in all PROVE Fits(p, d, b)'
        BY <1>4, <1>6 DEF HasLinks, Fits
      <4>1. CASE b = a
        BY <1>8, <1>9, <1>10, <3>3, <4>1 DEF Fits
      <4>2. CASE b # a
        <5>1. b \in c.done /\ b \in Names
          BY <1>2, <4>2, NamesApart
        <5>2. Fits(p, d, b)
          BY <1>1, <3>1, <5>1 DEF SureProc, HasLinks
        <5>3. QED BY <1>0, <1>9, <3>3, <4>2, <5>1, <5>2 DEF Fits
      <4>3. QED BY <4>1, <4>2
    <3>6. HasSettled(t)'
      <4> SUFFICES ASSUME NEW b \in c.declared, b \notin c.todo \ {a}, b \notin all, Mine(p, d, b)'
                   PROVE  <<d, b>> \in lost[p]
        BY <1>4, <1>6 DEF HasSettled, Mine, Exists
      <4>1. b # a
        BY <1>9 DEF Mine, Exists
      <4>2. b \in c.declared \ (c.todo \cup c.done) /\ b \in Names
        BY <1>2, <4>1, NamesApart
      <4>3. Mine(p, d, b)
        BY <1>0, <1>9, <4>1, <4>2 DEF Mine, Exists
      <4>4. QED BY <1>1, <1>8, <3>1, <4>2, <4>3 DEF SureProc, HasSettled
    <3>7. SureProc(t)'
      BY <1>4, <1>6, <3>2, <3>4, <3>5, <3>6 DEF SureProc, HasPart, HasUnlinked, HasRemoved, WillRecord
    <3>8. NoTorn(p)'
      BY <1>7, <1>9 DEF IInv, NoTorn
    <3>9. \A e \in Dirs, n \in Names : Mine(p, e, n)' =>
             \/ Mine(p, e, n) /\ ~Pending(t, e, n)
             \/ procs'[t].p = p /\ Pending(t, e, n)'
      <4> SUFFICES ASSUME NEW e \in Dirs, NEW n \in Names, Mine(p, e, n)', ~Pending(t, e, n)'
                   PROVE  Mine(p, e, n) /\ ~Pending(t, e, n)
        BY <1>4, <1>6
      <4>1. ~Pending(t, e, n)
        BY <1>4, <1>6 DEF Pending
      <4>2. ~(e = d /\ n = a)
        BY <1>4, <1>6, <1>9 DEF Pending, Mine, Exists
      <4>3. QED BY <1>9, <4>1, <4>2 DEF Mine, Exists
    <3>10. CASE c.step = "link"
      <4>1. procs'[t].p = p /\ Undoing(t)'
        BY <1>4, <1>6, <1>8, <3>10 DEF Undoing
      <4>2. Known(p)'
        BY <1>6, <3>9, <4>1, KnownStep DEF IInv, WorldOK, Grows
      <4>3. QED BY <3>7, <3>8, <4>2
    <3>11. CASE c.step = "ensure"
      <4>1. f # Nothing /\ f # Torn(p)
        <5>1. files[d][p] # Torn(p)
          BY <1>0, <2>2 DEF IInv, NoTorn
        <5>2. QED BY <1>10, <3>11, <5>1, KindsApart
      <4>2. ~Undoing(t) /\ \A e \in Dirs, b \in Aliases : Linked(p, e, b) => Linked(p, e, b)'
        BY <1>9, <3>11, <4>1, NamesApart DEF Undoing, Linked
      <4>3. Known(p)'
        BY <1>6, <3>9, <4>2, KnownStep DEF IInv, WorldOK, Grows
      <4>4. QED BY <3>7, <3>8, <4>3
    <3>12. QED BY <3>10, <3>11
  <2>3. QED BY <2>1, <2>2
<1>16. Working(t)' => procs'[t].p = p
  BY <1>4, <1>6
<1>17. QED BY <1>0, <1>6, <1>11, <1>12, <1>13, <1>14, <1>15, <1>16, Whole DEF Grows

\* An install makes the alias, or a name free, or leaves what it cannot remove.
LEMMA LinkAliasOK ==
  ASSUME IInv, NEW t \in Terminals, NEW a \in Aliases, LinkAlias(t, a)
  PROVE  IInv'
<1> DEFINE c == procs[t]
<1>0. c.step = "link" /\ Working(t) /\ a \in c.todo
  BY DEF LinkAlias, Working, Resting
<1>1. PICK p \in Plugins : c.p = p
  BY <1>0, AtWorkOn
<1>2. PICK d \in Dirs : c.dir = d
  BY <1>0, AtWorkOn
<1>3. c \in Proc /\ d \in dirs /\ a \notin c.done
  BY <1>0, <1>2, AtWorkOn DEF IInv, SoundProc
<1>4. UNCHANGED <<dirs, parts, states, index, reserved, killed, moved, overlapped, events>>
  BY DEF LinkAlias, world
<1>5. [c EXCEPT !.todo = @ \ {a}, !.done = @ \cup {a}] = [c EXCEPT !.todo = @ \ {a}, !.done = c.done \cup {a}]
  OBVIOUS
<1>6. [c EXCEPT !.todo = @ \ {a}] = [c EXCEPT !.todo = @ \ {a}, !.done = c.done]
  BY <1>3 DEF Proc
<1>7. ASSUME NEW f \in Made(d, p), Put(t, d, a, f), UNCHANGED lost,
             Run(t, [c EXCEPT !.todo = @ \ {a}, !.done = @ \cup {a}])
      PROVE  IInv'
  <2>1. procs' = [procs EXCEPT ![t] = [c EXCEPT !.todo = @ \ {a}, !.done = c.done \cup {a}]]
    BY <1>5, <1>7 DEF Run
  <2>2. QED BY <1>0, <1>1, <1>2, <1>3, <1>4, <1>7, <2>1, PutAliasOK
<1>8. ASSUME Put(t, d, a, Nothing), UNCHANGED lost, Run(t, [c EXCEPT !.todo = @ \ {a}])
      PROVE  IInv'
  <2>1. procs' = [procs EXCEPT ![t] = [c EXCEPT !.todo = @ \ {a}, !.done = c.done]]
    BY <1>6, <1>8 DEF Run
  <2>2. QED BY <1>0, <1>1, <1>2, <1>3, <1>4, <1>8, <2>1, PutAliasOK
<1>9. ASSUME Run(t, [c EXCEPT !.todo = @ \ {a}]), UNCHANGED <<files, writer>>,
             lost' = [lost EXCEPT ![p] = @ \cup {<<d, a>>}]
      PROVE  IInv'
  <2>1. procs' = [procs EXCEPT ![t] = [c EXCEPT !.todo = @ \ {a}, !.done = c.done]]
    BY <1>6, <1>9 DEF Run
  <2>2. <<d, a>> \in lost'[p]
    BY <1>9 DEF IInv, WorldOK
  <2>3. QED BY <1>0, <1>1, <1>2, <1>3, <1>4, <1>9, <2>1, <2>2, QuietOK
<1>10. QED BY <1>1, <1>2, <1>7, <1>8, <1>9 DEF LinkAlias

\* Ensuring one fails,
LEMMA EnsureFailsOK ==
  ASSUME IInv, NEW t \in Terminals, NEW a \in Aliases, EnsureFails(t, a)
  PROVE  IInv'
<1> DEFINE c == procs[t]
<1>0. c.step = "ensure" /\ Working(t) /\ a \in c.todo /\ ~Exists(c.dir, a)
  BY DEF EnsureFails, Working, Resting
<1>1. PICK p \in Plugins : c.p = p
  BY <1>0, AtWorkOn
<1>2. PICK d \in Dirs : c.dir = d
  BY <1>0, AtWorkOn
<1>3. c \in Proc /\ a \notin c.done /\ ~Mine(p, d, a)
  BY <1>0, <1>2, AtWorkOn DEF IInv, SoundProc, Mine
<1>4. [c EXCEPT !.todo = @ \ {a}] = [c EXCEPT !.todo = @ \ {a}, !.done = c.done]
  BY <1>3 DEF Proc
<1>5. /\ procs' = [procs EXCEPT ![t] = [c EXCEPT !.todo = @ \ {a}, !.done = c.done]]
      /\ UNCHANGED <<files, writer, dirs, parts, states, index, reserved, killed, lost, moved, overlapped, events>>
  BY <1>4 DEF EnsureFails, world, history, Run
<1>6. QED BY <1>0, <1>1, <1>2, <1>3, <1>5, QuietOK

\* makes what is missing,
LEMMA EnsureMadeOK ==
  ASSUME IInv, NEW t \in Terminals, NEW a \in Aliases, EnsureMade(t, a)
  PROVE  IInv'
<1> DEFINE c == procs[t]
<1>0. c.step = "ensure" /\ Working(t) /\ a \in c.todo
  BY DEF EnsureMade, Working, Resting
<1>1. PICK p \in Plugins : c.p = p
  BY <1>0, AtWorkOn
<1>2. PICK d \in dirs : c.dir = d
  BY DEF EnsureMade
<1>3. PICK f \in Made(d, p) : Put(t, d, a, f)
  BY <1>1, <1>2 DEF EnsureMade
<1>4. [c EXCEPT !.todo = @ \ {a}, !.done = @ \cup {a}] = [c EXCEPT !.todo = @ \ {a}, !.done = c.done \cup {a}]
  OBVIOUS
<1>5. /\ procs' = [procs EXCEPT ![t] = [c EXCEPT !.todo = @ \ {a}, !.done = c.done \cup {a}]]
      /\ UNCHANGED <<dirs, parts, states, index, reserved, killed, lost, moved, overlapped, events>>
  BY <1>4 DEF EnsureMade, world, Run
<1>6. QED BY <1>0, <1>1, <1>2, <1>3, <1>5, PutAliasOK

\* or counts what is a link already, and overlooks what is a copy.
LEMMA EnsureAliasOK ==
  ASSUME IInv, NEW t \in Terminals, NEW a \in Aliases, EnsureAlias(t, a)
  PROVE  IInv'
<1> DEFINE c == procs[t]
           mine == resolvesTo(c.dir, a, c.p)
           all == IF mine THEN c.done \cup {a} ELSE c.done
           overlooked == files[c.dir][a] \in Copies(c.p) \/ ~Exists(c.dir, c.p)
<1>0. c.step = "ensure" /\ Working(t) /\ a \in c.todo
  BY DEF EnsureAlias, Working, Resting
<1>1. PICK p \in Plugins : c.p = p
  BY <1>0, AtWorkOn
<1>2. PICK d \in Dirs : c.dir = d
  BY <1>0, AtWorkOn
<1>3. c \in Proc /\ a \notin c.done
  BY <1>0, AtWorkOn DEF IInv, SoundProc
<1>4. /\ procs' = [procs EXCEPT ![t] = [c EXCEPT !.todo = @ \ {a}, !.done = all]]
      /\ UNCHANGED <<files, writer, dirs, parts, states, index, reserved, killed, moved, overlapped, events>>
      /\ lost' = IF overlooked THEN [lost EXCEPT ![p] = @ \cup {<<d, a>>}] ELSE lost
  BY <1>1, <1>2 DEF EnsureAlias, world, Run
<1>5. a \in all <=> mine
  BY <1>3
<1>6. mine => files[d][a] = Link(p)
  BY <1>1, <1>2, SameAsLink DEF resolvesTo, IInv
<1>7. ~mine /\ Mine(p, d, a) => overlooked
  <2>1. Mine(p, d, a) => files[d][a] \in Forms(p)
    BY DEF IInv, FilesOK, Mine, Exists
  <2>2. ~mine => ~Exists(d, p) \/ files[d][a] # Link(p)
    BY <1>1, <1>2, SameAsLink DEF resolvesTo, IInv
  <2>3. QED BY <1>1, <1>2, <2>1, <2>2, FormsApart
<1>8. overlooked => <<d, a>> \in lost'[p]
  BY <1>4 DEF IInv, WorldOK
<1>9. a \in all => Fits(p, d, a)
  BY <1>5, <1>6, KindsApart DEF Fits
<1>10. a \notin all /\ Mine(p, d, a) => <<d, a>> \in lost'[p]
  BY <1>5, <1>7, <1>8
<1>11. all \in {c.done, c.done \cup {a}} /\ lost' \in {lost, [lost EXCEPT ![p] = @ \cup {<<d, a>>}]}
  BY <1>4
<1> HIDE DEF all, mine, overlooked
<1>12. QED BY <1>0, <1>1, <1>2, <1>3, <1>4, <1>9, <1>10, <1>11, QuietOK

\* A command that is alone on its plugin is the only one that can have work
\* pending.
LEMMA Only ==
  ASSUME IInv, NEW t \in Terminals, Sole(t), NEW u \in Terminals, procs[u].p = procs[t].p, Working(u)
  PROVE  u = t
BY DEF IInv, Alone, Sole

\* Truncating the record: what the old one had is in the new one, or is gone,
\* or lost.
LEMMA TruncateOK ==
  ASSUME IInv, NEW t \in Terminals, Truncate(t)
  PROVE  IInv'
<1> DEFINE c == procs[t]
           r == [c EXCEPT !.step = "write"]
<1>0. c.step \in {"link", "ensure"} /\ Working(t) /\ c.todo = {}
  BY DEF Truncate, Working, Resting
<1>1. PICK p \in Plugins : c.p = p
  BY <1>0, AtWorkOn
<1>2. PICK d \in Dirs : c.dir = d
  BY <1>0, AtWorkOn
<1>3. UNCHANGED <<files, dirs, parts, index, reserved, writer, killed, overlapped, events>>
  BY DEF Truncate, world
<1>4. c \in Proc /\ SoundProc(t) /\ SureProc(t)
  BY <1>0, AtWorkOn DEF IInv
<1>5. p \in Names /\ p \notin Aliases
  BY NamesApart
<1>6. FilesOK'
  BY <1>3, FilesFrame DEF IInv
<1>7. states[p] \in States /\ CutState \in States
  BY DEF IInv, WorldOK, States
<1>8. NoTorn(p)'
  BY <1>3 DEF IInv, NoTorn
<1>9. ASSUME Sole(t)
      PROVE  /\ c.st = ReadState(p)
             /\ states[p].kind = "ok" => c.st = states[p]
             /\ c.st.kind = "ok" => states[p].kind = "ok" /\ c.st = states[p]
  BY <1>0, <1>1, <1>4, <1>9, ReadStateOK DEF IInv, SureProc, KnowsRecord
<1>10. CASE c.step = "ensure" /\ c.done = c.st.aliases
  <2>1. procs' = [procs EXCEPT ![t] = Idle] /\ UNCHANGED <<states, lost, moved>>
    BY <1>10 DEF Truncate, Run
  <2>2. WorldOK' /\ procs'[t] = Idle /\ \A u \in Terminals : u # t => procs'[u] = procs[u]
    BY <1>3, <2>1, IdleProc, RunOK DEF IInv, WorldOK
  <2>3. procs'[t].step = "idle"
    BY <2>2, IdleProc
  <2>4. \A q \in Plugins : q # p => Apart(q)
    BY <1>3, <2>1 DEF Apart, Untouched
  <2>5. Known(p)'
    <3>1. CASE p \in overlapped
      BY <1>3, <3>1 DEF Known, Cuts, Covers, Kept, Clean
    <3>2. CASE p \notin overlapped
      <4>1. Sole(t) /\ c.st.kind = "ok" /\ c.dir = c.st.dir /\ c.st = states[p]
        BY <1>0, <1>1, <1>4, <1>9, <1>10, <3>2 DEF Sole, SoundProc
      <4>2. \A e \in Dirs, n \in Names : Mine(p, e, n)' =>
               \/ Mine(p, e, n) /\ ~Pending(t, e, n)
               \/ InRecord(p, e, n)'
        BY <1>1, <1>3, <1>10, <2>1, <4>1 DEF Mine, Exists, Pending, InRecord
      <4>3. ~Undoing(t) /\ \A e \in Dirs, b \in Aliases : Linked(p, e, b) => Linked(p, e, b)'
        BY <1>3, <1>10 DEF Undoing, Linked
      <4>4. QED BY <1>3, <1>10, <2>1, <2>2, <4>2, <4>3, KnownStep DEF IInv, WorldOK, Grows
    <3>3. QED BY <3>1, <3>2
  <2>6. ~Working(t)'
    BY <2>3 DEF Working, Resting
  <2>7. QED BY <1>0, <1>1, <1>3, <1>6, <1>8, <2>1, <2>2, <2>3, <2>4, <2>5, <2>6, RestingOK, Whole DEF Grows
<1>11. CASE ~(c.step = "ensure" /\ c.done = c.st.aliases)
  <2>1. /\ states' = [states EXCEPT ![p] = CutState]
        /\ lost' = [lost EXCEPT ![p] = (@ \ ({d} \X ({p} \cup Recorded(c)))) \cup Drops(c, states[p])]
        /\ moved' = IF c.taken # {} /\ c.st.dir # d THEN moved \cup {p} ELSE moved
        /\ procs' = [procs EXCEPT ![t] = r]
    BY <1>1, <1>2, <1>11 DEF Truncate, Run, Step
  <2>2. r \in Proc
    BY <1>4 DEF Proc, Steps
  <2>3. /\ r.step = "write" /\ r.version = c.version /\ r.p = p /\ r.dir = d /\ r.declared = c.declared
        /\ r.taken = c.taken /\ r.theirs = c.theirs /\ r.st = c.st /\ r.todo = c.todo
        /\ r.done = c.done
    BY <1>0, <1>1, <1>2, <1>4 DEF Proc
  <2> HIDE DEF r
  <2>4. /\ states' \in [Plugins -> States] /\ lost' \in [Plugins -> SUBSET (Dirs \X Names)]
        /\ lost'[p] = (lost[p] \ ({d} \X ({p} \cup Recorded(c)))) \cup Drops(c, states[p])
        /\ \A q \in Plugins : q # p => lost'[q] = lost[q]
    <3>1. Drops(c, states[p]) \subseteq Dirs \X Names
      <4>1. states[p].kind = "ok" => states[p].dir \in Dirs /\ states[p].aliases \subseteq Names
        BY <1>7, StateTypes, NamesApart
      <4>2. QED BY <1>1, <1>2, <1>5, <4>1 DEF Drops
    <3>2. lost \in [Plugins -> SUBSET (Dirs \X Names)]
      BY DEF IInv, WorldOK
    <3> DEFINE new == (lost[p] \ ({d} \X ({p} \cup Recorded(c)))) \cup Drops(c, states[p])
    <3>3. new \in SUBSET (Dirs \X Names) /\ lost' = [lost EXCEPT ![p] = new]
      BY <2>1, <3>1, <3>2
    <3> HIDE DEF new
    <3>4. lost' \in [Plugins -> SUBSET (Dirs \X Names)] /\ lost'[p] = new /\ \A q \in Plugins : q # p => lost'[q] = lost[q]
      BY <3>2, <3>3
    <3>5. states' \in [Plugins -> States]
      BY <1>7, <2>1 DEF IInv, WorldOK
    <3>6. QED BY <3>4, <3>5 DEF new
  <2>0. moved' \subseteq Plugins /\ moved \subseteq moved'
    BY <2>1 DEF IInv, WorldOK
  <2>5. WorldOK' /\ procs'[t] = r /\ \A u \in Terminals : u # t => procs'[u] = procs[u]
    BY <1>3, <2>0, <2>1, <2>2, <2>4, RunOK DEF IInv, WorldOK
  <2>6. states'[p] = CutState /\ \A q \in Plugins : q # p => states'[q] = states[q]
    BY <2>1 DEF IInv, WorldOK
  <2>7. \A q \in Plugins : q # p => Apart(q)
    BY <1>3, <2>4, <2>6 DEF Apart, Untouched
  <2>8. SoundProc(t)'
    BY <1>0, <1>1, <1>2, <1>4, <2>3, <2>5 DEF SoundProc, Working, Resting
  <2>9. Refused(t)'
    BY <2>3, <2>5 DEF Refused
  <2>10. Recorded(r) = Recorded(c)
    BY <2>3 DEF Recorded
  <2>11. SureProc(t)' /\ Known(p)'
    <3>1. CASE p \in overlapped
      BY <1>3, <2>3, <2>5, <3>1, OverlapOK
    <3>2. CASE p \notin overlapped
      <4>1. Sole(t)
        BY <1>0, <1>1, <3>2 DEF Sole
      <4>2. p \notin killed => Clean(p)
        BY <3>2 DEF Clean
      <4>3. \A u \in Terminals : procs[u].p = p /\ Working(u) => u = t
        BY <1>1, <4>1, Only
      <4>4. KnowsRecord(t)'
        BY <2>3, <2>5, <2>6 DEF KnowsRecord
      <4>5. HasBinary(t)'
        BY <1>0, <1>1, <1>2, <1>3, <1>4, <2>3, <2>5, <4>1 DEF SureProc, HasBinary
      <4>6. WillRecord(t)'
        <5>1. ASSUME c.taken = {}, NEW b \in Recorded(c)
              PROVE  Fits(p, d, b)
          BY <1>0, <1>1, <1>2, <1>4, <4>1, <5>1 DEF SureProc, HasLinks, Recorded
        <5>2. ASSUME p \notin killed, p \notin moved', NEW b \in Recorded(c)
              PROVE  Linked(p, d, b)
          <6>1. CASE c.taken = {}
            <7>1. files[d][p] # Torn(p)
              BY <3>2 DEF IInv, NoTorn
            <7>2. Fits(p, d, b)
              BY <5>1, <6>1
            <7>3. QED BY <7>1, <7>2, KindsApart DEF Fits, Linked
          <6>2. CASE c.taken # {}
            <7>1. b \in c.st.aliases /\ c.step = "link"
              BY <1>0, <1>4, <6>2 DEF Recorded, SoundProc
            <7>2. states[p].kind = "ok" /\ c.st = states[p]
              <8>1. c.st.kind \in {"none", "ok"} /\ (c.st.kind = "none" => c.st.aliases = {})
                BY <1>9, <4>1, ReadStateOK DEF IInv
              <8>2. QED BY <1>9, <4>1, <7>1, <8>1
            <7>3. ~\E u \in Terminals : procs[u].p = p /\ Undoing(u)
              BY <4>3, <6>2, <7>1 DEF Undoing, Working, Resting
            <7>4. c.st.dir = d /\ p \notin moved
              BY <2>0, <2>1, <5>2, <6>2
            <7>5. QED BY <4>2, <5>2, <7>1, <7>2, <7>3, <7>4 DEF IInv, Known, Kept
          <6>3. QED BY <6>1, <6>2
        <5>3. procs'[t].step = "write" /\ procs'[t].p = p /\ procs'[t].dir = d /\ procs'[t].taken = c.taken
              /\ procs'[t].st = c.st /\ Recorded(procs'[t]) = Recorded(c)
          BY <2>3, <2>5, <2>10
        <5>4. \A b : (Fits(p, d, b) => Fits(p, d, b)') /\ (Linked(p, d, b) => Linked(p, d, b)')
          BY <1>3 DEF Fits, Linked
        <5>5. QED BY <1>2, <1>3, <5>1, <5>2, <5>3, <5>4 DEF WillRecord, Fits, Linked
      <4>7. SureProc(t)'
        BY <2>3, <2>5, <4>4, <4>5, <4>6 DEF SureProc, HasPart, HasLinks, HasSettled, HasUnlinked, HasRemoved
      <4>8. Cuts(p)'
        BY <2>3, <2>5 DEF Cuts
      <4>9. Kept(p)'
        BY <2>6 DEF Kept, CutState, State, NoState
      <4>10. Covers(p)'
        <5> SUFFICES ASSUME p \notin killed, NEW e \in Dirs, NEW n \in Names, Mine(p, e, n)
                     PROVE  <<e, n>> \in lost'[p] \/ (procs'[t].p = p /\ Pending(t, e, n)')
          BY <1>3 DEF Covers, Clean, Mine, Exists, InRecord, Pending, Recorded
        <5>0. procs'[t].p = p /\ (e = d /\ (n = p \/ n \in Recorded(c)) => Pending(t, e, n)')
          BY <2>3, <2>5, <2>10 DEF Pending
        <5>1. SUFFICES ASSUME ~(e = d /\ (n = p \/ n \in Recorded(c)))
                       PROVE  <<e, n>> \in lost'[p]
          BY <5>0
        <5>2. CASE InRecord(p, e, n)
          <6>1. states[p].kind = "ok" /\ c.st = states[p] /\ e = states[p].dir /\ (n = p \/ n \in states[p].aliases)
            BY <1>9, <4>1, <5>2 DEF InRecord
          <6>2. CASE e # d
            BY <1>1, <1>2, <2>4, <6>1, <6>2 DEF Drops
          <6>3. CASE e = d
            <7>1. n \in states[p].aliases /\ n \notin Recorded(c)
              BY <5>1, <6>1, <6>3
            <7>2. n \in c.declared => <<e, n>> \in lost[p]
              <8>1. c.taken = {} => n \notin c.done
                BY <7>1 DEF Recorded
              <8>2. c.taken = {}
                BY <6>1, <7>1 DEF Recorded
              <8>3. QED BY <1>0, <1>1, <1>2, <1>4, <4>1, <6>3, <8>1, <8>2 DEF SureProc, HasSettled
            <7>3. n \notin c.declared => <<e, n>> \in Drops(c, states[p])
              BY <1>2, <6>1, <6>3, <7>1 DEF Drops
            <7>4. QED BY <2>4, <5>1, <7>2, <7>3
          <6>4. QED BY <6>2, <6>3
        <5>3. CASE \E u \in Terminals : procs[u].p = p /\ Pending(u, e, n)
          <6>1. Pending(t, e, n)
            BY <4>3, <5>3 DEF Pending, Working, Resting
          <6>2. e = d /\ (n = p \/ n \in c.done)
            BY <1>0, <1>1, <1>2, <6>1 DEF Pending
          <6>3. c.taken # {} => c.done = {}
            BY <1>0, <1>4 DEF SoundProc
          <6>4. QED BY <5>1, <6>2, <6>3 DEF Recorded
        <5>4. CASE <<e, n>> \in lost[p]
          BY <2>4, <5>1, <5>4
        <5>5. QED BY <4>2, <5>2, <5>3, <5>4 DEF IInv, Known, Covers
      <4>11. QED BY <4>7, <4>8, <4>9, <4>10 DEF Known
    <3>3. QED BY <3>1, <3>2
  <2>12. QED BY <1>0, <1>1, <1>3, <1>6, <1>8, <2>0, <2>3, <2>4, <2>5, <2>7, <2>8, <2>9, <2>11, Whole DEF Grows
<1>12. QED BY <1>10, <1>11

\* A command that ends with a record written,
LEMMA DoneOK ==
  ASSUME IInv, NEW t \in Terminals, NEW p \in Plugins, Working(t), procs[t].p = p,
         NEW st \in States, states' = [states EXCEPT ![p] = st],
         procs' = [procs EXCEPT ![t] = Idle],
         UNCHANGED <<files, dirs, parts, index, reserved, writer, killed, lost, moved, overlapped, events>>,
         Known(p)'
  PROVE  IInv'
<1>1. WorldOK' /\ procs'[t] = Idle /\ \A u \in Terminals : u # t => procs'[u] = procs[u]
  BY IdleProc, RunOK DEF IInv, WorldOK
<1>2. procs'[t].step = "idle" /\ ~Working(t)'
  BY <1>1, IdleProc DEF Working, Resting
<1>3. FilesOK' /\ NoTorn(p)'
  BY FilesFrame DEF IInv, NoTorn
<1>4. \A q \in Plugins : q # p => Apart(q)
  BY DEF IInv, WorldOK, Apart, Untouched
<1>5. QED BY <1>1, <1>2, <1>3, <1>4, RestingOK, Whole DEF Grows

\* with what it linked,
LEMMA WriteOK ==
  ASSUME IInv, NEW t \in Terminals, Write(t)
  PROVE  IInv'
<1> DEFINE c == procs[t]
           st == State(c.version, c.dir, Recorded(c))
<1>0. c.step = "write" /\ Working(t)
  BY DEF Write, Working, Resting
<1>1. PICK p \in Plugins : c.p = p
  BY <1>0, AtWorkOn
<1>2. /\ procs' = [procs EXCEPT ![t] = Idle] /\ states' = [states EXCEPT ![p] = st]
      /\ UNCHANGED <<files, dirs, parts, index, reserved, writer, killed, lost, moved, overlapped, events>>
  BY <1>1 DEF Write, world, history, Run
<1>3. c \in Proc /\ SoundProc(t) /\ SureProc(t) /\ c.st \in States
  BY <1>0, AtWorkOn DEF IInv, Proc
<1>4. c.version \in 1..Latest /\ c.dir \in Dirs /\ Recorded(c) \subseteq Aliases
  <2>1. c.version \in 1..Latest /\ c.dir \in Dirs
    BY <1>0, <1>3 DEF SoundProc, Proc
  <2>2. c.done \subseteq Aliases /\ c.st.aliases \subseteq Aliases
    BY <1>3 DEF Proc, States, State, NoState, CutState
  <2>3. QED BY <2>1, <2>2 DEF Recorded
<1>5. /\ st \in States /\ st.kind = "ok" /\ st.dir = c.dir /\ st.aliases = Recorded(c)
  <2>1. st \in States
    BY <1>4 DEF States
  <2>2. QED BY <2>1 DEF State
<1> HIDE DEF st
<1>6. states'[p] = st
  BY <1>2 DEF IInv, WorldOK
<1>7. Known(p)'
  <2>1. CASE ~Clean(p)'
    BY <2>1 DEF Known, Cuts, Covers, Kept
  <2>2. CASE Clean(p)'
    <3>1. Clean(p) /\ Sole(t)
      BY <1>0, <1>1, <1>2, <2>2 DEF Clean, Sole
    <3>2. states[p] = CutState
      BY <1>0, <1>1, <1>3, <3>1 DEF SureProc, KnowsRecord
    <3>3. Cuts(p)'
      BY <1>5, <1>6 DEF Cuts
    <3>4. Covers(p)'
      <4> SUFFICES ASSUME NEW d \in Dirs, NEW n \in Names, Mine(p, d, n), <<d, n>> \notin lost[p]
                   PROVE  d = c.dir /\ (n = p \/ n \in Recorded(c))
        BY <1>2, <1>5, <1>6 DEF Covers, Mine, Exists, InRecord
      <4>1. ~InRecord(p, d, n)
        BY <3>2 DEF InRecord, CutState, State, NoState
      <4>2. PICK u \in Terminals : procs[u].p = p /\ Pending(u, d, n)
        BY <3>1, <4>1 DEF IInv, Known, Covers
      <4>3. Working(u)
        BY <4>2 DEF Pending, Working, Resting
      <4>4. u = t
        BY <1>1, <3>1, <4>2, <4>3, Only
      <4>5. QED BY <1>0, <1>1, <4>2, <4>4 DEF Pending
    <3>5. Kept(p)'
      <4> SUFFICES ASSUME NEW a \in Recorded(c), p \notin moved
                   PROVE  Linked(p, c.dir, a)
        BY <1>2, <1>5, <1>6 DEF Kept, Linked
      <4>1. QED BY <1>0, <1>1, <1>3, <3>1 DEF SureProc, WillRecord, Clean
    <3>6. QED BY <3>3, <3>4, <3>5 DEF Known
  <2>3. QED BY <2>1, <2>2
<1>8. PICK new : new = st
  OBVIOUS
<1>9. new \in States /\ states' = [states EXCEPT ![p] = new]
  BY <1>2, <1>5, <1>8
<1>10. QED BY <1>0, <1>1, <1>2, <1>7, <1>9, DoneOK

\* or with none, once all is gone, or lost.
LEMMA ForgetOK ==
  ASSUME IInv, NEW t \in Terminals, Forget(t)
  PROVE  IInv'
<1> DEFINE c == procs[t]
<1>0. c.step = "forget" /\ Working(t)
  BY DEF Forget, Working, Resting
<1>1. PICK p \in Plugins : c.p = p
  BY <1>0, AtWorkOn
<1>2. /\ procs' = [procs EXCEPT ![t] = Idle] /\ states' = [states EXCEPT ![p] = NoState]
      /\ UNCHANGED <<files, dirs, parts, index, reserved, writer, killed, lost, moved, overlapped, events>>
  BY <1>1 DEF Forget, world, history, Run
<1>3. NoState \in States /\ NoState.kind = "none"
  BY DEF NoState, State, States
<1>4. states'[p] = NoState
  BY <1>2 DEF IInv, WorldOK
<1>5. Known(p)'
  <2>1. CASE ~Clean(p)'
    BY <2>1 DEF Known, Cuts, Covers, Kept
  <2>2. CASE Clean(p)'
    <3>1. Sole(t) /\ p \notin killed
      BY <1>0, <1>1, <1>2, <2>2 DEF Clean, Sole
    <3>2. \A d \in Dirs, n \in Names : Mine(p, d, n) => <<d, n>> \in lost[p]
      BY <1>0, <1>1, <3>1 DEF IInv, SureProc, HasRemoved
    <3>3. QED BY <1>2, <1>3, <1>4, <3>2 DEF Known, Cuts, Covers, Kept, Mine, Exists
  <2>3. QED BY <2>1, <2>2
<1>6. QED BY <1>0, <1>1, <1>2, <1>3, <1>5, DoneOK

\* Unlinking removes a link to the plugin and a copy of its binary: what is left
\* under the name is not its own, or lost.
LEMMA UnlinkOK ==
  ASSUME IInv, NEW t \in Terminals, NEW a \in Aliases, Unlink(t, a)
  PROVE  IInv'
<1> DEFINE c == procs[t]
           r == [c EXCEPT !.todo = @ \ {a}]
<1>0. c.step = "unlink" /\ Working(t) /\ a \in c.todo
  BY DEF Unlink, Working, Resting
<1>1. PICK p \in Plugins : c.p = p
  BY <1>0, AtWorkOn
<1>2. c \in Proc /\ SoundProc(t) /\ SureProc(t)
  BY <1>0, AtWorkOn DEF IInv
<1>3. c.st.kind = "ok" /\ c.st.dir \in Dirs /\ c.st.aliases \subseteq Aliases
  BY <1>0, <1>2, StateTypes DEF SoundProc, Proc
<1>4. PICK d \in Dirs : c.st.dir = d
  BY <1>3
<1>5. /\ procs' = [procs EXCEPT ![t] = r]
      /\ files' = [files EXCEPT ![d][a] = unlinkAlias(p, d, a)]
      /\ writer' = IF files'[d][a] # files[d][a] THEN [writer EXCEPT ![d][a] = Nobody] ELSE writer
      /\ lost' = IF files[d][a] \in Copies(p) \ {files[d][p]} THEN [lost EXCEPT ![p] = @ \cup {<<d, a>>}] ELSE lost
      /\ UNCHANGED <<dirs, parts, states, index, reserved, killed, moved, overlapped, events>>
  BY <1>1, <1>4 DEF Unlink, world, Run
<1>6. r \in Proc
  BY <1>2 DEF Proc
<1>7. /\ r.step = "unlink" /\ r.p = p /\ r.dir = c.dir /\ r.version = c.version
      /\ r.taken = c.taken /\ r.st = c.st /\ r.todo = c.todo \ {a}
  BY <1>0, <1>1, <1>2 DEF Proc
<1> HIDE DEF r
<1>9. /\ a \in Names /\ a \notin Plugins /\ p \in Names /\ p \notin Aliases /\ p # Nobody
      /\ <<d, a>> \in Dirs \X Names
  BY NamesApart
<1>10. /\ lost' \in [Plugins -> SUBSET (Dirs \X Names)] /\ lost[p] \subseteq lost'[p]
       /\ \A q \in Plugins : q # p => lost'[q] = lost[q]
       /\ files[d][a] \in Copies(p) \ {files[d][p]} => <<d, a>> \in lost'[p]
  <2>1. lost \in [Plugins -> SUBSET (Dirs \X Names)]
    BY DEF IInv, WorldOK
  <2>2. CASE lost' = lost /\ files[d][a] \notin Copies(p) \ {files[d][p]}
    BY <2>1, <2>2
  <2>3. CASE lost' = [lost EXCEPT ![p] = @ \cup {<<d, a>>}]
    BY <1>9, <2>1, <2>3
  <2>4. QED BY <1>5, <2>2, <2>3
<1>8. WorldOK' /\ procs'[t] = r /\ \A u \in Terminals : u # t => procs'[u] = procs[u]
  BY <1>5, <1>6, <1>10, RunOK DEF IInv, WorldOK
<1> DEFINE goes == files[d][a] # Nothing /\ files[d][a] \in {Link(p), files[d][p]}
<1>11. /\ goes => /\ files' = [files EXCEPT ![d][a] = Nothing] /\ writer' = [writer EXCEPT ![d][a] = Nobody]
                  /\ writer[d][a] = p
       /\ ~goes => files' = files /\ writer' = writer
  <2>1. files \in [Dirs -> [Names -> Contents]] /\ files'[d][a] = unlinkAlias(p, d, a)
    BY <1>5, <1>9 DEF IInv, FilesOK
  <2>2. goes => unlinkAlias(p, d, a) = Nothing /\ files'[d][a] # files[d][a]
    BY <2>1 DEF unlinkAlias
  <2>3. goes => files[d][a] \in Own(p)
    BY FormsApart DEF IInv, FilesOK, Own
  <2>4. goes => writer[d][a] = p
    BY <2>3 DEF IInv, FilesOK
  <2>5. ~goes => unlinkAlias(p, d, a) = files[d][a]
    BY DEF unlinkAlias
  <2>6. ~goes => files' = files
    BY <1>5, <1>9, <2>1, <2>5
  <2>7. QED BY <1>5, <2>1, <2>2, <2>4, <2>5, <2>6
<1> HIDE DEF goes
<1>12. FilesOK' /\ \A q \in Plugins : q # p => Apart(q)
  <2>1. CASE goes
    <3>1. files' = [files EXCEPT ![d][a] = Nothing] /\ writer' = [writer EXCEPT ![d][a] = Nobody]
      BY <1>11, <2>1
    <3>2. Nothing \in Contents /\ Nobody \notin Plugins /\ \A q \in Plugins : Nothing \notin Own(q)
      BY FormsApart, NamesApart DEF Contents
    <3>3. /\ parts' \in [Dirs -> [Plugins -> Contents]]
          /\ \A e \in Dirs, q \in Plugins : parts'[e][q] \in Programs(q)
      BY <1>5 DEF IInv, FilesOK
    <3>4. UNCHANGED <<dirs, parts, states>>
      BY <1>5
    <3>5. FilesOK'
      BY <1>9, <3>1, <3>2, <3>3, <3>4, PutFrame DEF IInv
    <3>6. \A q \in Plugins : q # p => Apart(q)
      BY <1>9, <1>10, <3>1, <3>2, <3>4, PutApart DEF IInv
    <3>7. QED BY <3>5, <3>6
  <2>2. CASE ~goes
    <3>1. files' = files /\ writer' = writer
      BY <1>11, <2>2
    <3>2. QED BY <1>5, <1>10, <3>1, FilesFrame DEF IInv, Apart, Untouched
  <2>3. QED BY <2>1, <2>2
<1>13. SoundProc(t)'
  BY <1>1, <1>3, <1>7, <1>8 DEF SoundProc, Working, Resting
<1>14. Refused(t)'
  BY <1>7, <1>8 DEF Refused
<1>15. \A e \in Dirs, m \in Names :
          (e # d \/ m # a) => (files'[e][m] = files[e][m] /\ writer'[e][m] = writer[e][m])
  BY <1>9, <1>11 DEF IInv, FilesOK
<1>16. Mine(p, d, a)' => Mine(p, d, a) /\ <<d, a>> \in lost'[p]
  <2> SUFFICES ASSUME writer'[d][a] = p, files'[d][a] # Nothing
               PROVE  Mine(p, d, a) /\ <<d, a>> \in lost'[p]
    BY DEF Mine, Exists
  <2>1. ~goes
    BY <1>9, <1>11 DEF IInv, FilesOK
  <2>2. writer[d][a] = p /\ files[d][a] # Nothing
    BY <1>11, <2>1
  <2>3. files[d][a] \in Forms(p)
    BY <2>2 DEF IInv, FilesOK
  <2>4. files[d][a] \in Copies(p) \ {files[d][p]}
    BY <2>1, <2>2, <2>3, FormsApart DEF goes
  <2>5. QED BY <1>10, <2>2, <2>4 DEF Mine, Exists
<1>17. \A e \in Dirs, n \in Names : Mine(p, e, n)' =>
          Mine(p, e, n) /\ ((e = d /\ n = a) => <<e, n>> \in lost'[p])
  BY <1>15, <1>16 DEF Mine, Exists
<1>18. SureProc(t)' /\ Known(p)' /\ NoTorn(p)'
  <2>1. CASE p \in overlapped
    BY <1>5, <1>7, <1>8, <2>1, OverlapOK
  <2>2. CASE p \notin overlapped
    <3>1. Sole(t)
      BY <1>0, <1>1, <2>2 DEF Sole
    <3>2. KnowsRecord(t)'
      BY <1>0, <1>1, <1>5, <1>2, <1>7, <1>8, <3>1 DEF SureProc, KnowsRecord, ReadState
    <3>3. HasUnlinked(t)'
      <4> SUFFICES ASSUME NEW b \in c.st.aliases, b \notin c.todo \ {a}, Mine(p, d, b)'
                   PROVE  <<d, b>> \in lost'[p]
        BY <1>4, <1>7, <1>8 DEF HasUnlinked, Mine, Exists
      <4>1. b \in Names
        BY <1>3, NamesApart
      <4>2. CASE b = a
        BY <1>16, <4>2
      <4>3. CASE b # a
        <5>1. Mine(p, d, b)
          BY <1>17, <4>1
        <5>2. <<d, b>> \in lost[p]
          BY <1>0, <1>1, <1>2, <1>4, <3>1, <4>3, <5>1 DEF SureProc, HasUnlinked
        <5>3. QED BY <1>10, <5>2
      <4>4. QED BY <4>2, <4>3
    <3>4. SureProc(t)'
      BY <1>7, <1>8, <3>2, <3>3 DEF SureProc, HasPart, HasBinary, HasLinks, HasSettled, HasRemoved, WillRecord
    <3>5. NoTorn(p)'
      BY <1>5, <1>9, <1>15 DEF IInv, NoTorn
    <3>6. \A e \in Dirs, n \in Names : Mine(p, e, n)' => Mine(p, e, n) /\ ~Pending(t, e, n)
      BY <1>0, <1>17 DEF Pending
    <3>7. ~Undoing(t) /\ \A e \in Dirs, b \in Aliases : Linked(p, e, b) => Linked(p, e, b)'
      <4>1. \A e \in Dirs, b \in Aliases : writer'[e][b] = p => writer[e][b] = p /\ files'[e][b] = files[e][b]
        <5>1. writer'[d][a] = p => writer[d][a] = p /\ files'[d][a] = files[d][a]
          BY <1>9, <1>11 DEF IInv, FilesOK
        <5>2. QED BY <1>15, <5>1, NamesApart
      <4>2. QED BY <1>0, <4>1 DEF Undoing, Linked
    <3>8. Known(p)'
      BY <1>0, <1>5, <1>8, <1>10, <3>6, <3>7, KnownStep DEF IInv, WorldOK, Grows
    <3>9. QED BY <3>4, <3>5, <3>8
  <2>3. QED BY <2>1, <2>2
<1>19. QED BY <1>0, <1>1, <1>5, <1>7, <1>8, <1>12, <1>13, <1>14, <1>18, Whole DEF Grows

\* When a removal fails the rest is left.
LEMMA NotRemovedOK ==
  ASSUME IInv, NEW t \in Terminals, NotRemoved(t)
  PROVE  IInv'
<1>0. procs[t].step \in {"unlink", "forget"} /\ Working(t)
  BY DEF NotRemoved, Working, Resting
<1>1. PICK p \in Plugins : procs[t].p = p
  BY <1>0, AtWorkOn
<1>2. /\ procs' = [procs EXCEPT ![t] = Idle]
      /\ UNCHANGED <<files, dirs, parts, states, index, reserved, writer, killed, lost, moved, overlapped, events>>
  BY DEF NotRemoved, world, history, Run
<1>3. \A u \in Terminals : u # t => procs'[u] = procs[u]
  BY <1>2 DEF IInv, WorldOK
<1>4. \A e \in Dirs, n \in Names : Mine(p, e, n)' => Mine(p, e, n) /\ ~Pending(t, e, n)
  BY <1>0, <1>2 DEF Mine, Exists, Pending
<1>5. ~Undoing(t) /\ \A e \in Dirs, b \in Aliases : Linked(p, e, b) => Linked(p, e, b)'
  BY <1>0, <1>2 DEF Undoing, Linked
<1>6. Known(p)'
  BY <1>0, <1>2, <1>3, <1>4, <1>5, KnownStep DEF IInv, WorldOK, Grows
<1>7. states[p] \in States /\ states' = [states EXCEPT ![p] = states[p]]
  BY <1>2 DEF IInv, WorldOK
<1>8. PICK st \in States : states' = [states EXCEPT ![p] = st]
  BY <1>7
<1>9. QED BY <1>0, <1>1, <1>2, <1>6, <1>8, DoneOK

\* The binary goes last: what was recorded and pending is gone then.
LEMMA RemoveOK ==
  ASSUME IInv, NEW t \in Terminals, Remove(t)
  PROVE  IInv'
<1> DEFINE c == procs[t]
           r == [c EXCEPT !.step = "forget"]
<1>0. c.step = "unlink" /\ Working(t) /\ c.todo = {}
  BY DEF Remove, Working, Resting
<1>1. PICK p \in Plugins : c.p = p
  BY <1>0, AtWorkOn
<1>2. c \in Proc /\ SoundProc(t) /\ SureProc(t)
  BY <1>0, AtWorkOn DEF IInv
<1>3. c.st.kind = "ok" /\ c.st.dir \in Dirs /\ c.st.aliases \subseteq Aliases
  BY <1>0, <1>2, StateTypes DEF SoundProc, Proc
<1>4. PICK d \in Dirs : c.st.dir = d
  BY <1>3
<1>5. /\ procs' = [procs EXCEPT ![t] = r]
      /\ files' = [files EXCEPT ![d][p] = Nothing] /\ writer' = [writer EXCEPT ![d][p] = p]
      /\ UNCHANGED <<dirs, parts, states, index, reserved, killed, lost, moved, overlapped, events>>
  BY <1>1, <1>4 DEF Remove, world, Run, Step, Put
<1>6. r \in Proc
  BY <1>2 DEF Proc, Steps
<1>7. /\ r.step = "forget" /\ r.p = p /\ r.dir = c.dir /\ r.version = c.version
      /\ r.taken = c.taken /\ r.st = c.st /\ r.todo = c.todo
  BY <1>0, <1>1, <1>2 DEF Proc
<1> HIDE DEF r
<1>8. WorldOK' /\ procs'[t] = r /\ \A u \in Terminals : u # t => procs'[u] = procs[u]
  BY <1>5, <1>6, RunOK DEF IInv, WorldOK
<1>9. p \in Names /\ p \notin Aliases
  BY NamesApart
<1>10. \A e \in Dirs, m \in Names : e # d \/ m # p => files'[e][m] = files[e][m] /\ writer'[e][m] = writer[e][m]
  BY <1>5, <1>9 DEF IInv, FilesOK
<1>11. files'[d][p] = Nothing
  BY <1>5, <1>9 DEF IInv, FilesOK
<1>12. FilesOK'
  <2>1. Nothing \in Contents /\ Nothing \in Programs(p)
    BY DEF Contents, Programs
  <2>2. /\ parts' \in [Dirs -> [Plugins -> Contents]]
        /\ \A e \in Dirs, q \in Plugins : parts'[e][q] \in Programs(q)
    BY <1>5 DEF IInv, FilesOK
  <2>3. QED BY <1>5, <1>9, <2>1, <2>2, PutFrame DEF IInv
<1>13. \A q \in Plugins : q # p => Apart(q)
  BY <1>5, <1>9, PutApart DEF IInv
<1>14. SoundProc(t)'
  BY <1>1, <1>3, <1>7, <1>8 DEF SoundProc, Working, Resting
<1>15. Refused(t)'
  BY <1>7, <1>8 DEF Refused
<1>16. \A e \in Dirs, n \in Names : Mine(p, e, n)' => Mine(p, e, n) /\ ~(e = d /\ n = p)
  BY <1>10, <1>11 DEF Mine, Exists
<1>17. SureProc(t)' /\ Known(p)' /\ NoTorn(p)'
  <2>1. CASE p \in overlapped
    BY <1>5, <1>7, <1>8, <2>1, OverlapOK
  <2>2. CASE p \notin overlapped
    <3>1. Sole(t)
      BY <1>0, <1>1, <2>2 DEF Sole
    <3>2. KnowsRecord(t)'
      BY <1>0, <1>1, <1>5, <1>2, <1>7, <1>8, <3>1 DEF SureProc, KnowsRecord, ReadState
    <3>3. HasRemoved(t)'
      <4> SUFFICES ASSUME p \notin killed, NEW e \in Dirs, NEW n \in Names, Mine(p, e, n)', <<e, n>> \notin lost[p]
                   PROVE  FALSE
        BY <1>5, <1>7, <1>8 DEF HasRemoved, Mine, Exists
      <4>1. Mine(p, e, n) /\ ~(e = d /\ n = p) /\ Clean(p)
        BY <1>16, <2>2 DEF Clean
      <4>2. InRecord(p, e, n)
        <5>1. \A u \in Terminals : procs[u].p = p => ~Pending(u, e, n)
          BY <1>0, <1>1, <3>1, Only DEF Pending, Working, Resting
        <5>2. QED BY <4>1, <5>1 DEF IInv, Known, Covers
      <4>3. c.st = states[p]
        BY <1>0, <1>1, <1>2, <3>1, <4>2, ReadStateOK DEF IInv, SureProc, KnowsRecord, InRecord
      <4>4. e = d /\ n \in c.st.aliases
        BY <1>4, <4>1, <4>2, <4>3 DEF InRecord
      <4>5. QED BY <1>0, <1>1, <1>2, <1>4, <3>1, <4>1, <4>4 DEF SureProc, HasUnlinked
    <3>4. SureProc(t)'
      BY <1>7, <1>8, <3>2, <3>3 DEF SureProc, HasPart, HasBinary, HasLinks, HasSettled, HasUnlinked, WillRecord
    <3>5. NoTorn(p)'
      BY <1>5, <1>9, <1>10, <1>11, KindsApart DEF IInv, NoTorn
    <3>6. \A e \in Dirs, n \in Names : Mine(p, e, n)' => Mine(p, e, n) /\ ~Pending(t, e, n)
      BY <1>0, <1>16 DEF Pending
    <3>7. ~Undoing(t) /\ \A e \in Dirs, b \in Aliases : Linked(p, e, b) => Linked(p, e, b)'
      BY <1>0, <1>9, <1>10, NamesApart DEF Undoing, Linked
    <3>8. Known(p)'
      BY <1>0, <1>5, <1>8, <3>6, <3>7, KnownStep DEF IInv, WorldOK, Grows
    <3>9. QED BY <3>4, <3>5, <3>8
  <2>3. QED BY <2>1, <2>2
<1>18. QED BY <1>0, <1>1, <1>5, <1>7, <1>8, <1>12, <1>13, <1>14, <1>15, <1>17, Whole DEF Grows

\* Of a plugin whose command was killed less is promised.
LEMMA KilledOK ==
  ASSUME IInv, NEW t \in Terminals, Killed(t)
  PROVE  IInv'
<1>1. /\ Working(t) /\ events' = events + 1
      /\ killed' = killed \cup {procs[t].p} /\ procs' = [procs EXCEPT ![t] = Idle]
      /\ UNCHANGED <<files, dirs, parts, states, index, reserved, writer, lost, moved, overlapped>>
  BY DEF Killed, Event, Working, Run, world
<1>2. PICK p \in Plugins : procs[t].p = p
  BY <1>1, AtWorkOn
<1>3. procs'[t] = Idle /\ \A u \in Terminals : u # t => procs'[u] = procs[u]
  BY <1>1 DEF IInv, WorldOK
<1>4. WorldOK'
  <2>1. events' \in Nat
    <3>1. events \in Nat /\ events' = events + 1
      BY <1>1 DEF IInv, WorldOK
    <3>2. QED BY <3>1
  <2>2. procs' \in [Terminals -> Proc]
    BY <1>1, IdleProc DEF IInv, WorldOK
  <2>3. QED BY <1>1, <1>2, <2>1, <2>2 DEF IInv, WorldOK
<1>5. FilesOK' /\ NoTorn(p)'
  BY <1>1, FilesFrame DEF IInv, NoTorn
<1>6. \A q \in Plugins : Apart(q)
  BY <1>1 DEF Apart, Untouched
<1>7. Known(p)'
  BY <1>1, <1>2 DEF Known, Cuts, Covers, Kept, Clean
<1>8. procs'[t].step = "idle" /\ ~Working(t)'
  BY <1>3, IdleProc DEF Working, Resting
<1>9. QED BY <1>1, <1>2, <1>3, <1>4, <1>5, <1>6, <1>7, <1>8, RestingOK, Whole DEF Grows

\* What others do: they write nothing for a plugin, and take no binary from
\* under a command.
LEMMA AsideOK ==
  ASSUME IInv, UNCHANGED <<procs, states, killed, lost, moved, overlapped>>, reserved \subseteq reserved', WorldOK', FilesOK',
         (\E t \in Terminals : Working(t)) => dirs \subseteq dirs',
         \A q \in Plugins : Untouched(q) /\ (AtWork(q) => Apart(q)),
         \A d \in Dirs, q \in Plugins : files'[d][q] \in {files[d][q], Nothing}
  PROVE  IInv'
<1>1. Grows
  BY DEF Grows
<1>2. ASSUME NEW t \in Terminals
      PROVE  SoundProc(t)' /\ SureProc(t)' /\ Refused(t)'
  <2>1. procs'[t] = procs[t] /\ procs[t] \in Proc
    BY DEF IInv, WorldOK
  <2>2. Working(t) => Apart(procs[t].p)
    BY AtWorkOn DEF AtWork, Working
  <2>3. QED BY <1>1, <2>1, <2>2, SoundFrame, SureFrame, RefusedFrame DEF IInv
<1>3. ASSUME NEW q \in Plugins
      PROVE  Known(q)' /\ NoTorn(q)'
  <2>1. Known(q)'
    BY <1>1, KnownFrame DEF IInv, WorldOK
  <2>2. NoTorn(q)'
    BY KindsApart DEF IInv, NoTorn
  <2>3. QED BY <2>1, <2>2
<1>4. Alone'
  BY DEF IInv, Alone, Working
<1>5. QED BY <1>2, <1>3, <1>4 DEF IInv

\* Events are counted.
LEMMA EventOK ==
  ASSUME WorldOK, Event
  PROVE  events' \in Nat
<1>1. events \in Nat /\ events' = events + 1
  BY DEF WorldOK, Event
<1>2. QED BY <1>1

\* The index changes,
LEMMA RelistedOK ==
  ASSUME IInv, NEW p \in Plugins, NEW entry \in {NotListed} \cup SUBSET Aliases, Relisted(p, entry)
  PROVE  IInv'
<1>1. /\ index' = [index EXCEPT ![p] = entry] /\ Event
      /\ UNCHANGED <<files, dirs, parts, states, procs, reserved, writer, killed, lost, moved, overlapped>>
  BY DEF Relisted, Changes
<1>2. WorldOK'
  <2>1. index' \in [Plugins -> {NotListed} \cup SUBSET Aliases]
    BY <1>1 DEF IInv, WorldOK
  <2>2. QED BY <1>1, <2>1, EventOK DEF IInv, WorldOK
<1>3. FilesOK'
  BY <1>1, FilesFrame DEF IInv
<1>4. \A q \in Plugins : Untouched(q) /\ Apart(q)
  BY <1>1 DEF Untouched, Apart
<1>5. QED BY <1>1, <1>2, <1>3, <1>4, AsideOK

\* viti claims a name,
LEMMA ClaimedOK ==
  ASSUME IInv, NEW a \in Aliases, Claimed(a)
  PROVE  IInv'
<1>1. /\ reserved' = reserved \cup {a} /\ Event
      /\ UNCHANGED <<files, dirs, parts, states, procs, index, writer, killed, lost, moved, overlapped>>
  BY DEF Claimed, Changes
<1>2. WorldOK'
  BY <1>1, EventOK DEF IInv, WorldOK
<1>3. FilesOK'
  BY <1>1, FilesFrame DEF IInv
<1>4. \A q \in Plugins : Untouched(q) /\ Apart(q)
  BY <1>1 DEF Untouched, Apart
<1>5. QED BY <1>1, <1>2, <1>3, <1>4, AsideOK

\* a user puts or removes a file,
LEMMA UserPutsOK ==
  ASSUME IInv, NEW d \in Dirs, NEW a \in Aliases, NEW f \in {Other, Nothing}, UserPuts(d, a, f)
  PROVE  IInv'
<1>1. /\ d \in dirs /\ Event
      /\ files' = [files EXCEPT ![d][a] = f] /\ writer' = [writer EXCEPT ![d][a] = Nobody]
      /\ UNCHANGED <<dirs, parts, states, procs, index, reserved, killed, lost, moved, overlapped>>
  BY DEF UserPuts, Changes, world
<1>2. WorldOK'
  BY <1>1, EventOK DEF IInv, WorldOK
<1>3. a \in Names /\ a \notin Plugins /\ Nobody \notin Plugins
  BY NamesApart, PluginDirAssumption
<1>4. FilesOK'
  <2>1. f \in Contents /\ \A q \in Plugins : f \notin Own(q)
    BY FormsApart DEF Contents
  <2>2. /\ parts' \in [Dirs -> [Plugins -> Contents]]
        /\ \A e \in Dirs, q \in Plugins : parts'[e][q] \in Programs(q)
    BY <1>1 DEF IInv, FilesOK
  <2>3. QED BY <1>1, <1>3, <2>1, <2>2, PutFrame DEF IInv
<1>5. \A q \in Plugins : Untouched(q) /\ Apart(q)
  <2>1. \A q \in Plugins : Apart(q)
    BY <1>1, <1>3, PutApart DEF IInv
  <2>2. QED BY <2>1 DEF Apart
<1>6. \A e \in Dirs, q \in Plugins : files'[e][q] \in {files[e][q], Nothing}
  BY <1>5 DEF Apart
<1>7. QED BY <1>1, <1>2, <1>4, <1>5, <1>6, AsideOK

\* or a directory goes.
LEMMA DirRemovedOK ==
  ASSUME IInv, NEW d \in Dirs, DirRemoved(d)
  PROVE  IInv'
<1>1. /\ Event /\ dirs' = dirs \ {d} /\ \A t \in Terminals : ~Working(t)
      /\ files' = [files EXCEPT ![d] = [n \in Names |-> Nothing]]
      /\ parts' = [parts EXCEPT ![d] = [p \in Plugins |-> Nothing]]
      /\ writer' = [writer EXCEPT ![d] = [n \in Names |-> Nobody]]
      /\ UNCHANGED <<states, procs, index, reserved, killed, lost, moved, overlapped>>
  BY DEF DirRemoved, Changes, world, Working
<1>2. WorldOK'
  BY <1>1, EventOK DEF IInv, WorldOK
<1>3. /\ \A n \in Names : files'[d][n] = Nothing /\ writer'[d][n] = Nobody
      /\ \A e \in Dirs : e # d => files'[e] = files[e] /\ writer'[e] = writer[e] /\ parts'[e] = parts[e]
      /\ \A p \in Plugins : parts'[d][p] = Nothing
  BY <1>1 DEF IInv, FilesOK
<1>4. FilesOK'
  <2>1. /\ files' \in [Dirs -> [Names -> Contents]]
        /\ writer' \in [Dirs -> [Names -> Plugins \cup {Nobody}]]
        /\ parts' \in [Dirs -> [Plugins -> Contents]]
    <3>1. Nothing \in Contents
      BY DEF Contents
    <3>2. files' \in [Dirs -> [Names -> Contents]]
      BY <1>1, <3>1 DEF IInv, FilesOK
    <3>3. writer' \in [Dirs -> [Names -> Plugins \cup {Nobody}]]
      BY <1>1 DEF IInv, FilesOK
    <3>4. parts' \in [Dirs -> [Plugins -> Contents]]
      BY <1>1, <3>1 DEF IInv, FilesOK
    <3>5. QED BY <3>2, <3>3, <3>4
  <2>2. \A e \in Dirs \ dirs' : \A n \in Names : files'[e][n] = Nothing
    BY <1>1, <1>3 DEF IInv, FilesOK, Exists
  <2>3. ASSUME NEW e \in Dirs, NEW p \in Plugins
        PROVE  files'[e][p] \in Programs(p) /\ writer'[e][p] \in {p, Nobody} /\ parts'[e][p] \in Programs(p)
    <3>1. CASE e = d
      BY <1>3, <3>1, NamesApart DEF Programs
    <3>2. CASE e # d
      BY <1>3, <3>2 DEF IInv, FilesOK
    <3>3. QED BY <3>1, <3>2
  <2>4. ASSUME NEW e \in Dirs, NEW a \in Aliases, NEW p \in Plugins
        PROVE  /\ files'[e][a] \in Own(p) => writer'[e][a] = p
               /\ writer'[e][a] = p => files'[e][a] \in {Nothing} \cup Forms(p)
    <3>1. CASE e = d
      BY <1>3, <3>1, NamesApart, FormsApart
    <3>2. CASE e # d
      BY <1>3, <3>2 DEF IInv, FilesOK
    <3>3. QED BY <3>1, <3>2
  <2>5. QED BY <2>1, <2>2, <2>3, <2>4 DEF FilesOK, Exists
<1>5. \A q \in Plugins : Untouched(q) /\ ~AtWork(q)
  BY <1>1, <1>3, NamesApart DEF Untouched, AtWork, Working
<1>6. \A e \in Dirs, q \in Plugins : files'[e][q] \in {files[e][q], Nothing}
  BY <1>3, NamesApart
<1>7. QED BY <1>1, <1>2, <1>4, <1>5, <1>6, AsideOK

\* Every step preserves the invariant.
LEMMA StepOK ==
  ASSUME IInv, [Next]_vars
  PROVE  IInv'
<1>1. ASSUME NEW t \in Terminals, Command(t) PROVE IInv'
  <2>1. ASSUME NEW p \in Plugins, NEW o \in Options[t], StartInstall(t, p, o[1], o[2], o[3]) PROVE IInv'
    BY <2>1, StartInstallOK
  <2>2. ASSUME NEW p \in Plugins, StartUpgrade(t, p) \/ StartUninstall(t, p) PROVE IInv'
    BY <2>2, StartUpgradeOK, StartUninstallOK
  <2>3. CASE Compare(t) \/ NotInstalled(t)
    BY <2>3, CompareOK, NotInstalledOK
  <2>4. CASE Download(t) \/ Copy(t) \/ Rename(t) \/ NotCopied(t) \/ Truncate(t) \/ Write(t)
    BY <2>4, DownloadOK, CopyOK, RenameOK, NotCopiedOK, TruncateOK, WriteOK
  <2>5. ASSUME NEW a \in Aliases,
               LinkAlias(t, a) \/ EnsureAlias(t, a) \/ EnsureMade(t, a) \/ EnsureFails(t, a) \/ Unlink(t, a)
        PROVE  IInv'
    BY <2>5, LinkAliasOK, EnsureAliasOK, EnsureMadeOK, EnsureFailsOK, UnlinkOK
  <2>6. CASE Remove(t) \/ NotRemoved(t) \/ Forget(t)
    BY <2>6, RemoveOK, NotRemovedOK, ForgetOK
  <2>7. QED BY <1>1, <2>1, <2>2, <2>3, <2>4, <2>5, <2>6 DEF Command
<1>2. ASSUME NEW t \in Terminals, Killed(t) PROVE IInv'
  BY <1>2, KilledOK
<1>3. CASE OtherPeople
  <2>1. ASSUME NEW p \in Plugins, NEW e \in {NotListed} \cup SUBSET Aliases, Relisted(p, e) PROVE IInv'
    BY <2>1, RelistedOK
  <2>2. ASSUME NEW a \in Aliases, Claimed(a) PROVE IInv'
    BY <2>2, ClaimedOK
  <2>3. ASSUME NEW d \in Dirs, DirRemoved(d) PROVE IInv'
    BY <2>3, DirRemovedOK
  <2>4. ASSUME NEW d \in Dirs, NEW a \in Aliases, NEW f \in {Other, Nothing}, UserPuts(d, a, f) PROVE IInv'
    BY <2>4, UserPutsOK
  <2>5. QED BY <1>3, <2>1, <2>2, <2>3, <2>4 DEF OtherPeople
<1>4. CASE UNCHANGED vars
  <2>1. UNCHANGED <<files, dirs, parts, states, index, reserved, procs, writer, killed, lost, moved, overlapped, events>>
    BY <1>4 DEF vars, world, history
  <2>2. WorldOK' /\ FilesOK'
    BY <2>1, FilesFrame DEF IInv, WorldOK
  <2>3. \A q \in Plugins : Untouched(q) /\ Apart(q)
    BY <2>1 DEF Untouched, Apart
  <2>4. QED BY <2>1, <2>2, <2>3, AsideOK
<1>5. QED BY <1>1, <1>2, <1>3, <1>4 DEF Next

\* The invariant holds in every reachable state.
LEMMA Invariant == Spec => []IInv
<1>1. IInv /\ [Next]_vars => IInv'
  BY StepOK
<1>2. QED BY <1>1, InitOK, PTL DEF Spec
-----------------------------------------------------------------------------
(***************************************************************************)
(* Type correctness: the files, the records and the commands are what they *)
(* may be, and a directory that is not there has nothing in it.            *)
(***************************************************************************)
THEOREM TypeCorrect == Spec => []TypeOK
<1>1. IInv => TypeOK
  <2> SUFFICES ASSUME IInv PROVE TypeOK
    OBVIOUS
  <2>1. ASSUME NEW t \in Terminals
        PROVE  /\ procs[t].step \in Steps
               /\ procs[t].step \notin Resting => procs[t].p \in Plugins
               /\ procs[t].done \subseteq Aliases /\ procs[t].todo \subseteq Aliases
    <3>1. procs[t] \in Proc /\ SoundProc(t)
      BY DEF IInv, WorldOK
    <3>2. QED BY <3>1 DEF Proc, SoundProc, Working
  <2>2. QED BY <2>1 DEF IInv, WorldOK, FilesOK, TypeOK
<1>2. QED BY <1>1, Invariant, PTL

(***************************************************************************)
(* A binary in place is whole, whatever was killed when, unless two        *)
(* commands on one plugin shared its temporary file: installFile copies    *)
(* beside and renames (install.go).                                        *)
(***************************************************************************)
THEOREM BinariesAreWhole == Spec => []NeverTorn
<1>1. IInv => NeverTorn
  BY DEF IInv, NoTorn, NeverTorn
<1>2. QED BY <1>1, Invariant, PTL

(***************************************************************************)
(* Once the record of a plugin is gone, all that its commands wrote is     *)
(* gone too, except what the record had lost by then: the plugin was       *)
(* installed again in another directory or without the alias, the alias    *)
(* could not be replaced, or it was a copy, or a link to nothing, that     *)
(* upgrade or uninstall does not know again.  Nothing is said of a plugin  *)
(* whose command was killed, or on which two commands were at work.        *)
(***************************************************************************)
THEOREM NothingLeftBehind == Spec => []UninstallIsComplete
<1>1. IInv => UninstallIsComplete
  <2> SUFFICES ASSUME IInv, NEW p \in Plugins, states[p] = NoState, p \notin killed \cup overlapped, ~AtWork(p),
                      NEW d \in Dirs, NEW n \in Names, writer[d][n] = p, Exists(d, n)
               PROVE  <<d, n>> \in lost[p]
    BY DEF UninstallIsComplete, LeftBy
  <2>1. Mine(p, d, n) /\ Clean(p)
    BY DEF Mine, Clean
  <2>2. ~InRecord(p, d, n)
    BY DEF InRecord, NoState, State
  <2>3. ~\E t \in Terminals : procs[t].p = p /\ Pending(t, d, n)
    BY DEF AtWork, Pending, Resting
  <2>4. QED BY <2>1, <2>2, <2>3 DEF IInv, Known, Covers
<1>2. QED BY <1>1, Invariant, PTL

(***************************************************************************)
(* An install is refused over an alias only if the alias is viti's own, or *)
(* a file was seen there that is not the plugin's, or one that its record  *)
(* had lost.  Nothing is said of a plugin whose command was killed, or on  *)
(* which two commands were at work.                                        *)
(***************************************************************************)
THEOREM ReinstallsAreNotRefused == Spec => []NeverConflictsWithItself
<1>1. IInv => NeverConflictsWithItself
  BY DEF IInv, Refused, NeverConflictsWithItself
<1>2. QED BY <1>1, Invariant, PTL
-----------------------------------------------------------------------------
\* A step of one terminal moves no other.
LEMMA OneMoves ==
  ASSUME IInv, NEW t \in Terminals, Command(t) \/ Killed(t), NEW u \in Terminals, procs'[u] # procs[u]
  PROVE  u = t
<1>1. \E r : procs' = [procs EXCEPT ![t] = r]
  <2>1. CASE \E a \in Aliases :
               LinkAlias(t, a) \/ EnsureAlias(t, a) \/ EnsureMade(t, a) \/ EnsureFails(t, a) \/ Unlink(t, a)
    BY <2>1 DEF LinkAlias, EnsureAlias, EnsureMade, EnsureFails, Unlink, Run
  <2>2. CASE \/ \E p \in Plugins : \/ \E o \in Options[t] : StartInstall(t, p, o[1], o[2], o[3])
                                   \/ StartUpgrade(t, p) \/ StartUninstall(t, p)
             \/ Compare(t) \/ NotInstalled(t) \/ Download(t) \/ Copy(t) \/ Killed(t)
    BY <2>2 DEF Killed, StartInstall, StartUpgrade, StartUninstall, Compare, NotInstalled, Download, Copy, Run, Step
  <2>3. CASE Rename(t) \/ NotCopied(t) \/ Truncate(t) \/ Write(t) \/ Remove(t) \/ NotRemoved(t) \/ Forget(t)
    BY <2>3 DEF Rename, NotCopied, Truncate, Write, Remove, NotRemoved, Forget, Run, Step
  <2>4. QED BY <2>1, <2>2, <2>3 DEF Command
<1>2. QED BY <1>1 DEF IInv, WorldOK

\* A command changes a file under an alias if it is one that stands for its
\* plugin or nothing at all, or if it is to link the alias and did not see the
\* file when it checked PATH.
LEMMA OnlyItsOwn ==
  ASSUME IInv, NEW t \in Terminals, Command(t) \/ Killed(t),
         NEW d \in Dirs, NEW a \in Aliases, files'[d][a] # files[d][a]
  PROVE  \/ files[d][a] \in {Nothing} \cup Forms(procs[t].p)
         \/ procs[t].step = "link" /\ <<d, a>> \notin procs[t].theirs
<1>1. a \in Names /\ files \in [Dirs -> [Names -> Contents]]
  BY NamesApart DEF IInv, FilesOK
<1>2. procs[t].step \in {"copy", "rename", "unlink"} => procs[t].p \notin Aliases
  BY NamesApart, AtWorkOn DEF Working, Resting
<1>3. ~Copy(t)
  <2> SUFFICES ASSUME Copy(t) PROVE FALSE
    OBVIOUS
  <2>1. procs[t].step = "copy" /\ (UNCHANGED files \/ \E f : Put(t, procs[t].dir, procs[t].p, f))
    BY DEF Copy
  <2>2. PICK f : Put(t, procs[t].dir, procs[t].p, f)
    BY <2>1
  <2>3. QED BY <1>1, <1>2, <2>1, <2>2 DEF Put
<1>4. ~Rename(t) /\ ~Remove(t)
  BY <1>1, <1>2 DEF Rename, Remove, Put
<1>5. PICK b \in Aliases : LinkAlias(t, b) \/ EnsureMade(t, b) \/ Unlink(t, b)
  BY <1>3, <1>4 DEF Command, Killed, StartInstall, StartUpgrade, StartUninstall, Compare, NotInstalled, Download,
                    NotCopied, Truncate, Write, EnsureAlias, EnsureFails, NotRemoved, Forget
<1>6. CASE LinkAlias(t, b)
  <2>1. procs[t].step = "link" /\ b \in procs[t].todo
    BY <1>6 DEF LinkAlias
  <2>2. \E f : files' = [files EXCEPT ![procs[t].dir][b] = f]
    BY <1>6, <1>1 DEF LinkAlias, Put
  <2>3. a = b
    BY <1>1, <2>2
  <2>4. QED BY <2>1, <2>3 DEF IInv, SoundProc
<1>7. CASE EnsureMade(t, b)
  <2>1. ~Exists(procs[t].dir, b)
    BY <1>7 DEF EnsureMade
  <2>2. \E f : files' = [files EXCEPT ![procs[t].dir][b] = f]
    BY <1>7 DEF EnsureMade, Put
  <2>3. a = b /\ d = procs[t].dir
    BY <1>1, <2>2
  <2>4. QED BY <2>1, <2>3 DEF Exists
<1>8. CASE Unlink(t, b)
  <2>1. PICK p \in Plugins : procs[t].p = p
    BY <1>8, AtWorkOn DEF Unlink, Working, Resting
  <2>2. files' = [files EXCEPT ![procs[t].st.dir][b] = unlinkAlias(p, procs[t].st.dir, b)]
    BY <1>8, <2>1 DEF Unlink
  <2>3. a = b /\ d = procs[t].st.dir
    BY <1>1, <2>2
  <2>4. files[d][a] \in {Nothing, Link(p), files[d][p]}
    BY <1>1, <2>2, <2>3 DEF unlinkAlias
  <2>5. files[d][a] \in {Nothing} \cup Own(p)
    BY <2>4, FormsApart DEF IInv, FilesOK, Own
  <2>6. files[d][a] # Nothing => writer[d][a] = p
    BY <2>5 DEF IInv, FilesOK
  <2>7. files[d][a] \in {Nothing} \cup Forms(p)
    BY <2>6 DEF IInv, FilesOK
  <2>8. QED BY <2>1, <2>7
<1>9. QED BY <1>5, <1>6, <1>7, <1>8

(***************************************************************************)
(* A command replaces or removes a file under an alias only if it is one   *)
(* that stands for its plugin, or, when it installs, one that it did not   *)
(* see listed first under that name when it looked through PATH, unless    *)
(* the alias had been recorded as its plugin's.                            *)
(***************************************************************************)
THEOREM OthersFilesAreLeft == Spec => TakesOnlyItsOwn
<1> DEFINE Fair(t, d, a) == procs[t] # procs'[t] /\ files[d][a] # files'[d][a] =>
              \/ files[d][a] \in {Nothing} \cup Forms(procs[t].p)
              \/ procs[t].step = "link" /\ <<d, a>> \notin procs[t].theirs
           AllFair == \A t \in Terminals, d \in Dirs, a \in Aliases : Fair(t, d, a)
<1>1. ASSUME IInv, Next PROVE AllFair
  <2> SUFFICES ASSUME NEW t \in Terminals, NEW d \in Dirs, NEW a \in Aliases,
                      procs[t] # procs'[t], files[d][a] # files'[d][a]
               PROVE  \/ files[d][a] \in {Nothing} \cup Forms(procs[t].p)
                      \/ procs[t].step = "link" /\ <<d, a>> \notin procs[t].theirs
    OBVIOUS
  <2>1. ~OtherPeople
    BY DEF OtherPeople, Relisted, Claimed, DirRemoved, UserPuts, Changes
  <2>2. PICK u \in Terminals : Command(u) \/ Killed(u)
    BY <1>1, <2>1 DEF Next
  <2>3. t = u
    BY <1>1, <2>2, OneMoves
  <2>4. QED BY <1>1, <2>2, <2>3, OnlyItsOwn
<1>2. IInv /\ [Next]_vars => [AllFair]_vars
  BY <1>1
<1>3. [][AllFair]_vars <=> TakesOnlyItsOwn
  BY DEF TakesOnlyItsOwn
<1>4. QED BY <1>2, <1>3, Invariant, PTL DEF Spec

\* What the command of terminal t writes into its record is there.
Truthful(t) ==
    LET c  == procs[t]
        st == states'[c.p]
        there(a, F) == writer[st.dir][a] = c.p => files[st.dir][a] \in F
    IN /\ c.taken = {} =>
            \A a \in st.aliases : there(a, {Link(c.p), files[st.dir][c.p]} \ {Nothing})
       /\ c.p \notin killed \cup moved =>
            \A a \in st.aliases : there(a, Forms(c.p) \ {Torn(c.p)})
       /\ \/ st.version = c.st.version \/ writer[st.dir][c.p] # c.p
          \/ files[st.dir][c.p] = Binary(c.p, st.version)

\* A command that writes its record while alone on its plugin writes what is
\* there.
LEMMA RecordsRight ==
  ASSUME IInv, NEW t \in Terminals, Command(t) \/ Killed(t), procs[t].step = "write",
         states'[procs[t].p].kind = "ok", procs[t].p \notin overlapped
  PROVE  Truthful(t)
<1>1. Sole(t) /\ SureProc(t) /\ Working(t)
  BY DEF IInv, Sole, Working, Resting
<1>2. PICK p \in Plugins : procs[t].p = p
  BY <1>1, AtWorkOn
<1>3. states[p].kind # "ok"
  BY <1>1, <1>2 DEF SureProc, KnowsRecord, CutState, State, NoState
<1>4. Write(t)
  BY <1>2, <1>3 DEF Command, Killed, StartInstall, StartUpgrade, StartUninstall, Begin, Resting, Compare, NotInstalled,
         Download, Copy, Rename, NotCopied, Truncate, LinkAlias, EnsureAlias, EnsureMade, EnsureFails, Unlink, Remove,
         NotRemoved, Forget
<1>5. states'[p] = State(procs[t].version, procs[t].dir, Recorded(procs[t]))
  BY <1>2, <1>4 DEF Write, IInv, WorldOK
<1> DEFINE d == procs[t].dir
<1>6. /\ states'[p].version = procs[t].version /\ states'[p].dir = d
      /\ states'[p].aliases = Recorded(procs[t])
  BY <1>5 DEF State
<1>7. d \in Dirs /\ Recorded(procs[t]) \subseteq Aliases
  <2>1. procs[t] \in Proc /\ SoundProc(t)
    BY DEF IInv, WorldOK
  <2>2. d \in Dirs /\ procs[t].done \subseteq Aliases /\ procs[t].st.aliases \subseteq Aliases
    BY <2>1 DEF Proc, States, State, NoState, CutState
  <2>3. QED BY <2>2 DEF Recorded
<1>8. procs[t].taken = {} => \A a \in Recorded(procs[t]) : Fits(p, d, a)
  BY <1>1, <1>2 DEF SureProc, WillRecord
<1>9. p \notin killed \cup moved => \A a \in Recorded(procs[t]) :
         writer[d][a] = p => files[d][a] \in Forms(p) \ {Torn(p)}
  <2> SUFFICES ASSUME p \notin killed \cup moved, NEW a \in Recorded(procs[t]), writer[d][a] = p
               PROVE  files[d][a] \in Forms(p) \ {Torn(p)}
    OBVIOUS
  <2>1. files[d][a] \notin {Nothing, Torn(p)}
    BY <1>1, <1>2 DEF SureProc, WillRecord, Linked
  <2>2. files[d][a] \in {Nothing} \cup Forms(p)
    BY <1>7 DEF IInv, FilesOK
  <2>3. QED BY <2>1, <2>2
<1>10. \/ procs[t].version = procs[t].st.version
       \/ files[d][p] = Binary(p, procs[t].version)
  BY <1>1, <1>2 DEF SureProc, HasBinary
<1> HIDE DEF d
<1>11. QED BY <1>2, <1>6, <1>8, <1>9, <1>10 DEF Truthful, Fits

(***************************************************************************)
(* Every record that a command completes while alone on its plugin is true *)
(* of the binary, and of the aliases too, except those that an upgrade     *)
(* over a conflict repeats from a record that an earlier kill, or such an  *)
(* upgrade to another directory, had made wrong.                           *)
(***************************************************************************)
THEOREM RecordsAreTrue == Spec => RecordsWhatIsThere
<1> DEFINE True(t) ==
             LET c == procs[t] IN
             c.step = "write" /\ procs'[t] # c /\ states'[c.p].kind = "ok" /\ c.p \notin overlapped => Truthful(t)
           AllTrue == \A t \in Terminals : True(t)
<1>1. ASSUME IInv, Next PROVE AllTrue
  <2> SUFFICES ASSUME NEW t \in Terminals, procs[t].step = "write", procs'[t] # procs[t],
                      states'[procs[t].p].kind = "ok", procs[t].p \notin overlapped
               PROVE  Truthful(t)
    OBVIOUS
  <2>1. ~OtherPeople
    BY DEF OtherPeople, Relisted, Claimed, DirRemoved, UserPuts, Changes
  <2>2. PICK u \in Terminals : Command(u) \/ Killed(u)
    BY <1>1, <2>1 DEF Next
  <2>3. t = u
    BY <1>1, <2>2, OneMoves
  <2>4. QED BY <1>1, <2>2, <2>3, RecordsRight
<1>2. IInv /\ [Next]_vars => [AllTrue]_vars
  BY <1>1
<1>3. [][AllTrue]_vars <=> RecordsWhatIsThere
  BY DEF RecordsWhatIsThere, Truthful
<1>4. QED BY <1>2, <1>3, Invariant, PTL DEF Spec
=============================================================================
