------------------------------ MODULE PluginDir ------------------------------
(***************************************************************************)
(* The directories that hold plugins, as viti sees them: a plugin p is the *)
(* executable viti-p, an alias a of it a link viti-a beside it, and other  *)
(* people's viti-* programs may be there as well.                          *)
(***************************************************************************)
EXTENDS Integers, Sequences, FiniteSets

CONSTANTS
    Plugins,     \* names of plugins
    Aliases,     \* names an index may declare as an alias
    Dirs,        \* directories
    Path,        \* $PATH: the directories viti looks in, in order
    Rank,        \* the order of the directories as strings
    Home,        \* the directory of viti itself
    Latest,      \* the latest release of every plugin; there are 1..Latest
    Windows      \* links may be refused, and copies stand in for them

Names == Plugins \cup Aliases
Nobody == "nobody"

ASSUME PluginDirAssumption ==
    /\ Plugins \cap Aliases = {} /\ Nobody \notin Plugins
    /\ Path \in Seq(Dirs) /\ Home \in Dirs /\ Windows \in BOOLEAN
    /\ Rank \in [Dirs -> Nat] /\ \A d, e \in Dirs : Rank[d] = Rank[e] => d = e
    /\ Latest \in Nat \ {0}

VARIABLES
    files,       \* files[d][n]: what viti-n in d is
    dirs         \* the directories that exist

File(k, p, v) == [kind |-> k, of |-> p, version |-> v]

Nothing      == File("none", Nobody, 0)
Other        == File("other", Nobody, 0)     \* somebody else's program
Link(p)      == File("link", p, 0)           \* to viti-p, in the same directory
Binary(p, v) == File("binary", p, v)
Torn(p)      == File("torn", p, 0)           \* part of a binary

Contents ==
    {Nothing, Other}
        \cup {Link(p) : p \in Plugins} \cup {Torn(p) : p \in Plugins}
        \cup {Binary(p, v) : p \in Plugins, v \in 1..Latest}

Exists(d, n) == files[d][n] # Nothing

\* What commands about p make of an alias: a link, or on Windows a copy of
\* the binary.
Copies(p) == IF Windows THEN {Torn(p)} \cup {Binary(p, v) : v \in 1..Latest} ELSE {}
Forms(p)  == {Link(p)} \cup Copies(p)

\* The directory a name is run from: the first on PATH.
Holding(n) == {i \in DOMAIN Path : Exists(Path[i], n)}
First(n) == Path[CHOOSE i \in Holding(n) : \A j \in Holding(n) : i <= j]
OnPath(n) == Holding(n) # {}

\* The directory plugin.List has a name in first: it sorts by name and path.
Listed(n) ==
    LET where == {Path[i] : i \in Holding(n)} IN
    CHOOSE d \in where : \A e \in where : Rank[d] <= Rank[e]

\* EvalSymlinks: the file that viti-n in d is in the end, or none.
Resolved(d, n) ==
    IF files[d][n].kind # "link" THEN {<<d, n>>}
    ELSE {<<d, files[d][n].of>>} \cap {<<d, q>> : q \in {m \in Plugins : Exists(d, m)}}

sameFile(d1, n1, d2, n2) ==
    /\ Exists(d1, n1) /\ Exists(d2, n2)
    /\ Resolved(d1, n1) \cap Resolved(d2, n2) # {}

-----------------------------------------------------------------------------
\* What is recorded of an installed plugin: nothing, a file cut short when it
\* was written, or a record.
State(v, d, A) == [kind |-> "ok", version |-> v, dir |-> d, aliases |-> A]
NoState   == [State(0, Home, {}) EXCEPT !.kind = "none"]
CutState  == [State(0, Home, {}) EXCEPT !.kind = "cut"]
States == {NoState, CutState} \cup
          {State(v, d, A) : v \in 1..Latest, d \in Dirs, A \in SUBSET Aliases}

\* Mutant of Others: what belongs to p is not told apart.
OthersAny(p, st) == {n \in Names \ {p} : OnPath(n)}

\* Names that belong to somebody else, for plugin p whose record is st: found
\* on PATH, not recorded as an alias of p, and the file that is listed first
\* is not p's own.
Others(p, st) ==
    {n \in Names \ {p} :
        /\ OnPath(n)
        /\ st.kind = "ok" => /\ n \notin st.aliases
                             /\ ~sameFile(Listed(n), n, st.dir, p)}

\* Mutant of aliasConflicts: only viti's own commands claim a name.
BuiltinConflicts(p, declared, st, reserved) == declared \cap reserved

\* aliasConflicts: the aliases that are taken, and must not be linked.
aliasConflicts(p, declared, st, reserved) == declared \cap (reserved \cup Others(p, st))

\* upgradePrefix: where an upgrade of p goes, whose record is st.
upgradePrefix(p, st) ==
    IF st.dir \in dirs THEN st.dir
    ELSE IF OnPath(p) THEN First(p)
    ELSE Home
=============================================================================
