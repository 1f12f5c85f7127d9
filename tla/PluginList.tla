------------------------------ MODULE PluginList ------------------------------
(***************************************************************************)
(* `viti plugin list`: which of the viti-* files on PATH have a row of     *)
(* their own, and which are listed as an alias of another.  Aliases are    *)
(* recorded when a plugin is installed, or are links made by hand: beside  *)
(* what they link to or elsewhere, to a file, to a link or to nothing.     *)
(***************************************************************************)
EXTENDS Integers, Sequences, FiniteSets

CONSTANTS
    Commands,    \* names of viti-* files, sorted
    Places       \* directories on PATH, sorted

ASSUME ListAssumption == Len(Commands) \in Nat /\ Len(Places) \in Nat

VARIABLES
    real,        \* real[i]: the directory that place i on PATH is
    tree,        \* tree[d][n]: what viti-n in directory d is, and what a link leads to in the end
    records,     \* records[n]: the aliases recorded of plugin n, or that there is no record
    rows         \* the rows printed: the files <<i, n>>, as place i has them

listVars == <<real, tree, records, rows>>

CmdNames == {Commands[i] : i \in 1..Len(Commands)}
NoRecord == {"no record"}
NotListed == {<<0, "">>}
Recorded == {n \in CmdNames : records[n] # NoRecord}

\* A directory may be on PATH twice, by a link to it.  A link leads, directly or
\* over other links, to a program, on PATH or elsewhere, or to none.
Files == (1..Len(Places)) \X CmdNames
Elsewhere == <<0, "">>
Nowhere   == <<0, "nowhere">>
Absent    == [kind |-> "none", to |-> Nowhere]
Program   == [kind |-> "binary", to |-> Nowhere]
LinkTo(f) == [kind |-> "link", to |-> f]

ListInit ==
    /\ real \in [1..Len(Places) -> 1..Len(Places)]
    /\ tree \in [1..Len(Places) -> [CmdNames -> {Absent, Program} \cup
                                               {LinkTo(f) : f \in Files \cup {Elsewhere, Nowhere}}]]
    /\ \A f, g \in Files : tree[f[1]][f[2]] = LinkTo(g) => tree[g[1]][g[2]] = Program
    /\ records \in [CmdNames -> {NoRecord} \cup SUBSET CmdNames]
    /\ rows = NotListed

-----------------------------------------------------------------------------
FileAt(x) == tree[real[x[1]]][x[2]]

\* plugin.List: what is executable, and whatever is a link.
Found == {x \in Files : FileAt(x) # Absent}

EvalSymlinks(x) == IF FileAt(x) = Program THEN <<real[x[1]], x[2]>> ELSE FileAt(x).to
Resolves(x) == EvalSymlinks(x) # Nowhere
SameFile(x, y) == Resolves(x) /\ EvalSymlinks(x) = EvalSymlinks(y)

At(n) == CHOOSE i \in 1..Len(Commands) : Commands[i] = n
Before(x, y) == At(x[2]) < At(y[2]) \/ (x[2] = y[2] /\ x[1] < y[1])
FirstFound(X) == CHOOSE x \in X : \A y \in X \ {x} : Before(x, y)

\* Mutant of rowOwner: the first of the names.
rowOwnerFirst(X) == FirstFound(X)[2]

\* rowOwner: a recorded name, else one that is no link, else the first.
rowOwner(X) ==
    LET recorded == {x \in X : x[2] \in Recorded}
        nolink   == {x \in X : FileAt(x) = Program}
    IN FirstFound(IF recorded # {} THEN recorded ELSE IF nolink # {} THEN nolink ELSE X)[2]

\* aliasOwners: names that are an alias of another: recorded, or found to be
\* the same file as another name.
RecordedAliases == UNION {records[n] : n \in Recorded}
Groups == {{y \in Found : SameFile(x, y)} : x \in Found}
aliasOwners ==
    RecordedAliases \cup {n \in CmdNames : \E X \in Groups : \E x \in X : x[2] = n /\ rowOwner(X) # n}

listInstalledPlugins ==
    /\ rows = NotListed
    /\ rows' = {x \in Found : x[2] \notin aliasOwners}
    /\ UNCHANGED <<real, tree, records>>

ListSpec == ListInit /\ [][listInstalledPlugins]_listVars

-----------------------------------------------------------------------------
\* A plugin that viti installed, and that is found on PATH, is listed under its
\* own name, never "hidden under its own alias" (plugin.go) or a link that
\* somebody made to it: unless its name is recorded as an alias, or is in
\* another place the same file as another installed plugin.  Whatever is found
\* can be seen: a program whose names are no recorded aliases and mean no other
\* program elsewhere has a row.  And no program is listed as if it were two
\* plugins: rows of one program have one name, in several places.
ListsWhatIsInstalled ==
    rows # NotListed =>
      /\ \A x \in Found :
           x[2] \in Recorded \ RecordedAliases =>
             \/ x \in rows
             \/ \E y, z \in Found : y[2] \in Recorded \ {x[2]} /\ z[2] = x[2] /\ SameFile(y, z)
      /\ \A x \in Found :
           /\ Resolves(x)
           /\ \A y \in Found : SameFile(x, y) =>
                 y[2] \notin RecordedAliases /\ \A z \in Found : z[2] = y[2] => SameFile(y, z)
           => \E y \in rows : SameFile(x, y)
      /\ \A x, y \in rows : SameFile(x, y) => x[2] = y[2]
=============================================================================
