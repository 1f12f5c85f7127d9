---------------------------- MODULE PluginDispatch ----------------------------
(***************************************************************************)
(* Whether `viti args...` is a command of its own or runs a plugin: which  *)
(* one, with which arguments, and what it is told of the zone.  A plugin   *)
(* viti-a-b is the sequence of the words <<a, b>>.                         *)
(***************************************************************************)
EXTENDS Integers, Sequences, FiniteSets

CONSTANTS
    Words,       \* what may stand on a command line
    Flags,       \* the words that start with a dash,
    ZoneFlags,   \*   of them the ones that take the next word as their value
    Equals,      \*   and the ones of the form flag=value
    Builtins,    \* commands of viti
    Installs,    \* the sets of plugins that may be on PATH
    MaxArgs      \* bound: the length of a command line

ASSUME DispatchAssumption ==
    /\ ZoneFlags \cup Equals \subseteq Flags /\ Flags \subseteq Words
    /\ ZoneFlags \cap Equals = {} /\ Builtins \cap Flags = {}
    /\ MaxArgs \in Nat
    /\ \A plugins \in Installs : plugins \subseteq Seq(Words \ Flags) \ {<<>>}

VARIABLES
    args,        \* os.Args[1:]
    onPath,      \* the plugins on PATH
    ran          \* what came of it

dispatchVars == <<args, onPath, ran>>

ToCobra == [name |-> <<>>, args |-> <<>>, zone |-> "none"]
Waiting == [ToCobra EXCEPT !.zone = "waiting"]

DispatchInit ==
    /\ args \in UNION {[1..n -> Words] : n \in 0..MaxArgs}
    /\ onPath \in Installs
    /\ ran = Waiting

\* Mutant of firstIdx: the value of -z is taken for a word of its own.
firstWord == CHOOSE i \in 1..Len(args) + 1 :
                /\ i = Len(args) + 1 \/ args[i] \notin Flags
                /\ \A j \in 1..i - 1 : args[j] \in Flags

\* collectPluginTokens: the first word that is neither a flag nor the value of
\* one; a zone flag at the very end has no value.
firstIdx ==
    LET from[i \in 1..Len(args) + 2] ==
          IF i > Len(args) THEN Len(args) + 1
          ELSE IF args[i] \notin Flags THEN i
          ELSE IF args[i] \in ZoneFlags /\ i < Len(args) THEN from[i + 2]
          ELSE from[i + 1]
    IN from[1]

\* ... and the words from there to the next flag.
tokens ==
    LET end == CHOOSE j \in firstIdx..Len(args) + 1 :
                 /\ j = Len(args) + 1 \/ args[j] \in Flags
                 /\ \A i \in firstIdx..j - 1 : args[i] \notin Flags
    IN SubSeq(args, firstIdx, end - 1)

\* LongestMatch: how many of the tokens name the plugin; 0 if there is none.
matchedLen ==
    LET lengths == {n \in 1..Len(tokens) : SubSeq(tokens, 1, n) \in onPath}
    IN IF lengths = {} THEN 0 ELSE CHOOSE n \in lengths : \A m \in lengths : m <= n

argsAfterMatch == SubSeq(args, 1, firstIdx - 1) \o SubSeq(args, firstIdx + matchedLen, Len(args))

\* extractGlobalFlagValue: of the first zone flag, in either form.
zoneOf ==
    LET given == {i \in 1..Len(args) : args[i] \in Equals \/ (args[i] \in ZoneFlags /\ i < Len(args))}
    IN IF given = {} THEN "none"
       ELSE LET i == CHOOSE i \in given : \A j \in given : i <= j
            IN IF args[i] \in Equals THEN args[i] ELSE args[i + 1]

maybeDispatchPlugin ==
    /\ ran = Waiting
    /\ ran' = IF tokens = <<>> \/ matchedLen = 0 THEN ToCobra
              ELSE IF tokens[1] \in Builtins THEN ToCobra
              ELSE [name |-> SubSeq(tokens, 1, matchedLen), args |-> argsAfterMatch, zone |-> zoneOf]
    /\ UNCHANGED <<args, onPath>>

DispatchSpec == DispatchInit /\ [][maybeDispatchPlugin]_dispatchVars

-----------------------------------------------------------------------------
\* The word at i is the value of a zone flag: of the zone flags right before
\* it every other one is itself a value.
IsValue(i) ==
    LET run == {n \in 1..i - 1 : \A j \in i - n..i - 1 : args[j] \in ZoneFlags}
    IN Cardinality(run) % 2 = 1

\* A plugin runs if and only if the words typed, without flags and what the
\* flags take ("their value skipped so it isn't mistaken for a command",
\* plugin_dispatch.go), begin with its name and not with a command of viti's;
\* the plugin of the longest such name runs, and it is given every other word
\* that was typed, in order.
RunsWhatWasTyped ==
    ran # Waiting =>
      LET command == {i \in 1..Len(args) :
                        /\ args[i] \notin Flags /\ ~IsValue(i)
                        /\ \A j \in 1..i - 1 : args[j] \in Flags \/ IsValue(j)}
          named(i) == {name \in onPath : /\ i + Len(name) - 1 <= Len(args)
                                         /\ name = SubSeq(args, i, i + Len(name) - 1)}
      IN IF \E i \in command : args[i] \notin Builtins /\ named(i) # {}
         THEN \A i \in command :
                /\ ran.name \in named(i)
                /\ \A name \in named(i) : Len(name) <= Len(ran.name)
                /\ SubSeq(ran.args, 1, i - 1) \o ran.name
                     \o SubSeq(ran.args, i, Len(ran.args)) = args
         ELSE ran = ToCobra
=============================================================================
