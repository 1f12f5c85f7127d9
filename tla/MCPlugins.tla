------------------------------ MODULE MCPlugins ------------------------------
(***************************************************************************)
(* Small instances of PluginManager for TLC.                               *)
(***************************************************************************)
EXTENDS PluginManager, TLC

CONSTANTS p, q, kv, home, opt, t1, t2

\* Two directories, run in one order and listed in the other.
TwoDirs == <<opt, home>>
ByName  == (home :> 1) @@ (opt :> 2)

\* Every option in one terminal, none in the other.
Plain == <<0, home, FALSE>>
SomeOptions == (t1 :> {Plain, <<0, opt, FALSE>>, <<0, home, TRUE>>}) @@ (t2 :> {Plain})

Sym == Permutations({p, q})
=============================================================================
