--------------------------- MODULE MC_Middleware ---------------------------
(***************************************************************************)
(* Middleware with two keys, of which k1 is asked for alone, and together  *)
(* with k2.                                                                *)
(***************************************************************************)
EXTENDS Middleware, TLC

CONSTANTS k1, k2

MCKeys == {k1, k2}
MCCommands ==
    [kind : {"set"}, keys : {<<k1>>, <<k2>>}] \union [kind : {"get"}, keys : {<<k1>>, <<k1, k2>>}]

\* Clients and threads are interchangeable, and the run checks no liveness.
Symmetry == Permutations(Clients) \union Permutations(Threads)
=============================================================================
