----------------------------- MODULE MCEnvCache -----------------------------
(* Instances of EnvCache for TLC.                                          *)
EXTENDS EnvCache, TLC

CONSTANTS p1, p2

RequestSymmetry == Permutations(Requests)

\* A shared filter, read first and evicted from every project, an object of one
\* project, and a parameter, read last and never evicted: a build can straddle
\* the edit of the parameter.
MixedSlots == {<<"filters", Global>>, <<"objects", p2>>, <<"proj", p1>>}
=============================================================================
