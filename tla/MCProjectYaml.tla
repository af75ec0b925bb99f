---------------------------- MODULE MCProjectYaml ----------------------------
(* Instances of ProjectYaml for TLC.                                        *)
EXTENDS ProjectYaml, TLC

Symmetric == Permutations(Requests) \cup Permutations(Names) \cup Permutations(Texts)
=============================================================================
