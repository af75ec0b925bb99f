---------------------------- MODULE MCGitRemote ----------------------------
(* Instances of GitRemote for TLC.                                         *)
EXTENDS GitRemote

CONSTANTS keep, t1, t2
=============================================================================
