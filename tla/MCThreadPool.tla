---------------------------- MODULE MCThreadPool ----------------------------
(* ThreadPool for TLC: see the .cfg files for the sizes.                   *)
EXTENDS ThreadPool, TLC
=============================================================================
