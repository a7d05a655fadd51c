--------------------------- MODULE MCWsFeedClient ---------------------------
(* WsFeedClient for TLC: see the .cfg files for the sizes.                 *)
EXTENDS WsFeedClient, TLC
=============================================================================
