----------------------------- MODULE MCItchFeed -----------------------------
(* ItchFeed for TLC: see the .cfg file for the sizes.                      *)
EXTENDS ItchFeed
=============================================================================
