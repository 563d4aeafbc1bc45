---------------------------- MODULE MCLifecycle ----------------------------
(* Small instances of Lifecycle for TLC: runs of `strix serve`.            *)
EXTENDS Lifecycle

CONSTANTS g1, g2, h1, h2
=============================================================================
