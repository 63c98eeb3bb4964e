--------------------------- MODULE MCSmpScheduler ---------------------------
(* Two processors with two threads each, one of which is a driver's.        *)
EXTENDS SmpScheduler, TLC
=============================================================================
