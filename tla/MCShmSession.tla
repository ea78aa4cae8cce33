---------------------------- MODULE MCShmSession ----------------------------
(* Instances of ShmSession for TLC.  The numbers lie on both sides of the   *)
(* least frequency and of zero power; the bytes of a text read as 7.        *)
EXTENDS ShmSession

MCNumbers == {-1, 0, 3}
=============================================================================
