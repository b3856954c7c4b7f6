-------------------------- MODULE MCTrafficBuckets --------------------------
(***************************************************************************)
(* Small instances of TrafficBuckets.                                      *)
(***************************************************************************)
EXTENDS TrafficBuckets
=============================================================================
