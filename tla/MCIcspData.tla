----------------------------- MODULE MCIcspData -----------------------------
(* Instances of IcspData for TLC: small tables, window and counters. *)
EXTENDS IcspData
CONSTANTS a, b, c
=============================================================================
