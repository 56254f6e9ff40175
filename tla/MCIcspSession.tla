---------------------------- MODULE MCIcspSession ----------------------------
(* Instances of IcspSession for TLC. *)
EXTENDS IcspSession

\* Without the history that only Flows reads: no step and no invariant depends on it.
Present == <<assocVars, dp, timeVars, chan, late, envVars, sent, got>>
=============================================================================
