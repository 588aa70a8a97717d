---------------------------- MODULE MCCredentials ----------------------------
(***************************************************************************)
(* Credentials for three requests whose kubeconfigs share inline data.     *)
(***************************************************************************)
EXTENDS Credentials

CONSTANTS q1, q2, q3, ca, key
=============================================================================
