------------------------------ MODULE MCUpload ------------------------------
(***************************************************************************)
(* Upload with the hosts the receiver tolerates and software in time, as   *)
(* UploadProofs assumes for the line.                                      *)
(***************************************************************************)
EXTENDS Upload

ASSUME LinkAssumption == InTime /\ \A h \in HostDivisors : Tolerates(h)
=============================================================================
