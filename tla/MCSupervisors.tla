--------------------------- MODULE MCSupervisors ---------------------------
(* Module Supervisors for TLC. *)
EXTENDS Supervisors, TLC

CONSTANTS admin, guest, b1, b2

Perms == Permutations(Browsers)
=============================================================================
