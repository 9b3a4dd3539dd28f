------------------------- MODULE MCHarnessMemClient -------------------------
(* Small instances of HarnessMemClient for TLC. *)
EXTENDS HarnessMemClient

\* One success and one error status are enough to reach every branch.
MCStatuses == {200, 404}
=============================================================================
