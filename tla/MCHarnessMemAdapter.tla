------------------------ MODULE MCHarnessMemAdapter -------------------------
(***************************************************************************)
(* A small instance of the LangChain adapter for TLC.                      *)
(***************************************************************************)
EXTENDS HarnessMemAdapter

\* A success and an error status.
MCAdapterStatuses == {200, 404}
\* "", a short text, and one longer than both limits.
MCInputLens == {0, 3, 4001}
=============================================================================
