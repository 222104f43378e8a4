--------------------------- MODULE MCAsyncLogging ---------------------------
(* An instance of AsyncLogging for TLC. *)
EXTENDS AsyncLogging
=============================================================================
