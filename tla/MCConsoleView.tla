----------------------------- MODULE MCConsoleView -----------------------------
(***************************************************************************)
(* A stream of three bytes drained two at a time into lines of two: every     *)
(* buffer can be full, and a chunk can end a line in its middle.            *)
(***************************************************************************)
EXTENDS ConsoleView
=============================================================================
