----------------------------- MODULE MCDumpFiles -----------------------------
(***************************************************************************)
(* A flash of 22 bytes in chunks of nine, records of four and pages of      *)
(* eight: two whole chunks and a partial one, a partial last record, three  *)
(* pages.  The RAM starts in the middle of a page, which is more than the   *)
(* app needs (its RAM starts at 0).  A hash block is eight bytes, two of    *)
(* them the length, and a file is hashed in pieces of six.                 *)
(***************************************************************************)
EXTENDS DumpFiles
=============================================================================
