------------------------------- MODULE MCWAL -------------------------------
(***************************************************************************)
(* Constants for model checking WAL.  A header of two bytes and a buffer   *)
(* of four: payloads that are empty, that just fill the buffer, that spill *)
(* over, and that need several writes.                                     *)
(***************************************************************************)
EXTENDS WAL

MCLens == {0, 1, 2, 3, 7}
MCBytes == [id : 1 .. MaxLogs, len : Lens, pos : 1 .. 9]
=============================================================================
