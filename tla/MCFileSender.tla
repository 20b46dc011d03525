----------------------------- MODULE MCFileSender -----------------------------
(***************************************************************************)
(* A file of three NALUs, two of them fragmented; and a file with a NALU   *)
(* of one byte in the middle.                                              *)
(***************************************************************************)
EXTENDS FileSender
MCFiles == {<<1, 3, 2>>, <<2, 0, 1>>}
===============================================================================
