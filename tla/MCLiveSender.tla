----------------------------- MODULE MCLiveSender -----------------------------
(***************************************************************************)
(* Two clients, one of them watched.                                       *)
(***************************************************************************)
EXTENDS LiveSender
CONSTANT c1
MCWatched == <<c1, 5004>>
===============================================================================
