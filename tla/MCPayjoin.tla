------------------------------- MODULE MCPayjoin -------------------------------
(* Two senders that were shown one URI, one crash of the directory. *)
EXTENDS Payjoin
=============================================================================
