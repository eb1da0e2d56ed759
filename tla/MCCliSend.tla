------------------------------ MODULE MCCliSend ------------------------------
(* Three URIs, two of them of one receiver key, and two sessions. *)
EXTENDS CliSend

MCKeyOf == [u \in Uris |-> IF u = "u3" THEN "k2" ELSE "k1"]
=============================================================================
