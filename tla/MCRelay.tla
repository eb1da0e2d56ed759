------------------------------- MODULE MCRelay -------------------------------
(* Two requests at a time for the default gateway and two others, of which    *)
(* the map has room for one; one tunnel.                                      *)
EXTENDS Relay
=============================================================================
