--------------------------- MODULE MCSendSession ---------------------------
(* A sender session over two reply keys and two acceptable proposals. *)
EXTENDS SendSession
=============================================================================
