---------------------------- MODULE MCCliReceive ----------------------------
(* Two payments, by BIP 77 session or BIP 78 request, whose senders use the same two coins. *)
EXTENDS CliV1

MCKeyOf == [u \in Uris |-> u]
MCOriginals == {{"o1", "o2"}}
=============================================================================
