---------------------------- MODULE MCMailboxes ----------------------------
(* Small instances of the mailbox store; requests, mailboxes and messages are *)
(* interchangeable.                                                           *)
EXTENDS Mailboxes, TLC

StoreSymmetry == Permutations(Requests) \cup Permutations(Ids) \cup Permutations(Payloads)
=============================================================================
