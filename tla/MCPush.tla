------------------------------- MODULE MCPush ------------------------------
(* Two mailboxes on one device; two runs can overlap. *)
EXTENDS Push
=============================================================================
