----------------------------- MODULE MCOutbound -----------------------------
(***************************************************************************)
(* One message, over the size limit or not, with an attachment; Send is    *)
(* pressed up to twice, with either driver, so that a second request can   *)
(* run while the first one still does.                                     *)
(***************************************************************************)
EXTENDS Outbound
=============================================================================
