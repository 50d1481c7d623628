------------------------------ MODULE MCIngest ------------------------------
(***************************************************************************)
(* Two deliveries of the same message m1, which carries a Message-ID and   *)
(* an attachment, to two queue workers.  Without a Message-ID (IdOf <-     *)
(* NoMessageId) the ingest key is new at every attempt.                    *)
(***************************************************************************)
EXTENDS Ingest, TLC

CONSTANTS d1, d2, m1, id1

OnceM1 == d1 :> m1
BothOfM1 == (d1 :> m1) @@ (d2 :> m1)
WithMessageId == m1 :> id1
NoMessageId == m1 :> NoId
OneAttachment == m1 :> 1
=============================================================================
