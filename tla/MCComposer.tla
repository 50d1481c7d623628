---------------------------- MODULE MCComposer -----------------------------
(* Two accounts with a photo, one without a signature; the original quotes that
   of the other, under a line with an address in angle brackets. *)
EXTENDS Composer

MCSignatures == {<<>>, <<"sig">>}
MCFirstProfile ==
    [a \in Accounts |-> [signature |-> IF a = "me" THEN <<"sig">> ELSE <<>>, photo |-> TRUE, inSignature |-> TRUE]]
MCSize == [f \in Files |-> 2]
MCOriginal == [lines |-> <<"From: P <p>", "sig">>, replyTo |-> {"p"}, cc |-> {"q", "me"}]
MCShown == [l \in Lines |-> IF l = "From: P <p>" THEN "From: P" ELSE l]

=============================================================================
