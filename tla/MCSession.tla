----------------------------- MODULE MCSession -----------------------------
(* One window.  MCSession.cfg: two mailboxes, one of which is signed into   *)
(* twice; what they count does not matter.  MCSessionBadge.cfg: one mailbox *)
(* that is signed into twice.                                               *)
EXTENDS Session, TLC

CONSTANTS e1, e2, s1, s2

MCBoth == {e1, e2}
MCOne == {e1}
MCTwice == [e \in Emails |-> IF e = e1 THEN 2 ELSE 1]
MCUnread == [e \in Emails |-> {1}]
MCSymmetry == Permutations(Syncs)
MCCounts == [e \in Emails |-> {0, 1}]

=============================================================================
