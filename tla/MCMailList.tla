---------------------------- MODULE MCMailList -----------------------------
(* Two mails of one conversation, a second account without mail. *)
EXTENDS MailList, TLC

CONSTANTS a1, a2, f1, f2, c1, c2

MCAccountOf == <<a1, a1>>
MCThreadOf == <<1, 1>>
MCUnread == Content("inbox", {})
MCStarred == Content("inbox", {"read", "starred"})
MCTrashed == Content("trash", {})

MCBeginnings ==
    {<<"inbox", a1, <<MCUnread, NotYet>> >>,
     <<"starred", a1, <<MCStarred, MCUnread>> >>,
     <<"trash", a1, <<MCTrashed, MCUnread>> >>}
MCElsewheres == {MCUnread}
MCSymmetry == Permutations({f1, f2}) \cup Permutations({c1, c2})

=============================================================================
