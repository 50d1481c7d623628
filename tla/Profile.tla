------------------------------ MODULE Profile ------------------------------
(***************************************************************************)
(* The profiles of a window's accounts: what the server has, what the      *)
(* account objects of the window say, and the answers on their way that    *)
(* bring one to the other.  The settings form and the refresh of the       *)
(* counts ask; each answer carries the whole profile as it was then.       *)
(*                                                                         *)
(* A step that asks stands for the moment the server serves the call; the  *)
(* form may have been left meanwhile.  A failed call changes nothing in    *)
(* the window, and is an answer that is never heard.                       *)
(***************************************************************************)
EXTENDS Naturals

CONSTANTS
    Accounts,     \* addresses signed in
    Signatures,   \* the signatures a user may write, as lines; <<>> is none
    FirstProfile  \* FirstProfile[a]: a's profile to begin with

Profiles == [signature : Signatures, photo : BOOLEAN, inSignature : BOOLEAN]

ASSUME ProfileAssumption == FirstProfile \in [Accounts -> Profiles]

VARIABLES
    me,       \* the server's profiles
    profile,  \* the window's
    answers   \* answers not heard yet, numbered

profiles == <<me, profile, answers>>

ProfileInit ==
    /\ me = FirstProfile
    /\ profile = FirstProfile
    /\ answers = {}

\* The server makes call n for account a, which leaves its profile as p.
Served(n, a, p) ==
    /\ me' = [me EXCEPT ![a] = p]
    /\ answers' = answers \cup {[n |-> n, acc |-> a, mailbox |-> p]}
    /\ UNCHANGED profile

\* A save says nothing of the photo.
updateProfile(n, a, sig, tick) ==
    Served(n, a, [me[a] EXCEPT !.signature = sig, !.inSignature = tick])

\* The form sends what it holds: the window's profile when the account was
\* chosen, or what the user made of it.
saveProfile(n, a) == \E sig \in Signatures, tick \in BOOLEAN : updateProfile(n, a, sig, tick)

uploadAvatar(n, a) == Served(n, a, [me[a] EXCEPT !.photo = TRUE])

\* Without a photo there is none in the signature.
removeAvatar(n, a) == Served(n, a, [me[a] EXCEPT !.photo = FALSE, !.inSignature = FALSE])

\* The refresh of the counts brings the profile too.
refreshed(n, a) == Served(n, a, me[a])

\* What an answer says is the window's profile, even if it is an older answer.
applyProfile ==
    \E ans \in answers :
        /\ profile' = [profile EXCEPT ![ans.acc] = ans.mailbox]
        /\ answers' = answers \ {ans}
        /\ UNCHANGED me

\* The form's buttons, and the refresh.
ProfileStep(n) ==
    \E a \in Accounts : saveProfile(n, a) \/ uploadAvatar(n, a) \/ removeAvatar(n, a) \/ refreshed(n, a)

=============================================================================
