----------------------------- MODULE Composer ------------------------------
(***************************************************************************)
(* The compose form: recipients as chips with suggestions from the address *)
(* book, attachments read from disk, the original of a reply, which comes  *)
(* while the user may already be writing, and what is posted in the end.   *)
(*                                                                         *)
(* A text is a sequence of lines.  What the server does with the post is   *)
(* module Outbound's matter.                                               *)
(***************************************************************************)
EXTENDS Integers, FiniteSetsExt, SequencesExt, Profile

CONSTANTS
    People,      \* addresses that can be typed or offered
    Files,       \* files that can be picked
    Size,        \* Size[f]
    MAX_TOTAL,   \* what the attachments may weigh together
    Lines,       \* lines of text
    Original,    \* what a reply finds: its quoted lines, and who it goes to
    Shown,       \* Shown[l]: what a mail program shows of line l taken as HTML
    MaxActs,     \* bound: things the user does
    MaxSettings, \* bound: the first of these, which may be calls for profiles
    MaxAsked     \* bound: suggestion queries under way

Fields == {"to", "cc", "bcc"}
Nothing == "none"
Unopened == "closed"
Sep == "________"
Rule == "<hr>"
NoPost == [from |-> Nothing]

ASSUME ComposerAssumption ==
    /\ IsFiniteSet(People)
    /\ Size \in [Files -> Nat] /\ MAX_TOTAL \in Nat /\ MaxAsked \in Nat
    /\ {"", "name", "own", Sep} \subseteq Lines /\ Rule \notin Lines
    /\ Shown \in [Lines -> Lines]
    /\ Signatures \subseteq Seq(Lines) /\ Original.lines \in Seq(Lines)
    /\ Original.replyTo \subseteq People /\ Original.cc \subseteq People \cup Accounts

VARIABLES
    mode,        \* new, reply, replyAll or forward
    prefill,     \* the form is closed, waits for the original, or is ready
    acc,         \* the account the form was opened for
    from,        \* the account in the select
    chips,       \* the recipients of each field
    typed,       \* the addresses in each field's input
    suggestions, \* the addresses offered
    sugFor,      \* the field they are offered for
    sugIndex,    \* the highlighted one, from 0; -1 is none
    due,         \* the timer of a query runs
    asked,       \* queries under way
    hiding,      \* the timer that hides the suggestions runs
    reading,     \* files being read
    attachments, \* files read
    body,        \* the text
    inReplyTo,   \* whether the post names a mail it answers
    busy,        \* the post is under way
    posted,      \* history: the last post
    acts         \* bound

recipients == <<from, chips, typed, suggestions, sugFor, sugIndex, due, asked, hiding>>
files == <<reading, attachments>>
text == <<body, inReplyTo>>
cVars == <<mode, acc, prefill, recipients, files, text, busy, posted, acts, profiles>>

-----------------------------------------------------------------------------
(* The text and its HTML part *)

PhotoIn(p) == p.photo /\ p.inSignature

\* sigText: the display name stands in for a signature that is not there.
sigText(p) == IF p.signature = <<>> /\ PhotoIn(p) THEN <<"name">> ELSE p.signature
sigBlock(p) == IF sigText(p) = <<>> THEN <<>> ELSE <<"", "">> \o sigText(p)
quote == <<"", Sep>> \o Original.lines

IsAt(lines, sig, i) == SubSeq(lines, i, i + Len(sig) - 1) = sig

\* Mutated form of sigIndex: the quoted original is searched as well.
sigIndexAnywhere(lines, sig) ==
    LET found == {i \in 1..Len(lines) : i + Len(sig) - 1 <= Len(lines) /\ IsAt(lines, sig, i)} IN
    IF found = {} THEN 0 ELSE Max(found)

\* sigIndex: the last place above the quoted original where the signature
\* stands on lines of its own; 0 is none.
sigIndex(lines, sig) ==
    LET limit == Min({i \in 1..Len(lines) : lines[i] = Sep} \cup {Len(lines) + 1})
        found == {i \in 1..Len(lines) : i + Len(sig) <= limit /\ IsAt(lines, sig, i)} IN
    IF found = {} THEN 0 ELSE Max(found)

\* linesHtml: the separator becomes a rule; every other line is taken over as
\* it stands, markup and all.
linesHtml(lines) == [i \in DOMAIN lines |-> IF lines[i] = Sep THEN Rule ELSE lines[i]]

\* bodyHtml: a card with the photo takes the place of the signature.
bodyHtml(p, lines) ==
    LET sig == sigText(p)
        at == IF PhotoIn(p) /\ sig # <<>> THEN sigIndex(lines, sig) ELSE 0 IN
    IF at = 0 THEN [before |-> linesHtml(lines), photo |-> FALSE, card |-> <<>>, after |-> <<>>]
    ELSE [before |-> linesHtml(SubSeq(lines, 1, at - 1)), photo |-> TRUE, card |-> linesHtml(sig),
          after |-> linesHtml(SubSeq(lines, at + Len(sig), Len(lines)))]

\* What a mail program shows of it, line by line; a tag that spans lines is not
\* followed.
Display(html) ==
    LET lines == html.before \o html.card \o html.after IN
    [i \in DOMAIN lines |-> IF lines[i] = Rule THEN Rule ELSE Shown[lines[i]]]

-----------------------------------------------------------------------------

CInit ==
    /\ mode \in {"new", "reply", "replyAll", "forward"}
    /\ prefill = Unopened
    /\ acc \in Accounts
    /\ from = acc
    /\ chips = [f \in Fields |-> {}]
    /\ typed = [f \in Fields |-> {}]
    /\ suggestions = <<>> /\ sugFor = Nothing /\ sugIndex = -1
    /\ due = FALSE /\ asked = 0 /\ hiding = FALSE
    /\ reading = {} /\ attachments = {}
    /\ body = <<>>
    /\ inReplyTo = FALSE
    /\ busy = FALSE
    /\ posted = NoPost
    /\ acts = 0
    /\ ProfileInit

CountedAct == acts < MaxActs /\ acts' = acts + 1
Act == prefill # Unopened /\ CountedAct /\ UNCHANGED profiles

\* The form is opened: a new mail begins with the sender's signature as the
\* window knows it, an answer to a mail asks for the original.
Mount ==
    /\ prefill = Unopened
    /\ prefill' = IF mode = "new" THEN Nothing ELSE "asked"
    /\ body' = IF mode = "new" THEN sigBlock(profile[from]) ELSE body
    /\ UNCHANGED <<mode, acc, recipients, files, inReplyTo, busy, posted, acts, profiles>>

\* A call of the settings form is served, before this form is opened or after,
\* or the counts are refreshed.
Settings ==
    /\ acts < MaxSettings /\ CountedAct
    /\ ProfileStep(acts)
    /\ UNCHANGED <<mode, acc, prefill, recipients, files, text, busy, posted>>

HearProfile ==
    /\ applyProfile
    /\ UNCHANGED <<mode, acc, prefill, recipients, files, text, busy, posted, acts>>

\* The original came, or did not; whatever the user had entered meanwhile in
\* these fields is replaced.  A mail of the user's own is not named as answered.
Prefill(received) ==
    /\ prefill = "asked"
    /\ from' = acc
    /\ inReplyTo' = received
    /\ body' = sigBlock(profile[acc]) \o quote
    /\ chips' = [f \in Fields |->
          CASE f = "to" /\ mode # "forward" -> Original.replyTo
            [] f = "cc" /\ mode = "replyAll" /\ Original.cc # {} -> Original.cc \ {acc}
            [] OTHER -> chips[f]]
    /\ prefill' = Nothing
    /\ UNCHANGED <<mode, acc, typed, suggestions, sugFor, sugIndex, due, asked, hiding, files, busy, posted, acts, profiles>>

NoOriginal ==
    /\ prefill = "asked"
    /\ prefill' = Nothing
    /\ UNCHANGED <<mode, acc, recipients, files, text, busy, posted, acts, profiles>>

-----------------------------------------------------------------------------
(* Recipients *)

\* What is typed becomes chips, each address once in its field.
addChip(f, cs) == [cs EXCEPT ![f] = @ \cup typed[f]]

\* queryRecipients: on input, and on focus, which leaves the input as it is.
queryRecipients(f) == sugFor' = f /\ sugIndex' = -1 /\ due' = TRUE

Input(f, ps) ==
    /\ Act
    /\ typed' = [typed EXCEPT ![f] = ps]
    /\ queryRecipients(f)
    /\ UNCHANGED <<mode, acc, prefill, from, chips, suggestions, asked, hiding, files, text, busy, posted>>

FireQuery ==
    /\ due /\ asked < MaxAsked
    /\ due' = FALSE
    /\ asked' = asked + 1
    /\ UNCHANGED <<mode, acc, prefill, from, chips, typed, suggestions, sugFor, sugIndex, hiding, files, text, busy, posted, acts, profiles>>

\* An answer is shown whichever field and text it was asked for, without the
\* addresses that are chips already; its order is the server's.
HearRecipients(offer) ==
    /\ asked > 0
    /\ asked' = asked - 1
    /\ suggestions' = SetToSeq(offer \ UNION {chips[f] : f \in Fields})
    /\ UNCHANGED <<mode, acc, prefill, from, chips, typed, sugFor, sugIndex, due, hiding, files, text, busy, posted, acts, profiles>>

pickSug(f, p) ==
    /\ chips' = [chips EXCEPT ![f] = @ \cup {p}]
    /\ typed' = [typed EXCEPT ![f] = {}]
    /\ suggestions' = <<>>
    /\ sugFor' = Nothing

Offered(f) == sugFor = f /\ suggestions # <<>>

ClickSug(f, i) ==
    /\ Act
    /\ Offered(f)
    /\ pickSug(f, suggestions[i])
    /\ sugIndex' = i - 1
    /\ UNCHANGED <<mode, acc, prefill, from, due, asked, hiding, files, text, busy, posted>>

\* Mutated form of stepped: the list does not wrap around.
steppedOff(dir) == sugIndex + dir

stepped(dir) == (sugIndex + dir + Len(suggestions)) % Len(suggestions)

sugNav(f, dir) ==
    /\ Act
    /\ Offered(f)
    /\ sugIndex' = stepped(dir)
    /\ UNCHANGED <<mode, acc, prefill, from, chips, typed, suggestions, sugFor, due, asked, hiding, files, text, busy, posted>>

\* Enter takes what is highlighted now, or what is typed.
onEnter(f) ==
    /\ Act
    /\ IF sugFor = f /\ sugIndex + 1 \in DOMAIN suggestions
       THEN pickSug(f, suggestions[sugIndex + 1])
       ELSE /\ chips' = addChip(f, chips)
            /\ typed' = [typed EXCEPT ![f] = {}]
            /\ suggestions' = <<>>
            /\ UNCHANGED sugFor
    /\ UNCHANGED <<mode, acc, prefill, from, sugIndex, due, asked, hiding, files, text, busy, posted>>

\* A comma or a semicolon, and leaving the field, which also hides the
\* suggestions a little later, in whatever field they are by then.
Separate(f, leaving) ==
    /\ Act
    /\ chips' = addChip(f, chips)
    /\ typed' = [typed EXCEPT ![f] = {}]
    /\ hiding' = (hiding \/ leaving)
    /\ UNCHANGED <<mode, acc, prefill, from, suggestions, sugFor, sugIndex, due, asked, files, text, busy, posted>>

hideSug ==
    /\ hiding
    /\ hiding' = FALSE
    /\ suggestions' = <<>>
    /\ sugFor' = Nothing
    /\ UNCHANGED <<mode, acc, prefill, from, chips, typed, sugIndex, due, asked, files, text, busy, posted, acts, profiles>>

\* removeChip, and Backspace in an empty input.
removeChip(f, p) ==
    /\ Act
    /\ p \in chips[f]
    /\ chips' = [chips EXCEPT ![f] = @ \ {p}]
    /\ UNCHANGED <<mode, acc, prefill, from, typed, suggestions, sugFor, sugIndex, due, asked, hiding, files, text, busy, posted>>

-----------------------------------------------------------------------------
(* Sender, text and attachments *)

\* The select changes the sender and leaves the text as it is.
ChangeFrom(a) ==
    /\ Act
    /\ a # from
    /\ from' = a
    /\ UNCHANGED <<mode, acc, prefill, chips, typed, suggestions, sugFor, sugIndex, due, asked, hiding, files, text, busy, posted>>

Edit(lines) ==
    /\ Act
    /\ body' = lines
    /\ UNCHANGED <<mode, acc, prefill, recipients, files, inReplyTo, busy, posted>>

Weight(fs) == MapThenSumSet(LAMBDA f : Size[f], fs)

onFiles(fs) ==
    /\ Act
    /\ fs # {} /\ fs \cap (reading \cup attachments) = {}
    /\ reading' = reading \cup fs
    /\ UNCHANGED <<mode, acc, prefill, recipients, attachments, text, busy, posted>>

\* Mutated form of fits: each file is held against the limit alone.
fitsAlone(f) == Size[f] <= MAX_TOTAL

\* What is there when the file has been read counts.
fits(f) == Weight(attachments) + Size[f] <= MAX_TOTAL

\* A file has been read: it is attached if it fits.  One that cannot be read
\* goes without a word.
FileRead(f, ok) ==
    /\ f \in reading
    /\ reading' = reading \ {f}
    /\ attachments' = IF ok /\ fits(f) THEN attachments \cup {f} ELSE attachments
    /\ UNCHANGED <<mode, acc, prefill, recipients, text, busy, posted, acts, profiles>>

removeAttachment(f) ==
    /\ Act
    /\ f \in attachments
    /\ attachments' = attachments \ {f}
    /\ UNCHANGED <<mode, acc, prefill, recipients, reading, text, busy, posted>>

-----------------------------------------------------------------------------
(* Sending *)

\* send: what is still in the inputs becomes chips first; nothing is posted
\* without a recipient.
send ==
    LET cs == [f \in Fields |-> chips[f] \cup typed[f]] IN
    /\ Act
    /\ ~busy
    /\ chips' = cs
    /\ typed' = [f \in Fields |-> {}]
    /\ IF cs["to"] = {} THEN UNCHANGED <<busy, posted>>
       ELSE /\ busy' = TRUE
            /\ posted' = [from |-> from, chips |-> cs, text |-> body, html |-> bodyHtml(profile[from], body),
                          profile |-> profile[from], reply |-> inReplyTo, files |-> attachments]
    /\ UNCHANGED <<mode, acc, prefill, from, suggestions, sugFor, sugIndex, due, asked, hiding, files, text>>

\* The post failed: the form is usable again.  After a success it is left.
SendFails ==
    /\ busy
    /\ busy' = FALSE
    /\ UNCHANGED <<mode, acc, prefill, recipients, files, text, posted, acts, profiles>>

-----------------------------------------------------------------------------

Edits == {<<"own">> \o body} \cup {RemoveAt(body, i) : i \in DOMAIN body}

UserRecipients(f) ==
    \/ \E ps \in SUBSET People : Input(f, ps)
    \/ \E p \in People \cup Accounts : removeChip(f, p)
    \/ \E i \in DOMAIN suggestions : ClickSug(f, i)
    \/ \E dir \in {-1, 1} : sugNav(f, dir)
    \/ \E leaving \in BOOLEAN : Separate(f, leaving)
    \/ onEnter(f)

CNext ==
    \/ Mount \/ Settings \/ HearProfile
    \/ NoOriginal \/ \E received \in BOOLEAN : Prefill(received)
    \/ \E f \in Fields : UserRecipients(f)
    \/ FireQuery \/ hideSug
    \/ \E ps \in SUBSET People : HearRecipients(ps)
    \/ \E a \in Accounts : ChangeFrom(a)
    \/ \E lines \in Edits : Edit(lines)
    \/ \E fs \in SUBSET Files : onFiles(fs)
    \/ \E f \in Files : removeAttachment(f) \/ \E ok \in BOOLEAN : FileRead(f, ok)
    \/ send \/ SendFails

CSpec == CInit /\ [][CNext]_cVars

-----------------------------------------------------------------------------
(* Properties *)

\* The types; among them, that the highlight is a position of some list or the
\* one before it, however the list is replaced under it.
CTypeOK ==
    /\ from \in Accounts /\ acc \in Accounts
    /\ chips \in [Fields -> SUBSET (People \cup Accounts)]
    /\ typed \in [Fields -> SUBSET People]
    /\ sugFor \in Fields \cup {Nothing}
    /\ sugIndex \in -1..(Cardinality(People) - 1)
    /\ asked \in 0..MaxAsked
    /\ reading \cap attachments = {}
    /\ busy => posted # NoPost
    /\ me \in [Accounts -> Profiles] /\ profile \in [Accounts -> Profiles]

\* However the reads of several files end, what is attached and what is posted
\* stays under the limit.
AttachmentsFit ==
    /\ Weight(attachments) <= MAX_TOTAL
    /\ posted # NoPost => Weight(posted.files) <= MAX_TOTAL

\* However the text was edited, the sender changed and the signature saved anew
\* while the form was open: a card in a posted HTML part holds the signature of the
\* account posted from, as the window knows it then, above the quoted original and
\* on lines of its own, and only while that account's photo is to stand there; no
\* line of the text is lost, doubled or moved by it.  The lines are those of the
\* HTML source, where nothing of the text is escaped: see HtmlSaysTheText.
CardIsOwnSignature ==
    posted # NoPost =>
        LET html == posted.html IN
        /\ linesHtml(posted.text) = html.before \o html.card \o html.after
        /\ html.card = IF html.photo THEN linesHtml(sigText(posted.profile)) ELSE <<>>
        /\ html.photo => PhotoIn(posted.profile) /\ Rule \notin ToSet(html.before)

\* A mail program that shows the HTML part shows every line of the text, which the
\* post carries beside it.  (Of the code it is false: the "From" line of a quoted
\* original has its address in angle brackets, Compose.vue:152, and loses it.)
HtmlSaysTheText ==
    posted # NoPost => Display(posted.html) = linesHtml(posted.text)

=============================================================================
