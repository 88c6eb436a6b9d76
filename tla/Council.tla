-------------------------------- MODULE Council --------------------------------
(***************************************************************************)
(* A page of the council: a form that posts signed documents to the server *)
(* and the list of what has been posted, asked for page by page.  There    *)
(* are three, much alike: the accounts of the state, the transfers to one  *)
(* of them and the taxes.  They differ in when they take a new nonce, in   *)
(* whether the form is cleared and whether its button is hidden.           *)
(*                                                                         *)
(* What is typed into a form is known by its number, a document by what    *)
(* its signature depends on: the text and the nonce.                       *)
(***************************************************************************)
EXTENDS Integers, Sequences

CONSTANTS
  MaxPosts, MaxTexts, MaxTurns, \* bounds: presses of Submit, texts, page turns
  Pages,        \* pages of the list that the user turns to
  Elsewhere,    \* texts of transfers to another account than the page's
  Faults        \* may a request or an answer be lost, may the server fail?

ASSUME CouncilAssumption ==
  /\ MaxPosts \in Nat /\ MaxTexts \in Nat /\ MaxTurns \in Nat
  /\ Pages \subseteq Nat /\ 1 \in Pages
  /\ Elsewhere \subseteq Nat
  /\ Faults \in BOOLEAN

Posts == 1 .. MaxPosts

VARIABLES
  kind,         \* which page it is
  \* the server
  srv,          \* where each post is
  executed,     \* posts that have had their effect
  rows,         \* posts on record, the newest last
  \* the form
  text,         \* what is typed in; 0, nothing
  nonce,
  loading,      \* isLoading: the button is hidden
  \* the posts of the form
  posted,       \* how many there are
  signed,       \* the document of each
  cli,          \* what the form knows of it
  \* the list
  currentPage,
  gets,         \* requests for a page that are under way
  asked,        \* how many there have been
  shown,        \* the list on the page
  \* history, read by no guard but the bounds of Type and TurnPage
  texts,        \* how many texts have been typed
  hasty,        \* those typed while a post was under way
  muddled,      \* documents posted again during a post, or cut short in one
  garbled,      \* an error without a body has come
  overtaken,    \* an older request for a page was answered after a newer one
  missed,       \* one was not answered
  turns

server == <<srv, executed, rows>>
form == <<text, nonce, loading>>
posts == <<posted, signed, cli>>
list == <<currentPage, gets, asked, shown>>
vars == <<kind, server, form, posts, list, texts, hasty, muddled, garbled,
          overtaken, missed, turns>>

\* A request for a page, once the server has read it: of the first `of` rows.
Unread == -1
Request(no, page) == [no |-> no, page |-> page, of |-> Unread]

Waiting == {p \in 1 .. posted : cli[p] = "waiting"}

InServer(p) == srv[p] \in {"received", "checked", "executed"}

-------------------------------------------------------------------------------
Init ==
  /\ kind \in {"account", "transfer", "tax"}
  /\ srv = [p \in Posts |-> "none"]
  /\ executed = {}
  /\ rows = << >>
  /\ text = 0 /\ nonce = 0 /\ loading = FALSE
  /\ posted = 0
  /\ signed = [p \in Posts |-> <<0, 0>>]
  /\ cli = [p \in Posts |-> "none"]
  /\ currentPage = 1
  /\ gets = {Request(1, 1)}
  /\ asked = 1
  /\ shown = [no |-> 0, page |-> 1, of |-> 0]
  /\ texts = 0 /\ hasty = {} /\ muddled = {}
  /\ garbled = FALSE /\ overtaken = FALSE /\ missed = FALSE
  /\ turns = 0

-------------------------------------------------------------------------------
(* The form                                                                *)

\* The user fills in the form, or changes what is in it.
Type ==
  /\ texts < MaxTexts
  /\ texts' = texts + 1
  /\ text' = texts + 1
  /\ hasty' = IF Waiting # {} THEN hasty \cup {texts + 1} ELSE hasty
  /\ UNCHANGED <<kind, server, nonce, loading, posts, list, muddled, garbled,
                 overtaken, missed, turns>>

\* The document is signed and posted.
Post(number) ==
  /\ posted < MaxPosts
  /\ text # 0
  /\ posted' = posted + 1
  /\ signed' = [signed EXCEPT ![posted + 1] = <<text, number>>]
  /\ cli' = [cli EXCEPT ![posted + 1] = "waiting"]
  /\ srv' = [srv EXCEPT ![posted + 1] = "received"]
  /\ UNCHANGED <<kind, executed, rows, text, nonce, list, texts, hasty, muddled,
                 garbled, overtaken, missed, turns>>

\* A slip: each press takes a nonce.
FreshNonce == posted + 1

\* The account form keeps its nonce until it is cleared.
AccountNonce == nonce

SubmitAccount ==
  /\ kind = "account"
  /\ ~loading
  /\ loading' = TRUE
  /\ Post(AccountNonce)

\* A slip: the button stays in sight.
NotHidden == FALSE

Hidden == TRUE

\* createTransfer takes a nonce of its own.
SubmitTransfer ==
  /\ kind = "transfer"
  /\ ~loading
  /\ loading' = Hidden
  /\ Post(posted + 1)

\* The page of the taxes does the same and never sets isLoading.
SubmitTax ==
  /\ kind = "tax"
  /\ UNCHANGED loading
  /\ Post(posted + 1)

-------------------------------------------------------------------------------
(* The list                                                                *)

\* A request for a page goes out, and whatever was asked before may still come.
AskPage(page) ==
  /\ currentPage' = page
  /\ asked' = asked + 1
  /\ gets' = gets \cup {Request(asked + 1, page)}
  /\ UNCHANGED shown

TurnPage(page) ==
  /\ turns < MaxTurns
  /\ turns' = turns + 1
  /\ AskPage(page)
  /\ UNCHANGED <<kind, server, form, posts, texts, hasty, muddled, garbled,
                 overtaken, missed>>

\* The server reads the rows of the page, the newest first.
ReadPage(g) ==
  /\ g.of = Unread
  /\ gets' = (gets \ {g}) \cup {[g EXCEPT !.of = Len(rows)]}
  /\ UNCHANGED <<kind, server, form, posts, currentPage, asked, shown, texts,
                 hasty, muddled, garbled, overtaken, missed, turns>>

\* The page of an account lists the transfers to it: the form offers its address
\* and takes any other.
OnList(p) == kind = "transfer" => signed[p][1] \notin Elsewhere

\* What there is to turn over of the first `of` rows.
InList(of) == {rows[i] : i \in {j \in 1 .. of : OnList(rows[j])}}

\* Whatever comes is shown.
ShowPage(g) ==
  /\ g.of # Unread
  /\ shown' = g
  /\ gets' = gets \ {g}
  /\ overtaken' = (overtaken \/ g.no < shown.no)
  /\ UNCHANGED <<kind, server, form, posts, currentPage, asked, texts, hasty,
                 muddled, garbled, missed, turns>>

\* Nothing handles an error.
MissPage(g) ==
  /\ Faults
  /\ gets' = gets \ {g}
  /\ missed' = TRUE
  /\ UNCHANGED <<kind, server, form, posts, currentPage, asked, shown, texts,
                 hasty, muddled, garbled, overtaken, turns>>

-------------------------------------------------------------------------------
(* What comes back to the form                                             *)

Told(p, outcome) == cli' = [cli EXCEPT ![p] = outcome]

\* A slip: the list is not asked for again.
NoNews == UNCHANGED list

\* afterSuccess: back to the first page.
News == AskPage(1)

\* cleanForm: another nonce, and an empty form, whatever is typed in by now.
AccountSaved(p) ==
  /\ kind = "account"
  /\ loading' = FALSE
  /\ text' = 0
  /\ nonce' = nonce + 1

\* cleanValues.
TransferSaved(p) ==
  /\ kind = "transfer"
  /\ loading' = FALSE
  /\ text' = 0
  /\ UNCHANGED nonce

\* The page of the taxes leaves its form as it is.
TaxSaved(p) ==
  /\ kind = "tax"
  /\ UNCHANGED form

Succeed(p) ==
  /\ cli[p] = "waiting"
  /\ srv[p] = "saved"
  /\ Told(p, "succeeded")
  /\ AccountSaved(p) \/ TransferSaved(p) \/ TaxSaved(p)
  /\ News
  /\ UNCHANGED <<kind, server, posted, signed, texts, hasty, muddled, garbled,
                 overtaken, missed, turns>>

\* A slip: the form is cleared whatever the outcome.
ClearedAnyway ==
  /\ loading' = FALSE
  /\ text' = 0
  /\ UNCHANGED nonce

\* A slip: the button stays hidden.
StaysHidden == UNCHANGED form

\* The form keeps its text, and its button comes back.
TryAgain ==
  /\ loading' = FALSE
  /\ UNCHANGED <<text, nonce>>

\* The server's error, or the browser's own when there is no answer; what the
\* server has got it goes on with.
Disappoint(p) ==
  /\ cli[p] = "waiting"
  /\ srv[p] \in {"refused", "failed"} \/ Faults
  /\ Told(p, "failed")
  /\ TryAgain
  /\ UNCHANGED <<kind, server, posted, signed, list, texts, hasty, muddled,
                 garbled, overtaken, missed, turns>>

\* The account form takes the message from the body of the error.  Of an error
\* without a body, as a gateway's may be, this throws before the button is back.
Garble(p) ==
  /\ Faults
  /\ kind = "account"
  /\ cli[p] = "waiting"
  /\ Told(p, "failed")
  /\ garbled' = TRUE
  /\ UNCHANGED <<kind, server, form, posted, signed, list, texts, hasty,
                 muddled, overtaken, missed, turns>>

-------------------------------------------------------------------------------
(* The server's handlers of the three documents                            *)

\* Whoever is not of the council, or leaves something out, is refused, and so is
\* a transfer that the taxes do not cover or whose receiver nobody knows.
Refuse(p) ==
  /\ srv[p] \in {"received"} \cup IF kind = "transfer" THEN {"checked"} ELSE {}
  /\ srv' = [srv EXCEPT ![p] = "refused"]
  /\ UNCHANGED <<kind, executed, rows, form, posts, list, texts, hasty, muddled,
                 garbled, overtaken, missed, turns>>

Recorded == {signed[rows[i]] : i \in 1 .. Len(rows)}

\* signatureExists: the same text with the same nonce has the same signature.
CheckSignature(p) ==
  /\ srv[p] = "received"
  /\ \/ /\ signed[p] \in Recorded
        /\ srv' = [srv EXCEPT ![p] = "refused"]
        /\ UNCHANGED muddled
     \/ /\ signed[p] \notin Recorded
        /\ srv' = [srv EXCEPT ![p] = "checked"]
        /\ muddled' = IF \E q \in Posts : /\ srv[q] \in {"checked", "executed"}
                                          /\ signed[q] = signed[p]
                      THEN muddled \cup {signed[p]} ELSE muddled
  /\ UNCHANGED <<kind, executed, rows, form, posts, list, texts, hasty, garbled,
                 overtaken, missed, turns>>

\* The account is opened, or the amounts are sent, on Stellar.
ExecuteOnStellar(p) ==
  /\ kind \in {"account", "transfer"}
  /\ srv[p] = "checked"
  /\ srv' = [srv EXCEPT ![p] = "executed"]
  /\ executed' = executed \cup {p}
  /\ UNCHANGED <<kind, rows, form, posts, list, texts, hasty, muddled, garbled,
                 overtaken, missed, turns>>

\* saveAccount, saveTransfer, saveTax; a tax takes effect with its row.
SaveRow(p) ==
  /\ srv[p] = IF kind = "tax" THEN "checked" ELSE "executed"
  /\ srv' = [srv EXCEPT ![p] = "saved"]
  /\ executed' = executed \cup {p}
  /\ rows' = Append(rows, p)
  /\ UNCHANGED <<kind, form, posts, list, texts, hasty, muddled, garbled,
                 overtaken, missed, turns>>

\* Stellar refuses it, Horizon or the database does not answer, or the server
\* stops: what has been done stays done.
Break(p) ==
  /\ Faults
  /\ InServer(p)
  /\ srv' = [srv EXCEPT ![p] = "failed"]
  /\ executed' \in {executed} \cup
       IF srv[p] = "checked" /\ kind # "tax" THEN {executed \cup {p}} ELSE {}
  /\ muddled' = IF p \in executed' THEN muddled \cup {signed[p]} ELSE muddled
  /\ UNCHANGED <<kind, rows, form, posts, list, texts, hasty, garbled,
                 overtaken, missed, turns>>

Serve(p) == Refuse(p) \/ CheckSignature(p) \/ ExecuteOnStellar(p) \/ SaveRow(p)

Hear(p) == Succeed(p) \/ Disappoint(p) \/ Garble(p)

-------------------------------------------------------------------------------
Next ==
  \/ Type
  \/ SubmitAccount \/ SubmitTransfer \/ SubmitTax
  \/ \E p \in Posts : Serve(p) \/ Break(p) \/ Hear(p)
  \/ \E page \in Pages : TurnPage(page)
  \/ \E g \in gets : ReadPage(g) \/ ShowPage(g) \/ MissPage(g)

Spec == Init /\ [][Next]_vars

\* The server goes on with what it has got, and the browser hears of it.
Fairness == \A p \in Posts : WF_vars(Serve(p)) /\ WF_vars(Hear(p))

FairSpec == Spec /\ Fairness

-------------------------------------------------------------------------------
(* Properties                                                              *)

Outcomes == {"waiting", "succeeded", "failed"}

TypeOK ==
  /\ kind \in {"account", "transfer", "tax"}
  /\ srv \in [Posts -> {"none", "received", "checked", "executed", "saved",
                        "refused", "failed"}]
  /\ executed \subseteq Posts
  /\ rows \in Seq(Posts)
  /\ text \in Nat /\ nonce \in Nat
  /\ loading \in BOOLEAN
  /\ loading => Waiting # {} \/ garbled
  /\ posted \in 0 .. MaxPosts
  /\ signed \in [Posts -> Nat \X Nat]
  /\ cli \in [Posts -> Outcomes \cup {"none"}]
  /\ \A p \in Posts : p <= posted <=> cli[p] \in Outcomes
  /\ currentPage \in Pages /\ asked \in Nat
  /\ gets \subseteq [no : 1 .. asked, page : Pages, of : Nat \cup {Unread}]
  /\ shown \in [no : 0 .. asked, page : Pages, of : Nat]
  /\ texts \in Nat /\ hasty \subseteq Nat /\ muddled \subseteq Nat \X Nat
  /\ garbled \in BOOLEAN /\ overtaken \in BOOLEAN /\ missed \in BOOLEAN
  /\ turns \in Nat

\* Once every request for a page is answered, and in their order, the list is
\* the current page, and it is of no time before the latest success: what the
\* form has been told is saved is in it.
ListFollows ==
  gets = {} /\ ~overtaken /\ ~missed =>
    /\ shown.page = currentPage
    /\ \A p \in Posts : cli[p] = "succeeded" /\ OnList(p) => p \in InList(shown.of)

\* What has been typed in is not cleared away before it is on record, unless it
\* was typed while an earlier post was under way: its success clears the form.
FormKept ==
  [][text # 0 /\ text' = 0 =>
       text \in hasty \/ \E p \in Posts : srv[p] = "saved" /\ signed[p][1] = text
    ]_text

\* The forms that hide their button are told at most once that a text is saved:
\* a text that succeeded is not posted again by the user's next press.
OneSuccessEach ==
  kind # "tax" =>
    \A p, q \in Posts : cli[p] = "succeeded" /\ cli[q] = "succeeded"
                          /\ signed[p][1] = signed[q][1] => p = q

\* However often its form is sent after an error or a lost answer, an account
\* is opened once, unless two posts were being handled at once or one was cut
\* short: its nonce stays until the form is cleared.
OpenedOnce ==
  kind = "account" =>
    \A p, q \in executed : signed[p][1] = signed[q][1] /\ p # q =>
      signed[p] \in muddled

\* The button comes back, whatever becomes of the post, unless the error has
\* no body.
ButtonReturns == loading ~> ~loading \/ garbled
===============================================================================
