----------------------------- MODULE CouncilProofs -----------------------------
(***************************************************************************)
(* What holds of Council for any number of posts, texts and pages.  The    *)
(* invariants follow a post from the form to its row (PostInv), the form   *)
(* between two presses of its button (FormInv, TextInv), the document from *)
(* one post of it to the next (OnceInv), and the latest request for a page *)
(* (ListInv).                                                              *)
(***************************************************************************)
EXTENDS Council, TLAPS

Listed(p, n) == \E i \in 1 .. n : rows[i] = p

\* Where a post is says what it has left behind.
PostInv ==
  /\ text <= texts
  /\ \A p \in Posts :
       /\ p <= posted <=> srv[p] # "none"
       /\ p <= posted => signed[p][1] \in 1 .. texts
       /\ cli[p] = "succeeded" => srv[p] = "saved"
       /\ srv[p] = "saved" <=> Listed(p, Len(rows))
       /\ p \in executed => srv[p] # "none"

\* A form that hides its button waits for one post, of the text that is in it
\* unless that is newer.
FormInv ==
  /\ kind = "tax" => ~loading
  /\ kind # "tax" =>
       /\ Waiting # {} => loading
       /\ \A p, q \in Waiting : p = q
       /\ \A p \in Waiting : text \in {0, signed[p][1]} \cup hasty

\* A text that is known to be saved is neither in the form nor on its way.
TextInv ==
  kind # "tax" =>
    \A p \in Posts : cli[p] = "succeeded" =>
      /\ text # signed[p][1]
      /\ \A q \in Posts : cli[q] \in {"waiting", "succeeded"} /\ q # p
                            => signed[q][1] # signed[p][1]

\* An account's text goes with one nonce.
NonceInv ==
  kind = "account" =>
    /\ \A p \in 1 .. posted : signed[p][1] = text => signed[p][2] = nonce
    /\ \A p, q \in 1 .. posted : signed[p][1] = signed[q][1]
                                   => signed[p] = signed[q]

Active(p) == srv[p] \in {"checked", "executed"} \/ p \in executed

\* One post at most has to do with an unmuddled document, until it is on record.
OnceInv ==
  \A p \in Posts : signed[p] \notin muddled =>
    /\ p \in executed => srv[p] \in {"executed", "saved"}
    /\ \A q \in Posts \ {p} : signed[q] = signed[p] => ~(Active(p) /\ Active(q))

\* A list of the first n rows that has every post known to be saved.
Covers(n) == \A p \in Posts : cli[p] = "succeeded" => Listed(p, n)

\* The latest request is for the current page and for all that is known to be
\* saved; it is under way, or what came of it is on the page.
ListInv ==
  /\ shown.of <= Len(rows)
  /\ \A g \in gets : g.of <= Len(rows)
  /\ \A g \in gets \cup {shown} : g.no = asked =>
       g.page = currentPage /\ (g.of # Unread => Covers(g.of))
  /\ ~missed /\ ~overtaken => \E g \in gets \cup {shown} : g.no = asked

\* What a row adds to a list of rows.
LEMMA OneMore ==
  ASSUME NEW S, NEW s \in Seq(S), NEW e \in S
  PROVE  /\ Append(s, e) \in Seq(S)
         /\ Len(Append(s, e)) = Len(s) + 1
         /\ \A i \in 1 .. Len(s) : Append(s, e)[i] = s[i]
         /\ Append(s, e)[Len(s) + 1] = e
OBVIOUS

USE DEF server, form, posts, list, Posts

-------------------------------------------------------------------------------
(* Types                                                                   *)

LEMMA TypeInit == ASSUME CouncilAssumption PROVE Init => TypeOK
<1> SUFFICES ASSUME Init PROVE TypeOK
  OBVIOUS
<1> USE DEF CouncilAssumption, Init
<1>1. /\ kind \in {"account", "transfer", "tax"}
      /\ srv \in [Posts -> {"none", "received", "checked", "executed", "saved",
                        "refused", "failed"}]
      /\ executed \subseteq Posts /\ rows \in Seq(Posts)
  OBVIOUS
<1>2. /\ text \in Nat /\ nonce \in Nat /\ posted \in 0 .. MaxPosts
      /\ signed \in [Posts -> Nat \X Nat]
  OBVIOUS
<1>3. /\ cli \in [Posts -> Outcomes \cup {"none"}]
      /\ \A p \in Posts : p <= posted <=> cli[p] \in Outcomes
  BY DEF Outcomes
<1>4. loading \in BOOLEAN /\ ~loading
  OBVIOUS
<1>5. garbled \in BOOLEAN /\ overtaken \in BOOLEAN /\ missed \in BOOLEAN
  OBVIOUS
<1>6. /\ currentPage \in Pages /\ asked \in Nat
      /\ gets \subseteq [no : 1 .. asked, page : Pages, of : Nat \cup {Unread}]
      /\ shown \in [no : 0 .. asked, page : Pages, of : Nat]
  BY DEF Request
<1>7. texts \in Nat /\ hasty \subseteq Nat /\ muddled \subseteq Nat \X Nat /\ turns \in Nat
  OBVIOUS
<1>8. QED
  BY <1>1, <1>2, <1>3, <1>4, <1>5, <1>6, <1>7 DEF TypeOK

\* The three ways to submit come down to one.
LEMMA Submitting ==
  ASSUME CouncilAssumption, TypeOK, FormInv,
         SubmitAccount \/ SubmitTransfer \/ SubmitTax
  PROVE  \E n \in Nat :
           /\ Post(n)
           /\ loading' \in BOOLEAN
           /\ kind = "tax" => loading' = loading
           /\ kind # "tax" => ~loading /\ loading'
           /\ kind = "account" => n = nonce
<1>1. CASE SubmitAccount
  <2>1. nonce \in Nat /\ Post(nonce) /\ kind = "account"
    BY <1>1 DEF SubmitAccount, AccountNonce, TypeOK
  <2>2. ~loading /\ loading' /\ loading' \in BOOLEAN
    BY <1>1 DEF SubmitAccount
  <2>3. QED
    BY <2>1, <2>2
<1>2. CASE SubmitTransfer
  <2>1. posted + 1 \in Nat /\ Post(posted + 1) /\ kind = "transfer"
    BY <1>2 DEF SubmitTransfer, TypeOK, CouncilAssumption
  <2>2. ~loading /\ loading' /\ loading' \in BOOLEAN
    BY <1>2 DEF SubmitTransfer, Hidden
  <2>3. QED
    BY <2>1, <2>2
<1>3. CASE SubmitTax
  <2>1. posted + 1 \in Nat /\ Post(posted + 1) /\ kind = "tax"
    BY <1>3 DEF SubmitTax, TypeOK, CouncilAssumption
  <2>2. loading' = loading /\ loading \in BOOLEAN
    BY <1>3 DEF SubmitTax, TypeOK
  <2>3. QED
    BY <2>1, <2>2
<1>4. QED
  BY <1>1, <1>2, <1>3

\* And so do the three ways to succeed.
LEMMA Succeeding ==
  ASSUME TypeOK, NEW p \in Posts, Succeed(p)
  PROVE  /\ kind = "tax" => UNCHANGED form
         /\ kind # "tax" => ~loading' /\ loading' \in BOOLEAN /\ text' = 0
         /\ nonce' \in {nonce, nonce + 1}
         /\ kind = "transfer" => nonce' = nonce
BY DEF Succeed, AccountSaved, TransferSaved, TaxSaved, TypeOK

\* What a request for a page adds to those under way.
LEMMA Asking ==
  ASSUME TypeOK, NEW page \in Pages, AskPage(page)
  PROVE  /\ currentPage' \in Pages /\ asked' \in Nat
         /\ gets' \subseteq [no : 1 .. asked', page : Pages, of : Nat \cup {Unread}]
         /\ shown' \in [no : 0 .. asked', page : Pages, of : Nat]
BY DEF AskPage, Request, TypeOK

LEMMA TypeStep ==
  ASSUME CouncilAssumption, TypeOK, FormInv, [Next]_vars PROVE TypeOK'
<1> USE DEF CouncilAssumption
<1>1. CASE Type
  <2>1. text' \in Nat /\ texts' \in Nat /\ hasty' \subseteq Nat
    BY <1>1 DEF Type, TypeOK
  <2>2. QED
    BY <1>1, <2>1 DEF Type, TypeOK, Waiting
<1>2. CASE SubmitAccount \/ SubmitTransfer \/ SubmitTax
  <2>1. PICK n \in Nat : Post(n) /\ loading' \in BOOLEAN
    BY <1>2, Submitting
  <2>2. /\ posted' \in 0 .. MaxPosts /\ posted' = posted + 1
        /\ posted + 1 \in Posts
    BY <2>1 DEF Post, TypeOK
  <2>3. /\ signed' \in [Posts -> Nat \X Nat]
        /\ cli' \in [Posts -> Outcomes \cup {"none"}]
        /\ srv' \in [Posts -> {"none", "received", "checked", "executed", "saved",
                        "refused", "failed"}]
    BY <2>1, <2>2 DEF Post, TypeOK, Outcomes
  <2>4. ASSUME NEW p \in Posts PROVE p <= posted' <=> cli'[p] \in Outcomes
    <3>1. p \in Nat /\ posted \in Nat
      BY <2>2 DEF Posts, TypeOK
    <3>2. CASE p = posted + 1
      BY <2>1, <2>2, <3>2 DEF Post, TypeOK, Outcomes
    <3>3. CASE p # posted + 1
      <4>1. cli'[p] = cli[p] /\ (p <= posted' <=> p <= posted)
        BY <2>1, <2>2, <3>1, <3>3 DEF Post, TypeOK
      <4>2. QED
        BY <4>1 DEF TypeOK
    <3>4. QED
      BY <3>2, <3>3
  <2>5. Waiting' # {}
    <3>1. cli'[posted + 1] = "waiting" /\ posted + 1 \in 1 .. posted'
      BY <2>1, <2>2 DEF Post, TypeOK
    <3>2. QED
      BY <3>1 DEF Waiting
  <2>6. UNCHANGED <<kind, executed, rows, text, nonce, list, texts, hasty,
                    muddled, garbled, overtaken, missed, turns>>
    BY <2>1 DEF Post
  <2>7. QED
    BY <2>1, <2>2, <2>3, <2>4, <2>5, <2>6 DEF TypeOK
<1>3. ASSUME NEW p \in Posts, Serve(p) PROVE TypeOK'
  <2>1. srv' \in [Posts -> {"none", "received", "checked", "executed", "saved",
                        "refused", "failed"}]
    BY <1>3 DEF Serve, Refuse, CheckSignature, ExecuteOnStellar, SaveRow, TypeOK
  <2>2. /\ executed' \in {executed, executed \cup {p}}
        /\ rows' = rows \/ rows' = Append(rows, p)
    BY <1>3 DEF Serve, Refuse, CheckSignature, ExecuteOnStellar, SaveRow
  <2>6. executed' \subseteq Posts /\ rows' \in Seq(Posts)
    <3>1. executed' \subseteq Posts
      BY <2>2 DEF TypeOK
    <3>2. rows' \in Seq(Posts)
      <4>1. rows \in Seq(Posts)
        BY DEF TypeOK
      <4>2. Append(rows, p) \in Seq(Posts)
        BY <4>1, OneMore
      <4>3. QED
        BY <2>2, <4>1, <4>2
    <3>3. QED
      BY <3>1, <3>2
  <2>3. muddled' \subseteq Nat \X Nat
    BY <1>3 DEF Serve, Refuse, CheckSignature, ExecuteOnStellar, SaveRow, TypeOK
  <2>4. UNCHANGED <<kind, form, posts, list, texts, hasty, garbled,
                 overtaken, missed, turns>>
    BY <1>3 DEF Serve, Refuse, CheckSignature, ExecuteOnStellar, SaveRow
  <2>5. QED
    BY <2>1, <2>3, <2>4, <2>6 DEF TypeOK, Waiting
<1>4. ASSUME NEW p \in Posts, Break(p) PROVE TypeOK'
  <2>1. srv' \in [Posts -> {"none", "received", "checked", "executed", "saved",
                        "refused", "failed"}]
    BY <1>4 DEF Break, TypeOK
  <2>2. executed' \subseteq Posts /\ muddled' \subseteq Nat \X Nat
    BY <1>4 DEF Break, TypeOK
  <2>3. UNCHANGED <<kind, rows, form, posts, list, texts, hasty, garbled,
                 overtaken, missed, turns>>
    BY <1>4 DEF Break
  <2>4. QED
    BY <2>1, <2>2, <2>3 DEF TypeOK, Waiting
<1>5. ASSUME NEW p \in Posts, Succeed(p) PROVE TypeOK'
  <2>1. cli' \in [Posts -> Outcomes \cup {"none"}]
    BY <1>5 DEF Succeed, Told, TypeOK, Outcomes
  <2>2. \A q \in Posts : q <= posted <=> cli'[q] \in Outcomes
    BY <1>5 DEF Succeed, Told, TypeOK, Outcomes
  <2>3. text' \in Nat /\ nonce' \in Nat /\ loading' \in BOOLEAN /\ ~loading'
    <3>1. CASE kind = "tax"
      <4>1. UNCHANGED <<text, nonce, loading>>
        BY <1>5, <3>1, Succeeding
      <4>2. ~loading /\ loading \in BOOLEAN
        BY <3>1 DEF FormInv, TypeOK
      <4>3. text' \in Nat /\ nonce' \in Nat
        BY <4>1 DEF TypeOK
      <4>4. QED
        BY <4>1, <4>2, <4>3
    <3>2. CASE kind # "tax"
      <4>1. ~loading' /\ loading' \in BOOLEAN
        BY <1>5, <3>2, Succeeding
      <4>2. text' = 0 /\ nonce' \in {nonce, nonce + 1} /\ nonce \in Nat
        BY <1>5, <3>2, Succeeding DEF TypeOK
      <4>3. QED
        BY <4>1, <4>2
    <3>3. QED
      BY <3>1, <3>2
  <2>4. 1 \in Pages /\ AskPage(1)
    BY <1>5 DEF Succeed, News
  <2>5. /\ currentPage' \in Pages /\ asked' \in Nat
        /\ gets' \subseteq [no : 1 .. asked', page : Pages, of : Nat \cup {Unread}]
        /\ shown' \in [no : 0 .. asked', page : Pages, of : Nat]
    BY <2>4, Asking
  <2>6. UNCHANGED <<kind, server, posted, signed, texts, hasty, muddled, garbled,
                 overtaken, missed, turns>>
    BY <1>5 DEF Succeed
  <2>7. QED
    BY <2>1, <2>2, <2>3, <2>5, <2>6 DEF TypeOK
<1>6. ASSUME NEW p \in Posts, Disappoint(p) \/ Garble(p) PROVE TypeOK'
  <2>1. /\ cli' \in [Posts -> Outcomes \cup {"none"}]
        /\ \A q \in Posts : q <= posted <=> cli'[q] \in Outcomes
    BY <1>6 DEF Disappoint, Garble, Told, TypeOK, Outcomes
  <2>2. loading' \in BOOLEAN /\ garbled' \in BOOLEAN
    BY <1>6 DEF Disappoint, Garble, TryAgain, TypeOK
  <2>3. ~loading' \/ garbled'
    BY <1>6 DEF Disappoint, Garble, TryAgain
  <2>4. UNCHANGED <<kind, server, text, nonce, posted, signed, list, texts, hasty,
                 muddled, overtaken, missed, turns>>
    BY <1>6 DEF Disappoint, Garble, TryAgain
  <2>5. QED
    BY <2>1, <2>2, <2>3, <2>4 DEF TypeOK
<1>7. ASSUME NEW page \in Pages, TurnPage(page) PROVE TypeOK'
  <2>1. /\ currentPage' \in Pages /\ asked' \in Nat
        /\ gets' \subseteq [no : 1 .. asked', page : Pages, of : Nat \cup {Unread}]
        /\ shown' \in [no : 0 .. asked', page : Pages, of : Nat]
    BY <1>7, Asking DEF TurnPage
  <2>2. turns' \in Nat
    BY <1>7 DEF TurnPage, TypeOK
  <2>3. UNCHANGED <<kind, server, form, posts, texts, hasty, muddled, garbled,
                 overtaken, missed>>
    BY <1>7 DEF TurnPage
  <2>4. QED
    BY <2>1, <2>2, <2>3 DEF TypeOK, Waiting
<1>8. ASSUME NEW g \in gets, ReadPage(g) \/ ShowPage(g) \/ MissPage(g)
      PROVE TypeOK'
  <2>1. g \in [no : 1 .. asked, page : Pages, of : Nat \cup {Unread}]
        /\ Len(rows) \in Nat
    BY DEF TypeOK
  <2>2. gets' \subseteq [no : 1 .. asked, page : Pages, of : Nat \cup {Unread}]
    <3>1. [g EXCEPT !.of = Len(rows)]
            \in [no : 1 .. asked, page : Pages, of : Nat \cup {Unread}]
      BY <2>1
    <3>2. gets' \subseteq gets \cup {[g EXCEPT !.of = Len(rows)]}
      BY <1>8 DEF ReadPage, ShowPage, MissPage
    <3>3. QED
      BY <3>1, <3>2 DEF TypeOK
  <2>3. shown' \in [no : 0 .. asked, page : Pages, of : Nat]
    BY <1>8, <2>1 DEF ReadPage, ShowPage, MissPage, TypeOK
  <2>4. overtaken' \in BOOLEAN
    BY <1>8 DEF ReadPage, ShowPage, MissPage, TypeOK
  <2>5. missed' \in BOOLEAN
    BY <1>8 DEF ReadPage, ShowPage, MissPage, TypeOK
  <2>6. UNCHANGED <<kind, server, form, posts, currentPage, asked, texts, hasty,
                 muddled, garbled, turns>>
    BY <1>8 DEF ReadPage, ShowPage, MissPage
  <2>7. QED
    BY <2>2, <2>3, <2>4, <2>5, <2>6 DEF TypeOK, Waiting
<1>9. CASE UNCHANGED vars
  BY <1>9 DEF vars, TypeOK, Waiting
<1>10. QED
  BY <1>1, <1>2, <1>3, <1>4, <1>5, <1>6, <1>7, <1>8, <1>9 DEF Next, Hear

-------------------------------------------------------------------------------
(* What the actions of each part do                                        *)

\* A step of the server moves one post on.
LEMMA Serving ==
  ASSUME TypeOK, NEW p \in Posts, Serve(p) \/ Break(p)
  PROVE  /\ UNCHANGED <<kind, form, posts, list, texts, hasty, garbled,
                        overtaken, missed, turns>>
         /\ \A q \in Posts \ {p} : srv'[q] = srv[q]
         /\ srv[p] \in {"received", "checked", "executed"}
         /\ srv'[p] \notin {"none", "received"}
         /\ executed' \in {executed, executed \cup {p}}
         /\ srv'[p] = "saved" => rows' = Append(rows, p)
         /\ srv'[p] # "saved" => rows' = rows
<1>1. CASE Refuse(p)
  <2>1. srv[p] \in {"received", "checked"} /\ srv' = [srv EXCEPT ![p] = "refused"]
    BY <1>1 DEF Refuse
  <2>2. srv'[p] = "refused" /\ \A q \in Posts \ {p} : srv'[q] = srv[q]
    BY <2>1 DEF TypeOK
  <2>3. QED
    BY <1>1, <2>1, <2>2 DEF Refuse
<1>2. CASE CheckSignature(p)
  <2>1. /\ srv[p] = "received"
        /\ \/ srv' = [srv EXCEPT ![p] = "refused"]
           \/ srv' = [srv EXCEPT ![p] = "checked"]
    BY <1>2 DEF CheckSignature
  <2>2. srv'[p] \in {"refused", "checked"} /\ \A q \in Posts \ {p} : srv'[q] = srv[q]
    BY <2>1 DEF TypeOK
  <2>3. QED
    BY <1>2, <2>1, <2>2 DEF CheckSignature
<1>3. CASE ExecuteOnStellar(p)
  <2>1. srv[p] = "checked" /\ srv' = [srv EXCEPT ![p] = "executed"]
    BY <1>3 DEF ExecuteOnStellar
  <2>2. srv'[p] = "executed" /\ \A q \in Posts \ {p} : srv'[q] = srv[q]
    BY <2>1 DEF TypeOK
  <2>3. QED
    BY <1>3, <2>1, <2>2 DEF ExecuteOnStellar
<1>4. CASE SaveRow(p)
  <2>1. srv[p] \in {"checked", "executed"} /\ srv' = [srv EXCEPT ![p] = "saved"]
    BY <1>4 DEF SaveRow
  <2>2. srv'[p] = "saved" /\ \A q \in Posts \ {p} : srv'[q] = srv[q]
    BY <2>1 DEF TypeOK
  <2>3. QED
    BY <1>4, <2>1, <2>2 DEF SaveRow
<1>5. CASE Break(p)
  <2>1. srv[p] \in {"received", "checked", "executed"}
    BY <1>5 DEF Break, InServer
  <2>2. srv' = [srv EXCEPT ![p] = "failed"]
    BY <1>5 DEF Break
  <2>3. srv'[p] = "failed" /\ \A q \in Posts \ {p} : srv'[q] = srv[q]
    BY <2>2 DEF TypeOK
  <2>4. executed' \in {executed, executed \cup {p}}
    BY <1>5 DEF Break
  <2>5. QED
    BY <1>5, <2>1, <2>3, <2>4 DEF Break
<1>6. QED
  BY <1>1, <1>2, <1>3, <1>4, <1>5 DEF Serve

\* A step of the form's answers settles one post.
LEMMA Hearing ==
  ASSUME TypeOK, NEW p \in Posts, Hear(p)
  PROVE  /\ UNCHANGED <<kind, srv, executed, rows, posted, signed, texts, hasty,
                        muddled, overtaken, missed>>
         /\ cli[p] = "waiting"
         /\ \A q \in Posts \ {p} : cli'[q] = cli[q]
         /\ \/ cli'[p] = "succeeded" /\ Succeed(p)
            \/ cli'[p] = "failed" /\ UNCHANGED <<text, nonce, list>>
<1>1. CASE Succeed(p)
  <2>1. cli' = [cli EXCEPT ![p] = "succeeded"]
    BY <1>1 DEF Succeed, Told
  <2>2. cli'[p] = "succeeded" /\ \A q \in Posts \ {p} : cli'[q] = cli[q]
    BY <2>1 DEF TypeOK
  <2>3. QED
    BY <1>1, <2>2 DEF Succeed
<1>2. CASE Disappoint(p) \/ Garble(p)
  <2>1. cli' = [cli EXCEPT ![p] = "failed"]
    BY <1>2 DEF Disappoint, Garble, Told
  <2>2. cli'[p] = "failed" /\ \A q \in Posts \ {p} : cli'[q] = cli[q]
    BY <2>1 DEF TypeOK
  <2>3. QED
    BY <1>2, <2>2 DEF Disappoint, Garble, TryAgain
<1>3. QED
  BY <1>1, <1>2 DEF Hear

\* A post is added to those of the form.
LEMMA Posting ==
  ASSUME CouncilAssumption, TypeOK, NEW n \in Nat, Post(n)
  PROVE  /\ posted + 1 \in Posts /\ posted \in Nat /\ posted' = posted + 1 /\ text # 0
         /\ signed'[posted + 1] = <<text, n>>
         /\ cli'[posted + 1] = "waiting" /\ srv'[posted + 1] = "received"
         /\ \A q \in Posts \ {posted + 1} :
              signed'[q] = signed[q] /\ cli'[q] = cli[q] /\ srv'[q] = srv[q]
         /\ UNCHANGED <<kind, executed, rows, text, nonce, list, texts, hasty,
                        muddled, garbled, overtaken, missed, turns>>
<1>1. posted + 1 \in Posts /\ posted \in Nat /\ posted' = posted + 1 /\ text # 0
  BY DEF Post, TypeOK, CouncilAssumption
<1>2. /\ signed' = [signed EXCEPT ![posted + 1] = <<text, n>>]
      /\ cli' = [cli EXCEPT ![posted + 1] = "waiting"]
      /\ srv' = [srv EXCEPT ![posted + 1] = "received"]
      /\ UNCHANGED <<kind, executed, rows, text, nonce, list, texts, hasty,
                        muddled, garbled, overtaken, missed, turns>>
  BY DEF Post
<1>3. /\ signed'[posted + 1] = <<text, n>>
      /\ \A q \in Posts \ {posted + 1} : signed'[q] = signed[q]
  BY <1>1, <1>2 DEF TypeOK
<1>4. /\ cli'[posted + 1] = "waiting"
      /\ \A q \in Posts \ {posted + 1} : cli'[q] = cli[q]
  BY <1>1, <1>2 DEF TypeOK
<1>5. /\ srv'[posted + 1] = "received"
      /\ \A q \in Posts \ {posted + 1} : srv'[q] = srv[q]
  BY <1>1, <1>2 DEF TypeOK
<1>6. QED
  BY <1>1, <1>2, <1>3, <1>4, <1>5

\* The rest of the page changes the list alone.
ListStep == \/ \E page \in Pages : TurnPage(page)
            \/ \E g \in gets : ReadPage(g) \/ ShowPage(g) \/ MissPage(g)

LEMMA Listing ==
  ASSUME ListStep
  PROVE  UNCHANGED <<kind, server, form, posts, texts, hasty, muddled, garbled>>
BY DEF ListStep, TurnPage, ReadPage, ShowPage, MissPage

\* The steps of Next, as the lemmas below take them.
LEMMA Steps ==
  ASSUME [Next]_vars
  PROVE  \/ Type
         \/ SubmitAccount \/ SubmitTransfer \/ SubmitTax
         \/ \E p \in Posts : Serve(p) \/ Break(p)
         \/ \E p \in Posts : Hear(p)
         \/ ListStep
         \/ UNCHANGED vars
BY DEF Next, ListStep

-------------------------------------------------------------------------------
(* The posts and the rows                                                  *)

LEMMA PostInit == ASSUME CouncilAssumption PROVE Init => PostInv
BY DEF Init, PostInv, Listed, CouncilAssumption

LEMMA PostSame ==
  ASSUME PostInv, UNCHANGED <<srv, executed, rows, posted, signed, cli, texts>>,
         text' \in {0, text}, texts \in Nat
  PROVE  PostInv'
BY DEF PostInv, Listed

LEMMA PostStep ==
  ASSUME CouncilAssumption, TypeOK, FormInv, PostInv, [Next]_vars
  PROVE  PostInv'
<1>1. CASE Type
  <2>1. /\ UNCHANGED <<srv, executed, rows, posted, signed, cli>>
        /\ texts' = texts + 1 /\ text' = texts + 1 /\ texts \in Nat
    BY <1>1 DEF Type, TypeOK
  <2>2. \A n : n \in 1 .. texts => n \in 1 .. texts'
    BY <2>1
  <2>3. text' <= texts'
    BY <2>1
  <2>4. QED
    BY <2>1, <2>2, <2>3 DEF PostInv, Listed
<1>2. CASE SubmitAccount \/ SubmitTransfer \/ SubmitTax
  <2>1. PICK n \in Nat : Post(n)
    BY <1>2, Submitting
  <2> DEFINE new == posted + 1
  <2>2. /\ new \in Posts /\ posted \in Nat /\ posted' = new /\ text # 0
        /\ signed'[new] = <<text, n>>
        /\ cli'[new] = "waiting" /\ srv'[new] = "received"
        /\ \A q \in Posts \ {new} :
             signed'[q] = signed[q] /\ cli'[q] = cli[q] /\ srv'[q] = srv[q]
        /\ UNCHANGED <<executed, rows, text, texts>>
    BY <2>1, Posting
  <2> HIDE DEF new
  <2>3. text' <= texts'
    BY <2>2 DEF PostInv
  <2>4. \A q \in Posts \ {new} : q <= posted' <=> q <= posted
    BY <2>2 DEF new, CouncilAssumption
  <2>5. signed'[new][1] \in 1 .. texts'
    BY <2>2 DEF PostInv, TypeOK
  <2>6. ~Listed(new, Len(rows)) /\ ~(new <= posted)
    BY <2>2 DEF PostInv, new
  <2>7. ASSUME NEW p \in Posts
        PROVE  /\ p <= posted' <=> srv'[p] # "none"
               /\ p <= posted' => signed'[p][1] \in 1 .. texts'
               /\ cli'[p] = "succeeded" => srv'[p] = "saved"
               /\ srv'[p] = "saved" <=> Listed(p, Len(rows))'
               /\ p \in executed' => srv'[p] # "none"
    <3>1. Listed(p, Len(rows))' <=> Listed(p, Len(rows))
      BY <2>2 DEF Listed
    <3>2. CASE p = new
      <4>1. p <= posted'
        BY <2>2, <3>2 DEF CouncilAssumption
      <4>2. QED
        BY <2>2, <2>5, <2>6, <3>1, <3>2, <4>1
    <3>3. CASE p # new
      BY <2>2, <2>4, <3>1, <3>3 DEF PostInv
    <3>4. QED
      BY <3>2, <3>3
  <2>8. QED
    BY <2>3, <2>7 DEF PostInv
<1>3. ASSUME NEW p \in Posts, Serve(p) \/ Break(p) PROVE PostInv'
  <2>1. /\ UNCHANGED <<form, posts, texts>>
        /\ \A q \in Posts \ {p} : srv'[q] = srv[q]
        /\ srv[p] \in {"received", "checked", "executed"}
        /\ srv'[p] \notin {"none", "received"}
        /\ executed' \in {executed, executed \cup {p}}
        /\ srv'[p] = "saved" => rows' = Append(rows, p)
        /\ srv'[p] # "saved" => rows' = rows
    BY <1>3, Serving
  <2>2. \A q \in Posts : q <= posted' <=> srv'[q] # "none"
    BY <2>1 DEF PostInv
  <2>3. \A q \in Posts : cli'[q] = "succeeded" => srv'[q] = "saved"
    BY <2>1 DEF PostInv
  <2>4. \A q \in Posts : q \in executed' => srv'[q] # "none"
    BY <2>1 DEF PostInv
  <2>5. ASSUME NEW q \in Posts
        PROVE  srv'[q] = "saved" <=> Listed(q, Len(rows))'
    <3>1. CASE srv'[p] # "saved"
      BY <2>1, <3>1 DEF PostInv, Listed
    <3>2. CASE srv'[p] = "saved"
      <4>1. rows \in Seq(Posts) /\ Len(rows) \in Nat
        BY DEF TypeOK
      <4>2. /\ Len(rows') = Len(rows) + 1
            /\ \A i \in 1 .. Len(rows) : rows'[i] = rows[i]
            /\ rows'[Len(rows) + 1] = p
        BY <2>1, <3>2, <4>1, OneMore
      <4>3. Listed(q, Len(rows))' <=> Listed(q, Len(rows)) \/ q = p
        <5>1. 1 .. Len(rows') = (1 .. Len(rows)) \cup {Len(rows) + 1}
          BY <4>1, <4>2
        <5>2. QED
          BY <4>2, <5>1 DEF Listed
      <4>4. QED
        BY <2>1, <3>2, <4>3 DEF PostInv
    <3>3. QED
      BY <3>1, <3>2
  <2>6. QED
    BY <2>1, <2>2, <2>3, <2>4, <2>5 DEF PostInv
<1>4. ASSUME NEW p \in Posts, Hear(p) PROVE PostInv'
  <2>1. /\ UNCHANGED <<srv, executed, rows, posted, signed, texts>>
        /\ \A q \in Posts \ {p} : cli'[q] = cli[q]
        /\ \/ cli'[p] = "succeeded" /\ Succeed(p)
           \/ cli'[p] = "failed" /\ UNCHANGED text
    BY <1>4, Hearing
  <2>2. Succeed(p) => srv[p] = "saved" /\ text' \in {0, text}
    BY Succeeding DEF Succeed, TypeOK
  <2>3. \A q \in Posts : cli'[q] = "succeeded" => srv'[q] = "saved"
    BY <2>1, <2>2 DEF PostInv
  <2>4. text' <= texts'
    BY <2>1, <2>2 DEF PostInv, TypeOK
  <2>5. \A q \in Posts : Listed(q, Len(rows))' <=> Listed(q, Len(rows))
    BY <2>1 DEF Listed
  <2>6. QED
    BY <2>1, <2>3, <2>4, <2>5 DEF PostInv
<1>5. CASE ListStep
  BY <1>5, Listing, PostSame DEF TypeOK
<1>6. CASE UNCHANGED vars
  BY <1>6, PostSame DEF vars, TypeOK
<1>7. QED
  BY <1>1, <1>2, <1>3, <1>4, <1>5, <1>6, Steps

-------------------------------------------------------------------------------
(* The form                                                                *)

LEMMA FormInit == Init => FormInv
BY DEF Init, FormInv, Waiting

LEMMA FormSame ==
  ASSUME FormInv, UNCHANGED <<kind, loading, text, posted, signed, cli, hasty>>
  PROVE  FormInv'
BY DEF FormInv, Waiting

LEMMA FormStep ==
  ASSUME CouncilAssumption, TypeOK, FormInv, [Next]_vars
  PROVE  FormInv'
<1>1. CASE Type
  <2>1. /\ UNCHANGED <<kind, loading, posted, signed, cli>>
        /\ hasty \subseteq hasty' /\ (Waiting # {} => text' \in hasty')
    BY <1>1 DEF Type
  <2>2. Waiting' = Waiting
    BY <2>1 DEF Waiting
  <2>3. QED
    BY <2>1, <2>2 DEF FormInv
<1>2. CASE SubmitAccount \/ SubmitTransfer \/ SubmitTax
  <2>1. PICK n \in Nat :
          /\ Post(n)
          /\ kind = "tax" => loading' = loading
          /\ kind # "tax" => ~loading /\ loading'
    BY <1>2, Submitting
  <2>2. /\ posted + 1 \in Posts /\ posted \in Nat /\ posted' = posted + 1
        /\ signed'[posted + 1] = <<text, n>>
        /\ \A q \in Posts \ {posted + 1} : signed'[q] = signed[q] /\ cli'[q] = cli[q]
        /\ UNCHANGED <<kind, text, hasty>>
    BY <2>1, Posting
  <2>3. CASE kind = "tax"
    BY <2>1, <2>2, <2>3 DEF FormInv
  <2>4. CASE kind # "tax"
    <3>1. Waiting = {} /\ loading'
      BY <2>1, <2>4 DEF FormInv
    <3>2. Waiting' \subseteq {posted + 1}
      <4> SUFFICES ASSUME NEW q \in Waiting', q # posted + 1 PROVE FALSE
        OBVIOUS
      <4>1. q \in Posts /\ q \in 1 .. posted /\ cli'[q] = "waiting"
        BY <2>2 DEF Waiting, CouncilAssumption
      <4>2. q \in Waiting
        BY <2>2, <4>1 DEF Waiting
      <4>3. QED
        BY <3>1, <4>2
    <3>3. \A q \in Waiting' : text' = signed'[q][1]
      BY <2>2, <3>2
    <3>4. QED
      BY <2>2, <2>4, <3>1, <3>2, <3>3 DEF FormInv
  <2>5. QED
    BY <2>3, <2>4
<1>3. ASSUME NEW p \in Posts, Serve(p) \/ Break(p) PROVE FormInv'
  BY <1>3, Serving, FormSame
<1>4. ASSUME NEW p \in Posts, Hear(p) PROVE FormInv'
  <2>1. /\ UNCHANGED <<kind, posted, signed, hasty>>
        /\ cli[p] = "waiting"
        /\ \A q \in Posts \ {p} : cli'[q] = cli[q]
        /\ cli'[p] # "waiting"
    BY <1>4, Hearing
  <2>2. kind = "tax" => ~loading'
    BY <1>4 DEF Hear, Succeed, AccountSaved, TransferSaved, TaxSaved, Disappoint,
                TryAgain, Garble, FormInv
  <2>3. posted \in Nat /\ 1 .. posted \subseteq Posts
    BY DEF TypeOK, CouncilAssumption
  <2>4. p \in Waiting
    BY <2>1, <2>3 DEF Waiting, TypeOK, Outcomes
  <2>5. kind # "tax" => Waiting' = {}
    <3> SUFFICES ASSUME kind # "tax", NEW q \in Waiting' PROVE FALSE
      OBVIOUS
    <3>1. q \in 1 .. posted /\ cli'[q] = "waiting"
      BY <2>1 DEF Waiting
    <3>2. q # p
      BY <2>1, <3>1
    <3>3. q \in Waiting
      BY <2>1, <2>3, <3>1, <3>2 DEF Waiting
    <3>4. QED
      BY <2>4, <3>2, <3>3 DEF FormInv
  <2>6. QED
    BY <2>1, <2>2, <2>5 DEF FormInv
<1>5. CASE ListStep
  BY <1>5, Listing, FormSame
<1>6. CASE UNCHANGED vars
  BY <1>6, FormSame DEF vars
<1>7. QED
  BY <1>1, <1>2, <1>3, <1>4, <1>5, <1>6, Steps

-------------------------------------------------------------------------------
(* The texts and the nonces                                                *)

\* What has been posted is of a text that was typed in.
LEMMA TextOf ==
  ASSUME CouncilAssumption, TypeOK, PostInv, NEW p \in Posts, cli[p] # "none"
  PROVE  signed[p][1] \in 1 .. texts /\ texts \in Nat
BY DEF TypeOK, PostInv, Outcomes

LEMMA TextInit == Init => TextInv
BY DEF Init, TextInv

LEMMA TextSame ==
  ASSUME TextInv, UNCHANGED <<kind, text, signed, cli>>
  PROVE  TextInv'
BY DEF TextInv

LEMMA TextStep ==
  ASSUME CouncilAssumption, TypeOK, PostInv, FormInv, TextInv, [Next]_vars
  PROVE  TextInv'
<1>1. CASE Type
  <2>1. UNCHANGED <<kind, signed, cli>> /\ text' = texts + 1
    BY <1>1 DEF Type
  <2>2. \A p \in Posts : cli[p] = "succeeded" => text' # signed[p][1]
    BY <2>1, TextOf
  <2>3. QED
    BY <2>1, <2>2 DEF TextInv
<1>2. CASE SubmitAccount \/ SubmitTransfer \/ SubmitTax
  <2>1. PICK n \in Nat : Post(n)
    BY <1>2, Submitting
  <2> DEFINE new == posted + 1
  <2>2. /\ new \in Posts /\ signed'[new] = <<text, n>> /\ cli'[new] = "waiting"
        /\ \A q \in Posts \ {new} : signed'[q] = signed[q] /\ cli'[q] = cli[q]
        /\ UNCHANGED <<kind, text>>
    BY <2>1, Posting
  <2>3. signed'[new][1] = text
    BY <2>2
  <2> HIDE DEF new
  <2>4. SUFFICES ASSUME kind # "tax", NEW p \in Posts, cli'[p] = "succeeded"
                 PROVE  /\ text # signed'[p][1]
                        /\ \A q \in Posts : cli'[q] \in {"waiting", "succeeded"} /\ q # p
                                              => signed'[q][1] # signed'[p][1]
    BY <2>2 DEF TextInv
  <2>5. p # new
    BY <2>2, <2>4
  <2>6. cli[p] = "succeeded" /\ signed'[p] = signed[p]
    BY <2>2, <2>4, <2>5
  <2>7. text # signed[p][1]
    BY <2>4, <2>6 DEF TextInv
  <2>8. ASSUME NEW q \in Posts, cli'[q] \in {"waiting", "succeeded"}, q # p
        PROVE  signed'[q][1] # signed'[p][1]
    <3>1. CASE q = new
      BY <2>3, <2>6, <2>7, <3>1
    <3>2. CASE q # new
      BY <2>2, <2>4, <2>6, <2>8, <3>2 DEF TextInv
    <3>3. QED
      BY <3>1, <3>2
  <2>9. QED
    BY <2>6, <2>7, <2>8
<1>3. ASSUME NEW p \in Posts, Serve(p) \/ Break(p) PROVE TextInv'
  BY <1>3, Serving, TextSame
<1>4. ASSUME NEW p \in Posts, Hear(p) PROVE TextInv'
  <2>1. /\ UNCHANGED <<kind, posted, signed>>
        /\ cli[p] = "waiting"
        /\ \A q \in Posts \ {p} : cli'[q] = cli[q]
        /\ \/ cli'[p] = "succeeded" /\ Succeed(p)
           \/ cli'[p] = "failed" /\ UNCHANGED text
    BY <1>4, Hearing
  <2>2. CASE cli'[p] = "failed" /\ UNCHANGED text
    BY <2>1, <2>2 DEF TextInv
  <2>3. CASE cli'[p] = "succeeded" /\ Succeed(p)
    <3>1. SUFFICES ASSUME kind # "tax" PROVE TextInv'
      BY <2>1 DEF TextInv
    <3>2. text' = 0
      BY <2>3, <3>1, Succeeding
    <3>3. posted \in Nat /\ 1 .. posted \subseteq Posts
      BY DEF TypeOK, CouncilAssumption
    <3>4. \A q \in Posts : cli[q] = "waiting" => q \in Waiting
      BY <3>3 DEF Waiting, TypeOK, Outcomes
    <3>5. \A q \in Posts : cli[q] = "waiting" => q = p
      BY <2>1, <3>1, <3>4 DEF FormInv
    <3>6. \A q \in Posts : cli[q] = "succeeded" => signed[q][1] # signed[p][1]
      BY <2>1, <3>1 DEF TextInv
    <3>7. \A q \in Posts : cli'[q] = "succeeded" => text' # signed'[q][1]
      <4>1. \A q \in Posts : cli'[q] = "succeeded" => cli[q] # "none"
        BY <2>1
      <4>2. QED
        BY <2>1, <3>2, <4>1, TextOf
    <3>8. ASSUME NEW q \in Posts, NEW r \in Posts, cli'[q] = "succeeded",
                 cli'[r] \in {"waiting", "succeeded"}, r # q
          PROVE  signed'[r][1] # signed'[q][1]
      <4>1. CASE q = p
        BY <2>1, <3>5, <3>6, <3>8, <4>1
      <4>2. CASE r = p
        BY <2>1, <3>6, <3>8, <4>2
      <4>3. CASE q # p /\ r # p
        BY <2>1, <3>1, <3>8, <4>3 DEF TextInv
      <4>4. QED
        BY <4>1, <4>2, <4>3
    <3>9. QED
      BY <3>7, <3>8 DEF TextInv
  <2>4. QED
    BY <2>1, <2>2, <2>3
<1>5. CASE ListStep
  BY <1>5, Listing, TextSame
<1>6. CASE UNCHANGED vars
  BY <1>6, TextSame DEF vars
<1>7. QED
  BY <1>1, <1>2, <1>3, <1>4, <1>5, <1>6, Steps

LEMMA NonceInit == Init => NonceInv
BY DEF Init, NonceInv

LEMMA NonceSame ==
  ASSUME NonceInv, UNCHANGED <<kind, text, nonce, posted, signed>>
  PROVE  NonceInv'
BY DEF NonceInv

LEMMA NonceStep ==
  ASSUME CouncilAssumption, TypeOK, PostInv, FormInv, NonceInv, [Next]_vars
  PROVE  NonceInv'
<1> posted \in Nat /\ texts \in Nat /\ 1 .. posted \subseteq Posts
  BY DEF TypeOK, CouncilAssumption
<1>0. \A p \in 1 .. posted : signed[p][1] \in 1 .. texts
  BY DEF PostInv
<1>1. CASE Type
  <2>1. UNCHANGED <<kind, nonce, posted, signed>> /\ text' = texts + 1
    BY <1>1 DEF Type
  <2>2. \A p \in 1 .. posted : signed[p][1] # text'
    BY <1>0, <2>1
  <2>3. QED
    BY <2>1, <2>2 DEF NonceInv
<1>2. CASE SubmitAccount \/ SubmitTransfer \/ SubmitTax
  <2>1. PICK n \in Nat : Post(n) /\ (kind = "account" => n = nonce)
    BY <1>2, Submitting
  <2> DEFINE new == posted + 1
  <2>2. /\ new \in Posts /\ posted' = new /\ signed'[new] = <<text, n>>
        /\ \A q \in Posts \ {new} : signed'[q] = signed[q]
        /\ UNCHANGED <<kind, text, nonce>>
    BY <2>1, Posting
  <2>3. /\ 1 .. posted' = (1 .. posted) \cup {new} /\ new \notin 1 .. posted
        /\ \A q \in 1 .. posted : signed'[q] = signed[q]
    BY <2>2
  <2>4. signed'[new][1] = text /\ signed'[new][2] = n
    BY <2>2
  <2> HIDE DEF new
  <2>5. SUFFICES ASSUME kind = "account" PROVE NonceInv'
    BY <2>2 DEF NonceInv
  <2>6. \A p \in 1 .. posted' : signed'[p][1] = text' => signed'[p][2] = nonce'
    BY <2>1, <2>2, <2>3, <2>4, <2>5 DEF NonceInv
  <2>7. \A p \in 1 .. posted : signed[p][1] = text => signed[p] = <<text, n>>
    <3> SUFFICES ASSUME NEW p \in 1 .. posted, signed[p][1] = text
                 PROVE  signed[p] = <<text, n>>
      OBVIOUS
    <3>1. signed[p] \in Nat \X Nat /\ signed[p][2] = n
      BY <2>1, <2>5 DEF NonceInv, TypeOK
    <3>2. QED
      BY <3>1
  <2>8. ASSUME NEW p \in 1 .. posted', NEW q \in 1 .. posted',
               signed'[p][1] = signed'[q][1]
        PROVE  signed'[p] = signed'[q]
    <3>1. CASE p # new /\ q # new
      BY <2>3, <2>5, <2>8, <3>1 DEF NonceInv
    <3>2. CASE p = new /\ q # new
      BY <2>2, <2>3, <2>4, <2>7, <2>8, <3>2
    <3>3. CASE p # new /\ q = new
      BY <2>2, <2>3, <2>4, <2>7, <2>8, <3>3
    <3>4. QED
      BY <3>1, <3>2, <3>3
  <2>9. QED
    BY <2>6, <2>8 DEF NonceInv
<1>3. ASSUME NEW p \in Posts, Serve(p) \/ Break(p) PROVE NonceInv'
  BY <1>3, Serving, NonceSame
<1>4. ASSUME NEW p \in Posts, Hear(p) PROVE NonceInv'
  <2>1. /\ UNCHANGED <<kind, posted, signed>>
        /\ Succeed(p) \/ UNCHANGED <<text, nonce>>
    BY <1>4, Hearing
  <2>2. CASE UNCHANGED <<text, nonce>>
    BY <2>1, <2>2, NonceSame
  <2>3. CASE Succeed(p)
    <3>1. kind = "account" => text' = 0
      BY <2>3, Succeeding
    <3>2. QED
      BY <1>0, <2>1, <3>1 DEF NonceInv
  <2>4. QED
    BY <2>1, <2>2, <2>3
<1>5. CASE ListStep
  BY <1>5, Listing, NonceSame
<1>6. CASE UNCHANGED vars
  BY <1>6, NonceSame DEF vars
<1>7. QED
  BY <1>1, <1>2, <1>3, <1>4, <1>5, <1>6, Steps

-------------------------------------------------------------------------------
(* One post at most has an effect                                          *)

LEMMA OnceInit == Init => OnceInv
BY DEF Init, OnceInv, Active

LEMMA OnceSame ==
  ASSUME OnceInv, UNCHANGED <<srv, executed, signed, muddled>>
  PROVE  OnceInv'
BY DEF OnceInv, Active

\* A post that comes to rest, or goes on, leaves the others as they are.
LEMMA OnceOne ==
  ASSUME OnceInv, NEW p \in Posts,
         UNCHANGED signed, muddled \subseteq muddled',
         \A q \in Posts \ {p} : srv'[q] = srv[q] /\ (q \in executed' <=> q \in executed),
         signed[p] \notin muddled' =>
           /\ p \in executed' => srv'[p] \in {"executed", "saved"}
           /\ Active(p)' => \A q \in Posts \ {p} : signed[q] = signed[p] => ~Active(q)
  PROVE  OnceInv'
<1>1. \A q \in Posts \ {p} : Active(q)' <=> Active(q)
  BY DEF Active
<1>2. SUFFICES ASSUME NEW q \in Posts, signed[q] \notin muddled'
               PROVE  /\ q \in executed' => srv'[q] \in {"executed", "saved"}
                      /\ \A r \in Posts \ {q} :
                           signed[r] = signed[q] => ~(Active(q)' /\ Active(r)')
  BY DEF OnceInv, Active
<1>3. signed[q] \notin muddled
  BY <1>2
<1>4. q \in executed' => srv'[q] \in {"executed", "saved"}
  BY <1>2, <1>3 DEF OnceInv
<1>5. ASSUME NEW r \in Posts \ {q}, signed[r] = signed[q]
      PROVE  ~(Active(q)' /\ Active(r)')
  <2>1. CASE q = p
    BY <1>1, <1>2, <1>5, <2>1
  <2>2. CASE r = p
    BY <1>1, <1>2, <1>5, <2>2
  <2>3. CASE q # p /\ r # p
    BY <1>1, <1>3, <1>5, <2>3 DEF OnceInv
  <2>4. QED
    BY <2>1, <2>2, <2>3
<1>6. QED
  BY <1>4, <1>5

LEMMA OnceStep ==
  ASSUME CouncilAssumption, TypeOK, PostInv, FormInv, OnceInv, [Next]_vars
  PROVE  OnceInv'
<1>1. CASE Type
  BY <1>1, OnceSame DEF Type
<1>2. CASE SubmitAccount \/ SubmitTransfer \/ SubmitTax
  <2>1. PICK n \in Nat : Post(n)
    BY <1>2, Submitting
  <2>2. PICK new \in Posts :
          /\ new = posted + 1 /\ posted \in Nat /\ srv'[new] = "received"
          /\ \A q \in Posts \ {new} : signed'[q] = signed[q] /\ srv'[q] = srv[q]
          /\ UNCHANGED <<executed, muddled>>
    BY <2>1, Posting
  <2>3. new \notin executed
    BY <2>2 DEF PostInv
  <2>4. ~Active(new)' /\ \A q \in Posts \ {new} : Active(q)' <=> Active(q)
    BY <2>2, <2>3 DEF Active
  <2>5. SUFFICES ASSUME NEW p \in Posts, signed'[p] \notin muddled
                 PROVE  /\ p \in executed => srv'[p] \in {"executed", "saved"}
                        /\ \A q \in Posts \ {p} :
                             signed'[q] = signed'[p] => ~(Active(p)' /\ Active(q)')
    BY <2>2 DEF OnceInv, Active
  <2>6. CASE p = new
    BY <2>3, <2>4, <2>6
  <2>7. CASE p # new
    <3>1. /\ signed'[p] = signed[p] /\ srv'[p] = srv[p]
          /\ p \in executed => srv[p] \in {"executed", "saved"}
      BY <2>2, <2>5, <2>7 DEF OnceInv
    <3>2. ASSUME NEW q \in Posts \ {p}, signed'[q] = signed'[p]
          PROVE  ~(Active(p)' /\ Active(q)')
      BY <2>2, <2>4, <2>5, <2>7, <3>1, <3>2 DEF OnceInv
    <3>3. QED
      BY <3>1, <3>2
  <2>8. QED
    BY <2>6, <2>7
<1>3. ASSUME NEW p \in Posts, Serve(p) \/ Break(p) PROVE OnceInv'
  <2>1. /\ UNCHANGED signed
        /\ \A q \in Posts \ {p} : srv'[q] = srv[q]
        /\ executed' \in {executed, executed \cup {p}}
    BY <1>3, Serving
  <2>2. \A q \in Posts \ {p} : srv'[q] = srv[q] /\ (q \in executed' <=> q \in executed)
    BY <2>1
  <2>3. CASE Refuse(p)
    <3>1. /\ srv' = [srv EXCEPT ![p] = "refused"] /\ UNCHANGED <<executed, muddled>>
          /\ srv[p] \in {"received", "checked"}
      BY <2>3 DEF Refuse
    <3>2. srv'[p] = "refused"
      BY <3>1 DEF TypeOK
    <3>3. signed[p] \notin muddled => p \notin executed
      BY <3>1 DEF OnceInv
    <3>4. signed[p] \notin muddled => ~Active(p)'
      BY <3>1, <3>2, <3>3 DEF Active
    <3>5. QED
      BY <2>1, <2>2, <3>1, <3>3, <3>4, OnceOne
  <2>4. CASE CheckSignature(p)
    <3>1. srv[p] = "received" /\ UNCHANGED <<executed, rows>> /\ muddled \subseteq muddled'
      BY <2>4 DEF CheckSignature
    <3>2. signed[p] \notin muddled => p \notin executed
      BY <3>1 DEF OnceInv
    <3>3. CASE srv'[p] # "checked"
      <4>1. srv' = [srv EXCEPT ![p] = "refused"]
        BY <2>4, <3>1, <3>3 DEF CheckSignature, TypeOK
      <4>2. srv'[p] = "refused"
        BY <4>1 DEF TypeOK
      <4>3. signed[p] \notin muddled' => ~Active(p)'
        BY <3>1, <3>2, <4>2 DEF Active
      <4>4. QED
        BY <2>1, <2>2, <3>1, <3>2, <4>3, OnceOne
    <3>4. CASE srv'[p] = "checked"
      <4>1. srv' # [srv EXCEPT ![p] = "refused"]
        BY <3>4 DEF TypeOK
      <4>2. /\ signed[p] \notin Recorded
            /\ muddled' = IF \E q \in Posts : /\ srv[q] \in {"checked", "executed"}
                                              /\ signed[q] = signed[p]
                          THEN muddled \cup {signed[p]} ELSE muddled
        BY <2>4, <4>1 DEF CheckSignature
      <4>3. ASSUME signed[p] \notin muddled', NEW q \in Posts \ {p},
                   signed[q] = signed[p]
            PROVE  ~Active(q)
        <5>1. srv[q] \notin {"checked", "executed"} /\ signed[q] \notin muddled
          BY <3>1, <4>2, <4>3
        <5>2. q \in executed => srv[q] = "saved"
          BY <5>1 DEF OnceInv
        <5>3. srv[q] = "saved" => signed[q] \in Recorded
          BY DEF PostInv, Listed, Recorded
        <5>4. QED
          BY <4>2, <4>3, <5>1, <5>2, <5>3 DEF Active
      <4>4. signed[p] \notin muddled' => p \notin executed'
        BY <3>1, <3>2
      <4>5. QED
        BY <2>1, <2>2, <3>1, <4>3, <4>4, OnceOne
    <3>5. QED
      BY <3>3, <3>4
  <2>5. CASE ExecuteOnStellar(p) \/ SaveRow(p)
    <3>1. /\ srv[p] \in {"checked", "executed"} /\ UNCHANGED muddled
          /\ \/ srv' = [srv EXCEPT ![p] = "executed"]
             \/ srv' = [srv EXCEPT ![p] = "saved"]
      BY <2>5 DEF ExecuteOnStellar, SaveRow
    <3>2. srv'[p] \in {"executed", "saved"}
      BY <3>1 DEF TypeOK
    <3>3. Active(p)
      BY <3>1 DEF Active
    <3>4. signed[p] \notin muddled =>
            \A q \in Posts \ {p} : signed[q] = signed[p] => ~Active(q)
      BY <3>3 DEF OnceInv
    <3>5. QED
      BY <2>1, <2>2, <3>1, <3>2, <3>4, OnceOne
  <2>6. CASE Break(p)
    <3>1. /\ srv' = [srv EXCEPT ![p] = "failed"]
          /\ muddled' = IF p \in executed' THEN muddled \cup {signed[p]} ELSE muddled
      BY <2>6 DEF Break
    <3>2. srv'[p] = "failed"
      BY <3>1 DEF TypeOK
    <3>3. signed[p] \notin muddled' => p \notin executed'
      BY <3>1
    <3>4. signed[p] \notin muddled' => ~Active(p)'
      BY <3>2, <3>3 DEF Active
    <3>5. muddled \subseteq muddled'
      BY <3>1
    <3>6. QED
      BY <2>1, <2>2, <3>3, <3>4, <3>5, OnceOne
  <2>7. QED
    BY <1>3, <2>3, <2>4, <2>5, <2>6 DEF Serve
<1>4. ASSUME NEW p \in Posts, Hear(p) PROVE OnceInv'
  BY <1>4, Hearing, OnceSame
<1>5. CASE ListStep
  BY <1>5, Listing, OnceSame
<1>6. CASE UNCHANGED vars
  BY <1>6, OnceSame DEF vars
<1>7. QED
  BY <1>1, <1>2, <1>3, <1>4, <1>5, <1>6, Steps

-------------------------------------------------------------------------------
(* The list                                                                *)

LEMMA ListInit == Init => ListInv
BY DEF Init, ListInv, Request, Unread, Covers

\* Rows that are added, and no success: the list keeps what it had.
LEMMA ListSame ==
  ASSUME TypeOK, ListInv, UNCHANGED <<list, overtaken, missed>>,
         \A p \in Posts : cli'[p] = "succeeded" => cli[p] = "succeeded",
         Len(rows) <= Len(rows'), Len(rows') \in Nat,
         \A i \in 1 .. Len(rows) : rows'[i] = rows[i]
  PROVE  ListInv'
<1>1. Len(rows) \in Nat /\ shown.of \in Nat /\ \A g \in gets : g.of \in Int
  BY DEF TypeOK, Unread
<1>2. \A n \in Nat : n <= Len(rows) /\ Covers(n) => Covers(n)'
  BY <1>1 DEF Covers, Listed
<1>3. shown.of <= Len(rows') /\ \A g \in gets : g.of <= Len(rows')
  BY <1>1 DEF ListInv
<1>4. ASSUME NEW g \in gets \cup {shown}, g.no = asked
      PROVE  g.page = currentPage /\ (g.of # Unread => Covers(g.of)')
  <2>1. g.of \in Nat \cup {Unread} /\ g.of <= Len(rows)
    BY DEF TypeOK, ListInv
  <2>2. g.page = currentPage /\ (g.of # Unread => Covers(g.of))
    BY <1>4 DEF ListInv
  <2>3. QED
    BY <1>2, <2>1, <2>2
<1>5. ~missed /\ ~overtaken => \E g \in gets \cup {shown} : g.no = asked
  BY DEF ListInv
<1>6. QED
  BY <1>3, <1>4, <1>5 DEF ListInv, Covers, Listed

\* A request for a page is the latest there is.
LEMMA ListAsk ==
  ASSUME TypeOK, ListInv, NEW page \in Pages, AskPage(page), UNCHANGED rows
  PROVE  ListInv'
<1>1. /\ asked \in Nat /\ Len(rows) \in Nat
      /\ \A g \in gets \cup {shown} : g.no <= asked /\ g.no \in Nat
  BY DEF TypeOK
<1> DEFINE new == Request(asked + 1, page)
<1>2. new.no = asked + 1 /\ new.page = page /\ new.of = Unread
  BY DEF Request
<1>3. /\ currentPage' = page /\ asked' = asked + 1 /\ shown' = shown
      /\ gets' = gets \cup {new}
  BY DEF AskPage
<1> HIDE DEF new
<1>4. \A g \in gets' \cup {shown'} : g.no = asked' => g = new
  BY <1>1, <1>2, <1>3
<1>5. shown'.of <= Len(rows') /\ \A g \in gets' : g.of <= Len(rows')
  BY <1>1, <1>2, <1>3 DEF ListInv, Unread
<1>6. \E g \in gets' \cup {shown'} : g.no = asked'
  BY <1>2, <1>3
<1>7. QED
  BY <1>2, <1>3, <1>4, <1>5, <1>6 DEF ListInv

LEMMA ListingStep ==
  ASSUME CouncilAssumption, TypeOK, PostInv, FormInv, ListInv, [Next]_vars
  PROVE  ListInv'
<1>0. rows \in Seq(Posts) /\ Len(rows) \in Nat
  BY DEF TypeOK
<1>1. CASE Type
  BY <1>0, <1>1, ListSame DEF Type
<1>2. CASE SubmitAccount \/ SubmitTransfer \/ SubmitTax
  <2>1. PICK n \in Nat : Post(n)
    BY <1>2, Submitting
  <2>2. /\ UNCHANGED <<rows, list, overtaken, missed>>
        /\ \A p \in Posts : cli'[p] = "succeeded" => cli[p] = "succeeded"
    BY <2>1, Posting
  <2>3. QED
    BY <1>0, <2>2, ListSame
<1>3. ASSUME NEW p \in Posts, Serve(p) \/ Break(p) PROVE ListInv'
  <2>1. /\ UNCHANGED <<cli, list, overtaken, missed>>
        /\ rows' = Append(rows, p) \/ rows' = rows
    BY <1>3, Serving
  <2>2. /\ Len(rows) <= Len(rows') /\ Len(rows') \in Nat
        /\ \A i \in 1 .. Len(rows) : rows'[i] = rows[i]
    BY <1>0, <2>1, OneMore
  <2>3. QED
    BY <2>1, <2>2, ListSame
<1>4. ASSUME NEW p \in Posts, Hear(p) PROVE ListInv'
  <2>1. /\ UNCHANGED <<rows, overtaken, missed>>
        /\ \A q \in Posts \ {p} : cli'[q] = cli[q]
        /\ \/ Succeed(p)
           \/ cli'[p] = "failed" /\ UNCHANGED list
    BY <1>4, Hearing
  <2>2. CASE Succeed(p)
    <3>1. AskPage(1) /\ 1 \in Pages
      BY <2>2 DEF Succeed, News, CouncilAssumption
    <3>2. QED
      BY <2>1, <3>1, ListAsk
  <2>3. CASE cli'[p] = "failed" /\ UNCHANGED list
    <3>1. \A q \in Posts : cli'[q] = "succeeded" => cli[q] = "succeeded"
      BY <2>1, <2>3
    <3>2. QED
      BY <1>0, <2>1, <2>3, <3>1, ListSame
  <2>4. QED
    BY <2>1, <2>2, <2>3
<1>5. ASSUME NEW page \in Pages, TurnPage(page) PROVE ListInv'
  BY <1>5, ListAsk DEF TurnPage
<1>6. ASSUME NEW g \in gets, ReadPage(g) \/ ShowPage(g) \/ MissPage(g)
      PROVE  ListInv'
  <2>0. /\ gets \subseteq [no : 1 .. asked, page : Pages, of : Nat \cup {Unread}]
        /\ shown \in [no : 0 .. asked, page : Pages, of : Nat] /\ asked \in Nat
    BY DEF TypeOK
  <2>1. UNCHANGED <<currentPage, asked, rows, cli>>
    BY <1>6 DEF ReadPage, ShowPage, MissPage
  <2>2. \A n : Covers(n)' <=> Covers(n)
    BY <2>1 DEF Covers, Listed
  <2>3. CASE ReadPage(g)
    <3> DEFINE read == [g EXCEPT !.of = Len(rows)]
    <3>1. /\ gets' = (gets \ {g}) \cup {read} /\ UNCHANGED <<shown, overtaken, missed>>
      BY <2>3 DEF ReadPage
    <3>2. read.no = g.no /\ read.page = g.page /\ read.of = Len(rows)
      BY <2>0
    <3> HIDE DEF read
    <3>3. Covers(Len(rows))
      BY DEF Covers, PostInv
    <3>4. \A h \in gets' \cup {shown'} : h = read \/ h \in gets \cup {shown}
      BY <3>1
    <3>5. \A h \in gets' \cup {shown'} : h.no = asked' =>
            h.page = currentPage' /\ (h.of # Unread => Covers(h.of)')
      BY <2>1, <2>2, <3>2, <3>3, <3>4 DEF ListInv
    <3>6. shown'.of <= Len(rows') /\ \A h \in gets' : h.of <= Len(rows')
      BY <1>0, <2>1, <3>1, <3>2 DEF ListInv
    <3>7. ~missed' /\ ~overtaken' => \E h \in gets' \cup {shown'} : h.no = asked'
      <4> SUFFICES ASSUME ~missed, ~overtaken
                   PROVE  \E h \in gets' \cup {shown'} : h.no = asked
        BY <2>1, <3>1
      <4>1. PICK h \in gets \cup {shown} : h.no = asked
        BY DEF ListInv
      <4>2. CASE h = g
        BY <3>1, <3>2, <4>1, <4>2
      <4>3. CASE h # g
        BY <3>1, <4>1, <4>3
      <4>4. QED
        BY <4>2, <4>3
    <3>8. QED
      BY <3>5, <3>6, <3>7 DEF ListInv
  <2>4. CASE ShowPage(g) \/ MissPage(g)
    <3>1. /\ gets' = gets \ {g} /\ shown' \in {g, shown}
          /\ shown' = g => g.of # Unread \/ g = shown
      BY <2>4 DEF ShowPage, MissPage
    <3>2. gets' \cup {shown'} \subseteq gets \cup {shown}
      BY <3>1
    <3>3. \A h \in gets' \cup {shown'} : h.no = asked' =>
            h.page = currentPage' /\ (h.of # Unread => Covers(h.of)')
      BY <2>1, <2>2, <3>2 DEF ListInv
    <3>4. shown'.of <= Len(rows') /\ \A h \in gets' : h.of <= Len(rows')
      BY <2>1, <3>1 DEF ListInv
    <3>5. ~missed' /\ ~overtaken' => \E h \in gets' \cup {shown'} : h.no = asked'
      <4> SUFFICES ASSUME ~missed', ~overtaken', ShowPage(g)
                   PROVE  \E h \in gets' \cup {shown'} : h.no = asked
        BY <2>1, <2>4 DEF MissPage
      <4>1. shown' = g /\ ~missed /\ ~overtaken /\ ~(g.no < shown.no)
        BY DEF ShowPage
      <4>2. PICK h \in gets \cup {shown} : h.no = asked
        BY <4>1 DEF ListInv
      <4>3. g.no \in Nat /\ g.no <= asked /\ shown.no \in Nat
        BY <2>0
      <4>4. CASE h = shown
        BY <2>0, <4>1, <4>2, <4>3, <4>4
      <4>5. CASE h = g
        BY <4>1, <4>2, <4>5
      <4>6. CASE h # shown /\ h # g
        BY <3>1, <4>2, <4>6
      <4>7. QED
        BY <4>4, <4>5, <4>6
    <3>6. QED
      BY <3>3, <3>4, <3>5 DEF ListInv
  <2>5. QED
    BY <1>6, <2>3, <2>4
<1>7. CASE UNCHANGED vars
  BY <1>0, <1>7, ListSame DEF vars
<1>8. QED
  BY <1>1, <1>2, <1>3, <1>4, <1>5, <1>6, <1>7, Steps DEF ListStep

-------------------------------------------------------------------------------
(* Theorems                                                                *)

LEMMA CouncilInvariant ==
  ASSUME CouncilAssumption
  PROVE  Spec => [](TypeOK /\ PostInv /\ FormInv /\ TextInv /\ NonceInv /\ OnceInv
                    /\ ListInv)
<1> DEFINE Inv == TypeOK /\ PostInv /\ FormInv /\ TextInv /\ NonceInv /\ OnceInv
                  /\ ListInv
<1>1. Init => Inv
  BY TypeInit, PostInit, FormInit, TextInit, NonceInit, OnceInit, ListInit
<1>2. Inv /\ [Next]_vars => Inv'
  BY TypeStep, PostStep, FormStep, TextStep, NonceStep, OnceStep, ListingStep
<1>3. QED
  BY <1>1, <1>2, PTL DEF Spec

\* Whatever posts, page turns and failures interleave, the state stays in its
\* types, and a button that is hidden has a post to wait for or a broken error
\* behind it (the three pages of the council and their handlers).
THEOREM CouncilTypeCorrect == ASSUME CouncilAssumption PROVE Spec => []TypeOK
BY CouncilInvariant, PTL

\* Once its requests are answered in their order the list is the current page
\* and has all that the form was told is saved (afterAccountCreation,
\* afterNewTransfer, submit of the taxes, and the controllers' lists).
THEOREM CouncilListFollows == ASSUME CouncilAssumption PROVE Spec => []ListFollows
<1>1. TypeOK /\ ListInv => ListFollows
  <2> SUFFICES ASSUME TypeOK, ListInv, gets = {}, ~overtaken, ~missed
               PROVE  /\ shown.page = currentPage
                      /\ \A p \in Posts : cli[p] = "succeeded" /\ OnList(p) =>
                           p \in InList(shown.of)
    BY DEF ListFollows
  <2>1. shown.no = asked
    BY DEF ListInv
  <2>2. shown.of # Unread
    BY DEF TypeOK, Unread
  <2>3. shown.page = currentPage /\ Covers(shown.of)
    BY <2>1, <2>2 DEF ListInv
  <2>4. QED
    BY <2>3 DEF Covers, Listed, InList
<1>2. QED
  BY <1>1, CouncilInvariant, PTL

\* A form forgets only what is on record, or what was typed while a post was
\* under way (cleanForm, cleanValues).
THEOREM CouncilFormKept == ASSUME CouncilAssumption PROVE Spec => FormKept
<1> DEFINE Kept == text # 0 /\ text' = 0 =>
       text \in hasty \/ \E p \in Posts : srv[p] = "saved" /\ signed[p][1] = text
<1>1. TypeOK /\ FormInv /\ [Next]_vars => [Kept]_text
  <2> SUFFICES ASSUME TypeOK, FormInv, [Next]_vars, text # 0, text' = 0,
                      text \notin hasty
               PROVE  \E p \in Posts : srv[p] = "saved" /\ signed[p][1] = text
    OBVIOUS
  <2>1. CASE Type
    BY <2>1 DEF Type, TypeOK
  <2>2. CASE SubmitAccount \/ SubmitTransfer \/ SubmitTax
    BY <2>2 DEF SubmitAccount, SubmitTransfer, SubmitTax, Post
  <2>3. ASSUME NEW p \in Posts, Serve(p) \/ Break(p) PROVE FALSE
    BY <2>3, Serving
  <2>4. ASSUME NEW p \in Posts, Hear(p)
        PROVE  \E q \in Posts : srv[q] = "saved" /\ signed[q][1] = text
    <3>1. Succeed(p)
      BY <2>4, Hearing
    <3>2. kind # "tax"
      BY <3>1, Succeeding
    <3>3. cli[p] = "waiting" /\ srv[p] = "saved"
      BY <3>1 DEF Succeed
    <3>4. p \in Waiting
      BY <3>3 DEF Waiting, TypeOK, Outcomes
    <3>5. signed[p][1] = text
      BY <3>2, <3>4 DEF FormInv
    <3>6. QED
      BY <3>3, <3>5
  <2>5. CASE ListStep \/ UNCHANGED vars
    BY <2>5, Listing DEF vars
  <2>6. QED
    BY <2>1, <2>2, <2>3, <2>4, <2>5, Steps
<1>2. QED
  BY <1>1, CouncilInvariant, PTL DEF Spec, FormKept, Kept

\* The account and the transfer form are told at most once that a text is
\* saved: their button is hidden from the post to its answer.
THEOREM CouncilOneSuccessEach ==
  ASSUME CouncilAssumption PROVE Spec => []OneSuccessEach
<1>1. TextInv => OneSuccessEach
  BY DEF TextInv, OneSuccessEach
<1>2. QED
  BY <1>1, CouncilInvariant, PTL

\* However often its form is sent again, an account is opened once, unless two
\* posts were handled at once or one was cut short (nonce, signatureExists).
THEOREM CouncilOpenedOnce == ASSUME CouncilAssumption PROVE Spec => []OpenedOnce
<1>1. TypeOK /\ PostInv /\ NonceInv /\ OnceInv => OpenedOnce
  <2> SUFFICES ASSUME TypeOK, PostInv, NonceInv, OnceInv, kind = "account",
                      NEW p \in executed, NEW q \in executed,
                      signed[p][1] = signed[q][1], p # q
               PROVE  signed[p] \in muddled
    BY DEF OpenedOnce
  <2>1. p \in Posts /\ q \in Posts /\ posted \in Nat
    BY DEF TypeOK
  <2>2. p \in 1 .. posted /\ q \in 1 .. posted
    BY <2>1 DEF PostInv
  <2>3. signed[p] = signed[q]
    BY <2>2 DEF NonceInv
  <2>4. QED
    BY <2>1, <2>3 DEF OnceInv, Active
<1>2. QED
  BY <1>1, CouncilInvariant, PTL
===============================================================================
