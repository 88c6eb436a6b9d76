------------------------------ MODULE WithdrawForm ------------------------------
(***************************************************************************)
(* The withdraw form in the tab of Wallet: what its assets are worth, the  *)
(* total it shows beside the number the page has for the deposit, and the  *)
(* server, which adds the assets up again and compares them with its own   *)
(* number.  Each step of the form is Wallet's and more, so that what is    *)
(* proved of Wallet holds here.                                            *)
(***************************************************************************)
EXTENDS Wallet, Money

CONSTANTS
  Choices,      \* for each account, units and amounts that the user may enter
  Due,          \* amountToReceive: untaxedNumber as the page has it
  Extra         \* what a payment made meanwhile adds to it

Entries == [assetName : Names, amountNumber : Int]

ASSUME FormAssumption ==
  /\ Choices \in [Arriving -> SUBSET Entries]
  /\ Due \in Nat /\ Extra \in Nat

VARIABLES
  assets,       \* what is asked for; `form` has the accounts, in the same order
  totalAmount,  \* the total on the page
  order,        \* the assets that are on their way to the server
  asked,        \* history: the total on the page when Submit was pressed
  owed          \* untaxedNumber as the server has it

page == <<assets, totalAmount>>
request == <<order, asked>>
formVars == <<page, request, owed>>

FormInit ==
  /\ Init
  /\ assets = << >> /\ totalAmount = 0
  /\ order = << >> /\ asked = 0
  /\ owed = Due

-------------------------------------------------------------------------------
\* addAsset, which takes every amount but 0.
EnterAsset(a, choice) ==
  /\ AddAsset(a)
  /\ choice.amountNumber # 0
  /\ assets' = Append(assets, choice)
  /\ totalAmount' = calculateTotal(assets')
  /\ UNCHANGED <<request, owed>>

\* A slip: the total stays as it is.
NotRecalculated(rest) == totalAmount

Recalculated(rest) == calculateTotal(rest)

\* removeAsset.
DropAsset(i) ==
  /\ RemoveAsset(i)
  /\ assets' = SubSeq(assets, 1, i - 1) \o SubSeq(assets, i + 1, Len(assets))
  /\ totalAmount' = Recalculated(assets')
  /\ UNCHANGED <<request, owed>>

PressSubmit ==
  /\ Submit
  /\ order' = assets
  /\ asked' = totalAmount
  /\ UNCHANGED <<page, owed>>

\* The server's check of the assets it was sent.
AddsUp == validateAmmount(order) /\ totalAssetsAmount(order) = owed

Answered == order' = << >> /\ asked' = 0

\* The withdraw is granted and the deposit emptied.
Granted ==
  /\ Receive
  /\ AddsUp
  /\ Answered
  /\ owed' = 0
  /\ UNCHANGED page

RefusedByCheck ==
  /\ Refused
  /\ ~AddsUp
  /\ Answered
  /\ UNCHANGED <<page, owed>>

\* An error of the server, which may have emptied the deposit, or a request that
\* it never got.
NotGranted ==
  /\ Faults
  /\ Refused
  /\ Answered
  /\ owed' \in {owed} \cup IF AddsUp THEN {0} ELSE {}
  /\ UNCHANGED page

\* Granted, and the answer does not come back.
GrantedUnseen ==
  /\ AnswerLost
  /\ AddsUp
  /\ Answered
  /\ owed' = 0
  /\ UNCHANGED page

\* A payment to the deposit, which the page does not know of.
PaymentArrives ==
  /\ owed = Due /\ granted = {}
  /\ owed' = Due + Extra
  /\ UNCHANGED <<vars, page, request>>

\* The page is loaded again.
LoadAgain ==
  /\ Refresh
  /\ assets' = << >> /\ totalAmount' = 0
  /\ Answered
  /\ IF granted' = granted THEN UNCHANGED owed ELSE AddsUp /\ owed' = 0

\* The rest of the tab.
Elsewhere ==
  /\ \/ \E j \in Jobs : SaveStep(j)
     \/ \E a \in Submits : SubmitAddress(a)
     \/ \E r \in Reloads : ReloadList(r)
     \/ \E a \in Addresses : Discard(a)
     \/ \E p \in Payments : PaymentStep(p)
  /\ UNCHANGED formVars

FormNext ==
  \/ \E a \in Arriving : \E choice \in Choices[a] : EnterAsset(a, choice)
  \/ \E i \in DOMAIN form : DropAsset(i)
  \/ PressSubmit \/ Granted \/ RefusedByCheck \/ NotGranted \/ GrantedUnseen
  \/ PaymentArrives
  \/ LoadAgain
  \/ Elsewhere

FormSpec == FormInit /\ [][FormNext]_<<vars, formVars>>

FairFormSpec == FormSpec /\ \A j \in Jobs : WF_vars(SaveStep(j))

-------------------------------------------------------------------------------
(* Properties                                                              *)

\* A form whose total, as the page shows it when Submit is pressed, is the amount
\* to receive, and that asks for no negative amount, is not refused while the page
\* has the server's number, whatever is done to the form until the answer: the two
\* copies of the arithmetic and the total after any adding and removing of assets
\* agree.
HonestPostGranted ==
  [][RefusedByCheck => asked # Due \/ owed # Due \/ ~validateAmmount(order)]_posted

\* What is granted is worth the total that was on the page when Submit was pressed,
\* and is the whole deposit; and none of its assets, each of which is printed and
\* delivered on its own, is worth more than that, with others making up for it.
GrantedAsShown ==
  [][granted = {} /\ granted' # {} =>
       /\ asked = owed
       /\ \A i \in 1 .. Len(order) :
            multipleAssetToValue(order[i].assetName, order[i].amountNumber) <= owed]_granted
===============================================================================
