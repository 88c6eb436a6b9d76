------------------------------- MODULE Delivery -------------------------------
(***************************************************************************)
(* How the state hands money over: the accounts that a withdraw opens for  *)
(* its assets, and delivers in the background after it has been answered,  *)
(* the public accounts of POST /api/accounts, and the transactions of      *)
(* transfers, which all share the issuer's sequence number.                *)
(*                                                                         *)
(* An address is opened by the issuer, with a key pair made for it, trusts *)
(* the issuer's currency, is paid if it is an asset, and has its key       *)
(* replaced by the owner's, who only then controls it.                     *)
(***************************************************************************)
EXTENDS Issuer, FiniteSets, Sequences

CONSTANTS
  Withdraws,    \* requests to withdraw, past their checks
  AssetsOf,     \* the assets each asks for, in order
  Accounts,     \* requests for a public account, past their checks
  Transfers,    \* requests to transfer, about to be executed
  BadKeys       \* assets and accounts whose new master key is not a key

Assets == UNION {{AssetsOf[w][i] : i \in DOMAIN AssetsOf[w]} : w \in Withdraws}

ASSUME DeliveryAssumption ==
  /\ \A w \in Withdraws : AssetsOf[w] \in Seq(Assets)
  /\ \A v, w \in Withdraws :
       \A i \in 1 .. Len(AssetsOf[v]), j \in 1 .. Len(AssetsOf[w]) :
         AssetsOf[v][i] = AssetsOf[w][j] => v = w /\ i = j
  /\ Assets \cap Accounts = {}
  /\ Transactions = {"create", "pay"} \X Assets \cup {"account"} \X Accounts
                      \cup {"transfer"} \X Transfers

VARIABLES
  pc,           \* where each withdraw is
  courier,      \* where its delivery, which nobody awaits, is
  at,           \* the asset either of them is at
  saved,        \* withdraws on record, with the secrets of their addresses
  stage,        \* where each request for a public account is
  rows,         \* public accounts on record
  trusts,       \* addresses that trust the issuer's currency
  handed        \* addresses that have their owner's key

requests == <<pc, courier, at, saved>>
openings == <<stage, rows>>
keys == <<trusts, handed>>
vars == <<issuer, requests, openings, keys>>

Create(w) == <<"create", AssetsOf[w][at[w]]>>
Pay(w) == <<"pay", AssetsOf[w][at[w]]>>
Account(c) == <<"account", c>>

\* Between mutex.acquire() and release().
InSection == {w \in Withdraws : pc[w] \in {"open", "opening", "save", "rest"}}

\* What a transaction of an address itself comes to: whether the ledger takes
\* it, and whether the server hears that it did.
Answers == IF Faults THEN {"ok", "lost", "failed"} ELSE {"ok"}

-------------------------------------------------------------------------------
Init ==
  /\ IssuerInit
  /\ pc = [w \in Withdraws |-> "idle"]
  /\ courier = [w \in Withdraws |-> "none"]
  /\ at = [w \in Withdraws |-> 1]
  /\ saved = {}
  /\ stage = [c \in Accounts |-> "idle"]
  /\ rows = {}
  /\ trusts = {}
  /\ handed = {}

\* The loop over the assets, from the one at i.
\* A slip: the loop runs backwards.
Preceding(i) == i - 1

Following(i) == i + 1

LoopFrom(w, i) == IF i <= Len(AssetsOf[w]) THEN "open" ELSE "save"

Enter(w) ==
  /\ up
  /\ pc[w] = "idle"
  /\ InSection = {}
  /\ pc' = [pc EXCEPT ![w] = LoopFrom(w, 1)]
  /\ UNCHANGED <<issuer, courier, at, saved, openings, keys>>

\* createAccountForAssetOnStellar, up to its await.
Open(w) ==
  /\ pc[w] = "open"
  /\ Send(Create(w))
  /\ pc' = [pc EXCEPT ![w] = "opening"]
  /\ UNCHANGED <<courier, at, saved, openings, keys>>

Opened(w) ==
  /\ pc[w] = "opening"
  /\ HearOk(Create(w))
  /\ at' = [at EXCEPT ![w] = Following(@)]
  /\ pc' = [pc EXCEPT ![w] = LoopFrom(w, at'[w])]
  /\ UNCHANGED <<courier, saved, openings, keys>>

\* The mutex is released and nothing is on record, whatever was opened.
OpenFails(w) ==
  /\ pc[w] = "opening"
  /\ HearError(Create(w))
  /\ pc' = [pc EXCEPT ![w] = "failed"]
  /\ UNCHANGED <<courier, at, saved, openings, keys>>

SaveWithdraw(w) ==
  /\ up
  /\ pc[w] = "save"
  /\ saved' = saved \cup {w}
  /\ pc' = [pc EXCEPT ![w] = "rest"]
  /\ UNCHANGED <<issuer, courier, at, openings, keys>>

\* The database fails here or, the withdraw being on record, at the deposit, the
\* tax row or the State row.
SectionFails(w) ==
  /\ up
  /\ Faults
  /\ pc[w] \in {"save", "rest"}
  /\ pc' = [pc EXCEPT ![w] = "failed"]
  /\ UNCHANGED <<issuer, courier, at, saved, openings, keys>>

\* A slip: the delivery is started before the withdraw is saved.
RecordedOrNot == {"save", "rest"}

Recorded == {"rest"}

\* trustAsset() is called, not awaited, and the request is answered.
Dispatch(w) ==
  /\ up
  /\ pc[w] \in Recorded
  /\ pc' = [pc EXCEPT ![w] = "answered"]
  /\ courier' = [courier EXCEPT ![w] = IF AssetsOf[w] = << >> THEN "done" ELSE "trust"]
  /\ at' = [at EXCEPT ![w] = 1]
  /\ UNCHANGED <<issuer, saved, openings, keys>>

-------------------------------------------------------------------------------
\* trustAssetOnStellar: the address itself sends this one.
Trust(w) ==
  /\ up
  /\ courier[w] = "trust"
  /\ \E answer \in Answers :
       /\ trusts' = IF answer = "failed" THEN trusts
                                         ELSE trusts \cup {AssetsOf[w][at[w]]}
       /\ courier' = [courier EXCEPT ![w] = IF answer = "ok" THEN "pay" ELSE "stopped"]
  /\ UNCHANGED <<issuer, pc, at, saved, openings, handed>>

\* A slip: the payment is not awaited.
NotAwaited == "key"

Awaited == "paying"

\* transferAssetToAccountOnStellar, up to its await.
SendPay(w) ==
  /\ courier[w] = "pay"
  /\ Send(Pay(w))
  /\ courier' = [courier EXCEPT ![w] = Awaited]
  /\ UNCHANGED <<pc, at, saved, openings, keys>>

Paid(w) ==
  /\ courier[w] = "paying"
  /\ HearOk(Pay(w))
  /\ courier' = [courier EXCEPT ![w] = "key"]
  /\ UNCHANGED <<pc, at, saved, openings, keys>>

PayFails(w) ==
  /\ courier[w] = "paying"
  /\ HearError(Pay(w))
  /\ courier' = [courier EXCEPT ![w] = "stopped"]
  /\ UNCHANGED <<pc, at, saved, openings, keys>>

\* A slip: the loop ends after its first asset.
FirstOnly(w) == "done"

NextAsset(w) == IF at[w] < Len(AssetsOf[w]) THEN "trust" ELSE "done"

\* changeMasterKeyOnStellar.  validateAssetsMasterKey is async and not awaited,
\* so that what is not a key gets as far as this and throws here.
HandOver(w) ==
  /\ up
  /\ courier[w] = "key"
  /\ \E answer \in IF AssetsOf[w][at[w]] \in BadKeys THEN {"failed"} ELSE Answers :
       /\ handed' = IF answer = "failed" THEN handed
                                         ELSE handed \cup {AssetsOf[w][at[w]]}
       /\ courier' = [courier EXCEPT ![w] = IF answer = "ok" THEN NextAsset(w)
                                                            ELSE "stopped"]
       /\ at' = [at EXCEPT ![w] = IF answer = "ok" THEN @ + 1 ELSE @]
  /\ UNCHANGED <<issuer, pc, saved, openings, trusts>>

-------------------------------------------------------------------------------
\* AccountsController.create: createAccountOnStellar, up to its await.
Request(c) ==
  /\ stage[c] = "idle"
  /\ Send(Account(c))
  /\ stage' = [stage EXCEPT ![c] = "creating"]
  /\ UNCHANGED <<requests, rows, keys>>

Created(c) ==
  /\ stage[c] = "creating"
  /\ HearOk(Account(c))
  /\ stage' = [stage EXCEPT ![c] = "trust"]
  /\ UNCHANGED <<requests, rows, keys>>

CreateFails(c) ==
  /\ stage[c] = "creating"
  /\ HearError(Account(c))
  /\ stage' = [stage EXCEPT ![c] = "failed"]
  /\ UNCHANGED <<requests, rows, keys>>

\* trustAssetsOnStellar: all currency units in one transaction.
TrustAll(c) ==
  /\ up
  /\ stage[c] = "trust"
  /\ \E answer \in Answers :
       /\ trusts' = IF answer = "failed" THEN trusts ELSE trusts \cup {c}
       /\ stage' = [stage EXCEPT ![c] = IF answer = "ok" THEN "key" ELSE "failed"]
  /\ UNCHANGED <<issuer, requests, rows, handed>>

\* A slip: a key that could not be changed is no reason not to save the account.
Regardless == "save"

WithoutKey == "failed"

\* changeMasterKeyOnStellar.
HandOverAccount(c) ==
  /\ up
  /\ stage[c] = "key"
  /\ \E answer \in IF c \in BadKeys THEN {"failed"} ELSE Answers :
       /\ handed' = IF answer = "failed" THEN handed ELSE handed \cup {c}
       /\ stage' = [stage EXCEPT ![c] = IF answer = "ok" THEN "save" ELSE WithoutKey]
  /\ UNCHANGED <<issuer, requests, rows, trusts>>

SaveAccount(c) ==
  /\ up
  /\ stage[c] = "save"
  /\ \/ stage' = [stage EXCEPT ![c] = "saved"] /\ rows' = rows \cup {c}
     \/ Faults /\ stage' = [stage EXCEPT ![c] = "failed"] /\ UNCHANGED rows
  /\ UNCHANGED <<issuer, requests, keys>>

-------------------------------------------------------------------------------
\* executeTransfer, up to its await, and after it.
Transfer(x) ==
  /\ \/ Send(<<"transfer", x>>)
     \/ HearOk(<<"transfer", x>>)
     \/ HearError(<<"transfer", x>>)
  /\ UNCHANGED <<requests, openings, keys>>

\* A payment in a currency the address does not trust comes to nothing.
Payable(t) == t \in {"pay"} \X Assets => t[2] \in trusts \/ state'[t] # "landed"

OnLedger(t) ==
  /\ \/ Land(t) /\ Payable(t)
     \/ Reject(t)
  /\ UNCHANGED <<requests, openings, keys>>

\* Nothing takes up what the process was doing when it stopped.
Crash ==
  /\ IssuerCrash
  /\ pc' = [w \in Withdraws |-> IF w \in InSection THEN "failed" ELSE pc[w]]
  /\ courier' = [w \in Withdraws |->
       IF courier[w] \in {"none", "done"} THEN courier[w] ELSE "stopped"]
  /\ stage' = [c \in Accounts |->
       IF stage[c] \in {"idle", "saved"} THEN stage[c] ELSE "failed"]
  /\ UNCHANGED <<at, saved, rows, keys>>

Start ==
  /\ IssuerStart
  /\ UNCHANGED <<requests, openings, keys>>

WithdrawStep(w) ==
  \/ Enter(w) \/ Open(w) \/ Opened(w) \/ OpenFails(w)
  \/ SaveWithdraw(w) \/ SectionFails(w) \/ Dispatch(w)

CourierStep(w) ==
  Trust(w) \/ SendPay(w) \/ Paid(w) \/ PayFails(w) \/ HandOver(w)

AccountStep(c) ==
  \/ Request(c) \/ Created(c) \/ CreateFails(c)
  \/ TrustAll(c) \/ HandOverAccount(c) \/ SaveAccount(c)

Next ==
  \/ \E w \in Withdraws : WithdrawStep(w) \/ CourierStep(w)
  \/ \E c \in Accounts : AccountStep(c)
  \/ \E x \in Transfers : Transfer(x)
  \/ \E t \in Transactions : OnLedger(t)
  \/ Crash
  \/ Start

Spec == Init /\ [][Next]_vars

\* The event loop goes on with whatever was answered, and Horizon answers.
FairSpec ==
  /\ Spec
  /\ \A w \in Withdraws : WF_vars(WithdrawStep(w)) /\ WF_vars(CourierStep(w))
  /\ \A t \in Transactions : WF_vars(OnLedger(t))

-------------------------------------------------------------------------------
(* Properties                                                              *)

TypeOK ==
  /\ IssuerTypeOK
  /\ pc \in [Withdraws -> {"idle", "open", "opening", "save", "rest", "answered", "failed"}]
  /\ courier \in [Withdraws -> {"none", "trust", "pay", "paying", "key", "done", "stopped"}]
  /\ at \in [Withdraws -> Nat]
  /\ \A w \in Withdraws : at[w] \in 1 .. Len(AssetsOf[w]) + 1
  /\ saved \subseteq Withdraws
  /\ stage \in [Accounts -> {"idle", "creating", "trust", "key", "save", "saved", "failed"}]
  /\ rows \subseteq Accounts
  /\ trusts \subseteq Assets \cup Accounts
  /\ handed \subseteq Assets \cup Accounts

\* Money is only sent to an address that exists, can take it, and whose secret
\* is on record, so that it can be recovered when the delivery stops.
NothingStranded ==
  \A w \in Withdraws : \A i \in 1 .. Len(AssetsOf[w]) :
    state[<<"pay", AssetsOf[w][i]>>] # "new" =>
      /\ w \in saved
      /\ AssetsOf[w][i] \in trusts
      /\ state[<<"create", AssetsOf[w][i]>>] = "landed"

\* Whoever got an asset's key got the money, and that of the assets before it.
HandedIsPaid ==
  \A w \in Withdraws : \A i \in 1 .. Len(AssetsOf[w]) :
    AssetsOf[w][i] \in handed =>
      /\ state[<<"pay", AssetsOf[w][i]>>] = "landed"
      /\ \A j \in 1 .. i - 1 : AssetsOf[w][j] \in handed

\* A public account on record exists, can be paid, and is its owner's.
RowsOfWorkingAccounts ==
  \A c \in rows : c \in trusts /\ c \in handed /\ state[Account(c)] = "landed"

\* How far each asset has got, by the ledger and not by what the server heard.
PhaseOf(a) ==
  IF a \in handed THEN "owned"
  ELSE IF state[<<"pay", a>>] = "landed" THEN "paid"
  ELSE IF a \in trusts THEN "trusting"
  ELSE IF state[<<"create", a>>] = "landed" THEN "opened"
  ELSE "none"

Promise ==
  INSTANCE Payout WITH
    recorded <- saved,
    phase <- [w \in Withdraws |->
                [i \in 1 .. Len(AssetsOf[w]) |-> PhaseOf(AssetsOf[w][i])]]

\* Whatever is lost, late or interrupted, each withdraw does to the ledger and
\* to its table what Payout promises, and nothing else.
IsPayout == Promise!PayoutSpec

\* Horizon fails at nothing, keys are keys and the server stays up.
Orderly == ~Faults /\ Patient /\ BadKeys = {} /\ crashes = 0

\* Then the withdraws, deliveries, accounts and transfers that share the number
\* do not get in each other's way: none is lost, no transaction is refused and
\* no call ends halfway.  And a delivery only ends well when every asset of its
\* withdraw has been handed over.
AllGoesWell ==
  /\ NeverWedged
  /\ Orderly =>
       /\ \A t \in Transactions : state[t] \notin {"void", "rejected"}
       /\ \A w \in Withdraws : pc[w] # "failed" /\ courier[w] # "stopped"
       /\ \A c \in Accounts : stage[c] # "failed"
  /\ \A w \in Withdraws : courier[w] = "done" =>
       \A i \in 1 .. Len(AssetsOf[w]) : AssetsOf[w][i] \in handed

\* A withdraw that was granted is handed over, every asset of it: "the server
\* creates the accounts and put the master public key of the user to the
\* accounts, so the user be able to use them" (README.md:18).
EveryPayoutDelivered ==
  \A w \in Withdraws :
    pc[w] = "answered" ~> \A i \in 1 .. Len(AssetsOf[w]) : AssetsOf[w][i] \in handed
===============================================================================
