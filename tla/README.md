# Verification of the neoliberal state platform

This directory holds TLA+ models of the platform in `src/` and of its browser
client in `client/src/app/`, the TLC configurations that check them on small
instances, and proofs, checked by TLAPS, of what holds of them for every
instance. Paths below are relative to the repository unless they name a module.

1. [The system](#1-the-system) 2. [What is hard in it](#2-what-is-hard-in-it) 3.
[The modules](#3-the-modules) 4. [The runs](#4-the-runs) 5. [Fairness](#5-fairness)
6. [What is proved](#6-what-is-proved) 7. [Where the code and its documents
disagree](#7-where-the-code-and-its-documents-disagree) 8. [What is not
modelled](#8-what-is-not-modelled) 9. [Plan](#9-plan)

## 1. The system

A server plays a state that prints money as Stellar assets, lets its public
services pay citizens, and taxes what citizens withdraw. It is one Node.js
process (Nest.js, TypeORM, stellar-sdk) over one database and one Stellar
account. A turn of its event loop is atomic; everything between two `await`s of
one call may be interleaved with any other call.

| Component | State it keeps | Operations that change it | Interacts with |
|---|---|---|---|
| Payment listener (`payment-listener.service.ts`) | `depositHashes`, the pipe of payments | `receivePayments`, `applyPayment` | Horizon's stream; deposits, payments, taxes |
| Deposits (`deposits.service.ts`) | a row per hash with three numbers | `saveDeposit`, `editDepositNumbers` | listener and withdraws both overwrite them |
| Payments (`payments.service.ts`) | a row per payment | `savePayment` | listener |
| Withdraws (`withdraws.controller.ts`, `withdraws.service.ts`) | rows; a mutex with one `releaseMutex` field; secrets of new addresses | `withdraw`, the background delivery | deposits, taxes, State row, Stellar |
| Taxes (`taxes.service.ts`) | rows with rate and revenue | `saveTax`, `maximizeTaxRevenue` | listener reads the rate, withdraws add revenue |
| State row (`config.service.ts`) | `taxRevenueNumber` | `maximizeTaxRevenueForState`, `minimizeTaxRevenueForState` | withdraws raise it, transfers lower it |
| Revenue gateway (`tax-revenue.gateway.ts`) | the value last sent | `sendNewTaxRevenue` | socket to every client |
| Transfers (`transfers.controller.ts`, `transfers.service.ts`) | transfer and amount rows | `create` | State row, accounts, Stellar |
| Accounts (`accounts.service.ts`) | a row per public account | `create` | Stellar |
| Issuer (`configService.issuer`) | the sequence number of the state's account, in memory | every `TransactionBuilder.build()`, `initStellarIssuer` | accounts, transfers, withdraws and their deliveries |
| Client: private accounts, withdraw form, payment form | list of addresses and secrets in the local storage; a mutex; the form's assets and `assetMap` | `save`, `remove`, `reloadList`, `submit` ... | server, Horizon, each other through the storage |
| Client: deposits | deposits and their passwords in the local storage, shared by all tabs; the list on each page | `save`, `remove`, `reloadList`, `reloadDeposit` | server |
| Client: council pages | a form, its nonce and its button; the page of a list | `submit`, `cleanForm`, `pageAccountChange` ... | server |
| Math of assets (`math.ts`, `asset.math.util.ts`) | none | sums of assets, once in the server and once in the browser | withdraw form, withdraws, transfers |

What makes each of them correct:

- *Listener and deposits*: every recorded payment is in its deposit or was paid
  out; none is counted twice; a row is never reset.
- *Withdraws*: one at a time past the mutex; a deposit is paid out once; the
  mutex always becomes free again.
- *Taxes, State row, transfers*: the State row is what was collected less what
  was spent, never negative; a signed document is paid once; what is on record
  was paid.
- *Issuer*: a number is given out once, and a number that was given out arrives.
- *Delivery*: money is sent only where it can be recovered or used; the owner
  gets the key after the money; a granted withdraw is delivered.
- *Wallet*: a secret once stored stays stored until its account is removed.
- *Withdraw form*: the total the user sees is what the server adds up to.
- *Deposits of the client*: no password is lost and none comes back; numbers are
  those of their deposit and get newer.
- *Council pages*: what is typed in is done once, however often it is sent, and
  the list shows it.

## 2. What is hard in it

- *Interleaving*: every handler reads a row, awaits, and writes it back. The
  listener and the withdraws overwrite the same deposit rows, withdraws and
  transfers the same State row, under one mutex that only withdraws take, and
  that they take after their check.
- *Failure*: no transaction of the database spans two writes; any of them, and
  any submission to Stellar, may reject between two others. An answer that comes
  too late is an error whose transaction was done.
- *Crash and restart*: the stream of payments starts at "now"; `depositHashes`,
  the mutex, the sequence number and the deliveries under way are in memory.
- *Ordering*: two transactions of the state that are under way at once reach the
  ledger in either order, and one that is refused leaves a hole in the numbers.
- *Liveness*: a mutex that must be released on every path, a delivery nobody
  waits for.

`PROJECT.json` lists each hazard at its line, with the properties that watch it.

## 3. The modules

    FifoLock, Escrow <- Settlement <- SettlementProofs  MCSettlement
    SettlementProofs, SumTheorems <- RevenueProofs
    Treasury     <- Transfers   <- TransfersProofs      MCTransfers
    Issuer       <- Delivery    <- DeliveryProofs       MCDelivery
    Payout       <- Delivery
    Wallet, Money <- WithdrawForm                       MCWithdrawForm
    WithdrawForm, SumTheorems <- WalletProofs
                    DepositPage <- DepositPageProofs    MCDepositPage
                    Council     <- CouncilProofs        MCCouncil

`FifoLock`, `Escrow`, `Treasury` and `Payout` are abstract specifications; the
module to their right is shown to implement them. `SumTheorems` is about sums over
tables and knows nothing of the platform. `WithdrawForm` is `Wallet` with more state
and is shown to implement it. In every detailed module a program counter (`lpc`,
`wpc`, `pc`, `courier`, `stage`, `rpc`, `srv`) says at which `await` a call is, and
an action is one turn of the event loop: what the call does from the answer it
waited for up to its next `await`, the write included. The variables a call reads
into (`lread`, `dep`, `read`, `snap` ...) keep what it read until it uses it. A
database access is atomic; that it may fail is an action of its own (`CallFails`,
`Throw`, `ExecuteFails` ...), enabled by `Faults`. A `Crash` ends every call where
it is and forgets what was in memory; `Start` is the next life. Definitions called
*a slip* are plausible mistakes in the definition after them; nothing uses them but
the mutants in `PROJECT.json`.

### FifoLock, Escrow and Settlement

`Settlement` is the path of money from a payment on the blockchain to a paid out
deposit. `Receive`/`Miss` are Horizon's stream; `Lookup`, `CreateRow`,
`SavePayment`, `ReadRate`, `Credit` are `applyPayment` await by await, and
`SaveOrphan` is what becomes of it without a deposit. `ReadDeposit`, `Authorise`
(which asks for the mutex in the same turn), `Enter`, `CreateAccounts`,
`SaveWithdraw`, `ZeroDeposit`, `ReadTax`, `WriteTax`, `ReadState`, `WriteState`,
`Finish`, `Throw` are `withdraw`. `AddTax` is `POST /api/taxes`. `Lower(t)` is
the other writer of the State row, a transfer from the taxes, as far as that row
sees it: `CheckRevenue` compares, `LowerRead`, `LowerWrite` and `LowerAnnounce` are
the awaits of `minimizeTaxRevenueForState`, which takes no mutex and may come
between any two steps of a withdraw. The rest of a transfer is in `Transfers`.

Whether the pipe of `@connectv/core`, which is not part of the repository, lets
`applyPayment` overlap with itself is a parameter (`Overlap`); safety is checked
with overlapping, which allows more. Money is in hundredths of a unit, where
`BigNumber` percentages are whole. A payment or withdraw table is its sum.
`saveDeposit` writes its row whether or not there is one, because `save()` of an
entity with a key does; `FAILED_TO_ADD_DEPOSIT_EXISTS_ALREADY` cannot occur.

`disturbed` (deposits on which calls overlapped or stopped between two writes),
`spent` (what transfers lowered the State row by), `raced` (two calls overlapped at
that row) and `crashes` are history: no guard reads the first three. `Hashes`,
digests of fixed length, are assumed finite, so that what all deposits were taxed
has a sum.

`FifoLock` is a first-come first-served lock. The refinement maps its holder to
the request that was granted the mutex and its line to the queue: it says that
the mutex and the controller's *one* `releaseMutex` field, shared by all
requests, never lose a release, release twice or let somebody past. `FifoMutex` adds what
the mapping cannot see: that two requests are never in the section at once
(`OneInSection`; the lock has one holder whatever happens), and that the
requests that wait are exactly those in the queue (`InLine`).

`Escrow` keeps a deposit as one balance: a payment raises it and splits it anew
by one rate, a payout takes all of it and adds it, tax included, to what was paid
out, and nothing else happens to it. The code does a payout in two writes,
`SaveWithdraw` and `ZeroDeposit`; the mapping shows a deposit between them as
empty already. `IsEscrow` says that every step is an escrow's of each deposit that is not
in `disturbed` after it. That exception is needed: section 7 has what a disturbed
deposit may do.

### Treasury and Transfers

`Transfers` is `POST /api/transfers`, from signature check to rows, for transfers
from the printer and from the taxes, with the two users of the State row:
`maximizeTaxRevenueForState` (by withdraws, whose mutex is represented by "one
`Collector` at a time") and `minimizeTaxRevenueForState`. `CheckState`,
`ReadState`, `WriteState` are its three separate accesses. `Treasury` is an
account that is credited and debited in one step and never overdrawn. History:
`gathered`, `spent`, `charged`, `raced` (two users of the row overlapped),
`muddled` (documents whose calls overlapped or stopped between payment and
record).

### Issuer, Payout and Delivery

`Issuer` is `configService.issuer`: `Send` builds a transaction with the next
number in memory; the ledger takes (`Land`) or rejects (`Reject`) it by the number
it has got to; the caller hears so (`HearOk`, `HearError`) or not. `Faults` adds
fees that are too low, timeouts and answers that do not come. `Patient` is a
ledger (Horizon's queue) that keeps a transaction whose predecessor is still on
its way. `IssuerStart` loads the account as the ledger has it (`Loaded`), and `life`
(history) is the life of the server each transaction was sent in: numbers are
given out once *in each life*. A number of a transaction that was still on its way
when the server stopped is given out again, and the ledger takes one of the two.

`Delivery` extends it with those who send: the withdraw's section that opens an
account for each asset, the delivery in the background (`Trust`, `SendPay`,
`Paid`, `HandOver`: trust, payment, change of key, asset after asset), public
accounts (`Request` ... `SaveAccount`) and transfers. `BadKeys` are master keys
that are no keys: the request with one is granted, since
`validateAssetsMasterKey` is not awaited, and `HandOver` fails on it. Node.js
versions that end the process at an unhandled rejection are covered by `Crash`.

`Payout` is what a withdraw promises of its addresses: opened in order, recorded
when all are, then each trusted, paid and owned, one after the other. The mapping
goes by the *ledger* and not by what the server heard, so that a lost answer must
not let it do anything out of order.

### Wallet

`Wallet` is the client's list of secrets in one tab: `save()` (`Ask`, `Acquire`,
`Store`, `SaveFails`) under the client's mutex, called without `await` by the
withdraw form, one by one by the reloads, after a payment, and by the form for a
known address; `remove()`, which takes no mutex; the payment form, which closes an
account it has emptied (`Untrust`, `Merge`, `Forget`); the withdraw form with its
`assetMap`; and a reload of the page. The form is posted as it was when Submit was
pressed (`posted`); only that button is hidden until the answer, so that assets are
added and removed meanwhile, and the loop over the answer looks secrets up in the
map as it is by then (`Reached`). `KeyOf` is the secret of each asset, which several
may share, since the form never clears the field: the run has two secrets, the
proofs any assignment. A post that is granted may go unanswered (`AnswerLost`),
which the page cannot tell from a refusal. What the ledger makes of a payment is a
choice. `raced` (accounts removed while a save had them in hand) and `disturbed` (an
asset was removed from the form, a save failed, the answer to a granted withdraw was
lost, or the page was loaded again) are history.

### Money and WithdrawForm

`Money` has both copies of the arithmetic on names of assets: `assetToNumber`,
`multipleAssetToValue`, `totalAssetsAmount` and `validateAmmount` of the server,
`clientAssetToNumber` and `calculateTotal` of the browser. A name is the number
it starts with and whether it has a `c`, which is all the arithmetic takes from
it; values are hundredths, in which `BigNumber` is exact.

`WithdrawForm` extends `Wallet`: each of its actions is one of `Wallet` together
with what it does to the assets in the form and the total shown beside the
*amount to receive* (`Due`), which the page got with its list of deposits.
`Granted` and `RefusedByCheck` are the server's comparison of its own sum with its own
number, which a payment may have changed (`PaymentArrives`), for the assets of the
post (`order`), whatever the form has become since; `asked` (history) is the total
that was on the page when Submit was pressed. `NotGranted` is an error of the
server, after which the deposit may be empty all the same; `GrantedUnseen` is a
withdraw whose answer is lost. `FormIsWallet`
proves that it is a `Wallet`, so that everything proved of `Wallet` holds of it;
its run checks the properties of both.

### DepositPage

`DepositPage` is the client's list of deposits: a storage all tabs share, and
reloads (`Reload`, `Ask`, `Serve`, `Receive`, `Fail`) that walk over the list
they read at first and write each answer into the list as it is when the answer
comes. `SaveDeposit` and `RemoveDeposit` are the form and the button of an item,
each with the reload it sets off in the same turn. `Change` is the server, where
`Settlement` overwrites the row: a row is known by how often it has changed, and
what is stored of it by the version it was read at. `Close` ends the calls of a
tab. History: `kept`, `muddled` (deposits two calls asked about at once), and
`calm`, `streak`, `last`, which tell the reloads nothing got in the way of.

### Council

`Council` is a page of the council: a form that signs and posts documents, the
server's handler of them, and the list that is asked for again after each
success and at each turn of a page. `kind` chooses among accounts, transfers and
taxes, which differ in when they take a nonce (`AccountNonce`), whether success
clears the form (`AccountSaved`, `TransferSaved`, `TaxSaved`) and whether the
button is hidden (`Hidden`). `CheckSignature`, `ExecuteOnStellar`, `SaveRow` are
the three awaits between a document and its row; `Break` cuts them short.
`ShowPage` shows whatever answer comes. `Elsewhere` are transfers made on the
page of one account to another, which its list does not show. History: `hasty`
(texts typed while a post was under way), `muddled`, `garbled`, `overtaken`,
`missed`.

## 4. The runs

All finish within about three minutes with two workers. Each passing run checks its
module's type invariant as well. Deadlock is not checked: requests, payments and
jobs are finitely many, and the system may rest when they are done.

| Run | Instance | Distinct states | Shows |
|---|---|---|---|
| `settlement_faults` | one deposit, 2 payments, 2 claims, a transfer, 2 rates (25%, 150%), overlapping, faults, 1 crash; the claims are symmetric | 6,368,427 | `DepositsSound`, `NoReset`, `RevenueKept`, `IsEscrow` (refines `Escrow`) |
| `settlement_live` | 2 payments in a serial pipe, 3 claims, failures of the endpoint | 188,692 | `FifoMutex` (refines `FifoLock`), `EveryRequestAnswered`, `EveryPaymentCredited` |
| `transfers_faults` | a document posted twice, another to an unknown receiver, a tax, faults, 1 crash | 409,189 | `RevenueSound`, `RecordIsPaid`, `PaidOnce`, `IsTreasury` (refines `Treasury`) |
| `delivery_faults` | a withdraw of 2 assets, an account, a transfer, faults, 2 crashes | 1,056,097 | `NothingStranded`, `RowsOfWorkingAccounts`, `NumbersOnce`, `WedgedUntilRestart`, `IsPayout` (refines `Payout`) |
| `delivery_fair` | withdraws of 2 and 1 assets, an account, a transfer, orderly ledger | 238,940 | `AllGoesWell`, `EveryPayoutDelivered` |
| `wallet_tab` | a withdraw of at most 2 assets worth 2, a half or -1, of two secrets, the form edited before and during its post, one address typed in, a reload, a payment, lost answers and other faults, 1 reload of the page | 688,849 | `ListFaithful`, `SecretsKept`, `StuckForGood`, `EverySaveEnds`, `HonestPostGranted`, `GrantedAsShown` |
| `deposit_page` | 2 deposits, 2 tabs, 3 reloads, 2 changes of the rows, faults | 433,449 | `ListExact`, `NumbersAreOwn`, `NewerStays`, `ReloadsConverge`, `EveryReloadEnds` |
| `council` | each of the three pages: 2 posts of 2 texts, 1 turn, faults | 299,280 | `ListFollows`, `FormKept`, `OneSuccessEach`, `OpenedOnce`, `ButtonReturns` |
| `withdraw_twice`, `withdraw_resurrected`, `signature_twice`, `master_key_refused_late` | as small as the case allows | | find a violation: section 7 |

Why the bounds are enough to be interesting. Every race in this code is between
*two* calls on one row, so two of each kind on one row exhaust the orders of a
pair; a third request is there where a queue must form (`settlement_live`), a
third call where a retry must meet another document (`transfers_faults`). One
crash puts a restart between any two steps; two in `delivery_faults` let
transactions of one life meet those of the next but one. `settlement_faults` takes
the two claims as symmetric: they are of the same deposit, nothing else tells them
apart, and all its properties are of safety. Two assets are needed
for "the next asset" and for a delivery that stops between two. Rates of 25% and
150% give a tax below and above the payment. An asset of two units, one of
fifty hundredths and a negative amount make totals that are right, wrong, and
right only in sum. Two deposits are needed for "the next deposit" of a reload,
and three reloads for two tabs, or for two undisturbed ones in a row after a
change. What the small instances cannot
show, that nothing depends on the number of deposits, calls, assets, accounts
or crashes, is what the proofs are for.

Some of these are made of parts. `DepositsSound` is `NothingInvented` (a deposit
never shows more than was paid to it, disturbed or not) and `ExactAccounting` (an
undisturbed one shows exactly what was not paid out). `RevenueKept` is
`RevenueAgrees` (tax rows and withdraw rows agree, until a payout is cut short; the
State row, less what transfers spent, and the clients agree with them until two
calls overlap at that row, `raced`) and `TaxesAdded` (no withdraw takes back the tax
another has written to a tax row, cut short or not, and no withdraw or transfer
undoes another at the State row, until `raced`). `NumbersOnce` is `OneNumberEach`
(in one life of the server no number is given out twice) and `NumbersFollow` (every
number between the ledger's and the server's was given out in this life).
`AllGoesWell` is `NeverWedged` and, of an orderly ledger, that nothing is refused
and no call ends halfway, and of any ledger, that a delivery that ends well has
handed over everything.

Three properties need no run of their own: `OneInSection` is part of
`FifoMutex`; `HandedIsPaid`, that the owner of an asset got the money, is proved and
implied by `IsPayout`; `NoneOrphaned`, that a serial pipe records no payment without its
deposit, is proved, and is the safety that `EveryPaymentCredited` rests on.

Every property has a mutant in `PROJECT.json`: a plausible mistake in one
definition (a mutex not released on the error path, a stale row written, a
payment before the trust) under which the run finds the property violated.

## 5. Fairness

- `Settlement`: weak fairness of `Apply(p)` and `Serve(r)`, that is, an `await`
  that can be answered is. Failures and crashes are not fair: they may happen,
  never must. `EveryRequestAnswered` holds with them, because the error path
  releases the mutex too. `EveryPaymentCredited` needs a serial pipe without
  failures: with an overlap or a failed call it does not hold (section 7).
- `Delivery`: weak fairness of each withdraw, of each delivery and of the ledger
  for each transaction. Horizon answers in the end; `Patient` and no `Faults` are
  what `EveryPayoutDelivered` needs of the network, since one rejected
  transaction wedges the server for good (`WedgedUntilRestart`).
- `WithdrawForm` (and `Wallet`): weak fairness of the saves. The user is under no
  obligation.
- `DepositPage`: weak fairness of each reload: a request is answered or fails in
  the end, and `reloadDeposit` catches it.
- `Council`: weak fairness of the handler of each post and of its answer. A
  browser that gets none reports an error in the end (`Disappoint`).

## 6. What is proved

Each `*Proofs` module proves its theorems for every value of the constants, from
the assumptions next to the constants and nothing else. An invariant is proved of
`Init` and of a step, action by action, and combined with temporal logic.

| Module | Theorems | Argument |
|---|---|---|
| `SettlementProofs` | `TypeCorrect`, `MutualExclusion`, `NobodyIsForgotten`, `CreditsCovered`, `RowsNeverReset`, `SerialPipeOrphansNone`, `AccountsBalance`, `GuideHoldsUndisturbed`, `DepositsAreSound`, `MutexImplementsFifoLock`, `DepositsImplementEscrow` | `RowsInv`: one call at most creates a row, and those past it have one. `CoverInv`: not only deposits but the totals calls hold in memory are covered by recorded payments. `QueueInv`, `LineInv`: the queue holds the waiting requests, once each, and all of them. `SerialInv`: one call is at work, and a hash that is marked as seen has its row or is getting it. `AccountInv`: an undisturbed deposit has one call at it, which holds its present numbers. `RatesInv`: a rate in use was proposed |
| `RevenueProofs` | `RevenuesAgree`, `NoRevenueIsLost` | `RevenueInv`: how far the one request that is recording its payout has got with the sums, and what transfers have taken. `UntaxedInv`: without a tax proposal nothing is taxed, so a request that finds no tax to credit owes none. `HandsInv`: what was read of a tax row that is about to be written is in it still, through crashes too; until two calls overlap at the State row, one is there and holds its value |
| `SumTheorems` | (lemmas) `SumRemove`, `OneTermChanges`, `OneTermMore`, `SumZero`, `TermBelowSum` | The sum of the community modules does not depend on the order it picks rows in. By a least counterexample: see below |
| `TransfersProofs` | `TransfersTypeCorrect`, `RevenueStaysBounded`, `RevenueIsExact`, `RevenueIsSound` (both), `RecordsArePaid`, `DocumentsPaidOnce`, `TransfersImplementTreasury` | `BoundInv`: what was read is bounded as the row is. `RowInv`: until two overlap, one user is at the row and holds its value. `TrailInv`: where a call is says what it left behind. `OnceInv`: one call per clean document is past its check |
| `DeliveryProofs`, of `Issuer` | `IssuerTypeCorrect`, `NumbersAreUnique`, `NumbersAreUsedOnce` (with `NumbersFollow`), `WedgedForGood`, `OrderlyNeverWedged` | `NumberInv`: what was sent since the last start carries a number the server has got to, and nothing is sent while it is down; so that the next number is new in this life, and the numbers above the ledger's are all of it. `OrderlyInv`: between the two each is on its way |
| `DeliveryProofs`, of `Delivery` | `DeliveryTypeCorrect`, `DeliveryImplementsIssuer`, `NumbersAreShared`, `OneLossStopsAll`, `NothingIsStranded`, `WhatIsHandedIsPaid`, `AllGoesWellAlways`, `RowsWork`, `DeliveryImplementsPayout` | `PayoutInv`: `Sound`, what the ledger says of an asset, its predecessors and the record, wherever the server is; `Aware`, what a withdraw at its `i`-th asset knows of those before. Each step moves one asset by one phase. `WellInv`, with `OrderlyInv`: a call only fails when its transaction is refused, and an orderly ledger refuses none whose predecessors are on their way; a delivery ends at its last asset, those before it handed over |
| `WalletProofs`, of `Wallet` | `WalletTypeCorrect`, `NothingIsForgotten`, `OnlyRacedComeBack`, `ListIsFaithful` (both), `SecretsAreKept`, `StuckStaysStuck` | `ListInv`: who has read the list has the mutex, and the list is within what it read. `GhostInv`: a removal nobody raced with is in no hand. `StartedInv`, `QueueInv`, `SecretInv`: a job knows no account before it has begun, waits once, and saves its own; `PostedArrives`: what is granted is of the form as posted |
| `WalletProofs`, of `WithdrawForm` | `FormIsWallet`, `FormIsSafe`, `FormIsGranted`, `FormIsHonoured` | Every step of the form is one of `Wallet`, so that its theorems hold of the form. `FormInv`: the total shown is the sum of what is in the form, and `asked` that of `order`, whatever the form has become since; it is `SameSum`, the server's, because both add the same terms. `NoneAboveSum`: no term of a sum of positive amounts exceeds it |
| `DepositPageProofs` | `DepositPageTypeCorrect`, `DepositListExact`, `DepositNumbersAreOwn`, `DepositNewerStays`, `DepositReloadStores`, `DepositSecondReloadShows`, `DepositReloadsConverge` (both) | `OwnInv`: what is stored, shown, held or on its way is of its own deposit. `OrderInv`: an answer is no older than what is stored, unless muddled. `CalmInv`, `StreakInv`: what a call that is alone has brought up to date so far, and what its predecessor left |
| `CouncilProofs` | `CouncilTypeCorrect`, `CouncilListFollows`, `CouncilFormKept`, `CouncilOneSuccessEach`, `CouncilOpenedOnce` | `PostInv`: where a post is says what it left behind. `FormInv`, `TextInv`: a hidden button means one post, and what succeeded is not in the form. `NonceInv`, `OnceInv`: a text has one nonce, and one post per document is past its check. `ListInv`: the latest request is for the current page and all that is known to be saved |

The invariants the runs check are mostly not inductive: they say nothing of what
calls hold in memory, and a call may write that back. The strengthenings are
statements about exactly that.

Sums over tables need an induction over the rows. The library's induction
theorems take a predicate as a parameter, which the provers cannot instantiate,
but it also has `WFMin`, that a nonempty set has a minimal element, which takes a
set. So `SumTheorems` takes the set of the tables a lemma fails for, a smallest one of
it (`LeastSet`), and removes a row.

Only model-checked: liveness (`EveryRequestAnswered`, `EveryPaymentCredited`,
`EveryPayoutDelivered`, `EverySaveEnds`, `EveryReloadEnds`, `ButtonReturns`), since
fairness speaks of `ENABLED`. What of it is safety, is proved: nobody who waits is
forgotten (`NobodyIsForgotten`), no payment is left without its deposit
(`SerialPipeOrphansNone`), no delivery is refused or stops (`AllGoesWellAlways`),
a save that has thrown is never recovered from (`StuckStaysStuck`).

## 7. Where the code and its documents disagree

Found by a run:

- `withdraw_twice`: the deposit is compared with the request before the mutex is
  asked for and not after, so that two requests are both paid the same deposit
  (`withdraws.controller.ts:38`; `doc/GUIDE.md:60`).
- `withdraw_resurrected`: a payment that read the deposit before a payout writes
  the old total back (`payment-listener.service.ts:163`; `doc/GUIDE.md:64`).
- `signature_twice`: a document posted twice at once is paid twice
  (`transfers.controller.ts:50`; `common/errors.ts:110`).
- `master_key_refused_late`: a key that is none is refused after the deposit was
  emptied (`common-validations.ts:243`; `common/errors.ts:195`).

The first two are all there is of their kind: `GuideHoldsUndisturbed` proves both
sentences of the guide for every deposit whose calls neither overlap nor stop
halfway. `DocumentsPaidOnce` does the same for the third.

Met while modelling, visible in the models, without a run of their own:

- A second payment to a deposit that is being created, and every payment after a
  failed creation, is recorded and never credited (`SaveOrphan`;
  `payment-listener.service.ts:121`). Two overlapping payments to an existing
  deposit credit one.
- Two transfers may be covered by the same taxes, since the revenue is checked in
  one read and lowered from another (`transfers.controller.ts:65`;
  `common/errors.ts:89`).
- The tax of a withdraw is lost when a transfer reads the State row before it and
  writes it after (`config.service.ts:163`; `doc/GUIDE.md:84`). `RevenueExact`
  of `Transfers` and the part of `RevenueKept` about the State row hold only while
  `raced` is false.
- A withdraw of no assets from an empty deposit is granted
  (`withdraws.controller.ts:41`), where `doc/REST_API.txt:249` answers 422.
- A transfer from the taxes to an unregistered receiver is charged before the
  receiver is looked up (`transfers.controller.ts:69`; `doc/GUIDE.md:27`).
- The `limitLumens` of `README.md:57` binds new accounts and no transfers.
- A `save()` of the client that throws, for one because the account was merged,
  never releases its mutex (`private.account.service.ts:70`): until the page is
  loaded again no account is stored, a granted withdraw's included
  (`StuckForGood` states it; `doc/GUIDE.md:68`).
- `removeAsset` makes `assetMap` anew under empty addresses
  (`withdraw-form.component.ts:63`), so that a submission after it throws once
  the withdraw is granted, and its secrets are lost; so does one while the post is
  under way, since the map is read when the answer comes (`SecretsKept` excludes
  both by `disturbed`).
- When the answer to a granted withdraw is lost, the page shows an error and stores
  no secret (`withdraw-form.component.ts:145`): its deposit is empty and the new
  addresses are unknown to the client (`AnswerLost`; `doc/GUIDE.md:68`).
- `remove()` takes no mutex: a save under way brings the account back
  (`NoGhosts` excludes it by `raced`), and the next reload of a merged one throws.
- The page of the deposits shows the list as it was read *before* the reload asked
  the server (`deposits.component.ts:22-32`), where `doc/GUIDE.md:55` and `:64`
  see the new numbers after pressing the button. `ReloadStores` says what a first
  reload does, `SecondReloadShows` what it takes a second one for.
- Transfers and taxes are signed with a new nonce at every press
  (`transfers.service.ts:52`): after a lost answer a second press pays again, and
  the check of signatures cannot tell. `OpenedOnce` is of accounts alone.
- An error without a body leaves the button of the account form hidden
  (`create-account-form.component.ts:86`; `garbled`).
- What is typed in while a post is under way is cleared by its success
  (`create-account-form.component.ts:83`; `hasty`).

## 8. What is not modelled

- Horizon, the ledger, the database, `async-mutex` and the pipe are external,
  modelled by what the code relies on and what they may answer.
- The text of documents: signatures, requesters and units are valid or refused by
  choice. A name of an asset is a number and a `c`; that `parseInt` takes the
  digits at its start is taken from the library.
- Reading: balances, payments, deposit information beyond its numbers. The lists
  of `Council` are read as of a moment, not in slices of ten, and so is the page of
  `DepositPage`.
- The connection to the database, creating tables, logging, request ids, wiring,
  and the fixtures of the tests.
- What the navbar shows: it asks for the revenue once and listens to the socket
  (`navbar.component.ts:26`), and the later of the two to come wins. What the
  server sends, and in which order, is in `Transfers` and `Settlement`.
- Changing the account of the page of an account without leaving it.
- Amounts that are not numbers: the server's check (`common-validations.ts:188`)
  is false of `NaN` and lets it pass. Amounts in `Money` are integers.
- Two tabs with private accounts, which share the local storage and not the mutex:
  no document claims anything of them, and no secret is safe there. Two tabs with
  deposits are in `DepositPage`: there every change of the list is one turn, and
  the turns of two tabs at the storage are taken to exclude each other.

## 9. Plan

Done, in this order, the most important behaviour first: `Settlement` with
`FifoLock`; `Transfers` with `Treasury`; `Issuer`; `Delivery` with `Payout`;
`Wallet`; then `DepositPage`, `Council`, `Money` and `WithdrawForm`; their proofs.

What could still be added:

1. `Platform`: `Settlement` with whole transfers. It has what a transfer does to
   the State row; their documents, retries and payments are in `Transfers`, where
   "one `Collector` at a time" stands for the withdraws and their mutex.
2. A gauge: the socket, `GET /api/config/state` and the number in the navbar, as
   an extension of `Transfers`.
3. Proofs: `Platform` implements its parts. `NoRevenueIsLost` and `MutualExclusion`
   are what it needs of `Settlement`.
4. Two tabs in `Wallet`, to say exactly what the mutex of one tab protects.
