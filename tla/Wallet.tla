-------------------------------- MODULE Wallet --------------------------------
(***************************************************************************)
(* The private accounts of one browser tab.  Their addresses and secrets   *)
(* are a list in the local storage, which save() replaces under a mutex    *)
(* and remove() replaces without it, and from which the payment form drops *)
(* an account that it has emptied and merged into the state.  A secret     *)
(* that is not in the list is nowhere: the accounts of a withdraw are      *)
(* stored by calls of save() that nobody awaits.                           *)
(***************************************************************************)
EXTENDS Naturals, Sequences

CONSTANTS
  Known,        \* accounts in the list from before
  Arriving,     \* accounts a withdraw may open, each of an asset in its form
  KeyOf,        \* the master key of each of them: one secret may be of several
  Submits,      \* accounts whose address and secret the user types in
  Reloads,      \* presses of the button that reloads the list
  Payments,     \* uses of the payment form
  AccountOf,    \* the account each of them pays from
  Nobody,
  MaxRefreshes, \* bound: times the page is loaded again
  Faults        \* may Horizon or the server fail to answer?

Addresses == Known \cup Arriving \cup Submits

\* Whoever calls save(): the accounts of a withdraw and those typed in do so
\* once for themselves.
Jobs == Arriving \cup Submits \cup Reloads \cup Payments

ASSUME WalletAssumption ==
  /\ AccountOf \in [Payments -> Addresses]
  /\ DOMAIN KeyOf = Arriving
  /\ Nobody \notin Jobs \cup Addresses
  /\ Known \cap Arriving = {} /\ Known \cap Submits = {} /\ Arriving \cap Submits = {}
  /\ (Reloads \cup Payments) \cap Addresses = {} /\ Reloads \cap Payments = {}
  /\ MaxRefreshes \in Nat
  /\ Faults \in BOOLEAN

VARIABLES
  list,         \* STORAGE_KEY: the accounts in the local storage
  queue, holder,\* the mutex: jobs that wait, job that has it
  pc,           \* where each job is
  target,       \* the account it is saving
  todo,         \* those it has still to save
  snap,         \* the list as it read it
  form, mapped, \* the withdraw form: its assets, and the keys in assetMap
  posted,       \* inputAssets: those on their way to the server
  granted,      \* accounts the server opened for the form
  open,         \* accounts on the ledger
  stored, gone, \* history: accounts ever stored, and removed
  raced,        \* history: accounts removed while some job had them
  disturbed,    \* history: what SecretsKept makes an exception of
  refreshes

storage == <<list, stored, gone, raced>>
jobs == <<queue, holder, pc, target, todo, snap>>
withdraw == <<form, mapped, posted, granted>>
vars == <<storage, jobs, withdraw, open, disturbed, refreshes>>

Init ==
  /\ list = Known /\ stored = Known /\ gone = {} /\ raced = {}
  /\ queue = << >> /\ holder = Nobody
  /\ pc = [j \in Jobs |-> "idle"]
  /\ target = [j \in Jobs |-> Nobody]
  /\ todo = [j \in Jobs |-> {}]
  /\ snap = [j \in Jobs |-> {}]
  /\ form = << >> /\ mapped = {} /\ posted = << >> /\ granted = {}
  /\ open = Known \cup Submits
  /\ disturbed = FALSE
  /\ refreshes = 0

-------------------------------------------------------------------------------
\* save(), up to mutex.acquire().
Ask(j) ==
  /\ pc[j] = "next"
  /\ \E a \in todo[j] :
       /\ target' = [target EXCEPT ![j] = a]
       /\ todo' = [todo EXCEPT ![j] = @ \ {a}]
  /\ queue' = Append(queue, j)
  /\ pc' = [pc EXCEPT ![j] = "waiting"]
  /\ UNCHANGED <<holder, snap, storage, withdraw, open, disturbed, refreshes>>

\* A slip: the list is read and written without a mutex.
NoMutex == TRUE

Free == holder = Nobody

\* save() has the mutex, reads the list and asks for the balance.
Acquire(j) ==
  /\ Free
  /\ queue # << >>
  /\ j = Head(queue)
  /\ queue' = Tail(queue)
  /\ holder' = j
  /\ snap' = [snap EXCEPT ![j] = list]
  /\ pc' = [pc EXCEPT ![j] = "reading"]
  /\ UNCHANGED <<target, todo, storage, withdraw, open, disturbed, refreshes>>

\* A slip: save() returns without releasing.
StillHeld == holder

Released == Nobody

\* getBalanceFromStellar has answered: the list as it was read is written back
\* with the account.
Store(j) ==
  /\ pc[j] = "reading"
  /\ target[j] \in open
  /\ list' = snap[j] \cup {target[j]}
  /\ stored' = stored \cup {target[j]}
  /\ holder' = Released
  /\ pc' = [pc EXCEPT ![j] = IF todo[j] = {} THEN "done" ELSE "next"]
  /\ target' = [target EXCEPT ![j] = Nobody]
  /\ snap' = [snap EXCEPT ![j] = {}]
  /\ UNCHANGED <<queue, todo, gone, raced, withdraw, open, disturbed, refreshes>>

\* A slip: a try and a finally around the section.
ReleasedAnyway == Nobody

HolderAfterThrow == holder

\* It throws, for one because the account has been merged: the mutex is never
\* released.
SaveFails(j) ==
  /\ pc[j] = "reading"
  /\ \/ Faults
     \/ target[j] \notin open
  /\ holder' = HolderAfterThrow
  /\ pc' = [pc EXCEPT ![j] = "failed"]
  /\ disturbed' = TRUE
  /\ target' = [target EXCEPT ![j] = Nobody]
  /\ todo' = [todo EXCEPT ![j] = {}]
  /\ snap' = [snap EXCEPT ![j] = {}]
  /\ UNCHANGED <<queue, storage, withdraw, open, refreshes>>

SaveStep(j) == Ask(j) \/ Acquire(j) \/ Store(j) \/ SaveFails(j)

\* submitAddress: save().  What is typed in is the address of an account that
\* exists; the reloadList that follows is one of Reloads.
SubmitAddress(a) ==
  /\ pc[a] = "idle"
  /\ pc' = [pc EXCEPT ![a] = "next"]
  /\ todo' = [todo EXCEPT ![a] = {a}]
  /\ UNCHANGED <<queue, holder, target, snap, storage, withdraw, open,
                 disturbed, refreshes>>

\* reloadList: the accounts that are in the list at its start, one by one.
ReloadList(r) ==
  /\ pc[r] = "idle"
  /\ todo' = [todo EXCEPT ![r] = list]
  /\ pc' = [pc EXCEPT ![r] = IF list = {} THEN "done" ELSE "next"]
  /\ UNCHANGED <<queue, holder, target, snap, storage, withdraw, open,
                 disturbed, refreshes>>

-------------------------------------------------------------------------------
Without(a) == list \ {a}

\* Some save() will write, or may still write, the account it knows.
Underway(a) ==
  \E j \in Jobs : a \in todo[j] \cup {target[j]} \cup snap[j]

\* remove(): at once, and not under the mutex.
Remove(a) ==
  /\ list' = Without(a)
  /\ gone' = gone \cup {a}
  /\ raced' = IF Underway(a) THEN raced \cup {a} ELSE raced
  /\ UNCHANGED stored

\* The user presses the button that removes an account.
Discard(a) ==
  /\ a \in list
  /\ Remove(a)
  /\ UNCHANGED <<jobs, withdraw, open, disturbed, refreshes>>

\* PaymentFormComponent.submit.
Pay(p) ==
  /\ pc[p] = "idle"
  /\ AccountOf[p] \in list
  /\ pc' = [pc EXCEPT ![p] = "paying"]
  /\ UNCHANGED <<queue, holder, target, todo, snap, storage, withdraw, open,
                 disturbed, refreshes>>

\* afterPayment: reloadAccount, if the account is still in the list.
AfterPayment(p, l) ==
  /\ todo' = [todo EXCEPT ![p] = l \cap {AccountOf[p]}]
  /\ pc' = [pc EXCEPT ![p] = IF AccountOf[p] \in l THEN "next" ELSE "done"]

\* paymentOnStellar; the account is closed next if the payment was of all that
\* the page shows for it, which may not be all that it holds.
Paid(p) ==
  /\ pc[p] = "paying"
  /\ AccountOf[p] \in open
  /\ \/ pc' = [pc EXCEPT ![p] = "untrusting"] /\ UNCHANGED todo
     \/ AfterPayment(p, list)
  /\ UNCHANGED <<queue, holder, target, snap, storage, withdraw, open,
                 disturbed, refreshes>>

\* The ledger refuses it or Horizon does not answer: the form stays open and
\* shows the error.
PayFails(p) ==
  /\ pc[p] = "paying"
  /\ pc' = [pc EXCEPT ![p] = "done"]
  /\ UNCHANGED <<queue, holder, target, todo, snap, storage, withdraw, open,
                 disturbed, refreshes>>

\* removeTrust.
Untrust(p) ==
  /\ pc[p] = "untrusting"
  /\ AccountOf[p] \in open
  /\ pc' = [pc EXCEPT ![p] = "merging"]
  /\ UNCHANGED <<queue, holder, target, todo, snap, storage, withdraw, open,
                 disturbed, refreshes>>

\* mergeAccountToTheState, on the ledger.
Merge(p) ==
  /\ pc[p] = "merging"
  /\ AccountOf[p] \in open
  /\ open' = open \ {AccountOf[p]}
  /\ pc' = [pc EXCEPT ![p] = "merged"]
  /\ UNCHANGED <<queue, holder, target, todo, snap, storage, withdraw,
                 disturbed, refreshes>>

\* It resolves, and the account is removed from the list.
Forget(p) ==
  /\ pc[p] = "merged"
  /\ Remove(AccountOf[p])
  /\ AfterPayment(p, list')
  /\ UNCHANGED <<queue, holder, target, snap, withdraw, open, disturbed, refreshes>>

Kept(p) == list

\* The ledger refuses to close the account, which it does while anything is
\* left in it, or Horizon does not answer, whatever it did.  The error is
\* logged and the account stays in the list.
ClosingFails(p) ==
  /\ pc[p] \in {"untrusting", "merging"} \cup IF Faults THEN {"merged"} ELSE {}
  /\ list' = Kept(p)
  /\ AfterPayment(p, list')
  /\ UNCHANGED <<queue, holder, target, snap, stored, gone, raced, withdraw,
                 open, disturbed, refreshes>>

PaymentStep(p) ==
  Pay(p) \/ Paid(p) \/ PayFails(p) \/ Untrust(p) \/ Merge(p) \/ Forget(p) \/ ClosingFails(p)

-------------------------------------------------------------------------------
InForm == {form[i] : i \in 1 .. Len(form)}

FirstPosted(n) == {posted[i] : i \in 1 .. n}

Posted == FirstPosted(Len(posted))

\* Is the form on its way to the server?
sent == posted # << >>

\* A slip: the asset is kept under its address, which it does not have yet.
UnderNoKey(a) == mapped

Mapped(a) == mapped \cup {KeyOf[a]}

\* Assets may be added while the form is on its way.  One form, filled in before
\* the page is loaded again, and granted once.
AddAsset(a) ==
  /\ granted = {} /\ refreshes = 0
  /\ a \notin InForm
  /\ form' = Append(form, a)
  /\ mapped' = Mapped(a)
  /\ UNCHANGED <<posted, granted, storage, jobs, open, disturbed, refreshes>>

\* removeAsset makes the map anew with the addresses of the others, which are
\* empty, for keys; it may do so while the form is on its way.
RemoveAsset(i) ==
  /\ granted = {}
  /\ i \in DOMAIN form
  /\ form' = SubSeq(form, 1, i - 1) \o SubSeq(form, i + 1, Len(form))
  /\ mapped' = {}
  /\ disturbed' = TRUE
  /\ UNCHANGED <<posted, granted, storage, jobs, open, refreshes>>

\* WithdrawFormComponent.submit, up to the answer.
Submit ==
  /\ ~sent /\ granted = {}
  /\ form # << >>
  /\ posted' = form
  /\ UNCHANGED <<form, mapped, granted, storage, jobs, open, disturbed, refreshes>>

\* The loop over output.assets gets through n of them and throws at the first
\* whose key is not in the map, as it is by then.
Reached(n) ==
  /\ \A a \in FirstPosted(n) : KeyOf[a] \in mapped
  /\ n < Len(posted) => KeyOf[posted[n + 1]] \notin mapped

\* The server grants it.
Opened ==
  /\ granted' = Posted
  /\ open' = open \cup Posted

\* The withdraw is granted: a save() for each of its accounts, none awaited.
Receive ==
  /\ sent
  /\ posted' = << >>
  /\ Opened
  /\ \E n \in 0 .. Len(posted) :
       /\ Reached(n)
       /\ queue' = queue \o SubSeq(posted, 1, n)
       /\ pc' = [j \in Jobs |-> IF j \in FirstPosted(n) THEN "waiting" ELSE pc[j]]
       /\ target' = [j \in Jobs |-> IF j \in FirstPosted(n) THEN j ELSE target[j]]
  /\ UNCHANGED <<form, mapped, holder, todo, snap, storage, disturbed, refreshes>>

\* It is not granted.
Refused ==
  /\ sent
  /\ posted' = << >>
  /\ UNCHANGED <<form, mapped, granted, storage, jobs, open, disturbed, refreshes>>

\* It is granted and the answer is lost, and the new addresses with it: the
\* page shows an error and has nothing to save.
AnswerLost ==
  /\ Faults
  /\ sent
  /\ posted' = << >>
  /\ Opened
  /\ disturbed' = TRUE
  /\ UNCHANGED <<form, mapped, storage, jobs, refreshes>>

\* The page is loaded again: what was in memory, the form's secrets and the
\* mutex with it, is gone; what the server has been asked it may have granted.
Refresh ==
  /\ refreshes < MaxRefreshes
  /\ refreshes' = refreshes + 1
  /\ disturbed' = TRUE
  /\ queue' = << >>
  /\ holder' = Nobody
  /\ pc' = [j \in Jobs |-> IF pc[j] = "idle" THEN "idle" ELSE "done"]
  /\ todo' = [j \in Jobs |-> {}]
  /\ form' = << >>
  /\ mapped' = {}
  /\ posted' = << >>
  /\ target' = [j \in Jobs |-> Nobody]
  /\ snap' = [j \in Jobs |-> {}]
  /\ \/ UNCHANGED <<granted, open>>
     \/ sent /\ Opened
  /\ UNCHANGED storage

Next ==
  \/ \E j \in Jobs : SaveStep(j)
  \/ \E a \in Submits : SubmitAddress(a)
  \/ \E r \in Reloads : ReloadList(r)
  \/ \E a \in Addresses : Discard(a)
  \/ \E p \in Payments : PaymentStep(p)
  \/ \E a \in Arriving : AddAsset(a)
  \/ \E i \in DOMAIN form : RemoveAsset(i)
  \/ Submit \/ Receive \/ Refused \/ AnswerLost
  \/ Refresh

Spec == Init /\ [][Next]_vars

\* The page goes on with what Horizon answers, and Horizon answers.
FairSpec == Spec /\ \A j \in Jobs : WF_vars(SaveStep(j))

-------------------------------------------------------------------------------
(* Properties                                                              *)

TypeOK ==
  /\ list \subseteq Addresses /\ stored \subseteq Addresses
  /\ gone \subseteq Addresses /\ raced \subseteq Addresses
  /\ queue \in Seq(Jobs)
  /\ holder \in Jobs \cup {Nobody}
  /\ pc \in [Jobs -> {"idle", "next", "waiting", "reading", "failed", "done",
                      "paying", "untrusting", "merging", "merged"}]
  /\ holder = Nobody \/ pc[holder] \in {"reading", "failed"}
  /\ target \in [Jobs -> Addresses \cup {Nobody}]
  /\ todo \in [Jobs -> SUBSET Addresses]
  /\ snap \in [Jobs -> SUBSET Addresses]
  /\ form \in Seq(Arriving) /\ posted \in Seq(Arriving)
  /\ mapped \subseteq {KeyOf[a] : a \in Arriving}
  /\ granted \subseteq Arriving
  /\ disturbed \in BOOLEAN
  /\ open \subseteq Addresses
  /\ refreshes \in Nat

\* No save undoes another and no payment drops an account that is still there:
\* a secret that was once in the list stays in it until its user removes it or
\* its account is merged.
NothingForgotten == stored \ gone \subseteq list

\* What is taken out of the list to stay out is only what the user removed or
\* what no longer exists, and it only comes back if a save had it in hand.
NoGhosts == list \cap gone \subseteq raced

\* The list is what was stored and not removed, but for what a race brings back.
ListFaithful == NothingForgotten /\ NoGhosts

\* The secrets of a granted withdraw are stored or about to be, whatever else the
\* tab does meanwhile, assets added to the form among it, with four exceptions: an
\* asset was taken out of the form, the answer was lost, a save failed, or the page
\* was loaded again.  "The client receives the accounts and saves it in the list"
\* (GUIDE.md:68).
SecretsKept ==
  ~disturbed => \A a \in granted : a \in stored \/ pc[a] \in {"waiting", "reading"}

Stuck == \E j \in Jobs : pc[j] = "failed"

\* After one save that throws, nothing is stored in the tab any more.
StuckForGood == [][Stuck /\ Stuck' => stored' = stored]_vars

\* Every save is served and ends, until one throws.
EverySaveEnds ==
  \A j \in Jobs : pc[j] = "waiting" ~> pc[j] # "waiting" \/ Stuck
===============================================================================
