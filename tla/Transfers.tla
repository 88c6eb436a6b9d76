------------------------------- MODULE Transfers -------------------------------
(***************************************************************************)
(* POST /api/transfers, by which the council has the state's money sent to *)
(* a public account, and the taxRevenueNumber of the State row, which such *)
(* a call lowers and a withdraw (see Settlement) raises.                   *)
(*                                                                         *)
(* Every action is one turn of the event loop: what a call does from the   *)
(* moment an await returns until it awaits again.  The database evaluates  *)
(* what the turn asked for within the action.                              *)
(***************************************************************************)
EXTENDS Integers

CONSTANTS
  Documents,    \* signed transfer documents
  Calls,        \* POST /api/transfers calls
  DocumentOf,   \* the document each of them posts
  FromTaxes,    \* documents whose source is 'taxes', not 'printer'
  Worth,        \* what the amounts of a document add up to
  Parts,        \* how many amounts it lists
  Registered,   \* documents whose receiver is an account of the state
  Collectors,   \* withdraws that bring a tax
  Income,       \* the tax each of them brings
  MaxCrashes,   \* bound: times the server stops
  Faults        \* may the database or Horizon fail, or answer too late?

ASSUME ConstantsAssumption ==
  /\ DocumentOf \in [Calls -> Documents]
  /\ FromTaxes \subseteq Documents
  /\ Worth \in [Documents -> Nat]
  /\ Parts \in [Documents -> Nat \ {0}]
  /\ Registered \subseteq Documents
  /\ Income \in [Collectors -> Nat]
  /\ Calls \cap Collectors = {}
  /\ MaxCrashes \in Nat
  /\ Faults \in BOOLEAN

VARIABLES
  \* the database
  revenue,      \* taxRevenueNumber of the State row
  shown,        \* the revenue last sent to the clients
  rows,         \* calls whose transfer row is saved
  amounts,      \* call -> rows of the amounts table it has saved
  \* the blockchain
  executed,     \* calls whose transaction is on the ledger
  \* one call of create for each of Calls, one tax for each of Collectors
  pc,
  read,         \* the taxRevenueNumber a call will add to or take from
  \* the process
  up, crashes,
  \* history, read by no guard
  gathered,     \* taxes written to the State row
  charged,      \* calls that have lowered it
  spent,        \* what they have lowered it by
  raced,        \* two users of the State row overlapped
  muddled       \* documents whose calls overlapped, or stopped once executed

row == <<revenue, shown>>
tables == <<rows, amounts>>
process == <<up, crashes>>
history == <<gathered, charged, spent, raced, muddled>>
vars == <<row, tables, executed, pc, read, process, history>>

Users == Calls \cup Collectors

\* What a call's document says.
Price(c) == Worth[DocumentOf[c]]
Taxed(c) == DocumentOf[c] \in FromTaxes

-------------------------------------------------------------------------------
(* Which calls are in the middle of something                              *)

\* Between the first read of the State row and the news of its new value.
UsingRow == {"minimise", "writestate", "announce"}

\* A call that may still send its transaction.
Sending == UsingRow \cup {"checkstate", "account", "execute"}
\* A call whose transaction is on the ledger and whose row is not saved.
Saving == {"amounts", "transfer"}

InCall == Sending \cup Saving

\* A user of the State row begins while another one is at it.
Race(u) == raced' = (raced \/ \E v \in Users \ {u} : pc[v] \in UsingRow)

\* A call passes the check of its signature while another call with the same
\* document has passed it too and is not done.
Muddle(c) ==
  muddled' = IF \E d \in Calls \ {c} : /\ DocumentOf[d] = DocumentOf[c]
                                       /\ pc[d] \in InCall
             THEN muddled \cup {DocumentOf[c]} ELSE muddled

Goto(u, label) == pc' = [pc EXCEPT ![u] = label]

-------------------------------------------------------------------------------
Init ==
  /\ revenue = 0
  /\ shown = 0
  /\ rows = {}
  /\ amounts = [c \in Calls |-> 0]
  /\ executed = {}
  /\ pc = [u \in Users |-> "idle"]
  /\ read = [u \in Users |-> 0]
  /\ up = TRUE
  /\ crashes = 0
  /\ gathered = 0
  /\ charged = {}
  /\ spent = 0
  /\ raced = FALSE
  /\ muddled = {}

-------------------------------------------------------------------------------
(* The transfer endpoint                                                   *)

\* A document that is incomplete, not signed by the council, or whose amounts
\* are not positive numbers of the state's currencies.
Refuse(c) ==
  /\ up
  /\ pc[c] = "idle"
  /\ Goto(c, "refused")
  /\ UNCHANGED <<row, tables, executed, read, process, history>>

\* A slip: the signature is looked for among the transactions sent.
SignatureSent(c) == \E d \in executed \ rows : DocumentOf[d] = DocumentOf[c]

\* signatureExists: a saved transfer has the same signature.
SignatureExists(c) == \E d \in rows : DocumentOf[d] = DocumentOf[c]

CheckSignature(c) ==
  /\ up
  /\ pc[c] = "idle"
  /\ \/ /\ SignatureExists(c)
        /\ Goto(c, "refused")
        /\ UNCHANGED muddled
     \/ /\ ~SignatureExists(c)
        /\ Goto(c, IF Taxed(c) THEN "checkstate" ELSE "account")
        /\ Muddle(c)
  /\ UNCHANGED <<row, tables, executed, read, process,
                 gathered, charged, spent, raced>>

\* A slip: any revenue at all is enough.
SomeRevenue(c) == revenue > 0

Covered(c) == ~(revenue < Price(c))

\* getState, and the comparison with the sum of the amounts.
CheckState(c) ==
  /\ pc[c] = "checkstate"
  /\ \/ /\ Covered(c)
        /\ Goto(c, "minimise")
        /\ Race(c)
     \/ /\ ~Covered(c)
        /\ Goto(c, "refused")
        /\ UNCHANGED raced
  /\ UNCHANGED <<row, tables, executed, read, process,
                 gathered, charged, spent, muddled>>

\* minimizeTaxRevenueForState reads the row again.
ReadState(c) ==
  /\ pc[c] = "minimise"
  /\ read' = [read EXCEPT ![c] = revenue]
  /\ Goto(c, "writestate")
  /\ UNCHANGED <<row, tables, executed, process, history>>

\* A slip: what is left is written with the wrong sign.
Refund(c) == read[c] + Price(c)

Lowered(c) == read[c] - Price(c)

WriteState(c) ==
  /\ pc[c] = "writestate"
  /\ revenue' = Lowered(c)
  /\ charged' = charged \cup {c}
  /\ spent' = spent + Price(c)
  /\ Goto(c, "announce")
  /\ UNCHANGED <<shown, tables, executed, read, process,
                 gathered, raced, muddled>>

\* The clients are told what was written.
Announce(c) ==
  /\ pc[c] = "announce"
  /\ shown' = Lowered(c)
  /\ Goto(c, "account")
  /\ UNCHANGED <<revenue, tables, executed, read, process, history>>

\* getAccount comes after the revenue is lowered: an unknown receiver ends the
\* call and nothing puts it back.
FindAccount(c) ==
  /\ pc[c] = "account"
  /\ Goto(c, IF DocumentOf[c] \in Registered THEN "execute" ELSE "refused")
  /\ UNCHANGED <<row, tables, executed, read, process, history>>

\* executeTransfer: the transaction is on the ledger, and Horizon says so.
Execute(c) ==
  /\ pc[c] = "execute"
  /\ executed' = executed \cup {c}
  /\ Goto(c, "amounts")
  /\ UNCHANGED <<row, tables, read, process, history>>

\* Horizon answers with an error: the transaction is rejected, or it is on the
\* ledger and the answer came too late.
ExecuteFails(c) ==
  /\ Faults
  /\ pc[c] = "execute"
  /\ Goto(c, "failed")
  /\ \/ UNCHANGED <<executed, muddled>>
     \/ /\ executed' = executed \cup {c}
        /\ muddled' = muddled \cup {DocumentOf[c]}
  /\ UNCHANGED <<row, tables, read, process, gathered, charged, spent, raced>>

\* A slip: the first amount is enough.
FirstPart(c) == 1

\* A slip: one amount too many.
PartTooMany(c) == Parts[DocumentOf[c]] + 1

PartsOf(c) == Parts[DocumentOf[c]]

\* saveTransfer saves the amounts, one after the other, and then the transfer.
SaveAmount(c) ==
  /\ pc[c] = "amounts"
  /\ amounts' = [amounts EXCEPT ![c] = @ + 1]
  /\ Goto(c, IF amounts[c] + 1 = PartsOf(c) THEN "transfer" ELSE "amounts")
  /\ UNCHANGED <<row, rows, executed, read, process, history>>

SaveTransfer(c) ==
  /\ pc[c] = "transfer"
  /\ rows' = rows \cup {c}
  /\ Goto(c, "done")
  /\ UNCHANGED <<row, amounts, executed, read, process, history>>

\* The database rejects what a turn asks for: the call ends where it is.
CallFails(c) ==
  /\ Faults
  /\ pc[c] \in InCall \ {"announce", "execute"}
  /\ Goto(c, "failed")
  /\ muddled' = IF pc[c] \in Saving THEN muddled \cup {DocumentOf[c]}
                ELSE muddled
  /\ UNCHANGED <<row, tables, executed, read, process,
                 gathered, charged, spent, raced>>

Serve(c) == \/ CheckState(c) \/ ReadState(c) \/ WriteState(c) \/ Announce(c)
            \/ FindAccount(c) \/ Execute(c) \/ SaveAmount(c) \/ SaveTransfer(c)

-------------------------------------------------------------------------------
(* The taxes withdraws bring, one at a time: their mutex is held            *)

\* maximizeTaxRevenueForState reads the row.
Collect(w) ==
  /\ up
  /\ pc[w] = "idle"
  /\ \A v \in Collectors : pc[v] \notin UsingRow
  /\ read' = [read EXCEPT ![w] = revenue]
  /\ Goto(w, "writestate")
  /\ Race(w)
  /\ UNCHANGED <<row, tables, executed, process,
                 gathered, charged, spent, muddled>>

Raised(w) == read[w] + Income[w]

AddTax(w) ==
  /\ pc[w] = "writestate"
  /\ revenue' = Raised(w)
  /\ gathered' = gathered + Income[w]
  /\ Goto(w, "announce")
  /\ UNCHANGED <<shown, tables, executed, read, process,
                 charged, spent, raced, muddled>>

TellTax(w) ==
  /\ pc[w] = "announce"
  /\ shown' = Raised(w)
  /\ Goto(w, "done")
  /\ UNCHANGED <<revenue, tables, executed, read, process, history>>

CollectFails(w) ==
  /\ Faults
  /\ pc[w] = "writestate"
  /\ Goto(w, "failed")
  /\ UNCHANGED <<row, tables, executed, read, process, history>>

-------------------------------------------------------------------------------
\* The process stops: its calls end where they are.  A transaction on its way
\* may reach the ledger all the same.
Crash ==
  /\ up
  /\ crashes < MaxCrashes
  /\ up' = FALSE
  /\ crashes' = crashes + 1
  /\ pc' = [u \in Users |-> IF pc[u] \in InCall THEN "killed" ELSE pc[u]]
  /\ \E landed \in SUBSET {c \in Calls : pc[c] = "execute"} :
       /\ executed' = executed \cup landed
       /\ muddled' = muddled \cup
            {DocumentOf[c] : c \in landed \cup {d \in Calls : pc[d] \in Saving}}
  /\ UNCHANGED <<row, tables, read, gathered, charged, spent, raced>>

\* init writes the State row only if there is none.
Start ==
  /\ ~up
  /\ up' = TRUE
  /\ UNCHANGED <<row, tables, executed, pc, read, crashes, history>>

Next ==
  \/ \E c \in Calls : \/ Refuse(c) \/ CheckSignature(c) \/ Serve(c)
                      \/ ExecuteFails(c) \/ CallFails(c)
  \/ \E w \in Collectors : \/ Collect(w) \/ AddTax(w) \/ TellTax(w)
                           \/ CollectFails(w)
  \/ Crash
  \/ Start

Spec == Init /\ [][Next]_vars

-------------------------------------------------------------------------------
(* Properties                                                              *)

TypeOK ==
  /\ revenue \in Int
  /\ shown \in Int
  /\ rows \subseteq Calls
  /\ amounts \in [Calls -> Nat]
  /\ \A c \in Calls : amounts[c] <= Parts[DocumentOf[c]]
  /\ executed \subseteq Calls
  /\ pc \in [Users -> InCall \cup {"idle", "refused", "failed", "killed", "done"}]
  /\ \A w \in Collectors :
       pc[w] \in {"idle", "writestate", "announce", "done", "failed", "killed"}
  /\ read \in [Users -> Int]
  /\ up \in BOOLEAN
  /\ crashes \in Nat
  /\ gathered \in Nat
  /\ charged \subseteq Calls
  /\ spent \in Nat
  /\ raced \in BOOLEAN
  /\ muddled \subseteq Documents

\* Whatever overlaps, fails or crashes, the State row never shows more than
\* the taxes ever collected, nor owes more than transfers ever took.
RevenueBounded == -spent <= revenue /\ revenue <= gathered

\* As long as no two users of the State row overlapped, it is exactly what was
\* collected less what was spent, it is not negative, and between calls the
\* clients have been told, unless a crash kept it from them.
RevenueExact ==
  ~raced =>
    /\ revenue = gathered - spent
    /\ revenue >= 0
    /\ (crashes = 0 /\ \A u \in Users : pc[u] \notin UsingRow)
         => shown = revenue

\* What the State row may say at all, and what it says until two overlap.
RevenueSound == RevenueBounded /\ RevenueExact

\* Every transfer on record was paid, in all its parts; whoever was told "201"
\* has it on record; and nothing is paid from the taxes before the State row
\* has been lowered.
RecordIsPaid ==
  /\ \A c \in rows : c \in executed /\ amounts[c] = Parts[DocumentOf[c]]
  /\ \A c \in Calls : pc[c] = "done" => c \in rows
  /\ \A c \in executed : Taxed(c) => c \in charged

\* A signed document is paid once, if no call that posts it overlaps another
\* and none stops between payment and record: retries included.
PaidOnce ==
  \A c, d \in executed :
    DocumentOf[c] = DocumentOf[d] /\ DocumentOf[c] \notin muddled => c = d

\* Until two of its users overlap, the State row changes as a treasury does.
Bank == INSTANCE Treasury WITH
          Incomes <- {Income[w] : w \in Collectors},
          Expenses <- {Worth[d] : d \in FromTaxes},
          balance <- revenue

IsTreasury == Bank!TreasuryInit /\ [][~raced' => Bank!TreasuryNext]_revenue

-------------------------------------------------------------------------------
(* What the errors say                                                     *)

\* errors.ts:109: "The signature already exists": a signed document is good
\* for one transfer.
SignatureUsedOnce ==
  \A c, d \in executed : DocumentOf[c] = DocumentOf[d] => c = d
===============================================================================
