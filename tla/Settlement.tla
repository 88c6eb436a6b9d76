------------------------------ MODULE Settlement ------------------------------
(***************************************************************************)
(* From a payment on the blockchain to a paid out deposit: the payment     *)
(* listener, the withdraw endpoint, the mutex between withdraws, and the   *)
(* tables and the State row they read and write.  A transfer lowers that   *)
(* row too, outside the mutex: what it does to the row is here, the rest   *)
(* of it in Transfers.                                                     *)
(*                                                                         *)
(* Every action is one turn of the event loop: what a call does from the   *)
(* moment an await returns until it awaits again, database write included. *)
(* A call keeps what it has read in its own variables until it uses it.    *)
(*                                                                         *)
(* Money is counted in hundredths of the smallest unit a payment has, so   *)
(* that a percentage of it is a whole number, as it is in the code's       *)
(* BigNumber arithmetic.                                                   *)
(***************************************************************************)
EXTENDS Integers, Sequences, FiniteSets, Functions

CONSTANTS
  Hashes,       \* hashes of passwords: the deposits that may exist
  Payments,     \* payments to the state, in one of its currencies
  HashOf,       \* the deposit each payment names in its memo
  ValueOf,      \* what each payment is worth
  Requests,     \* POST /api/withdraws calls
  ClaimOf,      \* the deposit each of them wants paid out
  NoRequest,    \* whoever holds a free mutex
  Transfers,    \* POST /api/transfers calls whose source is 'taxes'
  PriceOf,      \* what the amounts of each of them add up to
  TaxRates,     \* percentages a tax proposal may set
  MaxTaxes,     \* bound: tax proposals saved
  MaxCrashes,   \* bound: times the server stops
  Faults,       \* whose database and Horizon calls may fail, if any
  Overlap       \* may the pipe run applyPayment for a payment before it has
                \* finished with the previous one?

ASSUME ConstantsAssumption ==
  /\ HashOf \in [Payments -> Hashes]
  /\ ValueOf \in [Payments -> Nat]
  /\ ClaimOf \in [Requests -> Hashes]
  /\ NoRequest \notin Requests
  /\ PriceOf \in [Transfers -> Nat]
  /\ TaxRates \subseteq Int
  /\ MaxTaxes \in Nat
  /\ MaxCrashes \in Nat
  /\ Faults \subseteq {"listener", "endpoint"}
  /\ Overlap \in BOOLEAN

\* A hash is a digest of fixed length: there are many of them, not infinitely
\* many, so that what all of them were taxed has a sum.
ASSUME HashesAssumption == IsFiniteSet(Hashes)

VARIABLES
  \* the database, which survives a crash
  rows,         \* the hashes that have a deposit row
  deposits,     \* hash -> the three numbers of its row (zeros without a row)
  payments,     \* hash -> sum of its rows in the payment table
  withdraws,    \* hash -> sums of its rows in the withdraw table
  taxes,        \* tax rows, the newest last
  revenue,      \* taxRevenueNumber of the State row
  shown,        \* the revenue last sent to the clients
  \* the memory of the process
  up,           \* is the server running?
  seen,         \* depositHashes of the listener
  locked,       \* the mutex is taken
  queue,        \* requests waiting for the mutex
  releaser,     \* the releaseMutex field is set
  \* one call of applyPayment for each payment
  lpc, lread, lrate,
  \* one call of withdraw for each request
  wpc, dep, tax, wread,
  \* one call of create for each transfer
  xpc, xread,
  \* history, read by no guard
  disturbed,    \* deposits on which calls overlapped or stopped halfway
  spent,        \* what transfers have lowered the State row by
  raced,        \* two calls overlapped at the State row
  crashes

db == <<rows, deposits, payments, withdraws, taxes, revenue, shown>>
mutex == <<locked, queue, releaser>>
listener == <<seen, lpc, lread, lrate>>
handler == <<wpc, dep, tax, wread>>
spender == <<xpc, xread, spent, raced>>
process == <<up, crashes>>
vars == <<db, mutex, listener, handler, spender, process, disturbed>>

Numbers == [total : Nat, taxed : Int, untaxed : Int]
Zero == [total |-> 0, taxed |-> 0, untaxed |-> 0]

TaxOf(total, rate) == (total * rate) \div 100

\* A slip: the total is stored without its tax.
NetTotal(total, rate) ==
  [total |-> total - TaxOf(total, rate), taxed |-> TaxOf(total, rate),
   untaxed |-> total - TaxOf(total, rate)]

\* A slip: the tax is noted and not taken.
TaxLeftIn(total, rate) ==
  [total |-> total, taxed |-> TaxOf(total, rate), untaxed |-> total]

\* What the listener stores: the tax is taken of the whole new total.
Numbered(total, rate) ==
  [total |-> total, taxed |-> TaxOf(total, rate),
   untaxed |-> total - TaxOf(total, rate)]

-------------------------------------------------------------------------------
(* Which calls are in the middle of something                              *)

\* A payment whose call has read the deposit and not yet written it.
Applying == {"create", "save", "tax", "credit"}
\* A payment whose call is under way.
InCall == Applying \cup {"orphan"}

\* A request inside the section the mutex guards, first await included.
Section == {"accounts", "record", "zero", "readtax", "writetax",
            "readstate", "writestate", "announce"}
\* A request that has read the deposit and has not yet emptied it.
Claiming == {"checking", "waiting", "granted", "accounts", "record", "zero"}

\* A withdraw or a transfer that has read the State row and not yet told the
\* clients what it has made of it.
AtStateRow == {"writestate", "announce"}

Busy(h) ==
  \/ \E p \in Payments : HashOf[p] = h /\ lpc[p] \in Applying
  \/ \E r \in Requests : ClaimOf[r] = h /\ wpc[r] \in Claiming

\* A call starts on h while another one is still at it.
Join(h) == disturbed' = IF Busy(h) THEN disturbed \cup {h} ELSE disturbed

\* A call reads the State row while another one is still at it.
Race == raced' = (\/ raced
                  \/ \E r \in Requests : wpc[r] \in AtStateRow
                  \/ \E t \in Transfers : xpc[t] \in AtStateRow)

-------------------------------------------------------------------------------
Init ==
  /\ rows = {}
  /\ deposits = [h \in Hashes |-> Zero]
  /\ payments = [h \in Hashes |-> 0]
  /\ withdraws = [h \in Hashes |-> [total |-> 0, taxed |-> 0]]
  /\ taxes = <<>>
  /\ revenue = 0
  /\ shown = 0
  /\ up = TRUE
  /\ seen = {}
  /\ locked = FALSE
  /\ queue = <<>>
  /\ releaser = FALSE
  /\ lpc = [p \in Payments |-> "ledger"]
  /\ lread = [p \in Payments |-> 0]
  /\ lrate = [p \in Payments |-> 0]
  /\ wpc = [r \in Requests |-> "idle"]
  /\ dep = [r \in Requests |-> Zero]
  /\ tax = [r \in Requests |-> 0]
  /\ wread = [r \in Requests |-> 0]
  /\ xpc = [t \in Transfers |-> "idle"]
  /\ xread = [t \in Transfers |-> 0]
  /\ disturbed = {}
  /\ spent = 0
  /\ raced = FALSE
  /\ crashes = 0

-------------------------------------------------------------------------------
(* The payment listener                                                    *)

\* Horizon streams a payment and its transaction has been fetched.
Receive(p) ==
  /\ up
  /\ lpc[p] = "ledger"
  /\ lpc' = [lpc EXCEPT ![p] = "piped"]
  /\ UNCHANGED <<db, mutex, seen, lread, lrate, handler, spender, process,
                 disturbed>>

\* The stream starts at "now" and a rejected transaction() has no handler: a
\* payment made while the server is down, or not fetched, never comes back.
Miss(p) ==
  /\ ~up \/ "listener" \in Faults
  /\ lpc[p] = "ledger"
  /\ lpc' = [lpc EXCEPT ![p] = "missed"]
  /\ UNCHANGED <<db, mutex, seen, lread, lrate, handler, spender, process,
                 disturbed>>

\* A slip: calls overlap in a pipe meant to be serial.
PipeOpen == TRUE

\* A call that throws never reports done(), so a serial pipe stays behind it.
PipeFree == Overlap \/ \A p \in Payments : lpc[p] \notin InCall \cup {"failed"}

\* A slip: a row is created whenever none is found.
NotFound(h) == h \notin rows

\* No row yet, and no call of this process is creating it.
FirstSeen(h) == h \notin rows \cup seen

\* getDeposit, and the guard on depositHashes in the same turn.  The payer's
\* account, looked up before it, only labels the payment row.
Lookup(p) ==
  /\ lpc[p] = "piped"
  /\ PipeFree
  /\ \/ /\ HashOf[p] \in rows
        /\ lpc' = [lpc EXCEPT ![p] = "save"]
        /\ lread' = [lread EXCEPT ![p] = deposits[HashOf[p]].total]
        /\ UNCHANGED seen
        /\ Join(HashOf[p])
     \/ /\ FirstSeen(HashOf[p])
        /\ lpc' = [lpc EXCEPT ![p] = "create"]
        /\ seen' = seen \cup {HashOf[p]}
        /\ UNCHANGED lread
        /\ Join(HashOf[p])
     \/ /\ HashOf[p] \in seen \ rows \/ "listener" \in Faults
        /\ lpc' = [lpc EXCEPT ![p] = "orphan"]
        /\ UNCHANGED <<seen, lread, disturbed>>
  /\ UNCHANGED <<db, mutex, lrate, handler, spender, process>>

\* saveDeposit: save() of an entity with a key writes the row, new or not.
CreateRow(p) ==
  /\ lpc[p] = "create"
  /\ rows' = rows \cup {HashOf[p]}
  /\ deposits' = [deposits EXCEPT ![HashOf[p]] = Zero]
  /\ lread' = [lread EXCEPT ![p] = 0]
  /\ lpc' = [lpc EXCEPT ![p] = "save"]
  /\ UNCHANGED <<payments, withdraws, taxes, revenue, shown, mutex, seen,
                 lrate, handler, spender, process, disturbed>>

\* The failure is logged and the call goes on without a deposit.
CreateFails(p) ==
  /\ "listener" \in Faults
  /\ lpc[p] = "create"
  /\ lpc' = [lpc EXCEPT ![p] = "orphan"]
  /\ UNCHANGED <<db, mutex, seen, lread, lrate, handler, spender, process,
                 disturbed>>

\* A slip: a failure to record the payment is logged and forgotten, as one to
\* create the deposit is.
SaveSwallowed(p) ==
  /\ lpc[p] = "save"
  /\ lpc' = [lpc EXCEPT ![p] = "tax"]
  /\ UNCHANGED <<db, mutex, seen, lread, lrate, handler, spender, process,
                 disturbed>>

\* savePayment writes the payment's row; the total it must lead to is fixed.
SavePayment(p) ==
  /\ lpc[p] = "save"
  /\ payments' = [payments EXCEPT ![HashOf[p]] = @ + ValueOf[p]]
  /\ lpc' = [lpc EXCEPT ![p] = "tax"]
  /\ UNCHANGED <<rows, deposits, withdraws, taxes, revenue, shown, mutex, seen,
                 lread, lrate, handler, spender, process, disturbed>>

\* The same row, and then deposit.totalNumber of an undefined deposit.
SaveOrphan(p) ==
  /\ lpc[p] = "orphan"
  /\ payments' = [payments EXCEPT ![HashOf[p]] = @ + ValueOf[p]]
  /\ lpc' = [lpc EXCEPT ![p] = "failed"]
  /\ disturbed' = disturbed \cup {HashOf[p]}
  /\ UNCHANGED <<rows, deposits, withdraws, taxes, revenue, shown, mutex, seen,
                 lread, lrate, handler, spender, process>>

NewestRate == IF taxes = <<>> THEN 0 ELSE taxes[Len(taxes)].rate

\* getTaxesByPage: the newest tax, if there is one.
ReadRate(p) ==
  /\ lpc[p] = "tax"
  /\ lrate' = [lrate EXCEPT ![p] = NewestRate]
  /\ lpc' = [lpc EXCEPT ![p] = "credit"]
  /\ UNCHANGED <<db, mutex, seen, lread, handler, spender, process, disturbed>>

NewTotal(p) == lread[p] + ValueOf[p]

\* editDepositNumbers overwrites the row with what follows from the total read.
Credit(p) ==
  /\ lpc[p] = "credit"
  /\ deposits' = [deposits EXCEPT ![HashOf[p]] =
                    Numbered(NewTotal(p), lrate[p])]
  /\ lpc' = [lpc EXCEPT ![p] = "credited"]
  /\ UNCHANGED <<rows, payments, withdraws, taxes, revenue, shown, mutex, seen,
                 lread, lrate, handler, spender, process, disturbed>>

\* A call whose database access fails is abandoned where it is.
CallFails(p) ==
  /\ "listener" \in Faults
  /\ lpc[p] \in {"save", "orphan", "tax", "credit"}
  /\ lpc' = [lpc EXCEPT ![p] = "failed"]
  /\ disturbed' = IF lpc[p] \in {"tax", "credit"}
                  THEN disturbed \cup {HashOf[p]} ELSE disturbed
  /\ UNCHANGED <<db, mutex, seen, lread, lrate, handler, spender, process>>

\* What the event loop does next for a payment it has got.
Apply(p) == \/ Lookup(p) \/ CreateRow(p) \/ SavePayment(p) \/ SaveOrphan(p)
            \/ ReadRate(p) \/ Credit(p)

-------------------------------------------------------------------------------
(* The withdraw endpoint                                                   *)

\* getDeposit, with nothing held.
ReadDeposit(r) ==
  /\ up
  /\ wpc[r] = "idle"
  /\ ClaimOf[r] \in rows
  /\ dep' = [dep EXCEPT ![r] = deposits[ClaimOf[r]]]
  /\ wpc' = [wpc EXCEPT ![r] = "checking"]
  /\ Join(ClaimOf[r])
  /\ UNCHANGED <<db, mutex, listener, tax, wread, spender, process>>

\* No such deposit, a wrong password, an unknown currency.
Refuse(r) ==
  /\ up
  /\ wpc[r] = "idle"
  /\ wpc' = [wpc EXCEPT ![r] = "refused"]
  /\ UNCHANGED <<db, mutex, listener, dep, tax, wread, spender, process,
                 disturbed>>

\* The assets of the request do not add up to the untaxed number.
RefuseAmount(r) ==
  /\ wpc[r] = "checking"
  /\ wpc' = [wpc EXCEPT ![r] = "refused"]
  /\ UNCHANGED <<db, mutex, listener, dep, tax, wread, spender, process,
                 disturbed>>

\* acquire(): the mutex is taken, or the request joins the queue.
Ask(r) ==
  \/ /\ ~locked
     /\ locked' = TRUE
     /\ wpc' = [wpc EXCEPT ![r] = "granted"]
     /\ UNCHANGED queue
  \/ /\ locked
     /\ queue' = Append(queue, r)
     /\ wpc' = [wpc EXCEPT ![r] = "waiting"]
     /\ UNCHANGED locked

\* They do: the request asks for the mutex in the same turn.  Assets add up to
\* what is left untaxed, which cannot be negative; no assets add up to zero.
Authorise(r) ==
  /\ wpc[r] = "checking"
  /\ dep[r].untaxed >= 0
  /\ Ask(r)
  /\ UNCHANGED <<db, releaser, listener, dep, tax, wread, spender, process,
                 disturbed>>

\* acquire() resolves and the controller keeps the releaser in its field.
Enter(r) ==
  /\ wpc[r] = "granted"
  /\ releaser' = TRUE
  /\ wpc' = [wpc EXCEPT ![r] = "accounts"]
  /\ UNCHANGED <<db, locked, queue, listener, dep, tax, wread, spender,
                 process, disturbed>>

\* One Stellar account for each asset, paid by the state.
CreateAccounts(r) ==
  /\ wpc[r] = "accounts"
  /\ wpc' = [wpc EXCEPT ![r] = "record"]
  /\ UNCHANGED <<db, mutex, listener, dep, tax, wread, spender, process,
                 disturbed>>

\* saveWithdraw, with the numbers read before the mutex.
SaveWithdraw(r) ==
  /\ wpc[r] = "record"
  /\ withdraws' = [withdraws EXCEPT
       ![ClaimOf[r]] = [total |-> @.total + dep[r].total,
                        taxed |-> @.taxed + dep[r].taxed]]
  /\ wpc' = [wpc EXCEPT ![r] = "zero"]
  /\ UNCHANGED <<rows, deposits, payments, taxes, revenue, shown, mutex,
                 listener, dep, tax, wread, spender, process, disturbed>>

\* A slip: the total is left out.
TotalKept(numbers) == [numbers EXCEPT !.taxed = 0, !.untaxed = 0]

Emptied(numbers) == Zero

\* editDepositNumbers with three zeros.
ZeroDeposit(r) ==
  /\ wpc[r] = "zero"
  /\ deposits' = [deposits EXCEPT ![ClaimOf[r]] = Emptied(@)]
  /\ wpc' = [wpc EXCEPT ![r] = "readtax"]
  /\ UNCHANGED <<rows, payments, withdraws, taxes, revenue, shown, mutex,
                 listener, dep, tax, wread, spender, process, disturbed>>

\* getTaxesByPage and the read of maximizeTaxRevenue: nobody else writes the
\* revenue of a tax row while the mutex is held.
ReadTax(r) ==
  /\ wpc[r] = "readtax"
  /\ taxes # <<>>
  /\ tax' = [tax EXCEPT ![r] = Len(taxes)]
  /\ wread' = [wread EXCEPT ![r] = taxes[Len(taxes)].revenue]
  /\ wpc' = [wpc EXCEPT ![r] = "writetax"]
  /\ UNCHANGED <<db, mutex, listener, dep, spender, process, disturbed>>

\* A slip: the revenue read of one row is written to the newest, which may be
\* another by now.
WriteNewest(r) ==
  /\ wpc[r] = "writetax"
  /\ taxes' = [taxes EXCEPT ![Len(taxes)].revenue = wread[r] + dep[r].taxed]
  /\ wpc' = [wpc EXCEPT ![r] = "readstate"]
  /\ UNCHANGED <<rows, deposits, payments, withdraws, revenue, shown, mutex,
                 listener, dep, tax, wread, spender, process, disturbed>>

\* maximizeTaxRevenue writes the row it has read, by its uuid.
WriteTax(r) ==
  /\ wpc[r] = "writetax"
  /\ taxes' = [taxes EXCEPT ![tax[r]].revenue = wread[r] + dep[r].taxed]
  /\ wpc' = [wpc EXCEPT ![r] = "readstate"]
  /\ UNCHANGED <<rows, deposits, payments, withdraws, revenue, shown, mutex,
                 listener, dep, tax, wread, spender, process, disturbed>>

\* maximizeTaxRevenueForState: read, write, and tell the clients.  The mutex
\* keeps other withdraws from the row, and no transfer.
ReadState(r) ==
  /\ wpc[r] = "readstate"
  /\ wread' = [wread EXCEPT ![r] = revenue]
  /\ wpc' = [wpc EXCEPT ![r] = "writestate"]
  /\ Race
  /\ UNCHANGED <<db, mutex, listener, dep, tax, xpc, xread, spent, process,
                 disturbed>>

\* A slip: the clients' number is taken for the row's.
RaiseShown(r) ==
  /\ wpc[r] = "writestate"
  /\ revenue' = shown + dep[r].taxed
  /\ wpc' = [wpc EXCEPT ![r] = "announce"]
  /\ UNCHANGED <<rows, deposits, payments, withdraws, taxes, shown, mutex,
                 listener, dep, tax, wread, spender, process, disturbed>>

WriteState(r) ==
  /\ wpc[r] = "writestate"
  /\ revenue' = wread[r] + dep[r].taxed
  /\ wpc' = [wpc EXCEPT ![r] = "announce"]
  /\ UNCHANGED <<rows, deposits, payments, withdraws, taxes, shown, mutex,
                 listener, dep, tax, wread, spender, process, disturbed>>

\* A slip: the mutex goes to whoever came last.
LeaveLifo(r, outcome) ==
  /\ releaser
  /\ releaser' = FALSE
  /\ \/ /\ queue = <<>>
        /\ locked' = FALSE
        /\ wpc' = [wpc EXCEPT ![r] = outcome]
        /\ UNCHANGED queue
     \/ /\ queue # <<>>
        /\ queue' = SubSeq(queue, 1, Len(queue) - 1)
        /\ wpc' = [wpc EXCEPT ![r] = outcome, ![queue[Len(queue)]] = "granted"]
        /\ UNCHANGED locked

\* releaseMutex() hands the mutex to whoever has waited longest, in the same
\* turn; the field is cleared before that request gets to set it.  Calling a
\* field that is null would throw and leave the mutex taken: hence the guard.
Leave(r, outcome) ==
  /\ releaser
  /\ releaser' = FALSE
  /\ \/ /\ queue = <<>>
        /\ locked' = FALSE
        /\ wpc' = [wpc EXCEPT ![r] = outcome]
        /\ UNCHANGED queue
     \/ /\ queue # <<>>
        /\ queue' = Tail(queue)
        /\ wpc' = [wpc EXCEPT ![r] = outcome, ![Head(queue)] = "granted"]
        /\ UNCHANGED locked

\* The delivery of the assets is started, not awaited, and the request answered.
Finish(r) ==
  /\ \/ wpc[r] = "readtax" /\ taxes = <<>> /\ UNCHANGED shown
     \/ wpc[r] = "announce" /\ shown' = wread[r] + dep[r].taxed
  /\ Leave(r, "done")
  /\ UNCHANGED <<rows, deposits, payments, withdraws, taxes, revenue, listener,
                 dep, tax, wread, spender, process, disturbed>>

\* A slip: the error path keeps the mutex.
ThrowHolding(r) ==
  /\ "endpoint" \in Faults
  /\ wpc[r] \in Section \ {"announce"}
  /\ wpc' = [wpc EXCEPT ![r] = "thrown"]
  /\ UNCHANGED <<db, mutex, listener, dep, tax, wread, spender, process,
                 disturbed>>

\* Any await of the section may reject: the mutex is released, the error goes
\* to the caller, nothing that was written is taken back.
Throw(r) ==
  /\ "endpoint" \in Faults
  /\ wpc[r] \in Section \ {"announce"}
  /\ Leave(r, "thrown")
  /\ disturbed' = IF wpc[r] = "zero"
                  THEN disturbed \cup {ClaimOf[r]} ELSE disturbed
  /\ UNCHANGED <<db, listener, dep, tax, wread, spender, process>>

\* What the event loop does next for a request it has got.
Serve(r) == \/ RefuseAmount(r) \/ Authorise(r) \/ Enter(r) \/ CreateAccounts(r)
            \/ SaveWithdraw(r) \/ ZeroDeposit(r) \/ ReadTax(r) \/ WriteTax(r)
            \/ ReadState(r) \/ WriteState(r) \/ Finish(r)

-------------------------------------------------------------------------------
(* Transfers, as far as the State row sees them                            *)

\* What a step at the State row leaves alone.
Apart == UNCHANGED <<rows, deposits, payments, withdraws, taxes, mutex,
                     listener, handler, process, disturbed>>

\* getState, and the comparison with what the transfer is to cost.
CheckRevenue(t) ==
  /\ up
  /\ xpc[t] = "idle"
  /\ xpc' = [xpc EXCEPT ![t] = IF revenue < PriceOf[t] THEN "refused" ELSE "lower"]
  /\ UNCHANGED <<revenue, shown, xread, spent, raced>>

\* minimizeTaxRevenueForState: the row is read again, written, and the clients
\* are told, at any moment of a withdraw.
LowerRead(t) ==
  /\ xpc[t] = "lower"
  /\ xread' = [xread EXCEPT ![t] = revenue]
  /\ xpc' = [xpc EXCEPT ![t] = "writestate"]
  /\ Race
  /\ UNCHANGED <<revenue, shown, spent>>

Lowered(t) == xread[t] - PriceOf[t]

LowerWrite(t) ==
  /\ xpc[t] = "writestate"
  /\ revenue' = Lowered(t)
  /\ spent' = spent + PriceOf[t]
  /\ xpc' = [xpc EXCEPT ![t] = "announce"]
  /\ UNCHANGED <<shown, xread, raced>>

\* What comes after it has nothing to do with the row.
LowerAnnounce(t) ==
  /\ xpc[t] = "announce"
  /\ shown' = Lowered(t)
  /\ xpc' = [xpc EXCEPT ![t] = "done"]
  /\ UNCHANGED <<revenue, xread, spent, raced>>

\* The database fails it before it has written.
LowerFails(t) ==
  /\ "endpoint" \in Faults
  /\ xpc[t] \in {"lower", "writestate"}
  /\ xpc' = [xpc EXCEPT ![t] = "failed"]
  /\ UNCHANGED <<revenue, shown, xread, spent, raced>>

Lower(t) ==
  /\ \/ CheckRevenue(t) \/ LowerRead(t) \/ LowerWrite(t)
     \/ LowerAnnounce(t) \/ LowerFails(t)
  /\ Apart

-------------------------------------------------------------------------------
(* Tax proposals, crashes and restarts                                     *)

\* saveTax: nothing bounds the rate.
NewTax(rate) == [rate |-> rate, revenue |-> 0]

\* POST /api/taxes by a member of the council, signed and not posted before.
AddTax(rate) ==
  /\ up
  /\ Len(taxes) < MaxTaxes
  /\ taxes' = Append(taxes, NewTax(rate))
  /\ UNCHANGED <<rows, deposits, payments, withdraws, revenue, shown, mutex,
                 listener, handler, spender, process, disturbed>>

\* The process stops: calls end where they are, its memory is gone.
Crash ==
  /\ up
  /\ crashes < MaxCrashes
  /\ up' = FALSE
  /\ crashes' = crashes + 1
  /\ seen' = {}
  /\ locked' = FALSE
  /\ queue' = <<>>
  /\ releaser' = FALSE
  /\ lpc' = [p \in Payments |->
       IF lpc[p] \in InCall \cup {"piped"} THEN "killed" ELSE lpc[p]]
  /\ wpc' = [r \in Requests |->
       IF wpc[r] \in Claiming \cup Section THEN "killed" ELSE wpc[r]]
  /\ xpc' = [t \in Transfers |->
       IF xpc[t] \in AtStateRow \cup {"lower"} THEN "killed" ELSE xpc[t]]
  /\ disturbed' = disturbed
       \cup {HashOf[p] : p \in {q \in Payments : lpc[q] \in {"tax", "credit"}}}
       \cup {ClaimOf[r] : r \in {q \in Requests : wpc[q] = "zero"}}
  /\ UNCHANGED <<db, lread, lrate, dep, tax, wread, xread, spent, raced>>

Start ==
  /\ ~up
  /\ up' = TRUE
  /\ UNCHANGED <<db, mutex, listener, handler, spender, crashes, disturbed>>

Next ==
  \/ \E p \in Payments : \/ Receive(p) \/ Miss(p) \/ Apply(p)
                         \/ CreateFails(p) \/ CallFails(p)
  \/ \E r \in Requests : ReadDeposit(r) \/ Refuse(r) \/ Serve(r) \/ Throw(r)
  \/ \E t \in Transfers : Lower(t)
  \/ \E rate \in TaxRates : AddTax(rate)
  \/ Crash
  \/ Start

Spec == Init /\ [][Next]_vars

\* Every await of a call is answered while the server runs.
Fairness == /\ \A p \in Payments : WF_vars(Apply(p))
            /\ \A r \in Requests : WF_vars(Serve(r))

FairSpec == Spec /\ Fairness

-------------------------------------------------------------------------------
(* Properties                                                              *)

TypeOK ==
  /\ rows \subseteq Hashes
  /\ deposits \in [Hashes -> Numbers]
  /\ payments \in [Hashes -> Nat]
  /\ withdraws \in [Hashes -> [total : Nat, taxed : Int]]
  /\ taxes \in Seq([rate : Int, revenue : Int])
  /\ revenue \in Int
  /\ shown \in Int
  /\ up \in BOOLEAN
  /\ seen \subseteq Hashes
  /\ locked \in BOOLEAN
  /\ queue \in Seq(Requests)
  /\ releaser \in BOOLEAN
  /\ lpc \in [Payments -> InCall \cup {"ledger", "missed", "piped", "credited",
                                       "failed", "killed"}]
  /\ lread \in [Payments -> Nat]
  /\ lrate \in [Payments -> Int]
  /\ wpc \in [Requests -> Claiming \cup Section \cup
                            {"idle", "refused", "done", "thrown", "killed"}]
  /\ dep \in [Requests -> Numbers]
  /\ tax \in [Requests -> Nat]
  /\ wread \in [Requests -> Int]
  /\ xpc \in [Transfers -> AtStateRow \cup {"idle", "refused", "lower", "done",
                                            "failed", "killed"}]
  /\ xread \in [Transfers -> Int]
  /\ spent \in Nat
  /\ raced \in BOOLEAN
  /\ disturbed \subseteq Hashes
  /\ crashes \in Nat

\* A deposit never shows more than the payments recorded for it, whatever
\* overlaps, fails or crashes: a stale total may lose money, never invent it.
\* (applyPayment against editDepositNumbers of both callers.)
NothingInvented == \A h \in Hashes : deposits[h].total <= payments[h]

\* Creating a row never resets one: save() would overwrite the numbers of a
\* credited deposit.  This is what depositHashes is for.
NoReset == \A p \in Payments : lpc[p] = "create" =>
             /\ HashOf[p] \notin rows
             /\ \A q \in Payments \ {p} :
                  HashOf[q] = HashOf[p] => lpc[q] \notin Applying

\* The mutex works with one releaser field for all requests: one request in
\* the section, the field set exactly while it is there, and nobody waiting
\* for a mutex that is free.
OneInSection ==
  /\ \A r, s \in Requests :
       wpc[r] \in Section \cup {"granted"} /\ wpc[s] \in Section \cup {"granted"}
         => r = s
  /\ locked <=> \E r \in Requests : wpc[r] \in Section \cup {"granted"}
  /\ releaser <=> \E r \in Requests : wpc[r] \in Section
  /\ ~locked => queue = <<>>

Quiet(h) == ~Busy(h)

\* On a deposit whose calls never overlapped and never stopped between two
\* writes, every payment recorded is in the deposit or has been paid out once.
ExactAccounting ==
  \A h \in Hashes \ disturbed :
    Quiet(h) => payments[h] = deposits[h].total + withdraws[h].total

\* What deposits may hold at all, and what they hold until two calls overlap.
DepositsSound == NothingInvented /\ ExactAccounting

\* A deposit on which nothing overlaps or stops halfway is kept in escrow: what
\* is paid in is split by one rate that a council set, and a payout takes all of
\* it, tax included, in what to the deposit is one step, though it is two
\* writes: in between, its money counts as paid out.
Purse == INSTANCE Escrow WITH
  Deposits <- Hashes,
  Amounts <- {ValueOf[p] : p \in Payments},
  Rates <- TaxRates \cup {0},
  balance <- [h \in Hashes |->
                IF \E r \in Requests : ClaimOf[r] = h /\ wpc[r] = "zero"
                THEN Zero ELSE deposits[h]],
  paidOut <- withdraws

IsEscrow ==
  Purse!EscrowInit /\ [][\A h \in Hashes \ disturbed' : Purse!EscrowStep(h)]_vars

\* A payout was cut short, by an error or with the process.
CutShort == crashes > 0 \/ \E r \in Requests : wpc[r] = "thrown"

\* A request has begun to record its payout.
Recording == Section \ {"accounts", "record"}

\* The taxes collected, as the rows of either table add up.
TaxRevenues == SumFunction([i \in DOMAIN taxes |-> taxes[i].revenue])
TaxesWithdrawn == SumFunction([h \in Hashes |-> withdraws[h].taxed])

\* While nobody is recording a payout, and none has been cut short, the tax rows
\* and the withdraw rows agree on the taxes collected; and until two calls have
\* overlapped at the State row, a transfer and a withdraw or two transfers, that
\* row holds what of it transfers have not spent, and the clients have been told
\* (withdraw() of the controller against maximizeTaxRevenue,
\* maximizeTaxRevenueForState and minimizeTaxRevenueForState).
RevenueAgrees ==
  ~CutShort /\ (\A r \in Requests : wpc[r] \notin Recording)
    => /\ TaxRevenues = TaxesWithdrawn
       /\ ~raced => /\ revenue = TaxRevenues - spent
                    /\ (\A t \in Transfers : xpc[t] # "announce") => shown = revenue

\* And whatever fails or crashes, before or in between: each write of a tax row
\* adds what one withdraw has taxed to what is in that row now, though it was
\* read an await earlier, so that no withdraw takes back what another has added.
\* The mutex does the same for the State row until a transfer overlaps with
\* another call there: each write adds the tax of one withdraw to what is in the
\* row now, or takes from it the price of one transfer.
TaxesAdded ==
  /\ \A i \in 1 .. Len(taxes) : taxes'[i] # taxes[i] =>
       \E r \in Requests : /\ wpc[r] = "writetax" /\ wpc'[r] = "readstate"
                          /\ taxes' = [taxes EXCEPT ![i].revenue = @ + dep[r].taxed]
  /\ ~raced /\ revenue' # revenue =>
       \/ \E r \in Requests : /\ wpc[r] = "writestate" /\ wpc'[r] = "announce"
                             /\ revenue' = revenue + dep[r].taxed
       \/ \E t \in Transfers : /\ xpc[t] = "writestate" /\ xpc'[t] = "announce"
                              /\ revenue' = revenue - PriceOf[t]

RevenueKept == []RevenueAgrees /\ [][TaxesAdded]_<<taxes, revenue>>

\* Those who wait are in the queue, once each, and nobody else is.
InLine ==
  /\ \A i \in 1 .. Len(queue) : wpc[queue[i]] = "waiting"
  /\ \A i, j \in 1 .. Len(queue) : queue[i] = queue[j] => i = j
  /\ \A r \in Requests :
       wpc[r] = "waiting" => \E i \in 1 .. Len(queue) : queue[i] = r

\* The controller's mutex, queue and field implement a first-come first-served
\* lock: its holder is the request that has been granted it, and no request
\* waits that the lock does not know of.
Holder == IF \E r \in Requests : wpc[r] \in Section \cup {"granted"}
          THEN CHOOSE r \in Requests : wpc[r] \in Section \cup {"granted"}
          ELSE NoRequest

Lock == INSTANCE FifoLock WITH
          Clients <- Requests, Nobody <- NoRequest,
          holder <- Holder, waiting <- queue

FifoMutex == Lock!LockSpec /\ [](OneInSection /\ InLine)

\* A request that has read its deposit is answered, or its server stops:
\* failures and crashes included, the mutex is never left taken.
EveryRequestAnswered ==
  \A r \in Requests : wpc[r] \in Claiming
    ~> wpc[r] \in {"done", "refused", "thrown", "killed"}

\* With a pipe that takes one payment at a time, and nothing of the listener
\* failing, every payment that reaches the pipe is credited to its deposit,
\* those that come while a new deposit is being created included, unless the
\* server stops.
EveryPaymentCredited ==
  \A p \in Payments : lpc[p] = "piped" ~> lpc[p] \in {"credited", "killed"}

\* What stands in its way is nothing a payment can meet there: none is recorded
\* without a deposit, and no call is abandoned that the pipe would wait for.
NoneOrphaned ==
  ~Overlap /\ "listener" \notin Faults =>
    \A p \in Payments : lpc[p] \notin {"orphan", "failed"}

-------------------------------------------------------------------------------
(* What the guide, the REST documentation and the tests say                *)

\* doc/GUIDE.md:60: "The total amount of the money has to be the same with the
\* 'Amount to receive', or else it will not authorize the withdraw."  A request
\* past its check is about to record a payout of what the deposit holds.
PaysWhatIsThere ==
  \A r \in Requests : wpc[r] = "record" =>
    dep[r].untaxed = deposits[ClaimOf[r]].untaxed

\* doc/GUIDE.md:64, withdraws.controller.spec.ts:294: after the withdraw the
\* deposit is empty.  What was paid out is not in the deposit once more.
NothingLeftAfterPayout ==
  \A h \in Hashes : Quiet(h) =>
    deposits[h].total + withdraws[h].total <= payments[h]
===============================================================================
