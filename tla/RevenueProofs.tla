----------------------------- MODULE RevenueProofs -----------------------------
(***************************************************************************)
(* The tax rows and the withdraw rows agree on the taxes collected, and so *)
(* does the State row until a transfer overlaps with another call there,   *)
(* for any number of deposits, requests, transfers and tax proposals.      *)
(***************************************************************************)
EXTENDS SettlementProofs, SumTheorems

(***************************************************************************)
(* How a step changes the two sums.                                        *)
(***************************************************************************)

Revenues == [i \in DOMAIN taxes |-> taxes[i].revenue]
Taxed == [h \in Hashes |-> withdraws[h].taxed]

LEMMA SumsAre ==
  /\ TaxRevenues = Sum(Revenues, DOMAIN taxes)
  /\ TaxesWithdrawn = Sum(Taxed, Hashes)
BY DEF TaxRevenues, TaxesWithdrawn, SumFunction, Sum, Revenues, Taxed

LEMMA SumsAreNext ==
  /\ TaxRevenues' = Sum(Revenues', DOMAIN taxes')
  /\ TaxesWithdrawn' = Sum(Taxed', Hashes)
BY DEF TaxRevenues, TaxesWithdrawn, SumFunction, Sum, Revenues, Taxed

LEMMA Terms ==
  ASSUME TypeOK
  PROVE  /\ DOMAIN taxes = 1..Len(taxes) /\ Len(taxes) \in Nat
         /\ IsFiniteSet(DOMAIN taxes)
         /\ \A i \in DOMAIN taxes : Revenues[i] \in Int /\ Revenues[i] = taxes[i].revenue
         /\ \A h \in Hashes : Taxed[h] \in Int /\ Taxed[h] = withdraws[h].taxed
<1>1. DOMAIN taxes = 1..Len(taxes) /\ Len(taxes) \in Nat
  BY DEF TypeOK
<1>2. IsFiniteSet(1..Len(taxes))
  BY <1>1, FS_Interval
<1>3. \A i \in 1..Len(taxes) : taxes[i] \in [rate : Int, revenue : Int]
  BY ElementOfSeq DEF TypeOK
<1>4. QED
  BY <1>1, <1>2, <1>3 DEF TypeOK, Revenues, Taxed

LEMMA SumsType == ASSUME TypeOK PROVE TaxRevenues \in Int /\ TaxesWithdrawn \in Int
BY Terms, SumsAre, SumType, HashesAssumption

LEMMA TaxesKept == ASSUME UNCHANGED taxes PROVE TaxRevenues' = TaxRevenues
BY DEF TaxRevenues

LEMMA WithdrawsKept == ASSUME UNCHANGED withdraws PROVE TaxesWithdrawn' = TaxesWithdrawn
BY DEF TaxesWithdrawn

\* A new tax has collected nothing.
LEMMA TaxAdded ==
  ASSUME TypeOK, TypeOK', NEW rate \in Int, taxes' = Append(taxes, NewTax(rate))
  PROVE  TaxRevenues' = TaxRevenues
<1> DEFINE n == Len(taxes) + 1
<1>1. /\ DOMAIN taxes' = DOMAIN taxes \cup {n} /\ n \notin DOMAIN taxes
      /\ \A i \in DOMAIN taxes : taxes'[i] = taxes[i]
      /\ taxes'[n] = NewTax(rate)
  <2>1. /\ \A i \in 1..Len(taxes) : taxes'[i] = taxes[i]
        /\ taxes'[n] = NewTax(rate)
    BY Appended
  <2>2. DOMAIN taxes' = 1..n
    BY Appended
  <2>3. 1..n = 1..Len(taxes) \cup {n} /\ n \notin 1..Len(taxes)
    BY Terms
  <2>4. QED
    BY <2>1, <2>2, <2>3, Terms
<1>2. /\ \A i \in DOMAIN taxes : Revenues'[i] = Revenues[i]
      /\ Revenues'[n] = 0
  BY <1>1 DEF Revenues, NewTax
<1> HIDE DEF n
<1>3. Sum(Revenues', DOMAIN taxes \cup {n}) = Sum(Revenues, DOMAIN taxes) + Revenues'[n]
  <2> DEFINE D == DOMAIN taxes
  <2>1. /\ IsFiniteSet(D) /\ n \notin D /\ Revenues'[n] \in Int
        /\ \A i \in D : Revenues[i] \in Int /\ Revenues'[i] = Revenues[i]
    BY <1>1, <1>2, Terms
  <2> HIDE DEF D
  <2>2. Sum(Revenues', D \cup {n}) = Sum(Revenues, D) + Revenues'[n]
    BY <2>1, OneTermMore
  <2>3. QED
    BY <2>2 DEF D
<1>4. QED
  BY <1>1, <1>2, <1>3, SumsAre, SumsAreNext, SumsType

\* Writing the revenue of one tax.
LEMMA TaxWritten ==
  ASSUME TypeOK, TypeOK', NEW i \in 1..Len(taxes), NEW x \in Int,
         taxes' = [taxes EXCEPT ![i].revenue = x]
  PROVE  TaxRevenues' = TaxRevenues + (x - taxes[i].revenue)
<1>1. /\ DOMAIN taxes' = DOMAIN taxes /\ i \in DOMAIN taxes
      /\ taxes'[i].revenue = x
      /\ \A j \in DOMAIN taxes \ {i} : taxes'[j] = taxes[j]
  <2>1. taxes[i] \in [rate : Int, revenue : Int]
    BY ElementOfSeq DEF TypeOK
  <2>2. QED
    BY <2>1, Terms
<1>2. /\ \A j \in DOMAIN taxes \ {i} : Revenues'[j] = Revenues[j]
      /\ Revenues'[i] = x /\ Revenues[i] = taxes[i].revenue
  BY <1>1 DEF Revenues
<1>3. \A j \in DOMAIN taxes : Revenues[j] \in Int /\ Revenues'[j] \in Int
  BY <1>1, <1>2, Terms
<1>4. Sum(Revenues', DOMAIN taxes) = Sum(Revenues, DOMAIN taxes) + (Revenues'[i] - Revenues[i])
  <2> DEFINE D == DOMAIN taxes
  <2>1. /\ IsFiniteSet(D) /\ i \in D
        /\ \A j \in D : Revenues[j] \in Int /\ Revenues'[j] \in Int
        /\ \A j \in D \ {i} : Revenues'[j] = Revenues[j]
    BY <1>1, <1>2, <1>3, Terms
  <2> HIDE DEF D
  <2>2. Sum(Revenues', D) = Sum(Revenues, D) + (Revenues'[i] - Revenues[i])
    BY <2>1, OneTermChanges
  <2>3. QED
    BY <2>2 DEF D
<1>5. QED
  BY <1>1, <1>2, <1>4, SumsAre, SumsAreNext

\* Recording one payout.
LEMMA WithdrawWritten ==
  ASSUME TypeOK, TypeOK', NEW h \in Hashes, NEW t \in Int,
         withdraws'[h].taxed = withdraws[h].taxed + t,
         \A k \in Hashes \ {h} : withdraws'[k] = withdraws[k]
  PROVE  TaxesWithdrawn' = TaxesWithdrawn + t
<1>1. /\ \A k \in Hashes \ {h} : Taxed'[k] = Taxed[k]
      /\ Taxed'[h] = Taxed[h] + t
  BY DEF Taxed
<1>2. \A k \in Hashes : Taxed[k] \in Int /\ Taxed'[k] \in Int
  BY <1>1, Terms
<1>3. Sum(Taxed', Hashes) = Sum(Taxed, Hashes) + (Taxed'[h] - Taxed[h])
  BY <1>1, <1>2, HashesAssumption, OneTermChanges
<1>4. QED
  BY <1>1, <1>2, <1>3, SumsAre, SumsAreNext, SumsType

-------------------------------------------------------------------------------
(* What helps the rest: no tax before the first proposal, one in the section *)

\* Before the first tax proposal nothing is taxed: a request that finds no tax
\* to credit has nothing to credit.
UntaxedInv ==
  taxes = <<>> =>
    /\ \A h \in Hashes : deposits[h].taxed = 0
    /\ \A p \in Payments : lrate[p] = 0
    /\ \A r \in Requests : dep[r].taxed = 0

\* Abbreviations of the frame conditions, opened in every step below.
USE DEF db, mutex, listener, handler, spender, process

LEMMA UntaxedStep ==
  ASSUME TypeOK, UntaxedInv, [Next]_vars
  PROVE  UntaxedInv'
<1> SUFFICES ASSUME taxes' = <<>> PROVE UntaxedInv'
  BY DEF UntaxedInv
<1>1. taxes = <<>> \/ \E rate \in TaxRates : AddTax(rate)
  <2>1. ASSUME NEW r \in Requests, WriteTax(r) PROVE taxes = <<>>
    <3>1. DOMAIN taxes' = DOMAIN taxes
      BY <2>1 DEF WriteTax
    <3>2. QED
      BY <3>1 DEF TypeOK
  <2>2. QED
    BY <2>1 DEF Next, vars, Receive, Miss, Apply, Lookup, CreateRow, CreateFails,
       SavePayment, SaveOrphan, ReadRate, Credit, CallFails, ReadDeposit, Refuse,
       Serve, Throw, RefuseAmount, Authorise, Enter, CreateAccounts, SaveWithdraw,
       ZeroDeposit, ReadTax, ReadState, WriteState, Finish, Crash, Start, Lower, Apart
<1>2. taxes = <<>> /\ UntaxedInv
  <2>1. ASSUME NEW rate \in TaxRates, AddTax(rate) PROVE FALSE
    <3>1. /\ Len(Append(taxes, NewTax(rate))) = Len(taxes) + 1
          /\ Len(taxes) \in Nat
      BY ConstantsType, Appended
    <3>2. Append(taxes, NewTax(rate)) = <<>>
      BY <2>1 DEF AddTax
    <3>3. QED
      BY <3>1, <3>2
  <2>2. QED
    BY <1>1, <2>1
<1> USE DEF UntaxedInv
<1>3. ASSUME NEW p \in Payments, Credit(p) PROVE UntaxedInv'
  <2>1. /\ HashOf[p] \in Hashes /\ NewTotal(p) \in Nat
        /\ lrate[p] = 0 /\ UNCHANGED <<lrate, dep>>
    <3>1. HashOf[p] \in Hashes /\ lread[p] \in Nat /\ ValueOf[p] \in Nat
      BY ConstantsType DEF TypeOK
    <3>2. lrate[p] = 0
      BY <1>2
    <3>3. UNCHANGED <<lrate, dep>>
      BY <1>3 DEF Credit
    <3>4. QED
      BY <3>1, <3>2, <3>3 DEF NewTotal
  <2>2. Numbered(NewTotal(p), 0).taxed = 0
    BY <2>1 DEF Numbered, TaxOf
  <2>3. deposits' = [deposits EXCEPT ![HashOf[p]] = Numbered(NewTotal(p), 0)]
    BY <1>3, <2>1 DEF Credit
  <2>4. QED
    BY <1>2, <2>1, <2>2, <2>3 DEF TypeOK
<1>4. ASSUME NEW p \in Payments, CreateRow(p) \/ ReadRate(p) PROVE UntaxedInv'
  <2>1. CASE CreateRow(p)
    <3>1. /\ deposits' = [deposits EXCEPT ![HashOf[p]] = Zero]
          /\ UNCHANGED <<lrate, dep>>
      BY <2>1 DEF CreateRow
    <3>2. \A h \in Hashes : deposits'[h] \in {Zero, deposits[h]}
      BY <3>1 DEF TypeOK
    <3>3. QED
      BY <1>2, <3>1, <3>2 DEF Zero
  <2>2. CASE ReadRate(p)
    <3>1. lrate' = [lrate EXCEPT ![p] = 0] /\ UNCHANGED <<deposits, dep>>
      BY <1>2, <2>2 DEF ReadRate, NewestRate
    <3>2. \A q \in Payments : lrate'[q] \in {0, lrate[q]}
      BY <3>1 DEF TypeOK
    <3>3. QED
      BY <1>2, <3>1, <3>2
  <2>3. QED
    BY <1>4, <2>1, <2>2
<1>5. ASSUME NEW r \in Requests, ReadDeposit(r) \/ ZeroDeposit(r) PROVE UntaxedInv'
  <2>1. ClaimOf[r] \in Hashes
    BY ConstantsType
  <2>2. CASE ReadDeposit(r)
    BY <1>2, <2>1, <2>2 DEF TypeOK, ReadDeposit
  <2>3. CASE ZeroDeposit(r)
    BY <1>2, <2>1, <2>3 DEF TypeOK, ZeroDeposit, Emptied, Zero
  <2>4. QED
    BY <1>5, <2>2, <2>3
<1>6. CASE UNCHANGED <<deposits, lrate, dep>>
  BY <1>2, <1>6
<1>7. QED
  BY <1>1, <1>3, <1>4, <1>5, <1>6 DEF Next, vars, Receive, Miss, Apply, Lookup,
     CreateFails, SavePayment, SaveOrphan, CallFails, Refuse, Serve, Throw,
     RefuseAmount, Authorise, Enter, CreateAccounts, SaveWithdraw, ReadTax,
     WriteTax, ReadState, WriteState, Finish, AddTax, Crash, Start, Lower, Apart

\* A cut short payout stays one.
LEMMA CutStays == ASSUME TypeOK, QueueInv, [Next]_vars, ~CutShort' PROVE ~CutShort
<1>1. ASSUME NEW r \in Requests, NEW s \in Requests, wpc[r] = "thrown",
             ReadDeposit(s) \/ Refuse(s) \/ Serve(s) \/ Throw(s)
      PROVE  wpc'[r] = "thrown" /\ crashes' = crashes
  <2>1. CASE Finish(s) \/ Throw(s)
    <3>1. PICK outcome : Leave(s, outcome)
      BY <2>1 DEF Finish, Throw
    <3>2. wpc[s] # "thrown" /\ crashes' = crashes
      BY <2>1 DEF Finish, Throw, Section
    <3>3. QED
      BY <1>1, <3>1, <3>2, NextInLine DEF Leave, TypeOK
  <2>2. CASE ReadDeposit(s) \/ Refuse(s) \/ RefuseAmount(s) \/ Authorise(s)
             \/ Enter(s) \/ CreateAccounts(s)
    BY <1>1, <2>2 DEF TypeOK, ReadDeposit, Refuse, RefuseAmount, Authorise, Ask, Enter,
       CreateAccounts
  <2>3. CASE SaveWithdraw(s) \/ ZeroDeposit(s) \/ ReadTax(s) \/ WriteTax(s)
             \/ ReadState(s) \/ WriteState(s)
    BY <1>1, <2>3 DEF TypeOK, SaveWithdraw, ZeroDeposit, ReadTax, WriteTax, ReadState,
       WriteState
  <2>4. QED
    BY <1>1, <2>1, <2>2, <2>3 DEF Serve
<1>2. ASSUME NEW s \in Requests, ReadDeposit(s) \/ Refuse(s) \/ Serve(s) \/ Throw(s)
      PROVE  crashes' = crashes
  BY <1>2 DEF ReadDeposit, Refuse, Serve, Throw, RefuseAmount, Authorise, Enter,
     CreateAccounts, SaveWithdraw, ZeroDeposit, ReadTax, WriteTax, ReadState,
     WriteState, Finish
<1>3. CASE Crash
  BY <1>3 DEF Crash, CutShort, TypeOK
<1>4. CASE ~Crash /\ ~\E s \in Requests :
                       ReadDeposit(s) \/ Refuse(s) \/ Serve(s) \/ Throw(s)
  <2>1. UNCHANGED <<wpc, crashes>>
    BY <1>4 DEF Next, vars, Receive, Miss, Apply, Lookup, CreateRow, CreateFails,
       SavePayment, SaveOrphan, ReadRate, Credit, CallFails, AddTax, Start, Lower, Apart
  <2>2. QED
    BY <2>1 DEF CutShort
<1>5. QED
  BY <1>1, <1>2, <1>3, <1>4 DEF CutShort

\* Whoever leaves the section lets nobody into the recording.
LEMMA OnlyOne ==
  ASSUME TypeOK, QueueInv, NEW r \in Requests, wpc[r] \in Section
  PROVE  \A s \in Requests \ {r} : wpc[s] \notin Recording
BY DEF QueueInv, OneInSection, Recording, Section

-------------------------------------------------------------------------------
(* What calls have in hand of the rows they will write                     *)

\* The tax row somebody is about to write holds what was read of it.
TaxHands ==
  \A r \in Requests : wpc[r] = "writetax" =>
    tax[r] \in 1..Len(taxes) /\ wread[r] = taxes[tax[r]].revenue

\* As long as no two calls have overlapped at the State row, whoever is at it has
\* it alone, and it holds what was read of it, and then what was written.
StateHands ==
  ~raced =>
    /\ \A r \in Requests, t \in Transfers :
         ~(wpc[r] \in AtStateRow /\ xpc[t] \in AtStateRow)
    /\ \A t, u \in Transfers : xpc[t] \in AtStateRow /\ xpc[u] \in AtStateRow => t = u
    /\ \A r \in Requests :
         /\ wpc[r] = "writestate" => wread[r] = revenue
         /\ wpc[r] = "announce" => wread[r] + dep[r].taxed = revenue
    /\ \A t \in Transfers :
         /\ xpc[t] = "writestate" => xread[t] = revenue
         /\ xpc[t] = "announce" => Lowered(t) = revenue

HandsInv == TaxHands /\ StateHands

LEMMA TaxHandsFrame ==
  ASSUME TaxHands,
         \A i \in 1..Len(taxes) : i \in 1..Len(taxes') /\ taxes'[i] = taxes[i],
         \A r \in Requests :
           wpc'[r] = "writetax" =>
             wpc[r] = "writetax" /\ tax'[r] = tax[r] /\ wread'[r] = wread[r]
  PROVE  TaxHands'
BY DEF TaxHands

LEMMA StateHandsFrame ==
  ASSUME StateHands, revenue' = revenue, raced' = raced,
         \A r \in Requests :
           wpc'[r] \in AtStateRow =>
             wpc'[r] = wpc[r] /\ wread'[r] = wread[r] /\ dep'[r] = dep[r],
         \A t \in Transfers :
           xpc'[t] \in AtStateRow => xpc'[t] = xpc[t] /\ xread'[t] = xread[t]
  PROVE  StateHands'
BY DEF StateHands, AtStateRow, Lowered

\* A withdraw reads or writes the State row.
LEMMA StateHandsOfRequest ==
  ASSUME TypeOK, QueueInv, StateHands, NEW r \in Requests, ReadState(r) \/ WriteState(r)
  PROVE  StateHands'
<1> SUFFICES ASSUME ~raced' PROVE StateHands'
  BY DEF StateHands
<1>1. \A s \in Requests \ {r} : wpc[s] \notin AtStateRow
  BY OnlyOne DEF ReadState, WriteState, Section, Recording, AtStateRow
<1>2. UNCHANGED <<xpc, xread, dep>>
  BY DEF ReadState, WriteState
<1>3. \A s \in Requests \ {r} : wpc'[s] \notin AtStateRow
  BY <1>1 DEF ReadState, WriteState, TypeOK
<1>4. \A t \in Transfers : xpc'[t] \notin AtStateRow
  <2>1. CASE ReadState(r)
    BY <1>2, <2>1 DEF ReadState, Race
  <2>2. CASE WriteState(r)
    <3>1. ~raced /\ wpc[r] \in AtStateRow
      BY <2>2 DEF WriteState, AtStateRow
    <3>2. QED
      BY <1>2, <3>1 DEF StateHands
  <2>3. QED
    BY <2>1, <2>2
<1>5. /\ wpc'[r] = "writestate" => wread'[r] = revenue'
      /\ wpc'[r] = "announce" => wread'[r] + dep'[r].taxed = revenue'
  BY <1>2 DEF ReadState, WriteState, TypeOK
<1>6. QED
  BY <1>3, <1>4, <1>5 DEF StateHands, AtStateRow

\* A transfer reads or writes it.
LEMMA StateHandsOfTransfer ==
  ASSUME TypeOK, StateHands, NEW t \in Transfers, LowerRead(t) \/ LowerWrite(t),
         UNCHANGED wpc
  PROVE  StateHands'
<1> SUFFICES ASSUME ~raced' PROVE StateHands'
  BY DEF StateHands
<1>1. /\ \A r \in Requests : wpc[r] \notin AtStateRow
      /\ \A u \in Transfers \ {t} : xpc[u] \notin AtStateRow
  <2>1. CASE LowerRead(t)
    BY <2>1 DEF LowerRead, Race
  <2>2. CASE LowerWrite(t)
    <3>1. ~raced /\ xpc[t] \in AtStateRow
      BY <2>2 DEF LowerWrite, AtStateRow
    <3>2. QED
      BY <3>1 DEF StateHands
  <2>3. QED
    BY <2>1, <2>2
<1>2. \A u \in Transfers \ {t} : xpc'[u] \notin AtStateRow
  BY <1>1 DEF LowerRead, LowerWrite, TypeOK
<1>3. /\ xpc'[t] = "writestate" => xread'[t] = revenue'
      /\ xpc'[t] = "announce" => Lowered(t)' = revenue'
  BY DEF LowerRead, LowerWrite, Lowered, TypeOK
<1>4. QED
  BY <1>1, <1>2, <1>3 DEF StateHands, AtStateRow

LEMMA HandsStep ==
  ASSUME TypeOK, QueueInv, HandsInv, [Next]_vars
  PROVE  HandsInv'
<1> USE DEF HandsInv
<1>1. ASSUME UNCHANGED <<taxes, revenue, raced, tax, wread>>,
             \A r \in Requests : wpc'[r] \in AtStateRow \cup {"writetax"} =>
               wpc'[r] = wpc[r] /\ dep'[r] = dep[r],
             \A t \in Transfers : xpc'[t] \in AtStateRow =>
               xpc'[t] = xpc[t] /\ xread'[t] = xread[t]
      PROVE  HandsInv'
  <2>1. TaxHands'
    BY <1>1, TaxHandsFrame
  <2>2. StateHands'
    BY <1>1, StateHandsFrame
  <2>3. QED
    BY <2>1, <2>2
<1>2. CASE \E p \in Payments : \/ Receive(p) \/ Miss(p) \/ Apply(p)
                               \/ CreateFails(p) \/ CallFails(p)
  <2>1. UNCHANGED <<taxes, revenue, raced, tax, wread, wpc, dep, xpc, xread>>
    BY <1>2 DEF Receive, Miss, Apply, Lookup, CreateRow, CreateFails,
       SavePayment, SaveOrphan, ReadRate, Credit, CallFails
  <2>2. QED
    BY <1>1, <2>1
<1>3. ASSUME NEW rate \in TaxRates, AddTax(rate)
      PROVE  HandsInv'
  <2>1. \A i \in 1..Len(taxes) : i \in 1..Len(taxes') /\ taxes'[i] = taxes[i]
    BY <1>3, ConstantsType, Appended DEF AddTax
  <2>2. UNCHANGED <<revenue, raced, tax, wread, wpc, dep, xpc, xread>>
    BY <1>3 DEF AddTax
  <2>3. QED
    BY <2>1, <2>2, TaxHandsFrame, StateHandsFrame
<1>4. ASSUME NEW r \in Requests, ReadTax(r) \/ WriteTax(r)
      PROVE  HandsInv'
  <2>1. PICK a \in {"writetax", "readstate"} : wpc' = [wpc EXCEPT ![r] = a]
    BY <1>4 DEF ReadTax, WriteTax
  <2>2. \A s \in Requests \ {r} : wpc[s] # "writetax"
    BY <1>4, OnlyOne DEF ReadTax, WriteTax, Section, Recording
  <2>3. TaxHands'
    <3>1. CASE ReadTax(r)
      <4>1. Len(taxes) \in 1..Len(taxes)
        BY <3>1 DEF ReadTax, TypeOK
      <4>2. /\ UNCHANGED taxes
            /\ tax'[r] = Len(taxes) /\ wread'[r] = taxes[Len(taxes)].revenue
        BY <3>1 DEF ReadTax, TypeOK
      <4>3. QED
        BY <2>1, <2>2, <4>1, <4>2 DEF TaxHands, TypeOK
    <3>2. CASE WriteTax(r)
      <4>1. wpc' = [wpc EXCEPT ![r] = "readstate"]
        BY <3>2 DEF WriteTax
      <4>2. QED
        BY <2>2, <4>1 DEF TaxHands, TypeOK
    <3>3. QED
      BY <1>4, <3>1, <3>2
  <2>4. StateHands'
    <3>1. /\ UNCHANGED <<revenue, raced, dep, xpc, xread>>
          /\ \A s \in Requests \ {r} : wread'[s] = wread[s]
      BY <1>4 DEF ReadTax, WriteTax, TypeOK
    <3>2. \A s \in Requests : wpc'[s] \in AtStateRow => s # r /\ wpc'[s] = wpc[s]
      BY <2>1 DEF TypeOK, AtStateRow
    <3>3. QED
      BY <3>1, <3>2, StateHandsFrame
  <2>5. QED
    BY <2>3, <2>4
<1>5. ASSUME NEW r \in Requests, ReadState(r) \/ WriteState(r)
      PROVE  HandsInv'
  <2>1. \A s \in Requests \ {r} : wpc[s] # "writetax"
    BY <1>5, OnlyOne DEF ReadState, WriteState, Section, Recording
  <2>2. \A s \in Requests : wpc'[s] # "writetax"
    BY <1>5, <2>1 DEF ReadState, WriteState, TypeOK
  <2>3. QED
    BY <1>5, <2>2, StateHandsOfRequest DEF TaxHands
<1>6. ASSUME NEW r \in Requests,
             \/ ReadDeposit(r) \/ Refuse(r) \/ RefuseAmount(r) \/ Authorise(r)
             \/ Enter(r) \/ CreateAccounts(r) \/ SaveWithdraw(r) \/ ZeroDeposit(r)
      PROVE  HandsInv'
  <2>1. PICK a \in {"checking", "refused", "granted", "waiting", "accounts",
                    "record", "zero", "readtax"} : wpc' = [wpc EXCEPT ![r] = a]
    BY <1>6 DEF ReadDeposit, Refuse, RefuseAmount, Authorise, Ask, Enter,
       CreateAccounts, SaveWithdraw, ZeroDeposit
  <2>2. /\ UNCHANGED <<taxes, revenue, raced, tax, wread, xpc, xread>>
        /\ \A s \in Requests \ {r} : dep'[s] = dep[s]
    BY <1>6 DEF ReadDeposit, Refuse, RefuseAmount, Authorise, Enter,
       CreateAccounts, SaveWithdraw, ZeroDeposit, TypeOK
  <2>3. \A s \in Requests : wpc'[s] \in AtStateRow \cup {"writetax"} =>
          s # r /\ wpc'[s] = wpc[s]
    BY <2>1 DEF TypeOK, AtStateRow
  <2>4. QED
    BY <1>1, <2>2, <2>3
<1>7. ASSUME NEW r \in Requests, Finish(r) \/ Throw(r) PROVE HandsInv'
  <2>1. PICK outcome \in {"done", "thrown"} : Leave(r, outcome)
    BY <1>7 DEF Finish, Throw
  <2>2. \A s \in Requests : wpc'[s] \in AtStateRow \cup {"writetax"} => wpc'[s] = wpc[s]
    BY <2>1, NextInLine DEF Leave, TypeOK, AtStateRow
  <2>3. UNCHANGED <<taxes, revenue, raced, tax, wread, dep, xpc, xread>>
    BY <1>7 DEF Finish, Throw
  <2>4. QED
    BY <1>1, <2>2, <2>3
<1>8. ASSUME NEW t \in Transfers, Lower(t) PROVE HandsInv'
  <2>1. UNCHANGED <<taxes, tax, wread, wpc, dep>>
    BY <1>8 DEF Lower, Apart
  <2>2. TaxHands'
    BY <2>1, TaxHandsFrame
  <2>3. CASE LowerRead(t) \/ LowerWrite(t)
    BY <2>1, <2>2, <2>3, StateHandsOfTransfer
  <2>4. CASE CheckRevenue(t) \/ LowerAnnounce(t) \/ LowerFails(t)
    <3>1. UNCHANGED <<revenue, raced, xread>>
      BY <2>4 DEF CheckRevenue, LowerAnnounce, LowerFails
    <3>2. \A u \in Transfers : xpc'[u] \in AtStateRow => xpc'[u] = xpc[u]
      BY <2>4 DEF CheckRevenue, LowerAnnounce, LowerFails, TypeOK, AtStateRow
    <3>3. QED
      BY <1>1, <2>1, <3>1, <3>2
  <2>5. QED
    BY <1>8, <2>3, <2>4 DEF Lower
<1>9. CASE Crash \/ Start \/ UNCHANGED vars
  <2>1. UNCHANGED <<taxes, revenue, raced, tax, wread, dep, xread>>
    BY <1>9 DEF Crash, Start, vars
  <2>2. \A s \in Requests : wpc'[s] \in AtStateRow \cup {"writetax"} => wpc'[s] = wpc[s]
    BY <1>9 DEF Crash, Start, vars, Claiming, Section, AtStateRow
  <2>3. \A t \in Transfers : xpc'[t] \in AtStateRow => xpc'[t] = xpc[t]
    BY <1>9 DEF Crash, Start, vars, AtStateRow
  <2>4. QED
    BY <1>1, <2>1, <2>2, <2>3
<1>10. QED
  BY <1>2, <1>3, <1>4, <1>5, <1>6, <1>7, <1>8, <1>9 DEF Next, Serve

-------------------------------------------------------------------------------
(* The inductive invariant: what the request that is recording its payout  *)
(* has added to which of the three so far.                                 *)

Collecting(r) ==
  /\ wpc[r] \in {"zero", "readtax", "writetax"} =>
       TaxesWithdrawn = TaxRevenues + dep[r].taxed
  /\ wpc[r] \in {"readstate", "writestate", "announce"} =>
       TaxesWithdrawn = TaxRevenues
  /\ ~raced /\ wpc[r] \in {"zero", "readtax", "writetax", "announce"} =>
       revenue = TaxRevenues - spent
  /\ ~raced /\ wpc[r] \in {"readstate", "writestate"} =>
       revenue + dep[r].taxed = TaxRevenues - spent

\* Nobody is recording.
Agreed == /\ TaxRevenues = TaxesWithdrawn
          /\ ~raced => revenue = TaxRevenues - spent

\* Nobody has written the State row and not told the clients yet.
Told ==
  /\ ~raced
  /\ \A r \in Requests : wpc[r] # "announce"
  /\ \A t \in Transfers : xpc[t] # "announce"
  => shown = revenue

RevenueInv ==
  ~CutShort => /\ (\A r \in Requests : wpc[r] \notin Recording) => Agreed
               /\ \A r \in Requests : Collecting(r)
               /\ Told

\* A step that changes no sum, not the row, and where nobody gets on with what
\* is to be added.
LEMMA RevenueFrame ==
  ASSUME RevenueInv, UNCHANGED <<revenue, shown, spent>>,
         TaxRevenues' = TaxRevenues, TaxesWithdrawn' = TaxesWithdrawn,
         ~raced' => ~raced, ~CutShort' => ~CutShort,
         \A r \in Requests :
           /\ wpc'[r] \in {"zero", "readtax", "writetax"}
                <=> wpc[r] \in {"zero", "readtax", "writetax"}
           /\ wpc'[r] \in {"readstate", "writestate"}
                <=> wpc[r] \in {"readstate", "writestate"}
           /\ wpc'[r] = "announce" <=> wpc[r] = "announce"
           /\ wpc[r] \in Recording => dep'[r] = dep[r],
         \A t \in Transfers : xpc[t] = "announce" => xpc'[t] = "announce"
  PROVE  RevenueInv'
<1> SUFFICES ASSUME ~CutShort'
             PROVE  /\ (\A r \in Requests : wpc'[r] \notin Recording) => Agreed'
                    /\ \A r \in Requests : Collecting(r)'
                    /\ Told'
  BY DEF RevenueInv
<1>1. /\ (\A r \in Requests : wpc[r] \notin Recording) => Agreed
      /\ \A r \in Requests : Collecting(r)
      /\ Told
  BY DEF RevenueInv
<1>2. \A r \in Requests : wpc'[r] \in Recording <=> wpc[r] \in Recording
  BY DEF Recording, Section
<1>3. (\A r \in Requests : wpc'[r] \notin Recording) => Agreed'
  BY <1>1, <1>2 DEF Agreed
<1>4. ASSUME NEW r \in Requests PROVE Collecting(r)'
  <2>1. Collecting(r)
    BY <1>1
  <2>2. CASE wpc[r] \in Recording
    BY <2>1, <2>2 DEF Collecting
  <2>3. CASE wpc[r] \notin Recording
    BY <1>2, <2>3 DEF Collecting, Recording, Section
  <2>4. QED
    BY <2>2, <2>3
<1>5. Told'
  BY <1>1 DEF Told
<1>6. QED
  BY <1>3, <1>4, <1>5

\* After a step of r, which alone was in the section.
LEMMA RevenueOf ==
  ASSUME NEW r \in Requests, \A s \in Requests \ {r} : wpc'[s] \notin Recording,
         Collecting(r)', Told', wpc'[r] \notin Recording => Agreed'
  PROVE  RevenueInv'
<1>1. \A s \in Requests \ {r} : Collecting(s)'
  BY DEF Collecting, Recording, Section
<1>2. QED
  BY <1>1 DEF RevenueInv

\* The sums are numbers.
LEMMA RevenueTypes ==
  ASSUME TypeOK, NEW r \in Requests
  PROVE  /\ TaxRevenues \in Int /\ TaxesWithdrawn \in Int
         /\ revenue \in Int /\ shown \in Int /\ spent \in Int
         /\ dep[r].taxed \in Int /\ wread[r] \in Int
<1>1. dep[r] \in Numbers
  BY DEF TypeOK
<1>2. dep[r].taxed \in Int
  BY <1>1 DEF Numbers
<1>3. revenue \in Int /\ shown \in Int /\ spent \in Int /\ wread[r] \in Int
  BY DEF TypeOK
<1>4. QED
  BY <1>2, <1>3, SumsType

\* A request that is recording its payout changes a sum, or the row, or leaves.
LEMMA RecordingStep ==
  ASSUME TypeOK, TypeOK', QueueInv, UntaxedInv, HandsInv, RevenueInv, ~CutShort,
         NEW r \in Requests, wpc[r] \in Section,
         SaveWithdraw(r) \/ WriteTax(r) \/ WriteState(r) \/ Finish(r)
  PROVE  RevenueInv'
<1>1. /\ (\A s \in Requests : wpc[s] \notin Recording) => Agreed
      /\ Collecting(r) /\ Told
  BY DEF RevenueInv
<1>2. \A s \in Requests \ {r} : wpc[s] \notin Recording /\ wpc[s] # "announce"
  BY OnlyOne DEF Recording, Section
<1>3. /\ TaxRevenues \in Int /\ TaxesWithdrawn \in Int
      /\ revenue \in Int /\ shown \in Int /\ spent \in Int
      /\ dep[r].taxed \in Int /\ wread[r] \in Int
  BY RevenueTypes
<1>4. ASSUME NEW a, wpc' = [wpc EXCEPT ![r] = a]
      PROVE  wpc'[r] = a /\ \A s \in Requests \ {r} : wpc'[s] \notin Recording
  BY <1>2, <1>4 DEF TypeOK
<1>5. UNCHANGED <<dep, wread, xpc, spent, raced>>
  BY DEF SaveWithdraw, WriteTax, WriteState, Finish
<1>6. ASSUME UNCHANGED <<revenue, shown>>, wpc[r] # "announce" PROVE Told'
  <2>1. \A s \in Requests : wpc[s] # "announce"
    BY <1>2, <1>6
  <2>2. QED
    BY <1>1, <1>5, <1>6, <2>1 DEF Told
<1>7. CASE SaveWithdraw(r)
  <2>1. /\ wpc[r] = "record" /\ wpc' = [wpc EXCEPT ![r] = "zero"]
        /\ UNCHANGED <<taxes, revenue, shown>>
    BY <1>7 DEF SaveWithdraw
  <2>2. Agreed
    BY <1>1, <1>2, <2>1 DEF Recording
  <2>3. TaxesWithdrawn' = TaxesWithdrawn + dep[r].taxed
    <3>1. /\ ClaimOf[r] \in Hashes
          /\ withdraws'[ClaimOf[r]].taxed = withdraws[ClaimOf[r]].taxed + dep[r].taxed
          /\ \A h \in Hashes \ {ClaimOf[r]} : withdraws'[h] = withdraws[h]
      BY <1>7, ConstantsType DEF SaveWithdraw, TypeOK
    <3>2. QED
      BY <1>3, <3>1, WithdrawWritten
  <2>4. TaxRevenues' = TaxRevenues /\ wpc'[r] = "zero"
    BY <1>4, <2>1, TaxesKept
  <2>5. Collecting(r)'
    BY <1>3, <1>5, <2>1, <2>2, <2>3, <2>4 DEF Collecting, Agreed
  <2>6. Told'
    BY <1>6, <2>1
  <2>7. QED
    BY <1>4, <2>1, <2>4, <2>5, <2>6, RevenueOf DEF Recording, Section
<1>8. CASE WriteTax(r)
  <2>1. /\ wpc[r] = "writetax" /\ wpc' = [wpc EXCEPT ![r] = "readstate"]
        /\ taxes' = [taxes EXCEPT ![tax[r]].revenue = wread[r] + dep[r].taxed]
        /\ UNCHANGED <<withdraws, revenue, shown>>
    BY <1>8 DEF WriteTax
  <2>2. tax[r] \in 1..Len(taxes) /\ wread[r] = taxes[tax[r]].revenue
    BY <2>1 DEF HandsInv, TaxHands
  <2>3. TaxRevenues' = TaxRevenues + dep[r].taxed
    <3>1. wread[r] + dep[r].taxed \in Int
      BY <1>3
    <3>2. TaxRevenues' = TaxRevenues + ((wread[r] + dep[r].taxed) - taxes[tax[r]].revenue)
      BY <2>1, <2>2, <3>1, TaxWritten
    <3>3. QED
      BY <1>3, <2>2, <3>2
  <2>4. TaxesWithdrawn' = TaxesWithdrawn /\ wpc'[r] = "readstate"
    BY <1>4, <2>1, WithdrawsKept
  <2>5. Collecting(r)'
    BY <1>1, <1>3, <1>5, <2>1, <2>3, <2>4 DEF Collecting
  <2>6. Told'
    BY <1>6, <2>1
  <2>7. QED
    BY <1>4, <2>1, <2>4, <2>5, <2>6, RevenueOf DEF Recording, Section
<1>9. CASE WriteState(r)
  <2>1. /\ wpc[r] = "writestate" /\ wpc' = [wpc EXCEPT ![r] = "announce"]
        /\ revenue' = wread[r] + dep[r].taxed
        /\ UNCHANGED <<taxes, withdraws>>
    BY <1>9 DEF WriteState
  <2>2. ~raced => wread[r] = revenue
    BY <2>1 DEF HandsInv, StateHands
  <2>3. /\ TaxRevenues' = TaxRevenues /\ TaxesWithdrawn' = TaxesWithdrawn
        /\ wpc'[r] = "announce"
    BY <1>4, <2>1, TaxesKept, WithdrawsKept
  <2>4. Collecting(r)'
    BY <1>1, <1>3, <1>5, <2>1, <2>2, <2>3 DEF Collecting
  <2>5. Told'
    BY <2>3 DEF Told
  <2>6. QED
    BY <1>4, <2>1, <2>3, <2>4, <2>5, RevenueOf DEF Recording, Section
<1>10. CASE Finish(r)
  <2>1. Leave(r, "done") /\ UNCHANGED <<taxes, withdraws, revenue>>
    BY <1>10 DEF Finish
  <2>2. \A s \in Requests : wpc'[s] \notin Recording
    <3>1. \A s \in Requests : wpc'[s] \in {"done", "granted"} \/ (s # r /\ wpc'[s] = wpc[s])
      BY <2>1, NextInLine DEF Leave, TypeOK
    <3>2. QED
      BY <1>2, <3>1 DEF Recording, Section
  <2>3. TaxRevenues' = TaxRevenues /\ TaxesWithdrawn' = TaxesWithdrawn
    BY <2>1, TaxesKept, WithdrawsKept
  <2>4. Collecting(r)'
    BY <2>2 DEF Collecting, Recording, Section
  <2>5. CASE wpc[r] = "readtax" /\ taxes = <<>> /\ UNCHANGED shown
    <3>1. dep[r].taxed = 0
      BY <2>5 DEF UntaxedInv
    <3>2. Agreed'
      BY <1>1, <1>3, <1>5, <2>1, <2>3, <2>5, <3>1 DEF Collecting, Agreed
    <3>3. Told'
      BY <1>6, <2>1, <2>5
    <3>4. QED
      BY <2>2, <2>4, <3>2, <3>3, RevenueOf
  <2>6. CASE wpc[r] = "announce" /\ shown' = wread[r] + dep[r].taxed
    <3>1. Agreed'
      BY <1>1, <1>5, <2>1, <2>3, <2>6 DEF Collecting, Agreed
    <3>2. ~raced => shown' = revenue
      BY <2>6 DEF HandsInv, StateHands
    <3>3. Told'
      BY <1>5, <2>1, <3>2 DEF Told
    <3>4. QED
      BY <2>2, <2>4, <3>1, <3>3, RevenueOf
  <2>7. QED
    BY <1>10, <2>5, <2>6 DEF Finish
<1>11. QED
  BY <1>7, <1>8, <1>9, <1>10

\* A transfer takes its price from the row.
LEMMA LowerWriteStep ==
  ASSUME TypeOK, HandsInv, RevenueInv, ~CutShort,
         NEW t \in Transfers, LowerWrite(t),
         UNCHANGED <<taxes, withdraws, wpc, dep>>
  PROVE  RevenueInv'
<1>1. /\ (\A r \in Requests : wpc[r] \notin Recording) => Agreed
      /\ \A r \in Requests : Collecting(r)
  BY DEF RevenueInv
<1>2. /\ xpc'[t] = "announce" /\ raced' = raced
      /\ spent' = spent + PriceOf[t]
      /\ ~raced => revenue' = revenue - PriceOf[t]
  BY DEF LowerWrite, Lowered, HandsInv, StateHands, TypeOK
<1>3. TaxRevenues' = TaxRevenues /\ TaxesWithdrawn' = TaxesWithdrawn
  BY TaxesKept, WithdrawsKept
<1>4. PriceOf[t] \in Int /\ TaxRevenues \in Int /\ revenue \in Int /\ spent \in Int
  BY SumsType, ConstantsType DEF TypeOK
<1>5. (\A r \in Requests : wpc'[r] \notin Recording) => Agreed'
  BY <1>1, <1>2, <1>3, <1>4 DEF Agreed
<1>6. ASSUME NEW r \in Requests PROVE Collecting(r)'
  <2>1. Collecting(r)
    BY <1>1
  <2>2. dep[r].taxed \in Int
    BY RevenueTypes
  <2>3. QED
    BY <1>2, <1>3, <1>4, <2>1, <2>2 DEF Collecting
<1>7. Told'
  BY <1>2 DEF Told
<1>8. QED
  BY <1>5, <1>6, <1>7 DEF RevenueInv

LEMMA RevenueStep ==
  ASSUME TypeOK, TypeOK', QueueInv, UntaxedInv, HandsInv, RevenueInv, [Next]_vars
  PROVE  RevenueInv'
<1> SUFFICES ASSUME ~CutShort' PROVE RevenueInv'
  BY DEF RevenueInv
<1>1. ~CutShort /\ ~Crash
  <2>1. ASSUME Crash PROVE FALSE
    <3>1. crashes' > 0
      BY <2>1 DEF Crash, TypeOK
    <3>2. QED
      BY <3>1 DEF CutShort
  <2>2. QED
    BY <2>1, CutStays
<1>2. ASSUME UNCHANGED <<taxes, revenue, shown, withdraws, wpc, dep, xpc, spent, raced>>
      PROVE  RevenueInv'
  BY <1>1, <1>2, TaxesKept, WithdrawsKept, RevenueFrame
<1>3. CASE \E p \in Payments : \/ Receive(p) \/ Miss(p) \/ Apply(p)
                               \/ CreateFails(p) \/ CallFails(p)
  BY <1>2, <1>3 DEF Receive, Miss, Apply, Lookup, CreateRow, CreateFails,
     SavePayment, SaveOrphan, ReadRate, Credit, CallFails
<1>4. ASSUME NEW rate \in TaxRates, AddTax(rate)
      PROVE  RevenueInv'
  <2>1. /\ taxes' = Append(taxes, NewTax(rate))
        /\ UNCHANGED <<withdraws, revenue, shown, wpc, dep, xpc, spent, raced>>
    BY <1>4 DEF AddTax
  <2>2. TaxRevenues' = TaxRevenues /\ TaxesWithdrawn' = TaxesWithdrawn
    BY <2>1, ConstantsType, TaxAdded, WithdrawsKept
  <2>3. QED
    BY <1>1, <2>1, <2>2, RevenueFrame
<1>5. ASSUME NEW r \in Requests,
             SaveWithdraw(r) \/ WriteTax(r) \/ WriteState(r) \/ Finish(r)
      PROVE  RevenueInv'
  <2>1. wpc[r] \in Section
    BY <1>5 DEF SaveWithdraw, WriteTax, WriteState, Finish, Section
  <2>2. QED
    BY <1>1, <1>5, <2>1, RecordingStep
<1>6. ASSUME NEW r \in Requests,
             \/ ReadDeposit(r) \/ Refuse(r) \/ RefuseAmount(r) \/ Authorise(r)
             \/ Enter(r) \/ CreateAccounts(r)
             \/ ZeroDeposit(r) \/ ReadTax(r) \/ ReadState(r)
      PROVE  RevenueInv'
  <2>1. /\ UNCHANGED <<taxes, revenue, shown, withdraws, xpc, spent>>
        /\ \A s \in Requests \ {r} : dep'[s] = dep[s]
        /\ ~raced' => ~raced
    BY <1>6 DEF ReadDeposit, Refuse, RefuseAmount, Authorise, Enter,
       CreateAccounts, ZeroDeposit, ReadTax, ReadState, Race, TypeOK
  <2>2. PICK a : /\ wpc' = [wpc EXCEPT ![r] = a]
                 /\ \/ /\ a \in {"checking", "refused", "granted", "waiting",
                                 "accounts", "record"}
                       /\ wpc[r] \notin Recording
                    \/ /\ wpc[r] \in {"zero", "readtax"} /\ a \in {"readtax", "writetax"}
                       /\ dep'[r] = dep[r]
                    \/ /\ wpc[r] = "readstate" /\ a = "writestate"
                       /\ dep'[r] = dep[r]
    <3>1. CASE ZeroDeposit(r) \/ ReadTax(r) \/ ReadState(r)
      BY <3>1 DEF ZeroDeposit, ReadTax, ReadState
    <3>2. CASE \/ ReadDeposit(r) \/ Refuse(r) \/ RefuseAmount(r) \/ Authorise(r)
               \/ Enter(r) \/ CreateAccounts(r)
      <4>1. wpc[r] \notin Recording
        BY <3>2 DEF ReadDeposit, Refuse, RefuseAmount, Authorise, Enter,
           CreateAccounts, Recording, Section
      <4>2. QED
        BY <3>2, <4>1 DEF ReadDeposit, Refuse, RefuseAmount, Authorise, Ask, Enter,
           CreateAccounts
    <3>3. QED
      BY <1>6, <3>1, <3>2
  <2>3. \A s \in Requests : wpc'[s] = IF s = r THEN a ELSE wpc[s]
    BY <2>2 DEF TypeOK
  <2>4. \A s \in Requests :
          /\ wpc'[s] \in {"zero", "readtax", "writetax"}
               <=> wpc[s] \in {"zero", "readtax", "writetax"}
          /\ wpc'[s] \in {"readstate", "writestate"}
               <=> wpc[s] \in {"readstate", "writestate"}
          /\ wpc'[s] = "announce" <=> wpc[s] = "announce"
    BY <2>2, <2>3 DEF Recording, Section
  <2>5. \A s \in Requests : wpc[s] \in Recording => dep'[s] = dep[s]
    BY <2>1, <2>2
  <2>6. QED
    BY <1>1, <2>1, <2>4, <2>5, TaxesKept, WithdrawsKept, RevenueFrame
<1>7. ASSUME NEW r \in Requests, Throw(r) PROVE FALSE
  <2>1. wpc[r] \in Section /\ Leave(r, "thrown")
    BY <1>7 DEF Throw
  <2>2. wpc'[r] = "thrown"
    BY <2>1, NextInLine DEF Leave, TypeOK, Section
  <2>3. QED
    BY <2>2 DEF CutShort
<1>8. ASSUME NEW t \in Transfers, Lower(t) PROVE RevenueInv'
  <2>1. UNCHANGED <<taxes, withdraws, wpc, dep>>
    BY <1>8 DEF Lower, Apart
  <2>2. TaxRevenues' = TaxRevenues /\ TaxesWithdrawn' = TaxesWithdrawn
    BY <2>1, TaxesKept, WithdrawsKept
  <2>3. CASE LowerWrite(t)
    BY <1>1, <2>1, <2>3, LowerWriteStep
  <2>4. CASE LowerAnnounce(t)
    <3>1. UNCHANGED <<revenue, spent, raced>> /\ (~raced => shown' = revenue)
      BY <2>4 DEF LowerAnnounce, HandsInv, StateHands
    <3>2. /\ (\A r \in Requests : wpc[r] \notin Recording) => Agreed
          /\ \A r \in Requests : Collecting(r)
      BY <1>1 DEF RevenueInv
    <3>3. (\A r \in Requests : wpc'[r] \notin Recording) => Agreed'
      BY <2>1, <2>2, <3>1, <3>2 DEF Agreed
    <3>4. \A r \in Requests : Collecting(r)'
      BY <2>1, <2>2, <3>1, <3>2 DEF Collecting
    <3>5. Told'
      BY <3>1 DEF Told
    <3>6. QED
      BY <3>3, <3>4, <3>5 DEF RevenueInv
  <2>5. CASE CheckRevenue(t) \/ LowerRead(t) \/ LowerFails(t)
    <3>1. UNCHANGED <<revenue, shown, spent>> /\ (~raced' => ~raced)
      <4>1. UNCHANGED <<revenue, shown, spent>> /\ (Race \/ UNCHANGED raced)
        BY <2>5 DEF CheckRevenue, LowerRead, LowerFails
      <4>2. ~raced' => ~raced
        BY <4>1, Zenon DEF Race
      <4>3. QED
        BY <4>1, <4>2
    <3>2. \A u \in Transfers : xpc[u] = "announce" => xpc'[u] = "announce"
      BY <2>5 DEF CheckRevenue, LowerRead, LowerFails, TypeOK
    <3>3. QED
      BY <1>1, <2>1, <2>2, <3>1, <3>2, RevenueFrame
  <2>6. QED
    BY <1>8, <2>3, <2>4, <2>5 DEF Lower
<1>9. CASE Start \/ UNCHANGED vars
  BY <1>2, <1>9 DEF Start, vars
<1>10. QED
  BY <1>1, <1>3, <1>4, <1>5, <1>6, <1>7, <1>8, <1>9 DEF Next, Serve

LEMMA RevenueInit == Init => UntaxedInv /\ HandsInv /\ RevenueInv
<1> SUFFICES ASSUME Init PROVE UntaxedInv /\ HandsInv /\ RevenueInv
  OBVIOUS
<1>1. UntaxedInv
  BY DEF Init, UntaxedInv, Zero
<1>2. HandsInv
  BY DEF Init, HandsInv, TaxHands, StateHands, AtStateRow
<1>3. TaxRevenues = 0
  <2>1. taxes = <<>> /\ DOMAIN taxes = {}
    BY DEF Init
  <2>2. Sum(Revenues, {}) = 0
    BY FS_EmptySet, SumZero
  <2>3. QED
    BY <2>1, <2>2, SumsAre
<1>4. TaxesWithdrawn = 0
  <2>1. \A h \in Hashes : Taxed[h] = 0
    BY DEF Init, Taxed
  <2>2. QED
    BY <2>1, HashesAssumption, SumZero, SumsAre
<1>5. /\ revenue = 0 /\ shown = 0 /\ spent = 0
      /\ \A r \in Requests : wpc[r] = "idle"
  BY DEF Init
<1>6. QED
  BY <1>1, <1>2, <1>3, <1>4, <1>5 DEF RevenueInv, Agreed, Told, Collecting

\* As long as no error and no crash has cut a payout short, the tax rows and the
\* withdraw rows are the same sum whenever nobody is in between, however many
\* deposits, requests, transfers and tax proposals there are: the mutex is what
\* makes the read and write pairs safe.  Until a transfer, which the mutex does
\* not hold up, overlaps with another call at the State row, that row is the same
\* sum less what transfers have spent, and the clients know it.
THEOREM RevenuesAgree == Spec => []RevenueAgrees
<1>1. Init => QueueInv
  BY QueueInit
<1>2. TypeOK /\ QueueInv /\ [Next]_vars => QueueInv'
  BY QueueStep
<1>3. TypeOK /\ UntaxedInv /\ [Next]_vars => UntaxedInv'
  BY UntaxedStep
<1>4. TypeOK /\ QueueInv /\ HandsInv /\ [Next]_vars => HandsInv'
  BY HandsStep
<1>5. TypeOK /\ TypeOK' /\ QueueInv /\ UntaxedInv /\ HandsInv /\ RevenueInv /\ [Next]_vars
        => RevenueInv'
  BY RevenueStep
<1>6. RevenueInv => RevenueAgrees
  BY DEF RevenueInv, RevenueAgrees, Agreed, Told, Recording, Section
<1>7. QED
  BY <1>1, <1>2, <1>3, <1>4, <1>5, <1>6, RevenueInit, TypeCorrect, PTL DEF Spec

-------------------------------------------------------------------------------
(* No tax is lost, cut short payouts included                              *)

\* Nobody but WriteTax, WriteState and LowerWrite changes a row, and they change
\* it by what the payout was taxed, or by the price of the transfer.
LEMMA TaxesAddedStep ==
  ASSUME TypeOK, QueueInv, HandsInv, [Next]_vars
  PROVE  TaxesAdded
<1> USE DEF TaxesAdded
<1>1. ASSUME NEW r \in Requests, WriteState(r)
      PROVE  /\ wpc[r] = "writestate" /\ wpc'[r] = "announce"
             /\ ~raced => revenue' = revenue + dep[r].taxed
             /\ taxes' = taxes
  BY <1>1 DEF WriteState, HandsInv, StateHands, TypeOK
<1>2. ASSUME NEW t \in Transfers, LowerWrite(t)
      PROVE  /\ xpc[t] = "writestate" /\ xpc'[t] = "announce"
             /\ ~raced => revenue' = revenue - PriceOf[t]
  BY <1>2 DEF LowerWrite, Lowered, HandsInv, StateHands, TypeOK
<1>3. ASSUME NEW r \in Requests, WriteTax(r), NEW i \in 1..Len(taxes), taxes'[i] # taxes[i]
      PROVE  /\ wpc[r] = "writetax" /\ wpc'[r] = "readstate"
             /\ taxes' = [taxes EXCEPT ![i].revenue = @ + dep[r].taxed]
  <2>1. /\ tax[r] \in 1..Len(taxes) /\ wread[r] = taxes[tax[r]].revenue
        /\ taxes' = [taxes EXCEPT ![tax[r]].revenue = wread[r] + dep[r].taxed]
        /\ wpc[r] = "writetax" /\ wpc'[r] = "readstate"
    BY <1>3 DEF WriteTax, HandsInv, TaxHands, TypeOK
  <2>2. i = tax[r]
    <3>1. DOMAIN taxes = 1..Len(taxes)
      BY DEF TypeOK
    <3>2. QED
      BY <1>3, <2>1, <3>1
  <2>3. QED
    BY <2>1, <2>2
<1>4. ASSUME NEW r \in Requests, WriteTax(r) PROVE revenue' = revenue
  BY <1>4 DEF WriteTax
<1>5. ASSUME NEW rate \in TaxRates, AddTax(rate)
      PROVE  revenue' = revenue /\ \A i \in 1..Len(taxes) : taxes'[i] = taxes[i]
  BY <1>5, ConstantsType, Appended DEF AddTax
<1>6. ASSUME NEW t \in Transfers, Lower(t)
      PROVE  taxes' = taxes /\ (LowerWrite(t) \/ revenue' = revenue)
  BY <1>6 DEF Lower, Apart, CheckRevenue, LowerRead, LowerAnnounce, LowerFails
<1>7. CASE UNCHANGED <<taxes, revenue>>
  BY <1>7
<1>8. CASE \E t \in Transfers : Lower(t)
  BY <1>2, <1>6, <1>8
<1>9. CASE \E r \in Requests : WriteState(r) \/ WriteTax(r)
  BY <1>1, <1>3, <1>4, <1>9
<1>10. CASE \E rate \in TaxRates : AddTax(rate)
  BY <1>5, <1>10
<1>11. QED
  BY <1>7, <1>8, <1>9, <1>10 DEF Next, vars, Receive, Miss, Apply, Lookup,
     CreateRow, CreateFails, SavePayment, SaveOrphan, ReadRate, Credit, CallFails,
     ReadDeposit, Refuse, Serve, Throw, RefuseAmount, Authorise, Enter,
     CreateAccounts, SaveWithdraw, ZeroDeposit, ReadTax, ReadState, Finish, Crash, Start

\* The tables agree until a payout is cut short, and beyond that no withdraw
\* undoes what another has written: the revenue of a tax row read before an await
\* is still in it when the row is written, after any failures and restarts, and
\* so is that of the State row until a transfer overlaps with another call there.
THEOREM NoRevenueIsLost == Spec => RevenueKept
<1>1. Init => QueueInv /\ HandsInv
  BY QueueInit, RevenueInit
<1>2. TypeOK /\ QueueInv /\ [Next]_vars => QueueInv'
  BY QueueStep
<1>3. TypeOK /\ QueueInv /\ HandsInv /\ [Next]_vars => HandsInv'
  BY HandsStep
<1>4. TypeOK /\ QueueInv /\ HandsInv /\ [Next]_vars => [TaxesAdded]_<<taxes, revenue>>
  BY TaxesAddedStep
<1>5. Spec => [][TaxesAdded]_<<taxes, revenue>>
  BY <1>1, <1>2, <1>3, <1>4, TypeCorrect, PTL DEF Spec
<1>6. QED
  BY <1>5, RevenuesAgree, PTL DEF RevenueKept
===============================================================================
