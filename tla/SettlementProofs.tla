--------------------------- MODULE SettlementProofs ---------------------------
(***************************************************************************)
(* What Settlement guarantees for any number of deposits, payments and     *)
(* requests, any tax rates, any failures and any number of crashes.        *)
(***************************************************************************)
EXTENDS Settlement, SequenceTheorems, TLAPS

(***************************************************************************)
(* The inductive invariant, part by part.                                  *)
(***************************************************************************)

\* A call that has read a deposit, and the row it will write.
RowsInv ==
  /\ \A h \in Hashes \ rows : deposits[h] = Zero
  /\ \A p \in Payments :
       /\ lpc[p] = "create" => HashOf[p] \in seen \ rows
       /\ lpc[p] \in {"save", "tax", "credit"} => HashOf[p] \in rows
  /\ \A p, q \in Payments :
       lpc[p] = "create" /\ lpc[q] = "create" /\ HashOf[p] = HashOf[q] => p = q

\* The total a call has read was covered by payments when it read it, and the
\* total it will write is covered once its own payment is recorded.
CoverInv ==
  /\ NothingInvented
  /\ \A p \in Payments :
       /\ lpc[p] = "save" => lread[p] <= payments[HashOf[p]]
       /\ lpc[p] \in {"tax", "credit"} =>
            lread[p] + ValueOf[p] <= payments[HashOf[p]]

\* The queue of the mutex holds requests that wait, each of them once.
QueueInv ==
  /\ OneInSection
  /\ \A i \in 1..Len(queue) : wpc[queue[i]] = "waiting"
  /\ \A i, j \in 1..Len(queue) : queue[i] = queue[j] => i = j


\* A deposit nobody has disturbed has one call at it at most, and that call
\* holds the deposit's present numbers.
AtWork(p, h) == HashOf[p] = h /\ lpc[p] \in Applying
Claims(r, h) == ClaimOf[r] = h /\ wpc[r] \in Claiming

Alone(h) ==
  /\ \A p, q \in Payments : AtWork(p, h) /\ AtWork(q, h) => p = q
  /\ \A r, s \in Requests : Claims(r, h) /\ Claims(s, h) => r = s
  /\ \A p \in Payments, r \in Requests : ~(AtWork(p, h) /\ Claims(r, h))

PaymentBalance(p, h) ==
  /\ lpc[p] # "create" => lread[p] = deposits[h].total
  /\ payments[h] = deposits[h].total + withdraws[h].total
                     + IF lpc[p] \in {"tax", "credit"} THEN ValueOf[p] ELSE 0

ClaimBalance(r, h) ==
  /\ dep[r] = deposits[h]
  /\ payments[h] = withdraws[h].total
                     + IF wpc[r] = "zero" THEN 0 ELSE deposits[h].total

Account(h) ==
  /\ Alone(h)
  /\ \A p \in Payments : AtWork(p, h) => PaymentBalance(p, h)
  /\ \A r \in Requests : Claims(r, h) => ClaimBalance(r, h)
  /\ Quiet(h) => payments[h] = deposits[h].total + withdraws[h].total

AccountInv == \A h \in Hashes \ disturbed : Account(h)

-------------------------------------------------------------------------------
(* Every variable keeps its type; the constants are what they are assumed  *)
(* to be.                                                                  *)

LEMMA TaxIsInt ==
  ASSUME NEW total \in Int, NEW rate \in Int
  PROVE  TaxOf(total, rate) \in Int
BY DEF TaxOf

LEMMA NumberedType ==
  ASSUME NEW total \in Nat, NEW rate \in Int
  PROVE  Numbered(total, rate) \in Numbers /\ Numbered(total, rate).total = total
BY TaxIsInt DEF Numbered, Numbers

LEMMA NewestRateType ==
  ASSUME taxes \in Seq([rate : Int, revenue : Int])
  PROVE  NewestRate \in Int
<1>1. CASE taxes = <<>>
  BY <1>1 DEF NewestRate
<1>2. CASE taxes # <<>>
  <2>1. Len(taxes) \in 1..Len(taxes)
    BY <1>2
  <2>2. taxes[Len(taxes)] \in [rate : Int, revenue : Int]
    BY <2>1, ElementOfSeq
  <2> QED BY <1>2, <2>2 DEF NewestRate
<1> QED BY <1>1, <1>2

LEMMA NewestRevenueType ==
  ASSUME taxes \in Seq([rate : Int, revenue : Int]), taxes # <<>>
  PROVE  taxes[Len(taxes)].revenue \in Int /\ Len(taxes) \in Nat
<1>1. Len(taxes) \in 1..Len(taxes)
  OBVIOUS
<1>2. taxes[Len(taxes)] \in [rate : Int, revenue : Int]
  BY <1>1, ElementOfSeq
<1> QED BY <1>1, <1>2

LEMMA RevenueWritten ==
  ASSUME taxes \in Seq([rate : Int, revenue : Int]), NEW i \in Nat, NEW x \in Int
  PROVE  [taxes EXCEPT ![i].revenue = x] \in Seq([rate : Int, revenue : Int])
<1>1. CASE i \in 1..Len(taxes)
  <2>1. taxes[i] \in [rate : Int, revenue : Int]
    BY <1>1, ElementOfSeq
  <2>2. [taxes[i] EXCEPT !.revenue = x] \in [rate : Int, revenue : Int]
    BY <2>1
  <2> QED BY <1>1, <2>2, ExceptSeq
<1>2. CASE i \notin 1..Len(taxes)
  <2>1. i \notin DOMAIN taxes
    BY <1>2
  <2>2. [taxes EXCEPT ![i].revenue = x] = taxes
    BY <2>1
  <2> QED BY <2>2
<1> QED BY <1>1, <1>2

\* Abbreviations of the frame conditions, opened in every step below.
USE DEF db, mutex, listener, handler, spender, process

\* What is assumed of the constants, as typing facts.
LEMMA ConstantsType ==
  /\ HashOf \in [Payments -> Hashes]
  /\ ValueOf \in [Payments -> Nat]
  /\ ClaimOf \in [Requests -> Hashes]
  /\ TaxRates \subseteq Int
  /\ PriceOf \in [Transfers -> Nat]
BY ConstantsAssumption DEF ConstantsAssumption

\* The tax rows after a proposal.
LEMMA Appended ==
  ASSUME TypeOK, NEW rate \in Int
  PROVE  LET longer == Append(taxes, NewTax(rate))
         IN  /\ longer \in Seq([rate : Int, revenue : Int])
             /\ Len(longer) = Len(taxes) + 1 /\ Len(taxes) \in Nat
             /\ \A i \in 1..Len(taxes) : longer[i] = taxes[i]
             /\ longer[Len(taxes) + 1] = NewTax(rate)
<1>1. NewTax(rate) \in [rate : Int, revenue : Int]
  BY DEF NewTax
<1>2. QED
  BY <1>1, AppendProperties DEF TypeOK

LEMMA ZeroType == Zero \in Numbers
BY DEF Zero, Numbers

LEMMA InitType == Init => TypeOK
<1> SUFFICES ASSUME Init PROVE TypeOK
  OBVIOUS
<1>1. taxes \in Seq([rate : Int, revenue : Int]) /\ queue \in Seq(Requests)
  BY DEF Init
<1>2. deposits \in [Hashes -> Numbers] /\ dep \in [Requests -> Numbers]
  BY ZeroType DEF Init
<1>3. withdraws \in [Hashes -> [total : Nat, taxed : Int]]
  BY DEF Init
<1>4. /\ rows \subseteq Hashes /\ seen \subseteq Hashes /\ disturbed \subseteq Hashes
      /\ up \in BOOLEAN /\ locked \in BOOLEAN /\ releaser \in BOOLEAN
  BY Zenon DEF Init
<1>5. /\ payments \in [Hashes -> Nat]
      /\ revenue \in Int /\ shown \in Int /\ crashes \in Nat
      /\ lread \in [Payments -> Nat] /\ lrate \in [Payments -> Int]
      /\ tax \in [Requests -> Nat] /\ wread \in [Requests -> Int]
  BY DEF Init
<1>6. lpc \in [Payments -> InCall \cup {"ledger", "missed", "piped", "credited",
                                     "failed", "killed"}]
  BY DEF Init
<1>7. wpc \in [Requests -> Claiming \cup Section \cup
                          {"idle", "refused", "done", "thrown", "killed"}]
  BY DEF Init
<1>8. /\ xpc \in [Transfers -> AtStateRow \cup {"idle", "refused", "lower", "done",
                                              "failed", "killed"}]
      /\ xread \in [Transfers -> Int] /\ spent \in Nat
  BY DEF Init
<1>9. raced \in BOOLEAN
  BY Zenon DEF Init
<1> QED
  BY <1>1, <1>2, <1>3, <1>4, <1>5, <1>6, <1>7, <1>8, <1>9 DEF TypeOK

LEMMA LeaveType ==
  ASSUME TypeOK, NEW r \in Requests, NEW outcome \in {"done", "thrown"},
         Leave(r, outcome)
  PROVE  /\ locked' \in BOOLEAN
         /\ releaser' \in BOOLEAN
         /\ queue' \in Seq(Requests)
         /\ wpc' \in [Requests -> Claiming \cup Section \cup
                          {"idle", "refused", "done", "thrown", "killed"}]
<1>1. queue # <<>> => Tail(queue) \in Seq(Requests)
  BY HeadTailProperties DEF TypeOK
<1>2. queue' \in Seq(Requests)
  BY <1>1 DEF Leave, TypeOK
<1> QED BY <1>2 DEF Leave, TypeOK, Claiming

LEMMA RaceType == ASSUME TypeOK, Race PROVE raced' \in BOOLEAN
BY Zenon DEF TypeOK, Race

\* What a transfer changes.
LEMMA LowerType ==
  ASSUME TypeOK, NEW t \in Transfers, Lower(t)
  PROVE  /\ revenue' \in Int /\ shown' \in Int
         /\ xpc' \in [Transfers -> AtStateRow \cup {"idle", "refused", "lower", "done",
                                                  "failed", "killed"}]
         /\ xread' \in [Transfers -> Int] /\ spent' \in Nat /\ raced' \in BOOLEAN
<1>1. /\ PriceOf[t] \in Nat /\ xread[t] \in Int /\ Lowered(t) \in Int
      /\ spent + PriceOf[t] \in Nat
  BY ConstantsType DEF TypeOK, Lowered
<1>2. CASE CheckRevenue(t)
  BY <1>2 DEF CheckRevenue, TypeOK
<1>3. CASE LowerRead(t)
  <2>1. raced' \in BOOLEAN
    BY <1>3, RaceType DEF LowerRead
  <2>2. QED
    BY <1>3, <2>1 DEF LowerRead, TypeOK, AtStateRow
<1>4. CASE LowerWrite(t)
  BY <1>1, <1>4 DEF LowerWrite, TypeOK, AtStateRow
<1>5. CASE LowerAnnounce(t)
  BY <1>1, <1>5 DEF LowerAnnounce, TypeOK
<1>6. CASE LowerFails(t)
  BY <1>6 DEF LowerFails, TypeOK
<1>7. QED
  BY <1>2, <1>3, <1>4, <1>5, <1>6 DEF Lower

LEMMA TypeStep ==
  ASSUME TypeOK, [Next]_vars
  PROVE  TypeOK'
<1> USE DEF TypeOK, InCall, Applying, Claiming, Section, AtStateRow
<1>1. ASSUME NEW p \in Payments, Receive(p) PROVE TypeOK'
  BY <1>1 DEF Receive
<1>2. ASSUME NEW p \in Payments, Miss(p) PROVE TypeOK'
  BY <1>2 DEF Miss
<1>3. ASSUME NEW p \in Payments, Lookup(p) PROVE TypeOK'
  <2>1. HashOf[p] \in Hashes /\ deposits[HashOf[p]].total \in Nat
    BY ConstantsType DEF Numbers
  <2>2. disturbed' \subseteq Hashes
    BY <1>3, <2>1 DEF Lookup, Join
  <2>3. seen' \subseteq Hashes
    BY <1>3, <2>1 DEF Lookup
  <2>4. lpc' \in [Payments -> InCall \cup {"ledger", "missed", "piped", "credited",
                                         "failed", "killed"}]
    BY <1>3 DEF Lookup
  <2>5. lread' \in [Payments -> Nat]
    BY <1>3, <2>1 DEF Lookup
  <2> QED BY <1>3, <2>2, <2>3, <2>4, <2>5 DEF Lookup
<1>4. ASSUME NEW p \in Payments, CreateRow(p) PROVE TypeOK'
  BY <1>4, ConstantsType, ZeroType DEF CreateRow
<1>5. ASSUME NEW p \in Payments, CreateFails(p) PROVE TypeOK'
  BY <1>5 DEF CreateFails
<1>6. ASSUME NEW p \in Payments, SavePayment(p) PROVE TypeOK'
  <2>1. HashOf[p] \in Hashes /\ payments[HashOf[p]] + ValueOf[p] \in Nat
    BY ConstantsType
  <2> QED BY <1>6, <2>1 DEF SavePayment
<1>7. ASSUME NEW p \in Payments, SaveOrphan(p) PROVE TypeOK'
  <2>1. HashOf[p] \in Hashes /\ payments[HashOf[p]] + ValueOf[p] \in Nat
    BY ConstantsType
  <2> QED BY <1>7, <2>1 DEF SaveOrphan
<1>8. ASSUME NEW p \in Payments, ReadRate(p) PROVE TypeOK'
  BY <1>8, NewestRateType DEF ReadRate
<1>9. ASSUME NEW p \in Payments, Credit(p) PROVE TypeOK'
  <2>1. lread[p] + ValueOf[p] \in Nat /\ lrate[p] \in Int
    BY ConstantsType
  <2>2. Numbered(lread[p] + ValueOf[p], lrate[p]) \in Numbers
    BY <2>1, NumberedType
  <2> QED BY <1>9, <2>2 DEF Credit, NewTotal
<1>10. ASSUME NEW p \in Payments, CallFails(p) PROVE TypeOK'
  BY <1>10, ConstantsType DEF CallFails
<1>11. ASSUME NEW r \in Requests, ReadDeposit(r) PROVE TypeOK'
  BY <1>11, ConstantsType DEF ReadDeposit, Join
<1>12. ASSUME NEW r \in Requests, Refuse(r) PROVE TypeOK'
  BY <1>12 DEF Refuse
<1>13. ASSUME NEW r \in Requests, RefuseAmount(r) PROVE TypeOK'
  BY <1>13 DEF RefuseAmount
<1>14. ASSUME NEW r \in Requests, Authorise(r) PROVE TypeOK'
  <2>1. queue' \in Seq(Requests)
    <3>1. queue \in Seq(Requests)
      OBVIOUS
    <3>2. Append(queue, r) \in Seq(Requests)
      BY <3>1, AppendProperties
    <3> QED BY <1>14, <3>1, <3>2 DEF Authorise, Ask
  <2> QED BY <1>14, <2>1 DEF Authorise, Ask
<1>15. ASSUME NEW r \in Requests, Enter(r) PROVE TypeOK'
  BY <1>15 DEF Enter
<1>16. ASSUME NEW r \in Requests, CreateAccounts(r) PROVE TypeOK'
  BY <1>16 DEF CreateAccounts
<1>17. ASSUME NEW r \in Requests, SaveWithdraw(r) PROVE TypeOK'
  <2>1. [total |-> withdraws[ClaimOf[r]].total + dep[r].total,
         taxed |-> withdraws[ClaimOf[r]].taxed + dep[r].taxed]
          \in [total : Nat, taxed : Int]
    BY ConstantsType DEF Numbers
  <2>2. withdraws' \in [Hashes -> [total : Nat, taxed : Int]]
    BY <1>17, <2>1 DEF SaveWithdraw
  <2> QED BY <1>17, <2>2 DEF SaveWithdraw
<1>18. ASSUME NEW r \in Requests, ZeroDeposit(r) PROVE TypeOK'
  BY <1>18, ZeroType DEF ZeroDeposit, Emptied
<1>19. ASSUME NEW r \in Requests, ReadTax(r) PROVE TypeOK'
  <2>1. taxes[Len(taxes)].revenue \in Int /\ Len(taxes) \in Nat
    BY <1>19, NewestRevenueType DEF ReadTax
  <2> QED BY <1>19, <2>1 DEF ReadTax
<1>20. ASSUME NEW r \in Requests, WriteTax(r) PROVE TypeOK'
  <2>1. wread[r] + dep[r].taxed \in Int /\ tax[r] \in Nat
    BY DEF Numbers
  <2>2. taxes' \in Seq([rate : Int, revenue : Int])
    BY <1>20, <2>1, RevenueWritten DEF WriteTax
  <2> QED BY <1>20, <2>2 DEF WriteTax
<1>21. ASSUME NEW r \in Requests, ReadState(r) PROVE TypeOK'
  <2>1. raced' \in BOOLEAN
    BY <1>21, RaceType DEF ReadState
  <2> QED BY <1>21, <2>1 DEF ReadState
<1>22. ASSUME NEW r \in Requests, WriteState(r) PROVE TypeOK'
  <2>1. revenue' \in Int
    BY <1>22 DEF WriteState, Numbers
  <2> QED BY <1>22, <2>1 DEF WriteState
<1>23. ASSUME NEW r \in Requests, Finish(r) PROVE TypeOK'
  <2>1. shown' \in Int
    BY <1>23 DEF Finish, Numbers
  <2> QED BY <1>23, <2>1, LeaveType DEF Finish
<1>24. ASSUME NEW r \in Requests, Throw(r) PROVE TypeOK'
  <2>1. disturbed' \subseteq Hashes
    BY <1>24, ConstantsType DEF Throw
  <2> QED BY <1>24, <2>1, LeaveType DEF Throw
<1>25. ASSUME NEW rate \in TaxRates, AddTax(rate) PROVE TypeOK'
  BY <1>25, ConstantsType, AppendProperties DEF AddTax, NewTax
<1>26. CASE Crash
  <2>1. disturbed' \subseteq Hashes
    BY <1>26, ConstantsType DEF Crash
  <2>2. queue' \in Seq(Requests)
    BY <1>26 DEF Crash
  <2>3. lpc' \in [Payments -> InCall \cup {"ledger", "missed", "piped",
                                  "credited", "failed", "killed"}]
    BY <1>26 DEF Crash
  <2>4. wpc' \in [Requests -> Claiming \cup Section \cup
                       {"idle", "refused", "done", "thrown", "killed"}]
    BY <1>26 DEF Crash
  <2>5. seen' \subseteq Hashes /\ crashes' \in Nat
    BY <1>26 DEF Crash
  <2>6. locked' \in BOOLEAN /\ releaser' \in BOOLEAN /\ up' \in BOOLEAN
    BY <1>26 DEF Crash
  <2>7. UNCHANGED <<db, lread, lrate, dep, tax, wread, xread, spent, raced>>
    BY <1>26 DEF Crash
  <2>8. xpc' \in [Transfers -> AtStateRow \cup {"idle", "refused", "lower", "done",
                                              "failed", "killed"}]
    BY <1>26 DEF Crash
  <2> QED BY <2>1, <2>2, <2>3, <2>4, <2>5, <2>6, <2>7, <2>8
<1>27. CASE Start
  BY <1>27 DEF Start
<1>28. CASE UNCHANGED vars
  BY <1>28 DEF vars
<1>29. ASSUME NEW t \in Transfers, Lower(t) PROVE TypeOK'
  BY <1>29, LowerType DEF Lower, Apart
<1> QED
  BY <1>1, <1>2, <1>3, <1>4, <1>5, <1>6, <1>7, <1>8, <1>9, <1>10, <1>11, <1>12,
     <1>13, <1>14, <1>15, <1>16, <1>17, <1>18, <1>19, <1>20, <1>21, <1>22, <1>23,
     <1>24, <1>25, <1>26, <1>27, <1>28, <1>29 DEF Next, Apply, Serve

\* Every variable keeps its type, whatever the sizes of the constant sets.
THEOREM TypeCorrect == Spec => []TypeOK
<1>1. TypeOK /\ [Next]_vars => TypeOK'
  BY TypeStep
<1> QED
  BY <1>1, InitType, PTL DEF Spec

-------------------------------------------------------------------------------
(* One request in the section                                              *)

\* Whom a request that leaves the section hands the mutex to.
LEMMA NextInLine ==
  ASSUME TypeOK, QueueInv, queue # <<>>
  PROVE  Head(queue) \in Requests /\ wpc[Head(queue)] = "waiting"
<1>1. 1 \in 1..Len(queue) /\ Head(queue) = queue[1] /\ queue[1] \in Requests
  BY HeadTailProperties, ElementOfSeq DEF TypeOK
<1>2. QED
  BY <1>1 DEF QueueInv

LEMMA QueueUnchanged ==
  ASSUME QueueInv, UNCHANGED <<mutex, wpc>>
  PROVE  QueueInv'
BY DEF QueueInv, OneInSection

\* A request that moves on within the section, or before it has asked for the
\* mutex, changes nothing for the others.
LEMMA QueueMove ==
  ASSUME TypeOK, QueueInv, UNCHANGED mutex, NEW r \in Requests, NEW a,
         wpc' = [wpc EXCEPT ![r] = a],
         \/ wpc[r] \in Section /\ a \in Section
         \/ wpc[r] \in {"idle", "checking"} /\ a \in {"checking", "refused"}
  PROVE  QueueInv'
<1>1. \A s \in Requests : wpc'[s] \in Section <=> wpc[s] \in Section
  BY DEF TypeOK, Section
<1>2. \A s \in Requests : wpc'[s] = "granted" <=> wpc[s] = "granted"
  BY DEF TypeOK, Section
<1>3. \A s \in Requests : wpc[s] = "waiting" => wpc'[s] = "waiting"
  BY DEF TypeOK, Section
<1>4. OneInSection'
  BY <1>1, <1>2 DEF QueueInv, OneInSection
<1>5. \A i \in 1..Len(queue) : queue[i] \in Requests
  BY ElementOfSeq DEF TypeOK
<1> QED
  BY <1>3, <1>4, <1>5 DEF QueueInv

LEMMA QueueAuthorise ==
  ASSUME TypeOK, QueueInv, NEW r \in Requests, Authorise(r)
  PROVE  QueueInv'
<1>1. \A i \in 1..Len(queue) : queue[i] \in Requests \ {r}
  BY ElementOfSeq DEF TypeOK, QueueInv, Authorise
<1>2. CASE ~locked
  <2>1. queue = <<>> /\ \A s \in Requests : wpc[s] \notin Section \cup {"granted"}
    BY <1>2 DEF QueueInv, OneInSection
  <2>2. /\ locked' = TRUE /\ UNCHANGED <<queue, releaser>>
        /\ wpc' = [wpc EXCEPT ![r] = "granted"]
    BY <1>2 DEF Authorise, Ask
  <2>3. \A s \in Requests : wpc'[s] \notin Section
    BY <2>1, <2>2 DEF TypeOK, Section
  <2>4. \A s \in Requests : wpc'[s] \in Section \cup {"granted"} <=> s = r
    BY <2>1, <2>2 DEF TypeOK
  <2>5. OneInSection'
    BY <2>1, <2>2, <2>3, <2>4 DEF QueueInv, OneInSection
  <2> QED BY <2>1, <2>2, <2>5 DEF QueueInv
<1>3. CASE locked
  <2>1. /\ queue' = Append(queue, r) /\ UNCHANGED <<locked, releaser>>
        /\ wpc' = [wpc EXCEPT ![r] = "waiting"]
        /\ wpc[r] = "checking"
    BY <1>3 DEF Authorise, Ask
  <2>2. \A s \in Requests : wpc'[s] \in Section <=> wpc[s] \in Section
    BY <2>1 DEF TypeOK, Section
  <2>3. \A s \in Requests : wpc'[s] = "granted" <=> wpc[s] = "granted"
    BY <2>1 DEF TypeOK, Section
  <2>4. OneInSection'
    BY <1>3, <2>1, <2>2, <2>3 DEF QueueInv, OneInSection
  <2>5. /\ Len(queue') = Len(queue) + 1
        /\ Len(queue) \in Nat
        /\ queue'[Len(queue) + 1] = r
        /\ \A i \in 1..Len(queue) : queue'[i] = queue[i]
    BY <2>1, AppendProperties DEF TypeOK
  <2>6. \A i \in 1..Len(queue') : wpc'[queue'[i]] = "waiting"
    <3>1. \A s \in Requests : wpc'[s] = IF s = r THEN "waiting" ELSE wpc[s]
      BY <2>1 DEF TypeOK
    <3>2. \A i \in 1..Len(queue) : wpc[queue[i]] = "waiting"
      BY DEF QueueInv
    <3> QED BY <1>1, <2>5, <3>1, <3>2
  <2>7. \A i, j \in 1..Len(queue') : queue'[i] = queue'[j] => i = j
    BY <1>1, <2>5 DEF QueueInv
  <2> QED BY <2>4, <2>6, <2>7 DEF QueueInv
<1> QED BY <1>2, <1>3

\* The one who leaves is the only one in the section, so the next is alone too.
LEMMA QueueLeave ==
  ASSUME TypeOK, QueueInv, NEW r \in Requests, NEW outcome \in {"done", "thrown"},
         wpc[r] \in Section, Leave(r, outcome)
  PROVE  QueueInv'
<1>1. \A s \in Requests \ {r} : wpc[s] \notin Section \cup {"granted"}
  BY DEF QueueInv, OneInSection
<1>2. CASE queue = <<>>
  <2>1. /\ releaser' = FALSE /\ locked' = FALSE /\ queue' = <<>>
        /\ wpc' = [wpc EXCEPT ![r] = outcome]
    BY <1>2 DEF Leave
  <2>2. \A s \in Requests : wpc'[s] \notin Section \cup {"granted"}
    BY <1>1, <2>1 DEF TypeOK, Section
  <2>3. OneInSection'
    BY <2>1, <2>2 DEF OneInSection
  <2> QED BY <2>1, <2>3 DEF QueueInv
<1>3. CASE queue # <<>>
  <2> DEFINE next == Head(queue)
  <2>1. /\ Len(queue) \in Nat \ {0}
        /\ next = queue[1] /\ next \in Requests
        /\ Len(Tail(queue)) = Len(queue) - 1
        /\ \A i \in 1..Len(Tail(queue)) : Tail(queue)[i] = queue[i + 1]
    BY <1>3, HeadTailProperties, ElementOfSeq DEF TypeOK
  <2>2. wpc[next] = "waiting" /\ next # r
    BY <2>1 DEF QueueInv, Section
  <2>3. /\ releaser' = FALSE /\ queue' = Tail(queue) /\ locked' = locked
        /\ wpc' = [wpc EXCEPT ![r] = outcome, ![next] = "granted"]
    BY <1>3 DEF Leave
  <2>4. \A s \in Requests :
          wpc'[s] = IF s = next THEN "granted" ELSE IF s = r THEN outcome ELSE wpc[s]
    BY <2>1, <2>2, <2>3 DEF TypeOK
  <2>5. \A s \in Requests : wpc'[s] \notin Section
    BY <1>1, <2>4 DEF Section
  <2>6. \A s \in Requests : wpc'[s] \in Section \cup {"granted"} <=> s = next
    BY <1>1, <2>4, <2>5
  <2>7. locked
    BY DEF QueueInv, OneInSection
  <2>8. OneInSection'
    BY <2>1, <2>3, <2>5, <2>6, <2>7 DEF OneInSection
  <2>9. \A i \in 1..Len(queue') : i + 1 \in 1..Len(queue) /\ queue'[i] = queue[i + 1]
    BY <2>1, <2>3
  <2>10. \A i \in 1..Len(queue') : queue'[i] \in Requests /\ queue'[i] # next
    <3> SUFFICES ASSUME NEW i \in 1..Len(queue')
                 PROVE  queue'[i] \in Requests /\ queue'[i] # next
      OBVIOUS
    <3>1. queue[i + 1] \in Requests
      BY <2>9, ElementOfSeq DEF TypeOK
    <3>2. queue[i + 1] = queue[1] => i + 1 = 1
      BY <2>1, <2>9 DEF QueueInv
    <3>3. i + 1 # 1
      BY <2>1, <2>3
    <3> QED BY <2>1, <2>9, <3>1, <3>2, <3>3
  <2>11. \A i \in 1..Len(queue') : wpc'[queue'[i]] = "waiting"
    BY <2>4, <2>9, <2>10 DEF QueueInv, Section
  <2>12. \A i, j \in 1..Len(queue') : queue'[i] = queue'[j] => i = j
    BY <2>1, <2>3, <2>9 DEF QueueInv
  <2> QED BY <2>8, <2>11, <2>12 DEF QueueInv
<1> QED BY <1>2, <1>3

LEMMA QueueStep ==
  ASSUME TypeOK, QueueInv, [Next]_vars
  PROVE  QueueInv'
<1>1. ASSUME NEW p \in Payments,
             \/ Receive(p) \/ Miss(p) \/ Apply(p) \/ CreateFails(p) \/ CallFails(p)
      PROVE  QueueInv'
  BY <1>1, QueueUnchanged DEF Receive, Miss, Apply, Lookup, CreateRow, SavePayment,
     SaveOrphan, ReadRate, Credit, CreateFails, CallFails
<1>2. ASSUME NEW r \in Requests,
             ReadDeposit(r) \/ Refuse(r) \/ RefuseAmount(r)
      PROVE  QueueInv'
  BY <1>2, QueueMove DEF ReadDeposit, Refuse, RefuseAmount
<1>3. ASSUME NEW r \in Requests, Enter(r) PROVE QueueInv'
  <2>1. /\ releaser' = TRUE /\ UNCHANGED <<locked, queue>>
        /\ wpc[r] = "granted" /\ wpc' = [wpc EXCEPT ![r] = "accounts"]
    BY <1>3 DEF Enter
  <2>2. \A s \in Requests : wpc'[s] \in Section \cup {"granted"}
                              <=> wpc[s] \in Section \cup {"granted"}
    BY <2>1 DEF TypeOK, Section
  <2>3. wpc'[r] \in Section
    BY <2>1 DEF TypeOK, Section
  <2>4. OneInSection'
    BY <2>1, <2>2, <2>3 DEF QueueInv, OneInSection
  <2>5. \A i \in 1..Len(queue) : queue[i] \in Requests
    BY ElementOfSeq DEF TypeOK
  <2> QED BY <2>1, <2>4, <2>5 DEF QueueInv, TypeOK
<1>4. ASSUME NEW r \in Requests,
             \/ CreateAccounts(r) \/ SaveWithdraw(r) \/ ZeroDeposit(r)
             \/ ReadTax(r) \/ WriteTax(r) \/ ReadState(r) \/ WriteState(r)
      PROVE  QueueInv'
  BY <1>4, QueueMove DEF CreateAccounts, SaveWithdraw, ZeroDeposit, Emptied, ReadTax,
     WriteTax, ReadState, WriteState, Section
<1>5. ASSUME NEW r \in Requests, Finish(r) \/ Throw(r) PROVE QueueInv'
  BY <1>5, QueueLeave DEF Finish, Throw, Section
<1>6. ASSUME NEW rate \in TaxRates, AddTax(rate) PROVE QueueInv'
  BY <1>6, QueueUnchanged DEF AddTax
<1>7. CASE Crash
  <2>1. /\ ~locked' /\ ~releaser' /\ queue' = <<>>
        /\ \A r \in Requests : wpc'[r] \notin Claiming \cup Section
    BY <1>7 DEF Crash, Claiming, Section
  <2>2. OneInSection'
    BY <2>1 DEF OneInSection, Claiming
  <2> QED BY <2>1, <2>2 DEF QueueInv
<1>8. CASE Start \/ UNCHANGED vars \/ \E t \in Transfers : Lower(t)
  BY <1>8, QueueUnchanged DEF Start, vars, Lower, Apart
<1> QED
  <2>1. CASE \E p \in Payments : \/ Receive(p) \/ Miss(p) \/ Apply(p)
                                \/ CreateFails(p) \/ CallFails(p)
    BY <1>1, <2>1
  <2>2. CASE \E r \in Requests :
               ReadDeposit(r) \/ Refuse(r) \/ Serve(r) \/ Throw(r)
    BY <1>2, <1>3, <1>4, <1>5, <2>2, QueueAuthorise DEF Serve
  <2> QED
    BY <1>6, <1>7, <1>8, <2>1, <2>2 DEF Next

LEMMA QueueInit == Init => QueueInv
<1> SUFFICES ASSUME Init PROVE QueueInv
  OBVIOUS
<1>1. /\ ~locked /\ ~releaser /\ queue = <<>>
      /\ \A r \in Requests : wpc[r] \notin Section \cup {"granted"}
  BY DEF Init, Section
<1>2. OneInSection
  BY <1>1 DEF OneInSection
<1> QED BY <1>1, <1>2 DEF QueueInv

\* At most one request is in the section, the mutex is taken exactly while one
\* is, the releaser is in its field when the controller calls it, and nobody
\* waits for a free mutex: whatever fails, and however often the server stops.
THEOREM MutualExclusion == Spec => []OneInSection
<1>1. Init => QueueInv
  BY QueueInit
<1>2. TypeOK /\ QueueInv /\ [Next]_vars => QueueInv'
  BY QueueStep
<1>3. QueueInv => OneInSection
  BY DEF QueueInv
<1> QED
  BY <1>1, <1>2, <1>3, TypeCorrect, PTL DEF Spec

-------------------------------------------------------------------------------
(* Nobody who waits is forgotten                                           *)

LineInv == \A r \in Requests :
             wpc[r] = "waiting" => \E i \in 1..Len(queue) : queue[i] = r

\* Where nobody begins to wait and the queue stays, all who wait are still in it.
LEMMA LineKept ==
  ASSUME LineInv, UNCHANGED queue,
         \A r \in Requests : wpc'[r] = "waiting" => wpc[r] = "waiting"
  PROVE  LineInv'
BY DEF LineInv

LEMMA LineAuthorise ==
  ASSUME TypeOK, LineInv, NEW r \in Requests, Authorise(r)
  PROVE  LineInv'
<1>1. CASE ~locked
  <2>1. wpc' = [wpc EXCEPT ![r] = "granted"] /\ UNCHANGED queue
    BY <1>1 DEF Authorise, Ask
  <2> QED BY <2>1, LineKept DEF TypeOK
<1>2. CASE locked
  <2>1. queue' = Append(queue, r) /\ wpc' = [wpc EXCEPT ![r] = "waiting"]
    BY <1>2 DEF Authorise, Ask
  <2>2. /\ Len(queue) \in Nat /\ Len(queue') = Len(queue) + 1
        /\ queue'[Len(queue) + 1] = r
        /\ \A i \in 1..Len(queue) : queue'[i] = queue[i]
    BY <2>1, AppendProperties DEF TypeOK
  <2>3. ASSUME NEW s \in Requests, wpc'[s] = "waiting"
        PROVE  \E i \in 1..Len(queue') : queue'[i] = s
    <3>1. CASE s = r
      BY <2>2, <3>1
    <3>2. CASE s # r
      <4>1. PICK i \in 1..Len(queue) : queue[i] = s
        BY <2>1, <2>3, <3>2 DEF TypeOK, LineInv
      <4>2. i \in 1..Len(queue') /\ queue'[i] = s
        BY <2>2, <4>1
      <4> QED BY <4>2
    <3> QED BY <3>1, <3>2
  <2> QED BY <2>3 DEF LineInv
<1> QED BY <1>1, <1>2

\* Only the head of the queue stops waiting when somebody leaves.
LEMMA LineLeave ==
  ASSUME TypeOK, QueueInv, LineInv, NEW r \in Requests,
         NEW outcome \in {"done", "thrown"}, wpc[r] \in Section, Leave(r, outcome)
  PROVE  LineInv'
<1>1. CASE queue = <<>>
  <2>1. wpc' = [wpc EXCEPT ![r] = outcome] /\ UNCHANGED queue
    BY <1>1 DEF Leave
  <2> QED BY <2>1, LineKept DEF TypeOK
<1>2. CASE queue # <<>>
  <2>1. /\ Len(queue) \in Nat \ {0}
        /\ Head(queue) = queue[1]
        /\ Len(Tail(queue)) = Len(queue) - 1
        /\ \A i \in 1..Len(Tail(queue)) : Tail(queue)[i] = queue[i + 1]
    BY <1>2, HeadTailProperties DEF TypeOK
  <2>2. /\ Head(queue) \in Requests /\ queue' = Tail(queue)
        /\ wpc' = [wpc EXCEPT ![r] = outcome, ![Head(queue)] = "granted"]
    BY <1>2, NextInLine DEF Leave
  <2>3. ASSUME NEW s \in Requests, wpc'[s] = "waiting"
        PROVE  \E i \in 1..Len(queue') : queue'[i] = s
    <3>1. s # Head(queue) /\ wpc[s] = "waiting"
      BY <2>2, <2>3 DEF TypeOK
    <3>2. PICK i \in 1..Len(queue) : queue[i] = s
      BY <3>1 DEF LineInv
    <3>3. i # 1
      BY <2>1, <3>1, <3>2
    <3>4. i - 1 \in 1..Len(queue') /\ queue'[i - 1] = queue[(i - 1) + 1]
      BY <2>1, <2>2, <3>2, <3>3
    <3> QED BY <3>2, <3>4
  <2> QED BY <2>3 DEF LineInv
<1> QED BY <1>1, <1>2

LEMMA LineStep ==
  ASSUME TypeOK, QueueInv, LineInv, [Next]_vars
  PROVE  LineInv'
<1>1. ASSUME NEW p \in Payments,
             \/ Receive(p) \/ Miss(p) \/ Apply(p) \/ CreateFails(p) \/ CallFails(p)
      PROVE  LineInv'
  BY <1>1, LineKept DEF Receive, Miss, Apply, Lookup, CreateRow, SavePayment,
     SaveOrphan, ReadRate, Credit, CreateFails, CallFails, mutex, handler
<1>2. ASSUME NEW r \in Requests,
             \/ ReadDeposit(r) \/ Refuse(r) \/ RefuseAmount(r) \/ Enter(r)
             \/ CreateAccounts(r) \/ SaveWithdraw(r) \/ ZeroDeposit(r)
             \/ ReadTax(r) \/ WriteTax(r) \/ ReadState(r) \/ WriteState(r)
      PROVE  LineInv'
  <2>1. \E a \in {"checking", "refused"} \cup Section : wpc' = [wpc EXCEPT ![r] = a]
    BY <1>2 DEF ReadDeposit, Refuse, RefuseAmount, Enter, CreateAccounts,
       SaveWithdraw, ZeroDeposit, ReadTax, WriteTax, ReadState, WriteState, Section
  <2>2. UNCHANGED queue
    BY <1>2 DEF ReadDeposit, Refuse, RefuseAmount, Enter, CreateAccounts,
       SaveWithdraw, ZeroDeposit, ReadTax, WriteTax, ReadState, WriteState, mutex
  <2> QED BY <2>1, <2>2, LineKept DEF TypeOK, Section
<1>3. ASSUME NEW r \in Requests, Finish(r) \/ Throw(r) PROVE LineInv'
  BY <1>3, LineLeave DEF Finish, Throw, Section
<1>4. CASE Crash
  BY <1>4 DEF Crash, LineInv, Claiming
<1>5. CASE \/ Start \/ UNCHANGED vars \/ \E rate \in TaxRates : AddTax(rate)
           \/ \E t \in Transfers : Lower(t)
  BY <1>5, LineKept DEF Start, AddTax, vars, mutex, handler, Lower, Apart
<1> QED
  BY <1>1, <1>2, <1>3, <1>4, <1>5, LineAuthorise DEF Next, Serve

\* A request that waits is in the queue that its predecessors hand the mutex
\* down, once, and so is never passed over: not when a call of the section
\* fails, and not when the mutex is found free again after a restart.
THEOREM NobodyIsForgotten == Spec => []InLine
<1>1. Init => QueueInv /\ LineInv
  <2>1. Init => LineInv
    BY DEF Init, LineInv
  <2>2. Init => QueueInv
    BY QueueInit
  <2> QED BY <2>1, <2>2
<1>2. TypeOK /\ QueueInv /\ LineInv /\ [Next]_vars => QueueInv' /\ LineInv'
  BY QueueStep, LineStep
<1>3. QueueInv /\ LineInv => InLine
  BY DEF QueueInv, LineInv, InLine
<1> QED
  BY <1>1, <1>2, <1>3, TypeCorrect, PTL DEF Spec

-------------------------------------------------------------------------------
(* Nothing invented, no row reset                                          *)

LEMMA RowsStep ==
  ASSUME TypeOK, RowsInv, [Next]_vars
  PROVE  RowsInv'
<1> USE ConstantsType DEF TypeOK, InCall, Applying
<1>1. ASSUME NEW p \in Payments, Lookup(p) PROVE RowsInv'
  <2>1. /\ UNCHANGED <<rows, deposits>>
        /\ \A q \in Payments \ {p} : lpc'[q] = lpc[q]
    BY <1>1 DEF Lookup, FirstSeen
  <2>2. CASE lpc'[p] = "create"
    <3>1. HashOf[p] \notin rows \cup seen /\ seen' = seen \cup {HashOf[p]}
      BY <1>1, <2>2 DEF Lookup, FirstSeen
    <3> QED BY <2>1, <2>2, <3>1 DEF RowsInv
  <2>3. CASE lpc'[p] = "save"
    <3>1. HashOf[p] \in rows /\ seen' = seen
      BY <1>1, <2>3 DEF Lookup, FirstSeen
    <3> QED BY <2>1, <2>3, <3>1 DEF RowsInv
  <2>4. CASE lpc'[p] = "orphan"
    <3>1. seen' = seen
      BY <1>1, <2>4 DEF Lookup, FirstSeen
    <3> QED BY <2>1, <2>4, <3>1 DEF RowsInv
  <2> QED BY <1>1, <2>2, <2>3, <2>4 DEF Lookup, FirstSeen
<1>2. ASSUME NEW p \in Payments, CreateRow(p) PROVE RowsInv'
  BY <1>2 DEF CreateRow, RowsInv
<1>3. ASSUME NEW p \in Payments, SavePayment(p) PROVE RowsInv'
  BY <1>3 DEF SavePayment, RowsInv
<1>4. ASSUME NEW p \in Payments, ReadRate(p) PROVE RowsInv'
  BY <1>4 DEF ReadRate, RowsInv
<1>5. ASSUME NEW p \in Payments, Credit(p) PROVE RowsInv'
  BY <1>5 DEF Credit, RowsInv
<1>6. ASSUME NEW p \in Payments,
             Receive(p) \/ Miss(p) \/ CreateFails(p) \/ SaveOrphan(p) \/ CallFails(p)
      PROVE  RowsInv'
  <2>1. UNCHANGED <<rows, deposits, seen>>
    BY <1>6 DEF Receive, Miss, CreateFails, SaveOrphan, CallFails, db
  <2>2. \E a \in {"piped", "missed", "orphan", "failed"} : lpc' = [lpc EXCEPT ![p] = a]
    BY <1>6 DEF Receive, Miss, CreateFails, SaveOrphan, CallFails
  <2>3. \A q \in Payments : lpc'[q] \in {"create", "save", "tax", "credit"} =>
             lpc'[q] = lpc[q]
    BY <2>2
  <2> QED BY <2>1, <2>3 DEF RowsInv
<1>7. ASSUME NEW r \in Requests, ZeroDeposit(r) PROVE RowsInv'
  BY <1>7 DEF ZeroDeposit, Emptied, RowsInv
<1>8. CASE Crash
  BY <1>8 DEF Crash, RowsInv
<1>9. CASE UNCHANGED <<rows, deposits, seen, lpc>>
  BY <1>9 DEF RowsInv
<1>10. ASSUME NEW r \in Requests,
              ReadDeposit(r) \/ Refuse(r) \/ Serve(r) \/ Throw(r)
       PROVE  ZeroDeposit(r) \/ UNCHANGED <<rows, deposits, seen, lpc>>
  BY <1>10 DEF ReadDeposit, Refuse, Serve, Throw, RefuseAmount, Authorise, Ask, Enter,
     CreateAccounts, SaveWithdraw, ReadTax, WriteTax, ReadState, WriteState, Finish
<1>11. ASSUME \/ \E rate \in TaxRates : AddTax(rate)
              \/ \E t \in Transfers : Lower(t)
              \/ Start \/ UNCHANGED vars
       PROVE  UNCHANGED <<rows, deposits, seen, lpc>>
  BY <1>11 DEF AddTax, Start, vars, Lower, Apart
<1> QED
  BY <1>1, <1>2, <1>3, <1>4, <1>5, <1>6, <1>7, <1>8, <1>9, <1>10, <1>11
  DEF Next, Apply

\* A step that lets no deposit grow, no record of payments shrink and no other
\* call see anything new keeps the cover.
LEMMA CoverKept ==
  ASSUME TypeOK, TypeOK', CoverInv, NEW p \in Payments,
         \A h \in Hashes : payments[h] <= payments'[h],
         \A h \in Hashes : deposits'[h].total <= payments'[h],
         \A q \in Payments \ {p} : lpc'[q] = lpc[q] /\ lread'[q] = lread[q],
         lpc'[p] = "save" => lread'[p] <= payments'[HashOf[p]],
         lpc'[p] \in {"tax", "credit"} =>
           lread'[p] + ValueOf[p] <= payments'[HashOf[p]]
  PROVE  CoverInv'
<1>1. ASSUME NEW q \in Payments \ {p}
      PROVE  /\ lpc'[q] = "save" => lread'[q] <= payments'[HashOf[q]]
             /\ lpc'[q] \in {"tax", "credit"} =>
                  lread'[q] + ValueOf[q] <= payments'[HashOf[q]]
  <2> DEFINE h == HashOf[q]
  <2>1. /\ h \in Hashes /\ ValueOf[q] \in Nat /\ lread[q] \in Nat
        /\ payments[h] \in Nat /\ payments'[h] \in Nat
    BY ConstantsType DEF TypeOK
  <2>2. payments[h] <= payments'[h] /\ lpc'[q] = lpc[q] /\ lread'[q] = lread[q]
    BY <1>1, <2>1
  <2>3. /\ lpc[q] = "save" => lread[q] <= payments[h]
        /\ lpc[q] \in {"tax", "credit"} => lread[q] + ValueOf[q] <= payments[h]
    BY DEF CoverInv
  <2> HIDE DEF h
  <2>4. /\ lpc'[q] = "save" => lread'[q] <= payments'[h]
        /\ lpc'[q] \in {"tax", "credit"} => lread'[q] + ValueOf[q] <= payments'[h]
    BY <2>1, <2>2, <2>3
  <2> QED BY <2>4 DEF h
<1> QED
  BY <1>1 DEF CoverInv, NothingInvented

LEMMA CoverStep ==
  ASSUME TypeOK, TypeOK', CoverInv, [Next]_vars
  PROVE  CoverInv'
<1>0. /\ \A h \in Hashes : /\ payments[h] \in Nat
                           /\ deposits[h].total \in Nat
                           /\ deposits[h].total <= payments[h]
      /\ \A p \in Payments : /\ HashOf[p] \in Hashes
                             /\ ValueOf[p] \in Nat
                             /\ lread[p] \in Nat
                             /\ lrate[p] \in Int
      /\ lpc = [p \in Payments |-> lpc[p]]
      /\ lread = [p \in Payments |-> lread[p]]
      /\ payments = [h \in Hashes |-> payments[h]]
      /\ deposits = [h \in Hashes |-> deposits[h]]
  BY ConstantsType DEF TypeOK, Numbers, CoverInv, NothingInvented
<1>1. ASSUME NEW p \in Payments, Lookup(p) PROVE CoverInv'
  <2>1. /\ UNCHANGED <<deposits, payments>>
        /\ \A q \in Payments \ {p} : lpc'[q] = lpc[q] /\ lread'[q] = lread[q]
        /\ lpc'[p] = "save" => lread'[p] = deposits[HashOf[p]].total
        /\ lpc'[p] \notin {"tax", "credit"}
    BY <1>0, <1>1 DEF Lookup, FirstSeen
  <2> QED BY <1>0, <2>1, CoverKept
<1>2. ASSUME NEW p \in Payments, CreateRow(p) PROVE CoverInv'
  <2>1. /\ UNCHANGED payments
        /\ \A h \in Hashes : deposits'[h] \in {deposits[h], Zero}
        /\ \A q \in Payments \ {p} : lpc'[q] = lpc[q] /\ lread'[q] = lread[q]
        /\ lpc'[p] = "save" /\ lread'[p] = 0
    BY <1>0, <1>2 DEF CreateRow
  <2>2. \A h \in Hashes : deposits'[h].total <= payments'[h]
    BY <1>0, <2>1 DEF Zero
  <2>3. 0 <= payments[HashOf[p]]
    BY <1>0
  <2> QED BY <1>0, <2>1, <2>2, <2>3, CoverKept
<1>3. ASSUME NEW p \in Payments, SavePayment(p) \/ SaveOrphan(p) PROVE CoverInv'
  <2>1. /\ UNCHANGED <<deposits, lread>>
        /\ \A h \in Hashes : payments'[h] =
             IF h = HashOf[p] THEN payments[h] + ValueOf[p] ELSE payments[h]
        /\ \A q \in Payments \ {p} : lpc'[q] = lpc[q]
        /\ \/ lpc[p] = "save" /\ lpc'[p] = "tax"
           \/ lpc'[p] = "failed"
    BY <1>0, <1>3 DEF SavePayment, SaveOrphan
  <2>2. \A h \in Hashes : payments[h] <= payments'[h]
                            /\ deposits'[h].total <= payments'[h]
    BY <1>0, <2>1
  <2>3. lpc[p] = "save" => lread[p] <= payments[HashOf[p]]
    BY DEF CoverInv
  <2>4. lpc'[p] \in {"tax", "credit"} =>
          lread'[p] + ValueOf[p] <= payments'[HashOf[p]]
    BY <1>0, <2>1, <2>3
  <2> QED BY <2>1, <2>2, <2>4, CoverKept
<1>4. ASSUME NEW p \in Payments, ReadRate(p) PROVE CoverInv'
  BY <1>4 DEF ReadRate, TypeOK, CoverInv, NothingInvented
<1>5. ASSUME NEW p \in Payments, Credit(p) PROVE CoverInv'
  <2>1. Numbered(lread[p] + ValueOf[p], lrate[p]).total = lread[p] + ValueOf[p]
    BY DEF Numbered
  <2>2. lread[p] + ValueOf[p] <= payments[HashOf[p]]
    BY <1>5 DEF Credit, CoverInv
  <2>3. /\ UNCHANGED <<payments, lread>>
        /\ \A h \in Hashes : deposits'[h] =
             IF h = HashOf[p] THEN Numbered(lread[p] + ValueOf[p], lrate[p])
                              ELSE deposits[h]
        /\ \A q \in Payments \ {p} : lpc'[q] = lpc[q]
        /\ lpc'[p] = "credited"
    BY <1>0, <1>5 DEF Credit, NewTotal
  <2>4. \A h \in Hashes : deposits'[h].total <= payments'[h]
    BY <1>0, <2>1, <2>2, <2>3
  <2> QED BY <1>0, <2>3, <2>4, CoverKept
<1>6. ASSUME NEW p \in Payments,
             Receive(p) \/ Miss(p) \/ CreateFails(p) \/ CallFails(p)
      PROVE  CoverInv'
  BY <1>6 DEF Receive, Miss, CreateFails, CallFails, TypeOK, CoverInv,
     NothingInvented
<1>7. ASSUME NEW r \in Requests, ZeroDeposit(r) PROVE CoverInv'
  BY <1>7 DEF ZeroDeposit, Emptied, Zero, Numbers, TypeOK, CoverInv, NothingInvented
<1>8. CASE Crash
  BY <1>8 DEF Crash, InCall, Applying, CoverInv, NothingInvented
<1>9. CASE UNCHANGED <<deposits, payments, lpc, lread>>
  BY <1>9 DEF CoverInv, NothingInvented
<1>10. ASSUME NEW r \in Requests,
              ReadDeposit(r) \/ Refuse(r) \/ Serve(r) \/ Throw(r)
       PROVE  ZeroDeposit(r) \/ UNCHANGED <<deposits, payments, lpc, lread>>
  BY <1>10 DEF ReadDeposit, Refuse, Serve, Throw, RefuseAmount, Authorise, Ask, Enter,
     CreateAccounts, SaveWithdraw, ReadTax, WriteTax, ReadState, WriteState, Finish
<1>11. ASSUME \/ \E rate \in TaxRates : AddTax(rate)
              \/ \E t \in Transfers : Lower(t)
              \/ Start \/ UNCHANGED vars
       PROVE  UNCHANGED <<deposits, payments, lpc, lread>>
  BY <1>11 DEF AddTax, Start, vars, Lower, Apart
<1> QED
  BY <1>1, <1>2, <1>3, <1>4, <1>5, <1>6, <1>7, <1>8, <1>9, <1>10, <1>11
  DEF Next, Apply

\* A deposit never shows more than the payments recorded for it, with any number
\* of overlapping, failing and interrupted calls.
THEOREM CreditsCovered == Spec => []NothingInvented
<1>1. Init => CoverInv
  BY ConstantsType DEF Init, CoverInv, NothingInvented, Zero
<1>2. TypeOK /\ TypeOK' /\ CoverInv /\ [Next]_vars => CoverInv'
  BY CoverStep
<1>3. CoverInv => NothingInvented
  BY DEF CoverInv
<1> QED
  BY <1>1, <1>2, <1>3, TypeCorrect, PTL DEF Spec

\* saveDeposit, which writes zeros, only ever runs for a deposit that has no
\* row and on which no other call is at work.
THEOREM RowsNeverReset == Spec => []NoReset
<1>1. Init => RowsInv
  BY ConstantsType DEF Init, RowsInv
<1>2. TypeOK /\ RowsInv /\ [Next]_vars => RowsInv'
  BY RowsStep
<1>3. RowsInv => NoReset
  BY ConstantsType DEF RowsInv, NoReset, Applying
<1> QED
  BY <1>1, <1>2, <1>3, TypeCorrect, PTL DEF Spec

-------------------------------------------------------------------------------
(* A serial pipe orphans no payment                                        *)

\* One call at a time, and a hash seen has a row or the call that creates it.
SerialInv ==
  ~Overlap /\ "listener" \notin Faults =>
    /\ \A p \in Payments : lpc[p] \notin {"orphan", "failed"}
    /\ \A p, q \in Payments : lpc[p] \in InCall /\ lpc[q] \in InCall => p = q
    /\ \A h \in seen \ rows : \E p \in Payments : HashOf[p] = h /\ lpc[p] = "create"

LEMMA SerialStep ==
  ASSUME TypeOK, SerialInv, [Next]_vars
  PROVE  SerialInv'
<1> SUFFICES ASSUME ~Overlap, "listener" \notin Faults PROVE SerialInv'
  BY DEF SerialInv
<1> USE ConstantsType DEF TypeOK, SerialInv, InCall, Applying
<1>1. ASSUME NEW p \in Payments, Lookup(p) PROVE SerialInv'
  <2>1. \A q \in Payments : lpc[q] \notin InCall
    BY <1>1 DEF Lookup, PipeFree
  <2>2. seen \subseteq rows
    BY <2>1
  <2>3. \/ lpc' = [lpc EXCEPT ![p] = "save"] /\ UNCHANGED seen
        \/ lpc' = [lpc EXCEPT ![p] = "create"] /\ seen' = seen \cup {HashOf[p]}
    BY <1>1, <2>2 DEF Lookup
  <2>4. UNCHANGED rows
    BY <1>1 DEF Lookup, db
  <2> QED BY <2>1, <2>2, <2>3, <2>4
<1>2. ASSUME NEW p \in Payments, CreateRow(p) PROVE SerialInv'
  <2>1. /\ lpc[p] = "create" /\ rows' = rows \cup {HashOf[p]} /\ seen' = seen
        /\ lpc' = [lpc EXCEPT ![p] = "save"]
    BY <1>2 DEF CreateRow
  <2>2. \A q \in Payments \ {p} : lpc'[q] = lpc[q] /\ lpc'[q] \notin InCall
    BY <2>1
  <2>3. \A q \in Payments : lpc'[q] \notin {"orphan", "failed"}
    BY <2>1
  <2>4. \A q, s \in Payments : lpc'[q] \in InCall /\ lpc'[s] \in InCall => q = s
    BY <2>2
  <2>5. ASSUME NEW h \in seen' \ rows'
        PROVE  \E q \in Payments : HashOf[q] = h /\ lpc'[q] = "create"
    <3>1. h \in seen \ rows /\ h # HashOf[p]
      BY <2>1
    <3>2. PICK q \in Payments : HashOf[q] = h /\ lpc[q] = "create"
      BY <3>1
    <3>3. q # p
      BY ONLY <3>1, <3>2
    <3> QED BY ONLY <2>2, <3>2, <3>3
  <2> QED BY <2>3, <2>4, <2>5
<1>3. ASSUME NEW p \in Payments,
             Receive(p) \/ Miss(p) \/ SavePayment(p) \/ ReadRate(p) \/ Credit(p)
      PROVE SerialInv'
  <2>1. /\ lpc[p] # "create" /\ UNCHANGED <<seen, rows>>
        /\ \/ lpc[p] = "ledger" /\ \E a \in {"piped", "missed"} : lpc' = [lpc EXCEPT ![p] = a]
           \/ lpc[p] \in InCall /\ \E a \in {"tax", "credit", "credited"} :
                                     lpc' = [lpc EXCEPT ![p] = a]
    BY <1>3 DEF Receive, Miss, SavePayment, ReadRate, Credit, db
  <2>2. \A q \in Payments : lpc'[q] \in InCall => lpc[q] \in InCall
    BY <2>1
  <2>3. \A q \in Payments : lpc[q] = "create" => lpc'[q] = "create"
    BY <2>1
  <2>4. \A q \in Payments : lpc'[q] \notin {"orphan", "failed"}
    BY <2>1
  <2>5. \A q, s \in Payments : lpc'[q] \in InCall /\ lpc'[s] \in InCall => q = s
    BY <2>2
  <2>6. \A h \in seen' \ rows' : \E q \in Payments : HashOf[q] = h /\ lpc'[q] = "create"
    BY <2>1, <2>3
  <2> QED BY <2>4, <2>5, <2>6
<1>4. ASSUME NEW p \in Payments, SaveOrphan(p) \/ CreateFails(p) \/ CallFails(p)
      PROVE FALSE
  BY <1>4 DEF SaveOrphan, CreateFails, CallFails
<1>5. ASSUME UNCHANGED <<lpc, seen, rows>> PROVE SerialInv'
  BY <1>5
<1>6. CASE Crash
  BY <1>6 DEF Crash, db
<1>7. CASE \/ \E r \in Requests : ReadDeposit(r) \/ Refuse(r) \/ Serve(r) \/ Throw(r)
           \/ \E rate \in TaxRates : AddTax(rate)
           \/ \E t \in Transfers : Lower(t)
           \/ Start \/ UNCHANGED vars
  <2>1. ASSUME NEW r \in Requests, ReadDeposit(r) \/ Refuse(r) \/ Throw(r)
        PROVE  UNCHANGED <<lpc, seen, rows>>
    BY <2>1 DEF ReadDeposit, Refuse, Throw, db, listener
  <2>2. ASSUME NEW r \in Requests, Serve(r) PROVE UNCHANGED <<lpc, seen, rows>>
    BY <2>2 DEF Serve, RefuseAmount, Authorise, Enter, CreateAccounts, SaveWithdraw,
       ZeroDeposit, ReadTax, WriteTax, ReadState, WriteState, Finish, db, listener
  <2>3. CASE \/ \E rate \in TaxRates : AddTax(rate)
             \/ \E t \in Transfers : Lower(t)
             \/ Start \/ UNCHANGED vars
    <3>1. UNCHANGED <<lpc, seen, rows>>
      BY <2>3 DEF AddTax, Start, vars, db, listener, Lower, Apart
    <3> QED BY <1>5, <3>1
  <2> QED BY <1>5, <1>7, <2>1, <2>2, <2>3
<1> QED
  BY <1>1, <1>2, <1>3, <1>4, <1>6, <1>7 DEF Next, Apply

\* With a pipe that takes one payment at a time, depositHashes never turns a
\* payment away from a deposit that is being created, and no call waits in vain.
THEOREM SerialPipeOrphansNone == Spec => []NoneOrphaned
<1>1. Init => SerialInv
  BY DEF Init, SerialInv, InCall, Applying
<1>2. TypeOK /\ SerialInv /\ [Next]_vars => SerialInv'
  BY SerialStep
<1>3. SerialInv => NoneOrphaned
  BY DEF SerialInv, NoneOrphaned
<1> QED
  BY <1>1, <1>2, <1>3, TypeCorrect, PTL DEF Spec

-------------------------------------------------------------------------------
(* Exact accounting of undisturbed deposits                                *)

\* Nothing that Account(h) looks at has changed for the worse.
LEMMA AccountFrame ==
  ASSUME NEW h, Account(h),
         payments'[h] = payments[h], deposits'[h] = deposits[h],
         withdraws'[h] = withdraws[h],
         \A p \in Payments : HashOf[p] = h =>
           /\ lpc'[p] \in Applying <=> lpc[p] \in Applying
           /\ lpc[p] \in Applying =>
                /\ lread'[p] = lread[p]
                /\ lpc'[p] = "create" <=> lpc[p] = "create"
                /\ lpc'[p] \in {"tax", "credit"} <=> lpc[p] \in {"tax", "credit"},
         \A r \in Requests : ClaimOf[r] = h =>
           /\ wpc'[r] \in Claiming <=> wpc[r] \in Claiming
           /\ wpc[r] \in Claiming =>
                /\ dep'[r] = dep[r]
                /\ wpc'[r] = "zero" <=> wpc[r] = "zero"
  PROVE  Account(h)'
<1>1. /\ \A p \in Payments : AtWork(p, h)' <=> AtWork(p, h)
      /\ \A r \in Requests : Claims(r, h)' <=> Claims(r, h)
  BY DEF AtWork, Claims
<1>2. Alone(h)'
  BY <1>1 DEF Account, Alone
<1>3. \A p \in Payments : AtWork(p, h) => PaymentBalance(p, h)'
  BY DEF Account, PaymentBalance, AtWork
<1>4. \A r \in Requests : Claims(r, h) => ClaimBalance(r, h)'
  BY DEF Account, ClaimBalance, Claims
<1>5. Quiet(h)' <=> Quiet(h)
  BY <1>1 DEF Quiet, Busy, AtWork, Claims
<1> QED BY <1>1, <1>2, <1>3, <1>4, <1>5 DEF Account

\* The only call at work on h ends, and leaves the accounts balanced.
LEMMA AccountSettled ==
  ASSUME NEW h,
         \A p \in Payments : ~AtWork(p, h)',
         \A r \in Requests : ~Claims(r, h)',
         payments'[h] = deposits'[h].total + withdraws'[h].total
  PROVE  Account(h)'
BY DEF Account, Alone

\* A payment is the only one at work on h.
LEMMA AccountPayment ==
  ASSUME NEW h, NEW p \in Payments,
         \A q \in Payments \ {p} : ~AtWork(q, h)',
         \A r \in Requests : ~Claims(r, h)',
         AtWork(p, h)', PaymentBalance(p, h)'
  PROVE  Account(h)'
<1>1. ~Quiet(h)'
  BY DEF Quiet, Busy, AtWork
<1> QED BY <1>1 DEF Account, Alone

\* A request is.
LEMMA AccountClaim ==
  ASSUME NEW h, NEW r \in Requests,
         \A p \in Payments : ~AtWork(p, h)',
         \A s \in Requests \ {r} : ~Claims(s, h)',
         Claims(r, h)', ClaimBalance(r, h)'
  PROVE  Account(h)'
<1>1. ~Quiet(h)'
  BY DEF Quiet, Busy, Claims
<1> QED BY <1>1 DEF Account, Alone

LEMMA AccountApply ==
  ASSUME TypeOK, RowsInv, NEW p \in Payments,
         \/ Receive(p) \/ Miss(p) \/ Apply(p) \/ CreateFails(p) \/ CallFails(p),
         NEW h \in Hashes, h \notin disturbed', Account(h)
  PROVE  Account(h)'
<1> DEFINE Others == /\ \A q \in Payments \ {p} : ~AtWork(q, h)
                     /\ \A r \in Requests : ~Claims(r, h)
<1>0. /\ \A q \in Payments : HashOf[q] \in Hashes /\ ValueOf[q] \in Nat
      /\ \A g \in Hashes : /\ payments[g] \in Nat /\ deposits[g].total \in Nat
                           /\ withdraws[g].total \in Nat
      /\ lpc = [q \in Payments |-> lpc[q]]
      /\ lread = [q \in Payments |-> lread[q]]
      /\ payments = [g \in Hashes |-> payments[g]]
      /\ deposits = [g \in Hashes |-> deposits[g]]
  BY ConstantsType DEF TypeOK, Numbers
<1>1. /\ UNCHANGED <<withdraws, wpc, dep>>
      /\ \A q \in Payments \ {p} : lpc'[q] = lpc[q] /\ lread'[q] = lread[q]
      /\ \A g \in Hashes \ {HashOf[p]} :
           payments'[g] = payments[g] /\ deposits'[g] = deposits[g]
  BY <1>0 DEF Receive, Miss, Apply, Lookup, CreateRow, CreateFails, SavePayment,
     SaveOrphan, ReadRate, Credit, CallFails
<1>2. CASE HashOf[p] # h
  BY <1>1, <1>2, AccountFrame
<1>3. ASSUME HashOf[p] = h, AtWork(p, h)
      PROVE  Others /\ PaymentBalance(p, h)
  BY <1>3 DEF Account, Alone
<1>4. ASSUME Others
      PROVE  /\ \A q \in Payments \ {p} : ~AtWork(q, h)'
             /\ \A r \in Requests : ~Claims(r, h)'
  BY <1>1, <1>4 DEF AtWork, Claims
<1>5. CASE HashOf[p] = h /\ (Receive(p) \/ Miss(p))
  BY <1>1, <1>5, <1>0, AccountFrame DEF Receive, Miss, Applying
<1>6. CASE HashOf[p] = h /\ Lookup(p)
  <2>1. UNCHANGED <<payments, deposits>>
    BY <1>6 DEF Lookup, FirstSeen
  <2>2. CASE lpc'[p] = "orphan"
    BY <1>0, <1>1, <1>6, <2>1, <2>2, AccountFrame DEF Lookup, Applying
  <2>3. CASE lpc'[p] # "orphan"
    <3>1. /\ lpc'[p] \in {"save", "create"}
          /\ lpc'[p] = "save" => lread'[p] = deposits[h].total
          /\ Join(h)
      BY <1>0, <1>6, <2>3 DEF Lookup, FirstSeen
    <3>2. ~Busy(h)
      BY <3>1 DEF Join
    <3>3. Others
      BY <3>2 DEF Busy, AtWork, Claims
    <3>4. PaymentBalance(p, h)'
      BY <1>0, <1>1, <2>1, <3>1, <3>2 DEF Account, Quiet, PaymentBalance
    <3>5. AtWork(p, h)'
      BY <1>6, <3>1 DEF AtWork, Applying
    <3> QED BY <1>4, <3>3, <3>4, <3>5, AccountPayment
  <2> QED BY <2>2, <2>3
<1>7. CASE HashOf[p] = h /\ CreateRow(p)
  <2>1. /\ lpc[p] = "create" /\ lpc'[p] = "save" /\ lread'[p] = 0
        /\ deposits'[h] = Zero /\ payments' = payments
    BY <1>0, <1>7 DEF CreateRow
  <2>2. AtWork(p, h) /\ AtWork(p, h)'
    BY <1>7, <2>1 DEF AtWork, Applying
  <2>3. deposits[h] = Zero
    BY <1>7, <2>1 DEF RowsInv
  <2>4. PaymentBalance(p, h)'
    BY <1>1, <1>3, <1>7, <2>1, <2>2, <2>3 DEF PaymentBalance, Zero
  <2> QED BY <1>3, <1>4, <1>7, <2>2, <2>4, AccountPayment
<1>8. CASE HashOf[p] = h /\ SavePayment(p)
  <2>1. /\ lpc[p] = "save" /\ lpc'[p] = "tax" /\ lread'[p] = lread[p]
        /\ deposits' = deposits /\ payments'[h] = payments[h] + ValueOf[p]
    BY <1>0, <1>8 DEF SavePayment
  <2>2. AtWork(p, h) /\ AtWork(p, h)'
    BY <1>8, <2>1 DEF AtWork, Applying
  <2>3. PaymentBalance(p, h)'
    BY <1>0, <1>1, <1>3, <1>8, <2>1, <2>2 DEF PaymentBalance
  <2> QED BY <1>3, <1>4, <1>8, <2>2, <2>3, AccountPayment
<1>9. CASE HashOf[p] = h /\ ReadRate(p)
  BY <1>0, <1>1, <1>9, AccountFrame DEF ReadRate, Applying
<1>10. CASE HashOf[p] = h /\ Credit(p)
  <2>1. /\ lpc[p] = "credit" /\ lpc'[p] = "credited" /\ payments' = payments
        /\ deposits'[h] = Numbered(lread[p] + ValueOf[p], lrate[p])
    BY <1>0, <1>10 DEF Credit, NewTotal
  <2>2. AtWork(p, h) /\ ~AtWork(p, h)'
    BY <1>10, <2>1 DEF AtWork, Applying
  <2>3. deposits'[h].total = deposits[h].total + ValueOf[p]
    BY <1>3, <1>10, <2>1, <2>2 DEF PaymentBalance, Numbered
  <2>4. payments'[h] = deposits'[h].total + withdraws'[h].total
    BY <1>0, <1>1, <1>3, <1>10, <2>1, <2>2, <2>3 DEF PaymentBalance
  <2> QED BY <1>3, <1>4, <1>10, <2>2, <2>4, AccountSettled
<1>11. CASE HashOf[p] = h /\ (CreateFails(p) \/ CallFails(p) \/ SaveOrphan(p))
  <2>1. lpc[p] \in {"create", "save", "orphan"} /\ lpc'[p] \in {"orphan", "failed"}
    BY <1>0, <1>11 DEF CreateFails, CallFails, SaveOrphan
  <2>2. UNCHANGED <<payments, deposits>>
    BY <1>11 DEF CreateFails, CallFails, SaveOrphan
  <2>3. CASE lpc[p] = "orphan"
    BY <1>1, <1>11, <2>1, <2>2, <2>3, AccountFrame DEF Applying
  <2>4. CASE lpc[p] # "orphan"
    <3>1. AtWork(p, h) /\ ~AtWork(p, h)'
      BY <1>11, <2>1, <2>4 DEF AtWork, Applying
    <3>2. payments'[h] = deposits'[h].total + withdraws'[h].total
      BY <1>0, <1>1, <1>3, <1>11, <2>1, <2>2, <2>4, <3>1 DEF PaymentBalance
    <3> QED BY <1>3, <1>4, <1>11, <3>1, <3>2, AccountSettled
  <2> QED BY <2>3, <2>4
<1> QED
  BY <1>2, <1>5, <1>6, <1>7, <1>8, <1>9, <1>10, <1>11 DEF Apply

LEMMA AccountServe ==
  ASSUME TypeOK, QueueInv, NEW r \in Requests,
         ReadDeposit(r) \/ Refuse(r) \/ Serve(r) \/ Throw(r),
         NEW h \in Hashes, h \notin disturbed', Account(h)
  PROVE  Account(h)'
<1>0. /\ \A s \in Requests : ClaimOf[s] \in Hashes
      /\ \A g \in Hashes : /\ payments[g] \in Nat /\ deposits[g].total \in Nat
                           /\ withdraws[g].total \in Nat
      /\ wpc = [s \in Requests |-> wpc[s]]
      /\ dep = [s \in Requests |-> dep[s]]
      /\ deposits = [g \in Hashes |-> deposits[g]]
      /\ withdraws = [g \in Hashes |-> withdraws[g]]
  BY ConstantsType DEF TypeOK, Numbers
<1>1. /\ UNCHANGED <<payments, lpc, lread>>
      /\ \A s \in Requests \ {r} : dep'[s] = dep[s]
      /\ \A g \in Hashes \ {ClaimOf[r]} :
           withdraws'[g] = withdraws[g] /\ deposits'[g] = deposits[g]
  BY <1>0 DEF ReadDeposit, Refuse, Serve, Throw, RefuseAmount, Authorise, Ask, Enter,
     CreateAccounts, SaveWithdraw, ZeroDeposit, Emptied, ReadTax, WriteTax, ReadState,
     WriteState, Finish
\* The request at the head of the queue may be granted the mutex.
<1>2. \A s \in Requests \ {r} :
        wpc'[s] = wpc[s] \/ (wpc[s] = "waiting" /\ wpc'[s] = "granted")
  <2>1. CASE Finish(r) \/ Throw(r)
    <3>1. PICK outcome \in {"done", "thrown"} : Leave(r, outcome)
      BY <2>1 DEF Finish, Throw
    <3>2. queue # <<>> => Head(queue) \in Requests /\ wpc[Head(queue)] = "waiting"
      <4>1. queue # <<>> => 1 \in 1..Len(queue) /\ Head(queue) = queue[1]
        BY HeadTailProperties DEF TypeOK
      <4> QED BY <4>1, ElementOfSeq DEF QueueInv, TypeOK
    <3> QED BY <1>0, <3>1, <3>2 DEF Leave
  <2>2. CASE ~(Finish(r) \/ Throw(r))
    BY <1>0, <2>2 DEF ReadDeposit, Refuse, Serve, RefuseAmount, Authorise, Ask, Enter,
       CreateAccounts, SaveWithdraw, ZeroDeposit, Emptied, ReadTax, WriteTax, ReadState,
       WriteState
  <2> QED BY <2>1, <2>2
<1>3. /\ \A s \in Requests \ {r} :
           /\ wpc'[s] \in Claiming <=> wpc[s] \in Claiming
           /\ wpc'[s] = "zero" <=> wpc[s] = "zero"
  BY <1>2 DEF Claiming
<1> DEFINE Others == /\ \A p \in Payments : ~AtWork(p, h)
                     /\ \A s \in Requests \ {r} : ~Claims(s, h)
<1>4. ASSUME ClaimOf[r] = h, Claims(r, h)
      PROVE  Others /\ ClaimBalance(r, h)
  BY <1>4 DEF Account, Alone
<1>5. ASSUME Others
      PROVE  /\ \A p \in Payments : ~AtWork(p, h)'
             /\ \A s \in Requests \ {r} : ~Claims(s, h)'
  BY <1>1, <1>3, <1>5 DEF AtWork, Claims
\* r is about another deposit, or does nothing that the accounts of h see.
<1>6. ASSUME \/ ClaimOf[r] # h
             \/ /\ wpc[r] \notin Claiming /\ wpc'[r] \notin Claiming
                /\ UNCHANGED <<withdraws, deposits>>
             \/ /\ wpc[r] \in Claiming \ {"zero"} /\ wpc'[r] \in Claiming \ {"zero"}
                /\ UNCHANGED <<withdraws, deposits, dep>>
      PROVE  Account(h)'
  <2>1. withdraws'[h] = withdraws[h] /\ deposits'[h] = deposits[h]
    BY <1>1, <1>6
  <2>2. ASSUME NEW s \in Requests, ClaimOf[s] = h
        PROVE  /\ wpc'[s] \in Claiming <=> wpc[s] \in Claiming
               /\ wpc[s] \in Claiming =>
                    /\ dep'[s] = dep[s]
                    /\ wpc'[s] = "zero" <=> wpc[s] = "zero"
    BY <1>1, <1>3, <1>6, <2>2
  <2> QED BY <1>1, <2>1, <2>2, AccountFrame
<1>7. CASE ReadDeposit(r) /\ ClaimOf[r] = h
  <2>1. /\ wpc'[r] = "checking" /\ dep'[r] = deposits[h] /\ Join(h)
        /\ UNCHANGED <<withdraws, deposits>>
    BY <1>0, <1>7 DEF ReadDeposit
  <2>2. ~Busy(h)
    BY <2>1 DEF Join
  <2>3. Others
    BY <2>2 DEF Busy, AtWork, Claims
  <2>4. ClaimBalance(r, h)'
    BY <1>0, <1>1, <2>1, <2>2 DEF Account, Quiet, ClaimBalance
  <2>5. Claims(r, h)'
    BY <1>7, <2>1 DEF Claims, Claiming
  <2> QED BY <1>5, <2>3, <2>4, <2>5, AccountClaim
<1>8. CASE Refuse(r)
  BY <1>0, <1>6, <1>8 DEF Refuse, Claiming
<1>9. CASE Authorise(r) \/ Enter(r) \/ CreateAccounts(r)
  <2>1. /\ wpc[r] \in Claiming \ {"zero"} /\ wpc'[r] \in Claiming \ {"zero"}
        /\ UNCHANGED <<withdraws, deposits, dep>>
    BY <1>0, <1>9 DEF Authorise, Ask, Enter, CreateAccounts, Claiming
  <2> QED BY <1>6, <2>1
<1>10. CASE SaveWithdraw(r) /\ ClaimOf[r] = h
  <2>1. /\ wpc[r] = "record" /\ wpc'[r] = "zero" /\ UNCHANGED <<deposits, dep>>
        /\ withdraws'[h].total = withdraws[h].total + dep[r].total
    BY <1>0, <1>10 DEF SaveWithdraw
  <2>2. Claims(r, h) /\ Claims(r, h)'
    BY <1>10, <2>1 DEF Claims, Claiming
  <2>3. ClaimBalance(r, h)'
    BY <1>0, <1>1, <1>4, <1>10, <2>1, <2>2 DEF ClaimBalance
  <2> QED BY <1>4, <1>5, <1>10, <2>2, <2>3, AccountClaim
<1>11. CASE ZeroDeposit(r) /\ ClaimOf[r] = h
  <2>1. /\ wpc[r] = "zero" /\ wpc'[r] = "readtax" /\ UNCHANGED withdraws
        /\ deposits'[h] = Zero
    BY <1>0, <1>11 DEF ZeroDeposit, Emptied
  <2>2. Claims(r, h) /\ ~Claims(r, h)'
    BY <1>11, <2>1 DEF Claims, Claiming
  <2>3. payments'[h] = deposits'[h].total + withdraws'[h].total
    BY <1>0, <1>1, <1>4, <1>11, <2>1, <2>2 DEF ClaimBalance, Zero
  <2> QED BY <1>4, <1>5, <1>11, <2>2, <2>3, AccountSettled
<1>12. CASE ReadTax(r) \/ WriteTax(r) \/ ReadState(r) \/ WriteState(r)
  <2>1. /\ wpc[r] \notin Claiming /\ wpc'[r] \notin Claiming
        /\ UNCHANGED <<withdraws, deposits>>
    BY <1>0, <1>12 DEF ReadTax, WriteTax, ReadState, WriteState, Claiming
  <2> QED BY <1>6, <2>1
<1>13. CASE RefuseAmount(r) /\ ClaimOf[r] = h
  <2>1. /\ wpc[r] = "checking" /\ wpc'[r] = "refused"
        /\ UNCHANGED <<withdraws, deposits>>
    BY <1>0, <1>13 DEF RefuseAmount
  <2>2. Claims(r, h) /\ ~Claims(r, h)'
    BY <1>13, <2>1 DEF Claims, Claiming
  <2>3. payments'[h] = deposits'[h].total + withdraws'[h].total
    BY <1>0, <1>1, <1>4, <1>13, <2>1, <2>2 DEF ClaimBalance
  <2> QED BY <1>4, <1>5, <1>13, <2>2, <2>3, AccountSettled
<1>14. CASE (Finish(r) \/ Throw(r)) /\ ClaimOf[r] = h
  <2>1. PICK outcome \in {"done", "thrown"} : Leave(r, outcome)
    BY <1>14 DEF Finish, Throw
  <2>2. wpc[r] \in Section /\ UNCHANGED <<withdraws, deposits>>
    BY <1>14 DEF Finish, Throw, Section
  <2>3. queue # <<>> => Head(queue) # r
    <3>1. queue # <<>> => 1 \in 1..Len(queue) /\ Head(queue) = queue[1]
      BY HeadTailProperties DEF TypeOK
    <3> QED BY <2>2, <3>1 DEF QueueInv, Section
  <2>4. wpc'[r] = outcome
    BY <1>0, <2>1, <2>3 DEF Leave
  <2>5. CASE wpc[r] \notin Claiming
    BY <1>6, <2>2, <2>4, <2>5 DEF Claiming
  <2>6. CASE wpc[r] \in Claiming
    <3>1. Claims(r, h) /\ ~Claims(r, h)' /\ wpc[r] # "zero"
      BY <1>14, <2>4, <2>6 DEF Claims, Claiming, Finish, Throw
    <3>2. payments'[h] = deposits'[h].total + withdraws'[h].total
      BY <1>0, <1>1, <1>4, <1>14, <2>2, <3>1 DEF ClaimBalance
    <3> QED BY <1>4, <1>5, <1>14, <3>1, <3>2, AccountSettled
  <2> QED BY <2>5, <2>6
<1> QED
  BY <1>6, <1>7, <1>8, <1>9, <1>10, <1>11, <1>12, <1>13, <1>14 DEF Serve

\* A crash ends every call; the deposits it leaves unbalanced are disturbed.
LEMMA AccountCrash ==
  ASSUME TypeOK, Crash, NEW h \in Hashes, h \notin disturbed', Account(h)
  PROVE  Account(h)'
<1>1. /\ UNCHANGED <<payments, deposits, withdraws>>
      /\ \A p \in Payments : ~AtWork(p, h)'
      /\ \A r \in Requests : ~Claims(r, h)'
  BY DEF Crash, AtWork, Claims, Applying, InCall, Claiming
<1>2. /\ \A p \in Payments : AtWork(p, h) => lpc[p] \notin {"tax", "credit"}
      /\ \A r \in Requests : Claims(r, h) => wpc[r] # "zero"
  BY DEF Crash, AtWork, Claims
<1>3. payments[h] \in Nat /\ deposits[h].total \in Nat /\ withdraws[h].total \in Nat
  BY DEF TypeOK, Numbers
<1>4. payments[h] = deposits[h].total + withdraws[h].total
  <2>1. CASE Quiet(h)
    BY <2>1 DEF Account
  <2>2. CASE ~Quiet(h)
    <3>1. \/ \E p \in Payments : AtWork(p, h) /\ PaymentBalance(p, h)
          \/ \E r \in Requests : Claims(r, h) /\ ClaimBalance(r, h)
      BY <2>2 DEF Account, Quiet, Busy, AtWork, Claims
    <3> QED BY <1>2, <1>3, <3>1 DEF PaymentBalance, ClaimBalance
  <2> QED BY <2>1, <2>2
<1> QED BY <1>1, <1>4, AccountSettled

LEMMA DisturbedGrows == ASSUME [Next]_vars PROVE disturbed \subseteq disturbed'
<1>1. ASSUME NEW p \in Payments,
             Receive(p) \/ Miss(p) \/ Apply(p) \/ CreateFails(p) \/ CallFails(p)
      PROVE  disturbed \subseteq disturbed'
  BY <1>1 DEF Receive, Miss, Apply, Lookup, CreateRow, CreateFails, SavePayment,
     SaveOrphan, ReadRate, Credit, CallFails, Join
<1>2. ASSUME NEW r \in Requests, ReadDeposit(r) \/ Refuse(r) \/ Throw(r)
      PROVE  disturbed \subseteq disturbed'
  BY <1>2 DEF ReadDeposit, Refuse, Throw, Join
<1>3. ASSUME NEW r \in Requests, Serve(r)
      PROVE  disturbed \subseteq disturbed'
  BY <1>3 DEF Serve, RefuseAmount, Authorise, Enter, CreateAccounts, SaveWithdraw,
     ZeroDeposit, ReadTax, WriteTax, ReadState, WriteState, Finish
<1>4. CASE \/ \E rate \in TaxRates : AddTax(rate)
           \/ \E t \in Transfers : Lower(t)
           \/ Crash \/ Start \/ UNCHANGED vars
  BY <1>4 DEF AddTax, Lower, Apart, Crash, Start, vars
<1> QED
  BY <1>1, <1>2, <1>3, <1>4 DEF Next

LEMMA AccountStep ==
  ASSUME TypeOK, RowsInv, QueueInv, AccountInv, [Next]_vars
  PROVE  AccountInv'
<1>1. disturbed \subseteq disturbed'
  BY DisturbedGrows
<1> SUFFICES ASSUME NEW h \in Hashes, h \notin disturbed'
             PROVE  Account(h)'
  BY DEF AccountInv
<1>2. Account(h)
  BY <1>1 DEF AccountInv
<1>3. CASE \E p \in Payments : \/ Receive(p) \/ Miss(p) \/ Apply(p)
                               \/ CreateFails(p) \/ CallFails(p)
  BY <1>2, <1>3, AccountApply
<1>4. CASE \E r \in Requests :
             ReadDeposit(r) \/ Refuse(r) \/ Serve(r) \/ Throw(r)
  BY <1>2, <1>4, AccountServe
<1>5. CASE Crash
  BY <1>2, <1>5, AccountCrash
<1>6. CASE \/ \E rate \in TaxRates : AddTax(rate)
           \/ \E t \in Transfers : Lower(t)
           \/ Start \/ UNCHANGED vars
  <2>1. UNCHANGED <<payments, deposits, withdraws, lpc, lread, wpc, dep>>
    BY <1>6 DEF AddTax, Start, vars, Lower, Apart
  <2> QED BY <1>2, <2>1, AccountFrame
<1> QED
  BY <1>3, <1>4, <1>5, <1>6 DEF Next

LEMMA AccountAlways == Spec => []AccountInv
<1>1. Init => RowsInv /\ QueueInv
  BY ConstantsType DEF Init, RowsInv, QueueInv, OneInSection, Section
<1>2. Init => AccountInv
  BY DEF Init, AccountInv, Account, Alone, AtWork, Claims, Applying, Claiming, Zero
<1>3. TypeOK /\ RowsInv /\ [Next]_vars => RowsInv'
  BY RowsStep
<1>4. TypeOK /\ QueueInv /\ [Next]_vars => QueueInv'
  BY QueueStep
<1>5. TypeOK /\ RowsInv /\ QueueInv /\ AccountInv /\ [Next]_vars => AccountInv'
  BY AccountStep
<1> QED
  BY <1>1, <1>2, <1>3, <1>4, <1>5, TypeCorrect, PTL DEF Spec

\* As long as no two calls overlap on a deposit and none stops between two of
\* its writes, what was paid to it is in it or has been paid out, to the unit:
\* the overlaps and the half done calls are all that can go wrong.
THEOREM AccountsBalance == Spec => []ExactAccounting
<1>1. AccountInv => ExactAccounting
  BY DEF AccountInv, Account, ExactAccounting
<1> QED
  BY <1>1, AccountAlways, PTL

\* Nor can anything else make the guide wrong (doc/GUIDE.md:60 and :64): a request
\* that records a payout of an undisturbed deposit records all the numbers it has,
\* and what was paid out of one is not in it once more.
THEOREM GuideHoldsUndisturbed ==
  Spec => [](\A h \in Hashes \ disturbed :
               /\ \A r \in Requests :
                    ClaimOf[r] = h /\ wpc[r] = "record" => dep[r] = deposits[h]
               /\ Quiet(h) => deposits[h].total + withdraws[h].total <= payments[h])
<1> DEFINE Holds ==
      \A h \in Hashes \ disturbed :
        /\ \A r \in Requests :
             ClaimOf[r] = h /\ wpc[r] = "record" => dep[r] = deposits[h]
        /\ Quiet(h) => deposits[h].total + withdraws[h].total <= payments[h]
<1>1. TypeOK /\ AccountInv => Holds
  BY DEF AccountInv, Account, Claims, Claiming, ClaimBalance, TypeOK, Numbers
<1> HIDE DEF Holds
<1>2. Spec => []Holds
  BY <1>1, AccountAlways, TypeCorrect, PTL
<1>3. QED
  BY <1>2 DEF Holds

-------------------------------------------------------------------------------
(* The mutex implements the first-come first-served lock                   *)

Inside(r) == wpc[r] \in Section \cup {"granted"}

LEMMA HolderIs ==
  ASSUME OneInSection
  PROVE  /\ \A r \in Requests : Inside(r) => Holder = r
         /\ (\A r \in Requests : ~Inside(r)) => Holder = NoRequest
         /\ Holder # NoRequest <=> \E r \in Requests : Inside(r)
         /\ locked <=> Holder # NoRequest
<1>1. NoRequest \notin Requests
  BY ConstantsAssumption DEF ConstantsAssumption
<1>2. ASSUME NEW r \in Requests, Inside(r) PROVE Holder = r
  BY <1>2 DEF OneInSection, Holder, Inside
<1>3. ASSUME \A r \in Requests : ~Inside(r) PROVE Holder = NoRequest
  BY <1>3 DEF Holder, Inside
<1>4. locked <=> \E r \in Requests : Inside(r)
  BY DEF OneInSection, Inside
<1> QED BY <1>1, <1>2, <1>3, <1>4

\* The same of the next state.
LEMMA HolderIsNext ==
  ASSUME OneInSection'
  PROVE  /\ \A r \in Requests : Inside(r)' => Holder' = r
         /\ (\A r \in Requests : ~Inside(r)') => Holder' = NoRequest
<1>1. ASSUME NEW r \in Requests, Inside(r)' PROVE Holder' = r
  BY <1>1 DEF OneInSection, Holder, Inside
<1>2. ASSUME \A r \in Requests : ~Inside(r)' PROVE Holder' = NoRequest
  BY <1>2 DEF Holder, Inside
<1> QED BY <1>1, <1>2

LEMMA HolderKept ==
  ASSUME OneInSection, OneInSection',
         \A r \in Requests : Inside(r)' <=> Inside(r)
  PROVE  Holder' = Holder
<1>1. CASE \E r \in Requests : Inside(r)
  BY <1>1, HolderIs, HolderIsNext
<1>2. CASE \A r \in Requests : ~Inside(r)
  BY <1>2, HolderIs, HolderIsNext
<1> QED BY <1>1, <1>2

\* Asking for the mutex is Acquire.
LEMMA AuthoriseAcquires ==
  ASSUME TypeOK, QueueInv, QueueInv', NEW r \in Requests, Authorise(r)
  PROVE  Lock!Acquire(r)
<1>1. OneInSection /\ OneInSection'
  BY DEF QueueInv
<1>2. wpc[r] = "checking" /\ ~Inside(r)
  BY DEF Authorise, Inside, Section
<1>3. Holder # r
  BY <1>1, <1>2, HolderIs, ConstantsAssumption DEF ConstantsAssumption
<1>4. \A i \in DOMAIN queue : queue[i] # r
  <2>1. DOMAIN queue = 1..Len(queue)
    BY DEF TypeOK
  <2> QED BY <1>2, <2>1 DEF QueueInv
<1>5. CASE ~locked
  <2>1. Holder = NoRequest /\ queue = <<>>
    BY <1>1, <1>5, HolderIs DEF OneInSection
  <2>2. queue' = queue /\ wpc' = [wpc EXCEPT ![r] = "granted"]
    BY <1>5 DEF Authorise, Ask
  <2>3. Inside(r)'
    BY <2>2 DEF Inside, TypeOK
  <2>4. Holder' = r
    BY <1>1, <2>3, HolderIsNext
  <2> QED BY <1>3, <1>4, <2>1, <2>2, <2>4 DEF Lock!Acquire
<1>6. CASE locked
  <2>1. Holder # NoRequest
    BY <1>1, <1>6, HolderIs
  <2>2. queue' = Append(queue, r) /\ wpc' = [wpc EXCEPT ![r] = "waiting"]
    BY <1>6 DEF Authorise, Ask
  <2>3. \A s \in Requests : Inside(s)' <=> Inside(s)
    BY <1>2, <2>2 DEF Inside, TypeOK, Section
  <2>4. Holder' = Holder
    BY <1>1, <2>3, HolderKept
  <2> QED BY <1>3, <1>4, <2>1, <2>2, <2>4 DEF Lock!Acquire
<1> QED BY <1>5, <1>6

\* Leaving the section, with an answer or an error, is Release.
LEMMA LeaveReleases ==
  ASSUME TypeOK, QueueInv, QueueInv', NEW r \in Requests,
         NEW outcome \in {"done", "thrown"}, wpc[r] \in Section, Leave(r, outcome)
  PROVE  Lock!Release
<1>1. OneInSection /\ OneInSection'
  BY DEF QueueInv
<1>2. Inside(r) /\ \A s \in Requests \ {r} : ~Inside(s)
  BY <1>1 DEF OneInSection, Inside
<1>3. Holder # NoRequest
  BY <1>1, <1>2, HolderIs
<1>4. CASE queue = <<>>
  <2>1. queue' = queue /\ wpc' = [wpc EXCEPT ![r] = outcome]
    BY <1>4 DEF Leave
  <2>2. \A s \in Requests : ~Inside(s)'
    BY <1>2, <2>1 DEF Inside, TypeOK, Section
  <2> QED BY <1>1, <1>3, <1>4, <2>1, <2>2, HolderIsNext DEF Lock!Release
<1>5. CASE queue # <<>>
  <2>1. PICK next \in Requests : next = Head(queue)
    BY <1>5, HeadTailProperties DEF TypeOK
  <2>2. /\ queue' = Tail(queue)
        /\ wpc' = [wpc EXCEPT ![r] = outcome, ![next] = "granted"]
    BY <1>5, <2>1 DEF Leave
  <2>3. Inside(next)'
    BY <2>2 DEF Inside, TypeOK
  <2>4. Holder' = next
    BY <1>1, <2>3, HolderIsNext
  <2> QED BY <1>3, <1>5, <2>1, <2>2, <2>4 DEF Lock!Release
<1> QED BY <1>4, <1>5

\* A step that keeps the queue, and everybody inside or outside, is a stutter.
LEMMA LockStutter ==
  ASSUME QueueInv, QueueInv', UNCHANGED queue,
         \A r \in Requests : Inside(r)' <=> Inside(r)
  PROVE  UNCHANGED Lock!lockVars
<1>1. Holder' = Holder
  BY HolderKept DEF QueueInv
<1> QED BY <1>1 DEF Lock!lockVars

LEMMA LockStep ==
  ASSUME TypeOK, QueueInv, QueueInv', [Next]_vars
  PROVE  [Lock!LockNext]_Lock!lockVars
<1>1. ASSUME NEW r \in Requests, Authorise(r)
      PROVE  Lock!LockNext
  BY <1>1, AuthoriseAcquires DEF Lock!LockNext
<1>2. ASSUME NEW r \in Requests, Finish(r) \/ Throw(r)
      PROVE  Lock!LockNext
  BY <1>2, LeaveReleases DEF Finish, Throw, Section, Lock!LockNext
<1>3. CASE Crash
  <2>1. queue' = <<>> /\ \A r \in Requests : ~Inside(r)'
    BY <1>3 DEF Crash, Inside, Claiming, Section
  <2>2. Holder' = NoRequest
    BY <2>1, HolderIsNext DEF QueueInv
  <2> QED BY <2>1, <2>2 DEF Lock!LockNext, Lock!Reset
<1>4. ASSUME NEW r \in Requests,
             \/ ReadDeposit(r) \/ Refuse(r) \/ RefuseAmount(r) \/ Enter(r)
             \/ CreateAccounts(r) \/ SaveWithdraw(r) \/ ZeroDeposit(r)
             \/ ReadTax(r) \/ WriteTax(r) \/ ReadState(r) \/ WriteState(r)
      PROVE  UNCHANGED Lock!lockVars
  <2>1. /\ UNCHANGED queue
        /\ \/ \E a \in {"checking", "refused"} :
                 wpc' = [wpc EXCEPT ![r] = a] /\ wpc[r] \in {"idle", "checking"}
           \/ \E a \in Section :
                 wpc' = [wpc EXCEPT ![r] = a] /\ wpc[r] \in Section \cup {"granted"}
    BY <1>4 DEF ReadDeposit, Refuse, RefuseAmount, Enter, CreateAccounts,
       SaveWithdraw, ZeroDeposit, Emptied, ReadTax, WriteTax, ReadState, WriteState, Section
  <2>2. \A s \in Requests : Inside(s)' <=> Inside(s)
    BY <2>1 DEF Inside, TypeOK, Section
  <2> QED BY <2>1, <2>2, LockStutter
<1>5. ASSUME UNCHANGED <<queue, wpc>>
      PROVE  UNCHANGED Lock!lockVars
  BY <1>5, LockStutter DEF Inside
<1>6. ASSUME \/ \E p \in Payments : \/ Receive(p) \/ Miss(p) \/ Apply(p)
                                    \/ CreateFails(p) \/ CallFails(p)
             \/ \E rate \in TaxRates : AddTax(rate)
             \/ \E t \in Transfers : Lower(t)
             \/ Start \/ UNCHANGED vars
      PROVE  UNCHANGED <<queue, wpc>>
  BY <1>6 DEF Receive, Miss, Apply, Lookup, CreateRow, SavePayment, SaveOrphan,
     ReadRate, Credit, CreateFails, CallFails, AddTax, Start, vars, Lower, Apart
<1>7. CASE \E r \in Requests :
             ReadDeposit(r) \/ Refuse(r) \/ Serve(r) \/ Throw(r)
  BY <1>1, <1>2, <1>4, <1>7 DEF Serve
<1> QED
  BY <1>3, <1>5, <1>6, <1>7 DEF Next

\* The controller's flag, queue and single releaser field are a first-come
\* first-served lock, through failures and crashes.
THEOREM MutexImplementsFifoLock == Spec => FifoMutex
<1>1. ASSUME Init PROVE Lock!LockInit /\ QueueInv
  <2>1. /\ ~locked /\ ~releaser /\ queue = <<>>
        /\ \A r \in Requests : ~Inside(r)
    BY <1>1 DEF Init, Section, Inside
  <2>2. OneInSection
    BY <2>1 DEF OneInSection, Inside
  <2>3. QueueInv
    BY <2>1, <2>2 DEF QueueInv
  <2> QED BY <2>1, <2>2, <2>3, HolderIs DEF Lock!LockInit
<1>2. TypeOK /\ QueueInv /\ [Next]_vars => QueueInv'
  BY QueueStep
<1>3. TypeOK /\ QueueInv /\ QueueInv' /\ [Next]_vars
        => [Lock!LockNext]_Lock!lockVars
  BY LockStep
<1>4. Spec => Lock!LockSpec
  BY <1>1, <1>2, <1>3, TypeCorrect, PTL DEF Spec, Lock!LockSpec
<1> QED
  BY <1>4, MutualExclusion, NobodyIsForgotten, PTL DEF FifoMutex

-------------------------------------------------------------------------------
(* Undisturbed deposits are in escrow                                      *)

\* A deposit is both sound in what it may hold at all and exact until disturbed.
THEOREM DepositsAreSound == Spec => []DepositsSound
BY CreditsCovered, AccountsBalance, PTL DEF DepositsSound

\* A rate that is used was proposed, or is that of a state without taxes.
RatesInv ==
  /\ \A i \in 1..Len(taxes) : taxes[i].rate \in TaxRates
  /\ \A p \in Payments : lrate[p] \in TaxRates \cup {0}

LEMMA RatesStep ==
  ASSUME TypeOK, RatesInv, [Next]_vars
  PROVE  RatesInv'
<1>1. taxes \in Seq([rate : Int, revenue : Int]) /\ Len(taxes) \in Nat
  BY DEF TypeOK
<1>2. ASSUME NEW p \in Payments, ReadRate(p) PROVE RatesInv'
  <2>1. NewestRate \in TaxRates \cup {0}
    <3>1. CASE taxes = <<>>
      BY <3>1 DEF NewestRate
    <3>2. CASE taxes # <<>>
      <4>1. Len(taxes) \in 1..Len(taxes)
        BY <1>1, <3>2
      <4>2. QED
        BY <3>2, <4>1 DEF NewestRate, RatesInv
    <3>3. QED
      BY <3>1, <3>2
  <2>2. taxes' = taxes /\ lrate' = [lrate EXCEPT ![p] = NewestRate]
    BY <1>2 DEF ReadRate
  <2>3. QED
    BY <2>1, <2>2 DEF RatesInv, TypeOK
<1>3. ASSUME NEW r \in Requests, WriteTax(r) PROVE RatesInv'
  <2>1. lrate' = lrate
        /\ taxes' = [taxes EXCEPT ![tax[r]].revenue = wread[r] + dep[r].taxed]
    BY <1>3 DEF WriteTax
  <2>2. wread[r] + dep[r].taxed \in Int /\ tax[r] \in Nat
    BY DEF TypeOK, Numbers
  <2>3. taxes' \in Seq([rate : Int, revenue : Int])
    BY <1>1, <2>1, <2>2, RevenueWritten
  <2>4. Len(taxes') = Len(taxes)
    BY <1>1, <2>1, <2>3
  <2>5. ASSUME NEW i \in 1..Len(taxes) PROVE taxes'[i].rate = taxes[i].rate
    <3>1. taxes[i] \in [rate : Int, revenue : Int]
      BY <1>1, ElementOfSeq
    <3>2. i \in DOMAIN taxes
      BY <1>1
    <3>3. QED
      BY <2>1, <3>1, <3>2
  <2>6. QED
    BY <2>1, <2>4, <2>5 DEF RatesInv
<1>4. ASSUME NEW rate \in TaxRates, AddTax(rate) PROVE RatesInv'
  <2>1. taxes' = Append(taxes, NewTax(rate)) /\ lrate' = lrate
    BY <1>4 DEF AddTax
  <2>2. /\ Len(taxes') = Len(taxes) + 1
        /\ \A i \in 1..Len(taxes) : taxes'[i] = taxes[i]
        /\ taxes'[Len(taxes) + 1] = NewTax(rate)
    BY <2>1, ConstantsType, Appended
  <2>3. NewTax(rate).rate = rate
    BY DEF NewTax
  <2>4. QED
    BY <1>1, <2>1, <2>2, <2>3 DEF RatesInv
<1>5. CASE UNCHANGED <<taxes, lrate>>
  BY <1>5 DEF RatesInv
<1>6. QED
  BY <1>2, <1>3, <1>4, <1>5 DEF Next, vars, Receive, Miss, Apply, Lookup, CreateRow,
     CreateFails, SavePayment, SaveOrphan, Credit, CallFails, ReadDeposit, Refuse,
     Serve, Throw, RefuseAmount, Authorise, Enter, CreateAccounts, SaveWithdraw,
     ZeroDeposit, ReadTax, ReadState, WriteState, Finish, Crash, Start, Lower, Apart

\* The balance of a deposit as the escrow has it.
Emptying(h) == \E r \in Requests : ClaimOf[r] = h /\ wpc[r] = "zero"
Held == [h \in Hashes |-> IF Emptying(h) THEN Zero ELSE deposits[h]]

\* The steps of the escrow, in terms of Held.
LEMMA PurseKeeps ==
  ASSUME NEW h \in Hashes, Held'[h] = Held[h], withdraws'[h] = withdraws[h]
  PROVE  Purse!EscrowStep(h)
BY DEF Purse!EscrowStep, Purse!Keep, Held, Emptying

LEMMA PursePaysIn ==
  ASSUME NEW h \in Hashes, NEW p \in Payments, NEW rate \in TaxRates \cup {0},
         Held'[h] = Numbered(Held[h].total + ValueOf[p], rate),
         withdraws'[h] = withdraws[h]
  PROVE  Purse!EscrowStep(h)
<1>1. Held'[h] = Purse!Split(Held[h].total + ValueOf[p], rate)
  BY DEF Purse!Split, Numbered, TaxOf
<1>2. Purse!PayIn(h)
  BY <1>1 DEF Purse!PayIn, Held, Emptying
<1>3. QED
  BY <1>2 DEF Purse!EscrowStep

LEMMA PursePaysOut ==
  ASSUME NEW h \in Hashes, Held'[h] = Zero,
         withdraws'[h] = [total |-> withdraws[h].total + Held[h].total,
                          taxed |-> withdraws[h].taxed + Held[h].taxed]
  PROVE  Purse!EscrowStep(h)
<1>1. Held'[h] = Purse!Empty
  BY DEF Purse!Empty, Zero
<1>2. Purse!PayOut(h)
  BY <1>1 DEF Purse!PayOut, Held, Emptying
<1>3. QED
  BY <1>2 DEF Purse!EscrowStep

LEMMA HeldIs ==
  ASSUME NEW h \in Hashes
  PROVE  /\ Held[h] = IF Emptying(h) THEN Zero ELSE deposits[h]
         /\ Held'[h] = IF Emptying(h)' THEN Zero ELSE deposits'[h]
BY DEF Held


\* The balance moves only with the row and with a request that is emptying it.
LEMMA HeldKept ==
  ASSUME NEW h \in Hashes, deposits'[h] = deposits[h],
         \A r \in Requests : ClaimOf[r] = h => (wpc'[r] = "zero" <=> wpc[r] = "zero")
  PROVE  Held'[h] = Held[h]
<1>1. Emptying(h)' <=> Emptying(h)
  BY DEF Emptying
<1>2. QED
  BY <1>1, HeldIs

\* A step of applyPayment, seen by a deposit that is undisturbed after it.
LEMMA EscrowApply ==
  ASSUME TypeOK, RowsInv, RatesInv, NEW h \in Hashes, Account(h),
         NEW p \in Payments,
         Receive(p) \/ Miss(p) \/ Apply(p) \/ CreateFails(p) \/ CallFails(p)
  PROVE  Purse!EscrowStep(h)
<1>1. UNCHANGED <<wpc, withdraws>>
  BY DEF Receive, Miss, Apply, Lookup, CreateRow, CreateFails, SavePayment,
     SaveOrphan, ReadRate, Credit, CallFails
<1>2. ASSUME deposits'[h] = deposits[h] PROVE Purse!EscrowStep(h)
  BY <1>1, <1>2, HeldKept, PurseKeeps
<1>3. CASE CreateRow(p)
  <2>1. HashOf[p] \notin rows /\ HashOf[p] \in Hashes
    BY <1>3, ConstantsType DEF RowsInv, CreateRow
  <2>2. deposits[HashOf[p]] = Zero
    BY <2>1 DEF RowsInv
  <2>3. deposits'[h] = deposits[h]
    BY <1>3, <2>1, <2>2 DEF CreateRow, TypeOK
  <2>4. QED
    BY <1>2, <2>3
<1>4. CASE Credit(p)
  <2>1. CASE HashOf[p] # h
    BY <1>2, <1>4, <2>1 DEF Credit, TypeOK
  <2>2. CASE HashOf[p] = h
    <3>1. AtWork(p, h)
      BY <1>4, <2>2 DEF AtWork, Credit, Applying
    <3>2. lread[p] = deposits[h].total /\ ~Emptying(h)
      BY <1>4, <3>1 DEF Account, Alone, PaymentBalance, Emptying, Claims, Claiming,
         Credit
    <3>3. ~Emptying(h)'
      BY <1>1, <3>2 DEF Emptying
    <3>4. deposits'[h] = Numbered(deposits[h].total + ValueOf[p], lrate[p])
      BY <1>4, <2>2, <3>2 DEF Credit, NewTotal, TypeOK
    <3>5. lrate[p] \in TaxRates \cup {0}
      BY DEF RatesInv
    <3>6. QED
      BY <1>1, <3>2, <3>3, <3>4, <3>5, HeldIs, PursePaysIn
  <2>3. QED
    BY <2>1, <2>2
<1>5. CASE ~CreateRow(p) /\ ~Credit(p)
  <2>1. UNCHANGED deposits
    BY <1>5 DEF Receive, Miss, Apply, Lookup, CreateFails, SavePayment, SaveOrphan,
       ReadRate, CallFails
  <2>2. QED
    BY <1>2, <2>1
<1>6. QED
  BY <1>3, <1>4, <1>5

\* A step of withdraw.
LEMMA EscrowServe ==
  ASSUME TypeOK, QueueInv, NEW h \in Hashes, h \notin disturbed', Account(h),
         NEW r \in Requests, ReadDeposit(r) \/ Refuse(r) \/ Serve(r) \/ Throw(r)
  PROVE  Purse!EscrowStep(h)
<1>1. CASE SaveWithdraw(r) /\ ClaimOf[r] = h
  <2>1. /\ wpc[r] = "record" /\ wpc'[r] = "zero"
        /\ withdraws'[h] = [total |-> withdraws[h].total + dep[r].total,
                            taxed |-> withdraws[h].taxed + dep[r].taxed]
    BY <1>1 DEF SaveWithdraw, TypeOK
  <2>2. Claims(r, h)
    BY <1>1, <2>1 DEF Claims, Claiming
  <2>3. dep[r] = deposits[h] /\ \A s \in Requests : Claims(s, h) => s = r
    BY <2>2 DEF Account, Alone, ClaimBalance
  <2>4. ~Emptying(h) /\ Emptying(h)'
    BY <1>1, <2>1, <2>3 DEF Emptying, Claims, Claiming
  <2>5. Held[h] = deposits[h] /\ Held'[h] = Zero
    BY <2>4, HeldIs
  <2>6. QED
    BY <2>1, <2>3, <2>5, PursePaysOut
<1>2. CASE ZeroDeposit(r) /\ ClaimOf[r] = h
  <2>1. /\ wpc[r] = "zero" /\ wpc'[r] = "readtax"
        /\ deposits'[h] = Zero /\ withdraws' = withdraws
    BY <1>2 DEF ZeroDeposit, Emptied, TypeOK
  <2>2. Emptying(h)
    BY <1>2, <2>1 DEF Emptying
  <2>3. Held[h] = Zero /\ Held'[h] = Zero
    BY <2>1, <2>2, HeldIs
  <2>4. QED
    BY <2>1, <2>3, PurseKeeps
<1>3. CASE Finish(r) \/ Throw(r)
  <2>1. PICK outcome \in {"done", "thrown"} : Leave(r, outcome)
    BY <1>3 DEF Finish, Throw
  <2>2. UNCHANGED <<deposits, withdraws>> /\ (ClaimOf[r] = h => wpc[r] # "zero")
    BY <1>3 DEF Finish, Throw
  <2>3. queue # <<>> => Head(queue) \in Requests /\ wpc[Head(queue)] = "waiting"
    BY NextInLine
  <2>4. \A s \in Requests : ClaimOf[s] = h => (wpc'[s] = "zero" <=> wpc[s] = "zero")
    BY <2>1, <2>2, <2>3 DEF Leave, TypeOK
  <2>5. QED
    BY <2>2, <2>4, HeldKept, PurseKeeps
<1>4. CASE /\ ~Finish(r) /\ ~Throw(r)
           /\ ~(SaveWithdraw(r) /\ ClaimOf[r] = h) /\ ~(ZeroDeposit(r) /\ ClaimOf[r] = h)
  <2>1. deposits'[h] = deposits[h] /\ withdraws'[h] = withdraws[h]
    BY <1>4 DEF ReadDeposit, Refuse, Serve, RefuseAmount, Authorise, Enter,
       CreateAccounts, SaveWithdraw, ZeroDeposit, ReadTax, WriteTax, ReadState,
       WriteState, TypeOK
  <2>2. PICK a : /\ wpc' = [wpc EXCEPT ![r] = a]
                 /\ ClaimOf[r] = h => wpc[r] # "zero" /\ a # "zero"
    <3>1. CASE ReadDeposit(r) \/ Refuse(r) \/ RefuseAmount(r) \/ Authorise(r)
      BY <3>1 DEF ReadDeposit, Refuse, RefuseAmount, Authorise, Ask
    <3>2. CASE Enter(r) \/ CreateAccounts(r)
      BY <3>2 DEF Enter, CreateAccounts
    <3>3. CASE SaveWithdraw(r) \/ ZeroDeposit(r)
      BY <1>4, <3>3 DEF SaveWithdraw, ZeroDeposit
    <3>4. CASE ReadTax(r) \/ WriteTax(r) \/ ReadState(r) \/ WriteState(r)
      BY <3>4 DEF ReadTax, WriteTax, ReadState, WriteState
    <3>5. QED
      BY <1>4, <3>1, <3>2, <3>3, <3>4 DEF Serve
  <2>3. \A s \in Requests : ClaimOf[s] = h => (wpc'[s] = "zero" <=> wpc[s] = "zero")
    BY <2>2 DEF TypeOK
  <2>4. QED
    BY <2>1, <2>3, HeldKept, PurseKeeps
<1>5. QED
  BY <1>1, <1>2, <1>3, <1>4

LEMMA EscrowStep ==
  ASSUME TypeOK, RowsInv, QueueInv, RatesInv, AccountInv, [Next]_vars
  PROVE  [\A h \in Hashes \ disturbed' : Purse!EscrowStep(h)]_vars
<1>1. disturbed \subseteq disturbed'
  BY DisturbedGrows
<1> SUFFICES ASSUME Next, NEW h \in Hashes, h \notin disturbed'
             PROVE  Purse!EscrowStep(h)
  OBVIOUS
<1>2. Account(h)
  BY <1>1 DEF AccountInv
<1>3. CASE \E p \in Payments : \/ Receive(p) \/ Miss(p) \/ Apply(p)
                               \/ CreateFails(p) \/ CallFails(p)
  BY <1>2, <1>3, EscrowApply
<1>4. CASE \E r \in Requests :
             ReadDeposit(r) \/ Refuse(r) \/ Serve(r) \/ Throw(r)
  BY <1>2, <1>4, EscrowServe
<1>5. CASE Crash
  <2>1. \A r \in Requests : ClaimOf[r] = h => wpc[r] # "zero" /\ wpc'[r] # "zero"
    BY <1>5 DEF Crash, Claiming, TypeOK
  <2>2. UNCHANGED <<deposits, withdraws>>
    BY <1>5 DEF Crash
  <2>3. QED
    BY <2>1, <2>2, HeldKept, PurseKeeps
<1>6. CASE \/ \E rate \in TaxRates : AddTax(rate)
           \/ \E t \in Transfers : Lower(t)
           \/ Start
  <2>1. UNCHANGED <<deposits, withdraws, wpc>>
    BY <1>6 DEF AddTax, Start, Lower, Apart
  <2>2. QED
    BY <2>1, HeldKept, PurseKeeps
<1>7. QED
  BY <1>3, <1>4, <1>5, <1>6 DEF Next

\* As long as its calls neither overlap nor stop halfway, a deposit is kept in
\* escrow: split by one proposed rate, and paid out whole, with its tax, once.
THEOREM DepositsImplementEscrow == Spec => IsEscrow
<1>1. ASSUME Init PROVE Purse!EscrowInit /\ RowsInv /\ QueueInv /\ RatesInv /\ AccountInv
  <2>1. RowsInv /\ QueueInv /\ RatesInv /\ AccountInv
    BY <1>1, ConstantsType DEF Init, RowsInv, QueueInv, OneInSection, Section, RatesInv,
       AccountInv, Account, Alone, AtWork, Claims, Applying, Claiming, Zero
  <2>2. Purse!EscrowInit
    BY <1>1 DEF Init, Purse!EscrowInit, Purse!Empty, Zero
  <2>3. QED
    BY <2>1, <2>2
<1>2. TypeOK /\ RowsInv /\ [Next]_vars => RowsInv'
  BY RowsStep
<1>3. TypeOK /\ QueueInv /\ [Next]_vars => QueueInv'
  BY QueueStep
<1>4. TypeOK /\ RatesInv /\ [Next]_vars => RatesInv'
  BY RatesStep
<1>5. TypeOK /\ RowsInv /\ QueueInv /\ AccountInv /\ [Next]_vars => AccountInv'
  BY AccountStep
<1>6. TypeOK /\ RowsInv /\ QueueInv /\ RatesInv /\ AccountInv /\ [Next]_vars
        => [\A h \in Hashes \ disturbed' : Purse!EscrowStep(h)]_vars
  BY EscrowStep
<1>7. QED
  BY <1>1, <1>2, <1>3, <1>4, <1>5, <1>6, TypeCorrect, PTL DEF Spec, IsEscrow

===============================================================================
