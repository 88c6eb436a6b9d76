---------------------------- MODULE DeliveryProofs ----------------------------
(***************************************************************************)
(* The sequence number, for any number of transactions and crashes; then   *)
(* Delivery, for any number of withdraws, assets, accounts, transfers and  *)
(* crashes: what was paid can be recovered, what was handed over is paid,  *)
(* and the addresses go through what Payout promises.                      *)
(***************************************************************************)
EXTENDS Delivery, TLAPS

(***************************************************************************)
(* Issuer                                                                  *)
(***************************************************************************)

\* What was sent since the last start carries a number that the server has got to,
\* and while the server is down nothing was; before the first stop it is never
\* behind the ledger.
NumberInv ==
  /\ \A t \in Transactions :
       /\ life[t] <= crashes
       /\ ~up => life[t] < crashes
       /\ state[t] # "new" /\ life[t] = crashes => number[t] <= sequence
  /\ crashes = 0 => up /\ ledger <= sequence
  /\ OneNumberEach
  /\ NumbersFollow

USE DEF Outcomes, NextNumber, Succeeded, Loaded

LEMMA IssuerTypeInit == ASSUME IssuerAssumption PROVE IssuerInit => IssuerTypeOK
  BY DEF IssuerAssumption, IssuerInit, IssuerTypeOK

LEMMA IssuerTypeStep ==
  ASSUME IssuerAssumption, IssuerTypeOK, [IssuerNext]_issuer PROVE IssuerTypeOK'
<1> USE DEF IssuerAssumption, IssuerTypeOK
<1>1. ASSUME NEW t \in Transactions, Send(t)
      PROVE IssuerTypeOK'
  BY <1>1 DEF Send
<1>2. ASSUME NEW t \in Transactions, Land(t)
      PROVE IssuerTypeOK'
  <2>1. PICK outcome \in {"landed", "void"} :
          state' = [state EXCEPT ![t] = outcome]
    BY <1>2 DEF Land
  <2>2. QED
    BY <1>2, <2>1 DEF Land
<1>3. ASSUME NEW t \in Transactions, Reject(t) \/ HearOk(t) \/ HearError(t)
      PROVE IssuerTypeOK'
  BY <1>3 DEF Reject, HearOk, HearError
<1>4. CASE IssuerCrash
  <2>1. heard' \in [Transactions -> {"nothing", "ok", "error", "gone"}]
    <3>1. ASSUME NEW t \in Transactions
          PROVE (IF heard[t] = "nothing" /\ state[t] # "new" THEN "gone" ELSE heard[t])
                  \in {"nothing", "ok", "error", "gone"}
      OBVIOUS
    <3>2. QED
      BY <1>4, <3>1 DEF IssuerCrash
  <2>2. up' \in BOOLEAN
    BY <1>4 DEF IssuerCrash
  <2>3. crashes' \in Nat
    BY <1>4 DEF IssuerCrash
  <2>4. QED
    BY <1>4, <2>1, <2>2, <2>3 DEF IssuerCrash
<1>5. CASE IssuerStart \/ UNCHANGED issuer
  BY <1>5 DEF IssuerStart, issuer
<1>6. QED
  BY <1>1, <1>2, <1>3, <1>4, <1>5 DEF IssuerNext

LEMMA NumberInit == ASSUME IssuerAssumption PROVE IssuerInit => NumberInv
  BY DEF IssuerAssumption, IssuerInit, NumberInv, OneNumberEach, NumbersFollow

LEMMA NumberStep ==
  ASSUME IssuerAssumption, IssuerTypeOK, NumberInv, [IssuerNext]_issuer
  PROVE  NumberInv'
<1> USE DEF IssuerAssumption, IssuerTypeOK
<1>1. ASSUME NEW t \in Transactions, Send(t)
      PROVE NumberInv'
  <2>1. \A u \in Transactions :
          /\ life'[u] <= crashes' /\ (~up' => life'[u] < crashes')
          /\ state'[u] # "new" /\ life'[u] = crashes' => number'[u] <= sequence'
    BY <1>1 DEF Send, NumberInv
  <2>2. (crashes = 0 => up /\ ledger <= sequence)'
    BY <1>1 DEF Send, NumberInv
  <2>3. OneNumberEach'
    <3>1. \A u \in Transactions \ {t} :
            /\ state'[u] = state[u] /\ life'[u] = life[u] /\ number'[u] = number[u]
            /\ state[u] # "new" /\ life[u] = crashes => number[u] < sequence + 1
      BY <1>1 DEF Send, NumberInv
    <3>2. life'[t] = crashes /\ number'[t] = sequence + 1
      BY <1>1 DEF Send
    <3>3. QED
      BY <3>1, <3>2 DEF NumberInv, OneNumberEach
  <2>4. NumbersFollow'
    <3> SUFFICES ASSUME NEW n \in (ledger + 1 .. sequence)'
                 PROVE  \E u \in Transactions :
                          state'[u] # "new" /\ life'[u] = crashes' /\ number'[u] = n
      BY DEF NumbersFollow
    <3>1. CASE n = sequence + 1
      BY <1>1, <3>1 DEF Send
    <3>2. CASE n # sequence + 1
      <4>1. n \in ledger + 1 .. sequence
        BY <1>1, <3>2 DEF Send
      <4>2. PICK u \in Transactions : state[u] # "new" /\ life[u] = crashes /\ number[u] = n
        BY <1>1, <4>1 DEF Send, NumberInv, NumbersFollow
      <4>3. u # t
        BY <1>1, <4>2 DEF Send
      <4>4. QED
        BY <1>1, <4>2, <4>3 DEF Send
    <3>3. QED
      BY <3>1, <3>2
  <2>5. QED
    BY <2>1, <2>2, <2>3, <2>4 DEF NumberInv
<1>2. ASSUME NEW t \in Transactions, Land(t)
      PROVE NumberInv'
  <2>1. /\ UNCHANGED <<sequence, number, up, crashes, life>> /\ ledger' = ledger + 1
        /\ \A u \in Transactions : state'[u] = "new" <=> state[u] = "new"
    BY <1>2 DEF Land
  <2>2. crashes = 0 => ledger + 1 <= sequence
    BY <1>2 DEF Land, NumberInv
  <2>3. OneNumberEach'
    BY <2>1 DEF NumberInv, OneNumberEach
  <2>4. NumbersFollow'
    BY <2>1 DEF NumberInv, NumbersFollow
  <2>5. QED
    BY <2>1, <2>2, <2>3, <2>4 DEF NumberInv
<1>3. ASSUME NEW t \in Transactions, Reject(t) \/ HearOk(t) \/ HearError(t)
      PROVE NumberInv'
  <2>1. /\ UNCHANGED <<sequence, ledger, number, up, crashes, life>>
        /\ \A u \in Transactions : state'[u] = "new" <=> state[u] = "new"
    BY <1>3 DEF Reject, HearOk, HearError
  <2>2. QED
    BY <2>1 DEF NumberInv, OneNumberEach, NumbersFollow
<1>4. CASE IssuerCrash
  BY <1>4 DEF IssuerCrash, NumberInv, OneNumberEach, NumbersFollow
<1>5. CASE IssuerStart
  BY <1>5 DEF IssuerStart, NumberInv, OneNumberEach, NumbersFollow
<1>6. CASE UNCHANGED issuer
  BY <1>6 DEF issuer, NumberInv, OneNumberEach, NumbersFollow
<1>7. QED
  BY <1>1, <1>2, <1>3, <1>4, <1>5, <1>6 DEF IssuerNext

-------------------------------------------------------------------------------
\* Nothing unblocks a wedged issuer but a restart.
LEMMA WedgedStep ==
  ASSUME IssuerTypeOK, [IssuerNext]_issuer, Wedged, up'
  PROVE  Wedged' /\ ledger' = ledger
<1> USE DEF IssuerTypeOK, Wedged
<1>1. ASSUME NEW t \in Transactions, Send(t) PROVE Wedged' /\ ledger' = ledger
  BY <1>1 DEF Send
<1>2. ASSUME NEW t \in Transactions, Land(t) PROVE FALSE
  BY <1>2 DEF Land
<1>3. ASSUME NEW t \in Transactions, Reject(t) \/ HearOk(t) \/ HearError(t)
      PROVE Wedged' /\ ledger' = ledger
  BY <1>3 DEF Reject, HearOk, HearError
<1>4. ASSUME IssuerCrash \/ IssuerStart PROVE FALSE
  BY <1>4 DEF IssuerCrash, IssuerStart
<1>5. ASSUME UNCHANGED issuer PROVE Wedged' /\ ledger' = ledger
  BY <1>5 DEF issuer
<1>6. QED
  BY <1>1, <1>2, <1>3, <1>4, <1>5 DEF IssuerNext

\* With an orderly ledger what is on its way is still ahead of the ledger.
OrderlyInv ==
  /\ NeverWedged
  /\ ~Faults /\ Patient /\ crashes = 0 =>
       \A t \in Transactions : state[t] = "sent" => number[t] > ledger

LEMMA OrderlyInit == ASSUME IssuerAssumption PROVE IssuerInit => OrderlyInv
  BY DEF IssuerAssumption, IssuerInit, OrderlyInv, NeverWedged

\* With an orderly ledger a transaction that is on its way is next in line or
\* behind another one, so that none is rejected.
LEMMA NoneRejected ==
  ASSUME IssuerTypeOK, NumberInv, OrderlyInv, ~Faults, Patient, crashes = 0,
         NEW t \in Transactions, Reject(t)
  PROVE  FALSE
<1>1. state[t] = "sent" /\ number[t] # ledger + 1 /\ ~InTurn(t)
  BY DEF Reject
<1>2. number[t] > ledger + 1 /\ number[t] <= sequence
  <2>1. life[t] = crashes
    BY DEF NumberInv, IssuerTypeOK
  <2>2. QED
    BY <1>1, <2>1 DEF NumberInv, OrderlyInv, IssuerTypeOK
<1>3. ledger + 1 \in ledger + 1 .. sequence
  BY <1>2 DEF IssuerTypeOK
<1>4. QED
  BY <1>1, <1>2, <1>3 DEF InTurn, OrderlyInv, NeverWedged

LEMMA OrderlyStep ==
  ASSUME IssuerAssumption, IssuerTypeOK, NumberInv, OrderlyInv,
         [IssuerNext]_issuer
  PROVE  OrderlyInv'
<1> USE DEF IssuerAssumption, IssuerTypeOK
<1> DEFINE Ahead == \A t \in Transactions : state[t] = "sent" => number[t] > ledger
           Filled == \A n \in ledger + 1 .. sequence :
                       \E t \in Transactions : state[t] = "sent" /\ number[t] = n
<1> SUFFICES ASSUME ~Faults, Patient, crashes' = 0
             PROVE  Filled' /\ Ahead'
  BY DEF OrderlyInv, NeverWedged
<1>1. crashes = 0 /\ up
  BY DEF IssuerNext, Send, Land, Reject, HearOk, HearError, IssuerCrash,
         IssuerStart, issuer, NumberInv
<1>2. Filled /\ Ahead /\ ledger <= sequence
  BY <1>1 DEF OrderlyInv, NeverWedged, NumberInv
<1>3. ASSUME NEW t \in Transactions, Send(t)
      PROVE Filled' /\ Ahead'
  <2>1. Ahead'
    BY <1>2, <1>3 DEF Send
  <2>2. ASSUME NEW n \in (ledger + 1 .. sequence)'
        PROVE \E u \in Transactions : state'[u] = "sent" /\ number'[u] = n
    BY <1>2, <1>3 DEF Send
  <2>3. QED
    BY <2>1, <2>2
<1>4. ASSUME NEW t \in Transactions, Land(t)
      PROVE Filled' /\ Ahead'
  <2>1. \A u \in Transactions \ {t} : state'[u] = state[u]
    BY <1>4 DEF Land
  <2>2. state'[t] \in {"landed", "void"}
    BY <1>4 DEF Land
  <2>3. number[t] = ledger + 1 /\ ledger' = ledger + 1 /\ number' = number
        /\ sequence' = sequence /\ state[t] = "sent"
    BY <1>4 DEF Land
  <2>4. \A u \in Transactions :
          state[u] = "sent" /\ number[u] = number[t] => u = t
    <3>1. \A u \in Transactions : life[u] = crashes
      BY <1>1 DEF NumberInv
    <3>2. QED
      BY <2>3, <3>1 DEF NumberInv, OneNumberEach
  <2>5. Ahead'
    <3> SUFFICES ASSUME NEW u \in Transactions, state'[u] = "sent"
                 PROVE  number[u] > ledger + 1
      BY <2>3
    <3>1. u # t
      BY <2>2
    <3>2. state[u] = "sent"
      BY <2>1, <3>1
    <3>3. number[u] > ledger /\ number[u] # ledger + 1
      BY <1>2, <2>3, <2>4, <3>1, <3>2
    <3>4. QED
      BY <3>3
  <2>6. ASSUME NEW n \in (ledger + 1 .. sequence)'
        PROVE \E u \in Transactions : state'[u] = "sent" /\ number'[u] = n
    <3>1. PICK u \in Transactions : state[u] = "sent" /\ number[u] = n
      BY <1>2, <2>3
    <3>2. u # t
      BY <2>3, <3>1
    <3>3. QED
      BY <2>1, <2>3, <3>1, <3>2
  <2>7. QED
    BY <2>5, <2>6
<1>5. ASSUME NEW t \in Transactions, Reject(t)
      PROVE FALSE
  BY <1>1, <1>5, NoneRejected
<1>6. ASSUME NEW t \in Transactions, HearOk(t) \/ HearError(t)
      PROVE Filled' /\ Ahead'
  BY <1>2, <1>6 DEF HearOk, HearError
<1>7. ~IssuerCrash /\ ~IssuerStart
  BY <1>1 DEF IssuerCrash, IssuerStart
<1>8. ASSUME UNCHANGED issuer
      PROVE Filled' /\ Ahead'
  BY <1>2, <1>8 DEF issuer
<1>9. QED
  BY <1>3, <1>4, <1>5, <1>6, <1>7, <1>8 DEF IssuerNext

-------------------------------------------------------------------------------
\* Types.
THEOREM IssuerTypeCorrect == IssuerSpec => []IssuerTypeOK
<1>1. IssuerInit => IssuerTypeOK
  BY IssuerAssumption, IssuerTypeInit
<1>2. IssuerTypeOK /\ [IssuerNext]_issuer => IssuerTypeOK'
  BY IssuerAssumption, IssuerTypeStep
<1>3. QED
  BY <1>1, <1>2, PTL DEF IssuerSpec

LEMMA NumberAlways == IssuerSpec => []NumberInv
<1>1. IssuerInit => NumberInv
  BY IssuerAssumption, NumberInit
<1>2. IssuerTypeOK /\ NumberInv /\ [IssuerNext]_issuer => NumberInv'
  BY IssuerAssumption, NumberStep
<1>3. QED
  BY <1>1, <1>2, IssuerTypeCorrect, PTL DEF IssuerSpec

\* configService.issuer and build() hand out each number once between two starts,
\* whoever asks (withdraws.service.ts, transfers.service.ts, accounts.service.ts).
THEOREM NumbersAreUnique == IssuerSpec => []OneNumberEach
<1>1. NumberInv => OneNumberEach
  BY DEF NumberInv
<1>2. QED
  BY <1>1, NumberAlways, PTL

\* And since initStellarIssuer loads the account (config.service.ts:39), after each
\* start they follow what the ledger had taken.
THEOREM NumbersAreUsedOnce == IssuerSpec => []NumbersOnce
<1>1. NumberInv => NumbersOnce
  BY DEF NumberInv, NumbersOnce
<1>2. QED
  BY <1>1, NumberAlways, PTL

\* Once a number is lost nothing the server sends is taken before it restarts.
THEOREM WedgedForGood == IssuerSpec => WedgedUntilRestart
<1>1. IssuerTypeOK /\ [IssuerNext]_issuer
        => [Wedged /\ up' => Wedged' /\ ledger' = ledger]_issuer
  BY WedgedStep
<1>2. QED
  BY <1>1, IssuerTypeCorrect, PTL DEF IssuerSpec, WedgedUntilRestart

LEMMA OrderlyAlways == IssuerSpec => []OrderlyInv
<1>1. IssuerInit => OrderlyInv
  BY IssuerAssumption, OrderlyInit
<1>2. IssuerTypeOK /\ NumberInv /\ OrderlyInv /\ [IssuerNext]_issuer => OrderlyInv'
  BY IssuerAssumption, OrderlyStep
<1>3. QED
  BY <1>1, <1>2, IssuerTypeCorrect, NumberAlways, PTL DEF IssuerSpec

\* If Horizon holds what comes early and rejects nothing else, all transfers,
\* payouts and accounts together never lose a number.
THEOREM OrderlyNeverWedged == IssuerSpec => []NeverWedged
<1>1. OrderlyInv => NeverWedged
  BY DEF OrderlyInv
<1>2. QED
  BY <1>1, OrderlyAlways, PTL

(***************************************************************************)
(* Delivery                                                                *)
(***************************************************************************)

Places(w) == 1 .. Len(AssetsOf[w])

\* What became of an asset's two transactions.
Opening(a) == state[<<"create", a>>]
Payment(a) == state[<<"pay", a>>]

\* What holds of the i-th asset of w on the ledger, wherever the server is.
Sound(w, i) ==
  LET a == AssetsOf[w][i] IN
  /\ Opening(a) # "new" => \A j \in 1 .. i - 1 : Opening(AssetsOf[w][j]) = "landed"
  /\ w \in saved => Opening(a) = "landed"
  /\ a \in trusts => w \in saved /\ \A j \in 1 .. i - 1 : AssetsOf[w][j] \in handed
  /\ Payment(a) # "new" => a \in trusts
  /\ a \in handed => Payment(a) = "landed"

\* What the two programs of a withdraw know of the assets before the one they
\* are at.
Aware(w) ==
  /\ at[w] \in Nat \ {0}
  /\ pc[w] \in {"open", "opening"} =>
       /\ at[w] <= Len(AssetsOf[w])
       /\ \A j \in 1 .. at[w] - 1 : Opening(AssetsOf[w][j]) = "landed"
  /\ pc[w] = "idle" => at[w] = 1
  /\ pc[w] = "save" => \A j \in Places(w) : Opening(AssetsOf[w][j]) = "landed"
  /\ pc[w] \in {"rest", "answered"} => w \in saved
  /\ courier[w] # "none" => w \in saved /\ pc[w] = "answered"
  /\ courier[w] \in {"trust", "pay", "paying", "key"} =>
       /\ at[w] <= Len(AssetsOf[w])
       /\ \A j \in 1 .. at[w] - 1 : AssetsOf[w][j] \in handed
  /\ courier[w] \in {"pay", "paying", "key"} => AssetsOf[w][at[w]] \in trusts
  /\ courier[w] = "key" => Payment(AssetsOf[w][at[w]]) = "landed"

PayoutInv ==
  /\ \A w \in Withdraws : Aware(w)
  /\ \A w \in Withdraws : \A i \in Places(w) : Sound(w, i)

-------------------------------------------------------------------------------
(* The assets and their transactions *)

\* Each place of each withdraw has an asset of its own, and the asset two
\* transactions.
LEMMA AssetFacts ==
  /\ \A w \in Withdraws : Len(AssetsOf[w]) \in Nat
  /\ \A w \in Withdraws : \A i \in Places(w) :
       /\ AssetsOf[w][i] \in Assets
       /\ AssetsOf[w][i] \notin Accounts
       /\ <<"create", AssetsOf[w][i]>> \in Transactions
       /\ <<"pay", AssetsOf[w][i]>> \in Transactions
<1>1. ASSUME NEW w \in Withdraws
      PROVE  /\ AssetsOf[w] \in Seq(Assets)
             /\ Len(AssetsOf[w]) \in Nat
             /\ \A i \in Places(w) : AssetsOf[w][i] \in Assets
  BY DeliveryAssumption DEF DeliveryAssumption, Places
<1>2. ASSUME NEW w \in Withdraws, NEW i \in Places(w)
      PROVE  /\ AssetsOf[w][i] \notin Accounts
             /\ <<"create", AssetsOf[w][i]>> \in Transactions
             /\ <<"pay", AssetsOf[w][i]>> \in Transactions
  <2>1. AssetsOf[w][i] \in Assets
    BY <1>1
  <2>2. Assets \cap Accounts = {}
    BY DeliveryAssumption DEF DeliveryAssumption
  <2>3. {"create", "pay"} \X Assets \subseteq Transactions
    BY DeliveryAssumption DEF DeliveryAssumption
  <2>4. QED
    BY <2>1, <2>2, <2>3
<1>3. QED
  BY <1>1, <1>2

LEMMA OwnAsset ==
  ASSUME NEW v \in Withdraws, NEW w \in Withdraws,
         NEW i \in Places(v), NEW j \in Places(w),
         AssetsOf[v][i] = AssetsOf[w][j]
  PROVE  v = w /\ i = j
  BY DeliveryAssumption DEF DeliveryAssumption, Places

LEMMA AccountFacts == \A c \in Accounts : Account(c) \in Transactions
<1>1. {"account"} \X Accounts \subseteq Transactions
  BY DeliveryAssumption DEF DeliveryAssumption
<1>2. QED
  BY <1>1 DEF Account

LEMMA TransferFacts == \A x \in Transfers : <<"transfer", x>> \in Transactions
<1>1. {"transfer"} \X Transfers \subseteq Transactions
  BY DeliveryAssumption DEF DeliveryAssumption
<1>2. QED
  BY <1>1

-------------------------------------------------------------------------------
(* Delivery drives the issuer and nothing else does *)

LEMMA IssuerMoves == ASSUME PayoutInv, [Next]_vars PROVE [IssuerNext]_issuer
<1>1. ASSUME NEW w \in Withdraws, WithdrawStep(w) PROVE [IssuerNext]_issuer
  <2>1. CASE Open(w) \/ Opened(w) \/ OpenFails(w)
    <3>1. at[w] \in Places(w)
      BY <2>1, AssetFacts DEF Open, Opened, OpenFails, PayoutInv, Aware, Places
    <3>2. Create(w) \in Transactions
      BY <3>1, AssetFacts DEF Create
    <3>3. QED
      BY <2>1, <3>2 DEF Open, Opened, OpenFails, IssuerNext
  <2>2. CASE Enter(w) \/ SaveWithdraw(w) \/ SectionFails(w) \/ Dispatch(w)
    BY <2>2 DEF Enter, SaveWithdraw, SectionFails, Dispatch
  <2>3. QED
    BY <1>1, <2>1, <2>2 DEF WithdrawStep
<1>2. ASSUME NEW w \in Withdraws, CourierStep(w) PROVE [IssuerNext]_issuer
  <2>1. CASE SendPay(w) \/ Paid(w) \/ PayFails(w)
    <3>1. at[w] \in Places(w)
      BY <2>1, AssetFacts DEF SendPay, Paid, PayFails, PayoutInv, Aware, Places
    <3>2. Pay(w) \in Transactions
      BY <3>1, AssetFacts DEF Pay
    <3>3. QED
      BY <2>1, <3>2 DEF SendPay, Paid, PayFails, IssuerNext
  <2>2. CASE Trust(w) \/ HandOver(w)
    BY <2>2 DEF Trust, HandOver
  <2>3. QED
    BY <1>2, <2>1, <2>2 DEF CourierStep
<1>3. ASSUME NEW c \in Accounts, AccountStep(c) PROVE [IssuerNext]_issuer
  <2>1. CASE Request(c) \/ Created(c) \/ CreateFails(c)
    BY <2>1, AccountFacts DEF Request, Created, CreateFails, IssuerNext
  <2>2. CASE TrustAll(c) \/ HandOverAccount(c) \/ SaveAccount(c)
    BY <2>2 DEF TrustAll, HandOverAccount, SaveAccount
  <2>3. QED
    BY <1>3, <2>1, <2>2 DEF AccountStep
<1>4. ASSUME NEW x \in Transfers, Transfer(x) PROVE [IssuerNext]_issuer
  BY <1>4, TransferFacts DEF Transfer, IssuerNext
<1>5. ASSUME NEW t \in Transactions, OnLedger(t) PROVE [IssuerNext]_issuer
  BY <1>5 DEF OnLedger, IssuerNext
<1>6. CASE Crash \/ Start
  BY <1>6 DEF Crash, Start, IssuerNext
<1>7. CASE UNCHANGED vars
  BY <1>7 DEF vars
<1>8. QED
  BY <1>1, <1>2, <1>3, <1>4, <1>5, <1>6, <1>7 DEF Next

-------------------------------------------------------------------------------
(* Types *)

LEMMA TypeInit == Init => TypeOK /\ PayoutInv
<1> SUFFICES ASSUME Init PROVE TypeOK /\ PayoutInv
  OBVIOUS
<1>1. IssuerTypeOK
  BY IssuerAssumption, IssuerTypeInit DEF Init
<1>2. \A w \in Withdraws : at[w] \in 1 .. Len(AssetsOf[w]) + 1
  BY AssetFacts DEF Init
<1>3. TypeOK
  BY <1>1, <1>2 DEF Init, TypeOK
<1>4. \A w \in Withdraws : Aware(w)
  BY DEF Init, Aware
<1>5. ASSUME NEW w \in Withdraws, NEW i \in Places(w) PROVE Sound(w, i)
  <2>1. \A t \in Transactions : state[t] = "new"
    BY DEF Init, IssuerInit
  <2>2. QED
    BY <2>1, AssetFacts DEF Init, Sound, Opening, Payment
<1>6. QED
  BY <1>3, <1>4, <1>5 DEF PayoutInv

\* Everything but the issuer's own part of the type invariant.
ProgramTypes ==
  /\ pc \in [Withdraws -> {"idle", "open", "opening", "save", "rest", "answered", "failed"}]
  /\ courier \in [Withdraws -> {"none", "trust", "pay", "paying", "key", "done", "stopped"}]
  /\ at \in [Withdraws -> Nat]
  /\ \A w \in Withdraws : at[w] \in 1 .. Len(AssetsOf[w]) + 1
  /\ saved \subseteq Withdraws
  /\ stage \in [Accounts -> {"idle", "creating", "trust", "key", "save", "saved", "failed"}]
  /\ rows \subseteq Accounts
  /\ trusts \subseteq Assets \cup Accounts
  /\ handed \subseteq Assets \cup Accounts

LEMMA ProgramTypeStep ==
  ASSUME TypeOK, PayoutInv, [Next]_vars PROVE ProgramTypes'
<1> USE AssetFacts DEF TypeOK, ProgramTypes, Places
<1>1. ASSUME NEW w \in Withdraws, Enter(w) \/ SaveWithdraw(w) \/ SectionFails(w)
      PROVE ProgramTypes'
  BY <1>1 DEF Enter, SaveWithdraw, SectionFails, LoopFrom, openings, keys
<1>2. ASSUME NEW w \in Withdraws, Open(w) \/ OpenFails(w)
      PROVE ProgramTypes'
  BY <1>2 DEF Open, OpenFails, openings, keys
<1>3. ASSUME NEW w \in Withdraws, Opened(w)
      PROVE ProgramTypes'
  <2>1. at[w] <= Len(AssetsOf[w])
    BY <1>3 DEF Opened, PayoutInv, Aware
  <2>2. at' = [at EXCEPT ![w] = at[w] + 1]
    BY <1>3 DEF Opened, Following
  <2>3. pc' \in [Withdraws -> {"idle", "open", "opening", "save", "rest", "answered", "failed"}]
    BY <1>3 DEF Opened, LoopFrom
  <2>4. QED
    BY <1>3, <2>1, <2>2, <2>3 DEF Opened, openings, keys
<1>4. ASSUME NEW w \in Withdraws, Dispatch(w)
      PROVE ProgramTypes'
  BY <1>4 DEF Dispatch, openings, keys
<1>5. ASSUME NEW w \in Withdraws, Trust(w)
      PROVE ProgramTypes'
  <2>0. at[w] \in 1 .. Len(AssetsOf[w])
    BY <1>5 DEF Trust, PayoutInv, Aware
  <2>1. AssetsOf[w][at[w]] \in Assets
    BY <2>0
  <2>2. PICK answer \in Answers :
          /\ trusts' = IF answer = "failed" THEN trusts
                                            ELSE trusts \cup {AssetsOf[w][at[w]]}
          /\ courier' = [courier EXCEPT ![w] = IF answer = "ok" THEN "pay" ELSE "stopped"]
    BY <1>5 DEF Trust
  <2>3. QED
    BY <1>5, <2>1, <2>2 DEF Trust, openings
<1>6. ASSUME NEW w \in Withdraws, SendPay(w) \/ Paid(w) \/ PayFails(w)
      PROVE ProgramTypes'
  BY <1>6 DEF SendPay, Paid, PayFails, Awaited, openings, keys
<1>7. ASSUME NEW w \in Withdraws, HandOver(w)
      PROVE ProgramTypes'
  <2>0. at[w] \in 1 .. Len(AssetsOf[w])
    BY <1>7 DEF HandOver, PayoutInv, Aware
  <2>1. AssetsOf[w][at[w]] \in Assets
    BY <2>0
  <2>2. PICK answer \in {"ok", "lost", "failed"} :
          /\ handed' = IF answer = "failed" THEN handed
                                            ELSE handed \cup {AssetsOf[w][at[w]]}
          /\ courier' = [courier EXCEPT ![w] = IF answer = "ok" THEN NextAsset(w)
                                                               ELSE "stopped"]
          /\ at' = [at EXCEPT ![w] = IF answer = "ok" THEN @ + 1 ELSE @]
    BY <1>7 DEF HandOver, Answers
  <2>3. QED
    BY <1>7, <2>0, <2>1, <2>2 DEF HandOver, NextAsset, openings
<1>8. ASSUME NEW c \in Accounts, AccountStep(c)
      PROVE ProgramTypes'
  <2>1. CASE Request(c) \/ Created(c) \/ CreateFails(c) \/ SaveAccount(c)
    BY <2>1 DEF Request, Created, CreateFails, SaveAccount, requests, keys
  <2>2. CASE TrustAll(c)
    BY <2>2 DEF TrustAll, requests
  <2>3. CASE HandOverAccount(c)
    BY <2>3 DEF HandOverAccount, WithoutKey, requests
  <2>4. QED
    BY <1>8, <2>1, <2>2, <2>3 DEF AccountStep
<1>9. ASSUME NEW x \in Transfers, Transfer(x)
      PROVE ProgramTypes'
  BY <1>9 DEF Transfer, requests, openings, keys
<1>10. ASSUME NEW t \in Transactions, OnLedger(t)
      PROVE ProgramTypes'
  BY <1>10 DEF OnLedger, requests, openings, keys
<1>11. CASE Crash
  <2>1. pc' \in [Withdraws -> {"idle", "open", "opening", "save", "rest", "answered", "failed"}]
    BY <1>11 DEF Crash
  <2>2. courier' \in [Withdraws -> {"none", "trust", "pay", "paying", "key", "done", "stopped"}]
    BY <1>11 DEF Crash
  <2>3. stage' \in [Accounts -> {"idle", "creating", "trust", "key", "save", "saved", "failed"}]
    BY <1>11 DEF Crash
  <2>4. QED
    BY <1>11, <2>1, <2>2, <2>3 DEF Crash, keys
<1>12. CASE Start \/ UNCHANGED vars
  BY <1>12 DEF Start, vars, requests, openings, keys
<1>13. QED
  BY <1>1, <1>2, <1>3, <1>4, <1>5, <1>6, <1>7, <1>8, <1>9, <1>10, <1>11, <1>12
     DEF Next, WithdrawStep, CourierStep

LEMMA TypeStep == ASSUME TypeOK, PayoutInv, [Next]_vars PROVE TypeOK'
<1>1. IssuerTypeOK'
  BY IssuerMoves, IssuerTypeStep, IssuerAssumption DEF TypeOK
<1>2. QED
  BY <1>1, ProgramTypeStep DEF ProgramTypes, TypeOK

-------------------------------------------------------------------------------
(* What a step leaves alone *)

\* Nothing is taken back.
Grows ==
  /\ saved \subseteq saved'
  /\ trusts \subseteq trusts'
  /\ handed \subseteq handed'
  /\ \A t \in Transactions : state[t] = "landed" => state'[t] = "landed"

LEMMA LandedStays ==
  ASSUME IssuerTypeOK, [IssuerNext]_issuer, NEW t \in Transactions,
         state[t] = "landed"
  PROVE  state'[t] = "landed"
  BY DEF IssuerTypeOK, IssuerNext, Send, Land, Reject, HearOk, HearError,
         IssuerCrash, IssuerStart, issuer

LEMMA Growth == ASSUME TypeOK, PayoutInv, [Next]_vars PROVE Grows
<1> DEFINE More == /\ saved \subseteq saved'
                   /\ trusts \subseteq trusts'
                   /\ handed \subseteq handed'
<1>1. \A t \in Transactions : state[t] = "landed" => state'[t] = "landed"
  BY IssuerMoves, LandedStays DEF TypeOK
<1>2. More
  <2>1. ASSUME NEW w \in Withdraws, WithdrawStep(w) PROVE More
    BY <2>1 DEF WithdrawStep, Enter, Open, Opened, OpenFails, SaveWithdraw,
                SectionFails, Dispatch, keys
  <2>2. ASSUME NEW w \in Withdraws, CourierStep(w) PROVE More
    BY <2>2 DEF CourierStep, Trust, SendPay, Paid, PayFails, HandOver, keys
  <2>3. ASSUME NEW c \in Accounts, AccountStep(c) PROVE More
    BY <2>3 DEF AccountStep, Request, Created, CreateFails, TrustAll,
                HandOverAccount, SaveAccount, requests, keys
  <2>4. ASSUME NEW x \in Transfers, Transfer(x) PROVE More
    BY <2>4 DEF Transfer, requests, keys
  <2>5. ASSUME NEW t \in Transactions, OnLedger(t) PROVE More
    BY <2>5 DEF OnLedger, requests, keys
  <2>6. CASE Crash \/ Start \/ UNCHANGED vars
    BY <2>6 DEF Crash, Start, vars, requests, keys
  <2>7. QED
    BY <2>1, <2>2, <2>3, <2>4, <2>5, <2>6 DEF Next
<1>3. QED
  BY <1>1, <1>2 DEF Grows

\* A program that does not move still knows what it knew.
LEMMA AwareKept ==
  ASSUME NEW w \in Withdraws, TypeOK, Aware(w), Grows,
         pc'[w] = pc[w], courier'[w] = courier[w], at'[w] = at[w]
  PROVE  Aware(w)'
<1>1. \A j \in Places(w) :
        /\ Opening(AssetsOf[w][j]) = "landed" => Opening(AssetsOf[w][j])' = "landed"
        /\ Payment(AssetsOf[w][j]) = "landed" => Payment(AssetsOf[w][j])' = "landed"
  BY AssetFacts DEF Grows, Opening, Payment
<1>2. at[w] <= Len(AssetsOf[w]) => at[w] \in Places(w)
  BY AssetFacts DEF Aware, Places
<1>3. at[w] <= Len(AssetsOf[w]) => 1 .. at[w] - 1 \subseteq Places(w)
  BY AssetFacts DEF Aware, Places
<1>4. QED
  BY <1>1, <1>2, <1>3 DEF Aware, Grows

\* An asset that nothing happens to stays as it was.
LEMMA SoundKept ==
  ASSUME NEW w \in Withdraws, NEW i \in Places(w), Sound(w, i), Grows,
         Opening(AssetsOf[w][i])' # "new" => Opening(AssetsOf[w][i]) # "new",
         Payment(AssetsOf[w][i])' # "new" => Payment(AssetsOf[w][i]) # "new",
         w \in saved' => w \in saved,
         AssetsOf[w][i] \in trusts' => AssetsOf[w][i] \in trusts,
         AssetsOf[w][i] \in handed' => AssetsOf[w][i] \in handed
  PROVE  Sound(w, i)'
<1>1. \A j \in Places(w) :
        /\ Opening(AssetsOf[w][j]) = "landed" => Opening(AssetsOf[w][j])' = "landed"
        /\ Payment(AssetsOf[w][j]) = "landed" => Payment(AssetsOf[w][j])' = "landed"
  BY AssetFacts DEF Grows, Opening, Payment
<1>2. 1 .. i - 1 \subseteq Places(w)
  BY AssetFacts DEF Places
<1>3. QED
  BY <1>1, <1>2 DEF Sound, Grows

-------------------------------------------------------------------------------
(* PayoutInv is inductive *)

\* A step that only moves the programs of w, and sends or lands nothing of its
\* assets.
LEMMA OnlyMoves ==
  ASSUME NEW w \in Withdraws, TypeOK, PayoutInv, Grows,
         \A v \in Withdraws \ {w} :
           pc'[v] = pc[v] /\ courier'[v] = courier[v] /\ at'[v] = at[v],
         Aware(w)',
         state' = state, saved' = saved, trusts' = trusts, handed' = handed
  PROVE  PayoutInv'
<1>1. ASSUME NEW v \in Withdraws PROVE Aware(v)'
  BY AwareKept DEF PayoutInv
<1>2. ASSUME NEW v \in Withdraws, NEW i \in Places(v) PROVE Sound(v, i)'
  BY SoundKept DEF PayoutInv, Opening, Payment
<1>3. QED
  BY <1>1, <1>2 DEF PayoutInv, Places

LEMMA WithdrawKeeps ==
  ASSUME TypeOK, PayoutInv, Grows, NEW w \in Withdraws, WithdrawStep(w)
  PROVE  PayoutInv'
<1> USE DEF TypeOK
<1>1. Aware(w) /\ Len(AssetsOf[w]) \in Nat
  BY AssetFacts DEF PayoutInv
<1>2. CASE Enter(w)
  <2>1. Aware(w)'
    BY <1>1, <1>2 DEF Enter, Aware, LoopFrom, Places, openings, keys, issuer,
                      Opening, Payment
  <2>2. QED
    BY <1>2, <2>1, OnlyMoves DEF Enter, keys, issuer
<1>3. CASE Opened(w)
  <2>1. Opening(AssetsOf[w][at[w]]) = "landed"
    BY <1>3 DEF Opened, HearOk, Succeeded, Create, Opening
  <2>2. /\ at' = [at EXCEPT ![w] = at[w] + 1]
        /\ pc' = [pc EXCEPT ![w] = LoopFrom(w, at[w] + 1)]
        /\ state' = state /\ UNCHANGED <<courier, saved, keys>>
    BY <1>3 DEF Opened, Following, HearOk
  <2>3. \A j \in 1 .. at[w] : Opening(AssetsOf[w][j]) = "landed"
    BY <1>1, <1>3, <2>1 DEF Opened, Aware
  <2>4. Aware(w)'
    BY <1>1, <1>3, <2>2, <2>3 DEF Opened, Aware, LoopFrom, Places, keys, Opening
  <2>5. QED
    BY <2>2, <2>4, OnlyMoves DEF keys
<1>4. CASE OpenFails(w)
  <2>1. Aware(w)'
    BY <1>1, <1>4 DEF OpenFails, Aware
  <2>2. QED
    BY <1>4, <2>1, OnlyMoves DEF OpenFails, HearError, keys
<1>5. CASE SectionFails(w)
  <2>1. Aware(w)'
    BY <1>1, <1>5 DEF SectionFails, Aware
  <2>2. QED
    BY <1>5, <2>1, OnlyMoves DEF SectionFails, keys, issuer
<1>6. CASE Dispatch(w)
  <2>1. Aware(w)'
    BY <1>1, <1>6 DEF Dispatch, Recorded, Aware
  <2>2. QED
    BY <1>6, <2>1, OnlyMoves DEF Dispatch, keys, issuer
<1>7. CASE Open(w)
  <2>1. at[w] \in Places(w)
    BY <1>1, <1>7 DEF Open, Aware, Places
  <2>2. \A t \in Transactions \ {Create(w)} : state'[t] = state[t]
    BY <1>7 DEF Open, Send, IssuerTypeOK
  <2>3. ASSUME NEW v \in Withdraws PROVE Aware(v)'
    <3>1. CASE v # w
      BY <1>7, <3>1, AwareKept DEF Open, PayoutInv
    <3>2. CASE v = w
      <4>1. \A j \in 1 .. at[w] - 1 : Opening(AssetsOf[w][j])' = "landed"
        <5>1. 1 .. at[w] - 1 \subseteq Places(w)
          BY <2>1 DEF Places
        <5>2. QED
          BY <1>1, <1>7, <5>1, AssetFacts DEF Open, Aware, Grows, Opening
      <4>2. QED
        BY <1>1, <1>7, <3>2, <4>1 DEF Open, Aware
    <3>3. QED
      BY <3>1, <3>2
  <2>4. ASSUME NEW v \in Withdraws, NEW i \in Places(v) PROVE Sound(v, i)'
    <3>1. Payment(AssetsOf[v][i])' = Payment(AssetsOf[v][i])
      BY <2>2, AssetFacts DEF Create, Payment
    <3>2. CASE AssetsOf[v][i] # AssetsOf[w][at[w]]
      <4>1. Opening(AssetsOf[v][i])' = Opening(AssetsOf[v][i])
        BY <2>2, <3>2, AssetFacts DEF Create, Opening
      <4>2. QED
        BY <1>7, <3>1, <4>1, SoundKept DEF Open, PayoutInv, keys
    <3>3. CASE AssetsOf[v][i] = AssetsOf[w][at[w]]
      <4>1. v = w /\ i = at[w]
        BY <2>1, <3>3, OwnAsset
      <4>2. Sound(w, i) /\ Opening(AssetsOf[w][i]) = "new"
        BY <1>7, <4>1 DEF Open, Send, Create, Opening, PayoutInv
      <4>3. w \notin saved
        BY <4>2 DEF Sound
      <4>4. \A j \in 1 .. i - 1 : Opening(AssetsOf[w][j])' = "landed"
        BY <1>7, <2>3, <4>1 DEF Open, Aware
      <4>5. QED
        BY <1>7, <3>1, <4>1, <4>2, <4>3, <4>4 DEF Open, Sound, keys
    <3>4. QED
      BY <3>2, <3>3
  <2>5. QED
    BY <2>3, <2>4 DEF PayoutInv, Places
<1>8. CASE SaveWithdraw(w)
  <2>1. state' = state /\ UNCHANGED <<courier, at, keys>>
    BY <1>8 DEF SaveWithdraw, issuer
  <2>2. ASSUME NEW v \in Withdraws PROVE Aware(v)'
    <3>1. CASE v # w
      BY <1>8, <3>1, AwareKept DEF SaveWithdraw, PayoutInv
    <3>2. CASE v = w
      BY <1>1, <1>8, <3>2 DEF SaveWithdraw, Aware
    <3>3. QED
      BY <3>1, <3>2
  <2>3. ASSUME NEW v \in Withdraws, NEW i \in Places(v) PROVE Sound(v, i)'
    <3>1. CASE v # w
      BY <1>8, <2>1, <3>1, SoundKept DEF SaveWithdraw, PayoutInv, Opening, Payment, keys
    <3>2. CASE v = w
      <4>1. Sound(w, i) /\ Opening(AssetsOf[w][i]) = "landed"
        BY <1>1, <1>8, <3>2 DEF SaveWithdraw, Aware, PayoutInv
      <4>2. QED
        BY <1>8, <2>1, <3>2, <4>1 DEF SaveWithdraw, Sound, Opening, Payment, keys
    <3>3. QED
      BY <3>1, <3>2
  <2>4. QED
    BY <2>2, <2>3 DEF PayoutInv, Places
<1>9. QED
  BY <1>2, <1>3, <1>4, <1>5, <1>6, <1>7, <1>8 DEF WithdrawStep

LEMMA CourierKeeps ==
  ASSUME TypeOK, PayoutInv, Grows, NEW w \in Withdraws, CourierStep(w)
  PROVE  PayoutInv'
<1> USE DEF TypeOK
<1> DEFINE a == AssetsOf[w][at[w]]
<1>1. Aware(w) /\ Len(AssetsOf[w]) \in Nat
  BY AssetFacts DEF PayoutInv
<1>2. courier[w] \in {"trust", "pay", "paying", "key"}
  BY DEF CourierStep, Trust, SendPay, Paid, PayFails, HandOver
<1>3. at[w] \in Places(w) /\ w \in saved /\ pc[w] = "answered"
  BY <1>1, <1>2 DEF Aware, Places
<1>4. \A v \in Withdraws : \A i \in Places(v) :
        AssetsOf[v][i] = a => v = w /\ i = at[w]
  BY <1>3, OwnAsset
<1>5. CASE Trust(w)
  <2>1. PICK answer \in Answers :
          /\ trusts' = IF answer = "failed" THEN trusts ELSE trusts \cup {a}
          /\ courier' = [courier EXCEPT ![w] = IF answer = "ok" THEN "pay" ELSE "stopped"]
    BY <1>5 DEF Trust
  <2>2. state' = state /\ UNCHANGED <<pc, at, saved, handed>>
    BY <1>5 DEF Trust, issuer
  <2>3. ASSUME NEW v \in Withdraws PROVE Aware(v)'
    <3>1. CASE v # w
      BY <2>1, <2>2, <3>1, AwareKept DEF PayoutInv
    <3>2. CASE v = w
      BY <1>1, <1>3, <1>5, <2>1, <2>2, <3>2 DEF Trust, Aware
    <3>3. QED
      BY <3>1, <3>2
  <2>4. ASSUME NEW v \in Withdraws, NEW i \in Places(v) PROVE Sound(v, i)'
    <3>1. CASE AssetsOf[v][i] # a
      BY <2>1, <2>2, <3>1, SoundKept DEF PayoutInv, Opening, Payment
    <3>2. CASE AssetsOf[v][i] = a
      <4>1. v = w /\ i = at[w]
        BY <1>4, <3>2
      <4>2. Sound(w, i) /\ \A j \in 1 .. i - 1 : AssetsOf[w][j] \in handed
        BY <1>1, <1>2, <4>1 DEF Aware, PayoutInv
      <4>3. QED
        BY <1>3, <2>1, <2>2, <4>1, <4>2 DEF Sound, Opening, Payment
    <3>3. QED
      BY <3>1, <3>2
  <2>5. QED
    BY <2>3, <2>4 DEF PayoutInv, Places
<1>6. CASE SendPay(w)
  <2>1. \A t \in Transactions \ {Pay(w)} : state'[t] = state[t]
    BY <1>6 DEF SendPay, Send, IssuerTypeOK
  <2>2. ASSUME NEW v \in Withdraws PROVE Aware(v)'
    <3>1. CASE v # w
      BY <1>6, <3>1, AwareKept DEF SendPay, PayoutInv
    <3>2. CASE v = w
      BY <1>1, <1>3, <1>6, <3>2 DEF SendPay, Awaited, Aware, keys
    <3>3. QED
      BY <3>1, <3>2
  <2>3. ASSUME NEW v \in Withdraws, NEW i \in Places(v) PROVE Sound(v, i)'
    <3>1. Opening(AssetsOf[v][i])' = Opening(AssetsOf[v][i])
      BY <2>1, AssetFacts DEF Pay, Opening
    <3>2. CASE AssetsOf[v][i] # a
      <4>1. Payment(AssetsOf[v][i])' = Payment(AssetsOf[v][i])
        BY <2>1, <3>2, AssetFacts DEF Pay, Payment
      <4>2. QED
        BY <1>6, <3>1, <4>1, SoundKept DEF SendPay, PayoutInv, keys
    <3>3. CASE AssetsOf[v][i] = a
      <4>1. v = w /\ i = at[w]
        BY <1>4, <3>3
      <4>2. Sound(w, i) /\ a \in trusts /\ Payment(a) = "new"
        BY <1>1, <1>6, <4>1 DEF SendPay, Send, Pay, Payment, Aware, PayoutInv
      <4>3. \A j \in 1 .. i - 1 :
              Opening(AssetsOf[w][j]) = "landed" => Opening(AssetsOf[w][j])' = "landed"
        <5>1. 1 .. i - 1 \subseteq Places(w)
          BY <1>3, <4>1 DEF Places
        <5>2. QED
          BY <5>1, AssetFacts DEF Grows, Opening
      <4>4. a \notin handed
        BY <4>1, <4>2 DEF Sound
      <4>5. QED
        BY <1>6, <3>1, <4>1, <4>2, <4>3, <4>4 DEF SendPay, Sound, keys
    <3>4. QED
      BY <3>2, <3>3
  <2>4. QED
    BY <2>2, <2>3 DEF PayoutInv, Places
<1>7. CASE Paid(w)
  <2>1. Payment(a) = "landed"
    BY <1>7 DEF Paid, HearOk, Succeeded, Pay, Payment
  <2>2. state' = state /\ UNCHANGED <<pc, at, saved, keys>>
        /\ courier' = [courier EXCEPT ![w] = "key"]
    BY <1>7 DEF Paid, HearOk
  <2>3. Aware(w)'
    BY <1>1, <1>3, <1>7, <2>1, <2>2 DEF Paid, Aware, Payment, keys
  <2>4. QED
    BY <2>2, <2>3, OnlyMoves DEF keys
<1>8. CASE PayFails(w)
  <2>1. Aware(w)'
    BY <1>1, <1>3, <1>8 DEF PayFails, Aware
  <2>2. QED
    BY <1>8, <2>1, OnlyMoves DEF PayFails, HearError, keys
<1>9. CASE HandOver(w)
  <2>1. PICK answer \in {"ok", "lost", "failed"} :
          /\ handed' = IF answer = "failed" THEN handed ELSE handed \cup {a}
          /\ courier' = [courier EXCEPT ![w] = IF answer = "ok" THEN NextAsset(w)
                                                               ELSE "stopped"]
          /\ at' = [at EXCEPT ![w] = IF answer = "ok" THEN @ + 1 ELSE @]
    BY <1>9 DEF HandOver, Answers
  <2>2. state' = state /\ UNCHANGED <<pc, saved, trusts>>
    BY <1>9 DEF HandOver, issuer
  <2>3. ASSUME NEW v \in Withdraws PROVE Aware(v)'
    <3>1. CASE v # w
      BY <2>1, <2>2, <3>1, AwareKept DEF PayoutInv
    <3>2. CASE v = w /\ answer # "ok"
      BY <1>1, <1>3, <2>1, <2>2, <3>2 DEF Aware
    <3>3. CASE v = w /\ answer = "ok"
      <4>1. \A j \in 1 .. at[w] : AssetsOf[w][j] \in handed'
        BY <1>1, <1>2, <2>1, <3>3 DEF Aware
      <4>2. courier'[w] = NextAsset(w) /\ at'[w] = at[w] + 1
        BY <2>1, <3>3
      <4>3. courier'[w] \in {"trust", "done"}
            /\ (courier'[w] = "trust" => at'[w] <= Len(AssetsOf[w]))
        BY <1>1, <4>2, AssetFacts DEF NextAsset
      <4>4. pc'[w] = "answered" /\ w \in saved' /\ at'[w] \in Nat \ {0}
        BY <1>1, <1>3, <1>9, <2>2, <4>2 DEF Aware, HandOver
      <4>5. QED
        BY <1>1, <3>3, <4>1, <4>2, <4>3, <4>4 DEF Aware
    <3>4. QED
      BY <3>1, <3>2, <3>3
  <2>4. ASSUME NEW v \in Withdraws, NEW i \in Places(v) PROVE Sound(v, i)'
    <3>1. CASE AssetsOf[v][i] # a
      BY <2>1, <2>2, <3>1, SoundKept DEF PayoutInv, Opening, Payment
    <3>2. CASE AssetsOf[v][i] = a
      <4>1. v = w /\ i = at[w]
        BY <1>4, <3>2
      <4>2. Sound(w, i) /\ Payment(a) = "landed"
        BY <1>1, <1>9, <4>1 DEF HandOver, Aware, PayoutInv
      <4>3. QED
        BY <2>1, <2>2, <4>1, <4>2 DEF Sound, Opening, Payment
    <3>3. QED
      BY <3>1, <3>2
  <2>5. QED
    BY <2>3, <2>4 DEF PayoutInv, Places
<1>10. QED
  BY <1>5, <1>6, <1>7, <1>8, <1>9 DEF CourierStep

\* A step of anybody else: whatever it does to the ledger, a transaction of an
\* asset that was new still is.
LEMMA OthersKeep ==
  ASSUME TypeOK, PayoutInv, Grows, saved' = saved, at' = at,
         \/ UNCHANGED <<pc, courier>>
         \/ Crash,
         \A b \in Assets : /\ b \in trusts' => b \in trusts
                           /\ b \in handed' => b \in handed
                           /\ Opening(b) = "new" => Opening(b)' = "new"
                           /\ Payment(b) = "new" => Payment(b)' = "new"
  PROVE  PayoutInv'
<1>1. ASSUME NEW v \in Withdraws PROVE Aware(v)'
  <2>1. CASE UNCHANGED <<pc, courier>>
    BY <2>1, AwareKept DEF PayoutInv
  <2>2. CASE Crash
    <3>1. /\ \/ pc'[v] = pc[v]
             \/ pc'[v] = "failed" /\ v \in InSection
          /\ \/ courier'[v] = courier[v] /\ courier[v] \in {"none", "done"}
             \/ courier'[v] = "stopped" /\ courier[v] \notin {"none", "done"}
      BY <2>2 DEF Crash
    <3>2. Aware(v) /\ pc[v] \in {"open", "opening", "save", "rest"} => pc'[v] = "failed"
      BY <2>2 DEF Crash, InSection, PayoutInv
    <3>3. pc[v] \notin {"open", "opening", "save", "rest"} => pc'[v] = pc[v]
      BY <3>1 DEF InSection
    <3>4. QED
      BY <3>1, <3>2, <3>3 DEF Aware, PayoutInv
  <2>3. QED
    BY <2>1, <2>2
<1>2. ASSUME NEW v \in Withdraws, NEW i \in Places(v) PROVE Sound(v, i)'
  BY SoundKept, AssetFacts DEF PayoutInv
<1>3. QED
  BY <1>1, <1>2 DEF PayoutInv, Places

LEMMA PayoutStep ==
  ASSUME TypeOK, PayoutInv, [Next]_vars PROVE PayoutInv'
<1>1. Grows
  BY Growth
<1> DEFINE Untouched ==
      \A b \in Assets : /\ Opening(b) = "new" => Opening(b)' = "new"
                        /\ Payment(b) = "new" => Payment(b)' = "new"
<1>2. \A b \in Assets : /\ <<"create", b>> \in Transactions
                        /\ <<"pay", b>> \in Transactions
                        /\ b \notin Accounts
  <2>1. {"create", "pay"} \X Assets \subseteq Transactions /\ Assets \cap Accounts = {}
    BY DeliveryAssumption DEF DeliveryAssumption
  <2>2. QED
    BY <2>1
<1>3. ASSUME NEW c \in Accounts, AccountStep(c) PROVE PayoutInv'
  <2>1. Untouched
    BY <1>2, <1>3 DEF AccountStep, Request, Created, CreateFails, TrustAll,
       HandOverAccount, SaveAccount, Send, HearOk, HearError, issuer, Account,
       TypeOK, IssuerTypeOK, Opening, Payment
  <2>2. /\ UNCHANGED requests
        /\ trusts' \subseteq trusts \cup {c} /\ handed' \subseteq handed \cup {c}
    BY <1>3 DEF AccountStep, Request, Created, CreateFails, TrustAll,
       HandOverAccount, SaveAccount, keys
  <2>3. QED
    BY <1>1, <1>2, <2>1, <2>2, OthersKeep DEF requests
<1>4. ASSUME NEW x \in Transfers, Transfer(x) PROVE PayoutInv'
  <2>1. Untouched
    BY <1>2, <1>4 DEF Transfer, Send, HearOk, HearError, TypeOK, IssuerTypeOK,
       Opening, Payment
  <2>2. QED
    BY <1>1, <1>4, <2>1, OthersKeep DEF Transfer, requests, keys
<1>5. ASSUME NEW t \in Transactions, OnLedger(t) PROVE PayoutInv'
  <2>1. Untouched
    BY <1>2, <1>5 DEF OnLedger, Land, Reject, TypeOK, IssuerTypeOK, Opening, Payment
  <2>2. QED
    BY <1>1, <1>5, <2>1, OthersKeep DEF OnLedger, requests, keys
<1>6. CASE Crash
  BY <1>1, <1>6, OthersKeep DEF Crash, IssuerCrash, Opening, Payment, keys
<1>7. CASE Start \/ UNCHANGED vars
  BY <1>1, <1>7, OthersKeep
     DEF Start, IssuerStart, vars, issuer, Opening, Payment, requests, keys
<1>8. QED
  BY <1>1, <1>3, <1>4, <1>5, <1>6, <1>7, WithdrawKeeps, CourierKeeps DEF Next

-------------------------------------------------------------------------------
(* The theorems *)

\* Every variable keeps its type.
THEOREM DeliveryTypeCorrect == Spec => []TypeOK
<1>1. Init => TypeOK /\ PayoutInv
  BY TypeInit
<1>2. TypeOK /\ PayoutInv /\ [Next]_vars => TypeOK' /\ PayoutInv'
  BY TypeStep, PayoutStep
<1>3. QED
  BY <1>1, <1>2, PTL DEF Spec

LEMMA PayoutAlways == Spec => [](TypeOK /\ PayoutInv)
<1>1. Init => TypeOK /\ PayoutInv
  BY TypeInit
<1>2. TypeOK /\ PayoutInv /\ [Next]_vars => TypeOK' /\ PayoutInv'
  BY TypeStep, PayoutStep
<1>3. QED
  BY <1>1, <1>2, PTL DEF Spec

\* Withdraws, accounts and transfers together use the issuer as Issuer says,
\* so that its theorems are theirs.
THEOREM DeliveryImplementsIssuer == Spec => IssuerSpec
<1>1. Init => IssuerInit
  BY DEF Init
<1>2. TypeOK /\ PayoutInv /\ [Next]_vars => [IssuerNext]_issuer
  BY IssuerMoves
<1>3. QED
  BY <1>1, <1>2, PayoutAlways, PTL DEF Spec, IssuerSpec

\* Whatever mix of withdraws, deliveries, accounts and transfers builds
\* transactions, between two starts a number is given out once, and the numbers
\* follow those the ledger had taken (configService.issuer, shared by all four).
THEOREM NumbersAreShared == Spec => []NumbersOnce
BY DeliveryImplementsIssuer, NumbersAreUsedOnce, PTL

\* And one number that is lost, by whichever of them, stops all of them until a
\* restart.
THEOREM OneLossStopsAll == Spec => WedgedUntilRestart
BY DeliveryImplementsIssuer, WedgedForGood, PTL

\* transferAssetToAccountOnStellar is only reached with the withdraw saved and
\* the address created and trusting, whatever failed or stopped before.
THEOREM NothingIsStranded == Spec => []NothingStranded
<1>1. PayoutInv => NothingStranded
  BY DEF PayoutInv, Sound, NothingStranded, Places, Opening, Payment
<1>2. QED
  BY <1>1, PayoutAlways, PTL

\* changeMasterKeyOnStellar gives an asset to its owner when it has been paid
\* and those before it have been given.
THEOREM WhatIsHandedIsPaid == Spec => []HandedIsPaid
<1>1. ASSUME PayoutInv, NEW w \in Withdraws, NEW i \in Places(w),
             AssetsOf[w][i] \in handed
      PROVE  /\ Payment(AssetsOf[w][i]) = "landed"
             /\ \A j \in 1 .. i - 1 : AssetsOf[w][j] \in handed
  BY <1>1 DEF PayoutInv, Sound
<1>2. PayoutInv => HandedIsPaid
  BY <1>1 DEF HandedIsPaid, Places, Payment
<1>3. QED
  BY <1>2, PayoutAlways, PTL

-------------------------------------------------------------------------------
(* When nothing goes wrong *)

\* What AllGoesWell says beside the numbers.
WellInv ==
  /\ Orderly =>
       /\ \A t \in Transactions : state[t] \notin {"void", "rejected"}
       /\ \A w \in Withdraws : pc[w] # "failed" /\ courier[w] # "stopped"
       /\ \A c \in Accounts : stage[c] # "failed"
  /\ \A w \in Withdraws : courier[w] = "done" =>
       \A i \in Places(w) : AssetsOf[w][i] \in handed

\* A delivery ends well at its last asset only, those before it handed over.
LEMMA EndStep ==
  ASSUME TypeOK, PayoutInv, WellInv, [Next]_vars, NEW w \in Withdraws,
         courier'[w] = "done"
  PROVE  \A i \in Places(w) : AssetsOf[w][i] \in handed'
<1> USE DEF TypeOK
<1>1. handed \subseteq handed'
  BY Growth DEF Grows
<1>2. CASE courier[w] = "done"
  BY <1>1, <1>2 DEF WellInv
<1>3. CASE courier[w] # "done"
  <2>1. Dispatch(w) \/ HandOver(w)
    <3>1. courier'[w] # courier[w]
      BY <1>3
    <3>2. CASE \E v \in Withdraws : WithdrawStep(v)
      BY <1>3, <3>1, <3>2 DEF WithdrawStep, Enter, Open, Opened, OpenFails,
         SaveWithdraw, SectionFails, Dispatch
    <3>3. CASE \E v \in Withdraws : CourierStep(v)
      BY <1>3, <3>1, <3>3 DEF CourierStep, Trust, SendPay, Paid, PayFails, HandOver,
         Awaited
    <3>4. CASE \E c \in Accounts : AccountStep(c)
      BY <3>1, <3>4 DEF AccountStep, Request, Created, CreateFails, TrustAll,
         HandOverAccount, SaveAccount, requests
    <3>5. CASE (\E x \in Transfers : Transfer(x)) \/ (\E t \in Transactions : OnLedger(t))
               \/ Start \/ UNCHANGED vars
      BY <3>1, <3>5 DEF Transfer, OnLedger, Start, vars, requests
    <3>6. CASE Crash
      BY <1>3, <3>6 DEF Crash
    <3>7. QED
      BY <3>2, <3>3, <3>4, <3>5, <3>6 DEF Next
  <2>2. CASE Dispatch(w)
    BY <2>2, AssetFacts DEF Dispatch, Places
  <2>3. CASE HandOver(w)
    <3>1. at[w] \in Places(w) /\ \A j \in 1 .. at[w] - 1 : AssetsOf[w][j] \in handed
      BY <2>3, AssetFacts DEF HandOver, PayoutInv, Aware, Places
    <3>2. PICK answer \in {"ok", "lost", "failed"} :
            /\ handed' = IF answer = "failed" THEN handed
                                              ELSE handed \cup {AssetsOf[w][at[w]]}
            /\ courier' = [courier EXCEPT ![w] = IF answer = "ok" THEN NextAsset(w)
                                                                 ELSE "stopped"]
      BY <2>3 DEF HandOver, Answers
    <3>3. answer = "ok" /\ ~(at[w] < Len(AssetsOf[w]))
      BY <3>2 DEF NextAsset
    <3>4. QED
      BY <3>1, <3>2, <3>3, AssetFacts DEF Places
  <2>4. QED
    BY <2>1, <2>2, <2>3
<1>4. QED
  BY <1>2, <1>3

\* Nobody is told of an error, since the ledger neither voids nor refuses.
LEMMA WellStep ==
  ASSUME TypeOK, PayoutInv, NumberInv, OrderlyInv, WellInv, [Next]_vars
  PROVE  WellInv'
<1> USE DEF TypeOK, IssuerTypeOK
<1>1. \A w \in Withdraws : courier'[w] = "done" =>
        \A i \in Places(w) : AssetsOf[w][i] \in handed'
  BY EndStep
<1> DEFINE Fine == \A t \in Transactions : state[t] \notin {"void", "rejected"}
           Busy == \A w \in Withdraws : pc[w] # "failed" /\ courier[w] # "stopped"
           Open_ == \A c \in Accounts : stage[c] # "failed"
<1>2. ASSUME Orderly' PROVE Fine' /\ Busy' /\ Open_'
  <2>0. [IssuerNext]_issuer /\ crashes' = 0
    BY <1>2, IssuerMoves DEF Orderly
  <2>1. crashes = 0 /\ up
    <3>1. crashes = 0
      BY <2>0 DEF IssuerNext, Send, Land, Reject, HearOk, HearError, IssuerCrash,
         IssuerStart, issuer
    <3>2. QED
      BY <3>1 DEF NumberInv
  <2>2. ~Faults /\ Patient /\ BadKeys = {}
    BY <1>2 DEF Orderly
  <2>3. Fine /\ Busy /\ Open_
    BY <2>1, <2>2 DEF Orderly, WellInv
  <2>4. \A t \in Transactions : ~Reject(t) /\ ~HearError(t)
    BY <2>1, <2>2, <2>3, NoneRejected DEF HearError
  <2>5. ~IssuerCrash /\ ~IssuerStart
    BY <1>2, <2>1 DEF Orderly, IssuerCrash, IssuerStart
  <2>6. Fine'
    BY <2>2, <2>3, <2>4, <2>5, IssuerMoves
       DEF IssuerNext, Send, Land, HearOk, issuer
  <2>7. Busy' /\ Open_'
    <3>1. ASSUME NEW w \in Withdraws, WithdrawStep(w) PROVE Busy' /\ Open_'
      <4>1. ~OpenFails(w)
        <5>1. pc[w] = "opening" => at[w] \in Places(w)
          BY AssetFacts DEF PayoutInv, Aware, Places
        <5>2. pc[w] = "opening" => Create(w) \in Transactions
          BY <5>1, AssetFacts DEF Create
        <5>3. QED
          BY <2>4, <5>2 DEF OpenFails
      <4>2. ~SectionFails(w)
        BY <2>2 DEF SectionFails
      <4>3. QED
        BY <2>3, <3>1, <4>1, <4>2 DEF WithdrawStep, Enter, Open, Opened, SaveWithdraw,
           Dispatch, LoopFrom, openings
    <3>2. ASSUME NEW w \in Withdraws, CourierStep(w) PROVE Busy' /\ Open_'
      <4>1. ~PayFails(w)
        <5>1. courier[w] = "paying" => at[w] \in Places(w)
          BY AssetFacts DEF PayoutInv, Aware, Places
        <5>2. courier[w] = "paying" => Pay(w) \in Transactions
          BY <5>1, AssetFacts DEF Pay
        <5>3. QED
          BY <2>4, <5>2 DEF PayFails
      <4>2. QED
        BY <2>2, <2>3, <3>2, <4>1 DEF CourierStep, Trust, SendPay, Paid, HandOver,
           Answers, Awaited, NextAsset, openings
    <3>3. ASSUME NEW c \in Accounts, AccountStep(c) PROVE Busy' /\ Open_'
      <4>1. ~CreateFails(c)
        BY <2>4, AccountFacts DEF CreateFails
      <4>2. QED
        BY <2>2, <2>3, <3>3, <4>1 DEF AccountStep, Request, Created, TrustAll,
           HandOverAccount, SaveAccount, Answers, requests
    <3>4. ASSUME NEW x \in Transfers, Transfer(x) PROVE Busy' /\ Open_'
      BY <2>3, <3>4 DEF Transfer, requests, openings
    <3>5. ASSUME NEW t \in Transactions, OnLedger(t) PROVE Busy' /\ Open_'
      BY <2>3, <3>5 DEF OnLedger, requests, openings
    <3>6. CASE UNCHANGED vars
      BY <2>3, <3>6 DEF vars, requests, openings
    <3>7. QED
      BY <2>5, <3>1, <3>2, <3>3, <3>4, <3>5, <3>6 DEF Next, Crash, Start
  <2>8. QED
    BY <2>6, <2>7
<1>3. QED
  BY <1>1, <1>2 DEF WellInv

\* As long as Horizon is orderly and the server stays up, all that uses
\* configService.issuer at once comes to no error; and a delivery that comes to
\* its end has put every owner's key.
THEOREM AllGoesWellAlways == Spec => []AllGoesWell
<1>1. Init => WellInv
  BY DEF Init, IssuerInit, WellInv
<1>2. TypeOK /\ PayoutInv /\ NumberInv /\ OrderlyInv /\ WellInv /\ [Next]_vars
        => WellInv'
  BY WellStep
<1>3. WellInv /\ OrderlyInv => AllGoesWell
  BY DEF WellInv, OrderlyInv, AllGoesWell, Places
<1>4. QED
  BY <1>1, <1>2, <1>3, PayoutAlways, DeliveryImplementsIssuer, NumberAlways,
     OrderlyAlways, PTL DEF Spec

-------------------------------------------------------------------------------
(* Public accounts *)

\* What AccountsController.create knows of its address at each stage.
AccountInv ==
  \A c \in Accounts :
    /\ stage[c] \in {"trust", "key", "save"} \/ c \in rows
         => state[Account(c)] = "landed"
    /\ stage[c] \in {"key", "save"} \/ c \in rows => c \in trusts
    /\ stage[c] = "save" \/ c \in rows => c \in handed

LEMMA AccountStepKeeps ==
  ASSUME TypeOK, PayoutInv, AccountInv, [Next]_vars PROVE AccountInv'
<1> USE DEF TypeOK
<1>1. Grows
  BY Growth
<1>2. \A c \in Accounts : state[Account(c)] = "landed" => state'[Account(c)] = "landed"
  BY <1>1, AccountFacts DEF Grows
<1>3. ASSUME UNCHANGED openings PROVE AccountInv'
  BY <1>1, <1>2, <1>3 DEF AccountInv, Grows, openings
<1>4. ASSUME NEW c \in Accounts, AccountStep(c) PROVE AccountInv'
  <2>1. CASE Request(c) \/ CreateFails(c)
    BY <1>1, <1>2, <2>1 DEF Request, CreateFails, AccountInv, Grows
  <2>2. CASE Created(c)
    <3>1. state[Account(c)] = "landed"
      BY <2>2 DEF Created, HearOk, Succeeded
    <3>2. QED
      BY <1>1, <1>2, <2>2, <3>1 DEF Created, AccountInv, Grows
  <2>3. CASE TrustAll(c)
    BY <1>1, <1>2, <2>3 DEF TrustAll, AccountInv, Grows
  <2>4. CASE HandOverAccount(c)
    BY <1>1, <1>2, <2>4 DEF HandOverAccount, WithoutKey, AccountInv, Grows
  <2>5. CASE SaveAccount(c)
    BY <1>1, <1>2, <2>5 DEF SaveAccount, AccountInv, Grows
  <2>6. QED
    BY <1>4, <2>1, <2>2, <2>3, <2>4, <2>5 DEF AccountStep
<1>5. CASE Crash
  BY <1>1, <1>2, <1>5 DEF Crash, AccountInv, Grows
<1>6. ASSUME ~Crash, \A c \in Accounts : ~AccountStep(c) PROVE UNCHANGED openings
  BY <1>6 DEF Next, WithdrawStep, Enter, Open, Opened, OpenFails, SaveWithdraw,
     SectionFails, Dispatch, CourierStep, Trust, SendPay, Paid, PayFails,
     HandOver, Transfer, OnLedger, Start, vars
<1>7. QED
  BY <1>3, <1>4, <1>5, <1>6

\* saveAccount is only reached with the address created, trusting and its key
\* replaced: every row is of an account its owner can use.
THEOREM RowsWork == Spec => []RowsOfWorkingAccounts
<1>1. Init => AccountInv
  BY DEF Init, AccountInv
<1>2. TypeOK /\ PayoutInv /\ AccountInv /\ [Next]_vars => AccountInv'
  BY AccountStepKeeps
<1>3. TypeOK /\ AccountInv => RowsOfWorkingAccounts
  BY DEF TypeOK, AccountInv, RowsOfWorkingAccounts
<1>4. QED
  BY <1>1, <1>2, <1>3, PayoutAlways, PTL DEF Spec

-------------------------------------------------------------------------------
(* Delivery implements Payout *)

\* An asset of a withdraw that goes one phase on, all other assets staying
\* where they are.
LEMMA OnePhaseOn ==
  ASSUME NEW w \in Withdraws, NEW i \in Places(w), NEW from, NEW to,
         PhaseOf(AssetsOf[w][i]) = from, PhaseOf(AssetsOf[w][i])' = to,
         \A b \in Assets : b # AssetsOf[w][i] => PhaseOf(b)' = PhaseOf(b),
         saved' = saved
  PROVE  Promise!Advance(w, i, from, to)
<1> DEFINE ph == [v \in Withdraws |->
                   [j \in 1 .. Len(AssetsOf[v]) |-> PhaseOf(AssetsOf[v][j])]]
<1>1. ASSUME NEW v \in Withdraws, NEW j \in Places(v)
      PROVE  ph'[v][j] = [ph EXCEPT ![w][i] = to][v][j]
  <2>1. CASE v = w /\ j = i
    BY <2>1 DEF Places
  <2>2. CASE ~(v = w /\ j = i)
    <3>1. AssetsOf[v][j] # AssetsOf[w][i]
      BY <2>2, OwnAsset
    <3>2. PhaseOf(AssetsOf[v][j])' = PhaseOf(AssetsOf[v][j])
      BY <3>1, AssetFacts
    <3>3. QED
      BY <2>2, <3>2 DEF Places
  <2>3. QED
    BY <2>1, <2>2
<1>2. ph' = [ph EXCEPT ![w][i] = to]
  <2>1. ASSUME NEW v \in Withdraws PROVE ph'[v] = [ph EXCEPT ![w][i] = to][v]
    <3>1. ph'[v] = [j \in Places(v) |-> ph'[v][j]]
      BY DEF Places
    <3>2. [ph EXCEPT ![w][i] = to][v]
            = [j \in Places(v) |-> [ph EXCEPT ![w][i] = to][v][j]]
      BY DEF Places
    <3>3. QED
      BY <1>1, <3>1, <3>2
  <2>2. QED
    BY <2>1
<1>3. ph[w][i] = from
  BY DEF Places
<1>4. QED
  BY <1>2, <1>3 DEF Promise!Advance

\* Nothing happens to any asset, and nothing is recorded: Payout stutters.
LEMMA NoPhase ==
  ASSUME \A b \in Assets : PhaseOf(b)' = PhaseOf(b), saved' = saved
  PROVE  [Promise!PayoutNext]_<<saved,
            [w \in Withdraws |->
               [i \in 1 .. Len(AssetsOf[w]) |-> PhaseOf(AssetsOf[w][i])]]>>
<1>1. ASSUME NEW w \in Withdraws, NEW i \in 1 .. Len(AssetsOf[w])
      PROVE  PhaseOf(AssetsOf[w][i])' = PhaseOf(AssetsOf[w][i])
  BY AssetFacts DEF Places
<1>2. QED
  BY <1>1

\* The phases of the assets, from what is known of each.
LEMMA Phases ==
  ASSUME PayoutInv, NEW w \in Withdraws, NEW i \in Places(w)
  PROVE  LET a == AssetsOf[w][i] IN
         /\ Opening(a) # "landed" => PhaseOf(a) = "none"
         /\ Opening(a) = "landed" /\ w \notin saved => PhaseOf(a) = "opened"
         /\ Opening(a) = "landed" /\ a \notin trusts => PhaseOf(a) = "opened"
         /\ a \in trusts /\ Payment(a) # "landed" => PhaseOf(a) = "trusting"
         /\ Payment(a) = "landed" /\ a \notin handed => PhaseOf(a) = "paid"
         /\ a \in handed => PhaseOf(a) = "owned"
  BY DEF PayoutInv, Sound, PhaseOf, Opening, Payment

LEMMA PayoutMoves ==
  ASSUME TypeOK, PayoutInv, [Next]_vars
  PROVE  [Promise!PayoutNext]_<<saved,
            [w \in Withdraws |->
               [i \in 1 .. Len(AssetsOf[w]) |-> PhaseOf(AssetsOf[w][i])]]>>
<1> USE DEF TypeOK
<1> DEFINE Goal == [Promise!PayoutNext]_<<saved,
                     [w \in Withdraws |->
                        [i \in 1 .. Len(AssetsOf[w]) |-> PhaseOf(AssetsOf[w][i])]]>>
<1>1. PayoutInv'
  BY PayoutStep
<1>2. \A b \in Assets : /\ <<"create", b>> \in Transactions
                        /\ <<"pay", b>> \in Transactions
                        /\ b \notin Accounts
                        /\ \E w \in Withdraws : \E i \in Places(w) : b = AssetsOf[w][i]
  <2>1. {"create", "pay"} \X Assets \subseteq Transactions /\ Assets \cap Accounts = {}
    BY DeliveryAssumption DEF DeliveryAssumption
  <2>2. \A w \in Withdraws : DOMAIN AssetsOf[w] = Places(w)
    BY DeliveryAssumption DEF DeliveryAssumption, Places
  <2>3. QED
    BY <2>1, <2>2 DEF Assets
\* No transaction lands and no address does anything.
<1>3. ASSUME \A t \in Transactions : state[t] = "landed" <=> state'[t] = "landed",
             UNCHANGED <<saved, keys>>
      PROVE  Goal
  <2>1. \A b \in Assets : PhaseOf(b)' = PhaseOf(b)
    BY <1>2, <1>3 DEF PhaseOf, keys
  <2>2. QED
    BY <1>3, <2>1, NoPhase
<1>4. ASSUME NEW w \in Withdraws, SaveWithdraw(w) PROVE Goal
  <2>1. \A b \in Assets : PhaseOf(b)' = PhaseOf(b)
    BY <1>4 DEF SaveWithdraw, PhaseOf, issuer, keys
  <2>2. CASE w \in saved
    <3>1. saved' = saved
      BY <1>4, <2>2 DEF SaveWithdraw
    <3>2. QED
      BY <2>1, <3>1, NoPhase
  <2>3. CASE w \notin saved
    <3>1. \A i \in Places(w) : PhaseOf(AssetsOf[w][i]) = "opened"
      BY <1>4, <2>3, Phases DEF SaveWithdraw, PayoutInv, Aware
    <3>2. ASSUME NEW v \in Withdraws, NEW i \in 1 .. Len(AssetsOf[v])
          PROVE  PhaseOf(AssetsOf[v][i])' = PhaseOf(AssetsOf[v][i])
      BY <2>1, AssetFacts DEF Places
    <3>3. Promise!Record(w)
      BY <1>4, <2>3, <3>1, <3>2 DEF SaveWithdraw, Promise!Record, Promise!Places, Places
    <3>4. QED
      BY <3>3 DEF Promise!PayoutNext
  <2>4. QED
    BY <2>2, <2>3
<1>5. ASSUME NEW w \in Withdraws, Trust(w) PROVE Goal
  <2>0. PICK i \in Places(w) : i = at[w]
    BY <1>5, AssetFacts DEF Trust, PayoutInv, Aware, Places
  <2> DEFINE a == AssetsOf[w][i]
  <2>1. /\ at[w] = i /\ w \in saved
        /\ \A j \in 1 .. i - 1 : AssetsOf[w][j] \in handed
    BY <1>5, <2>0 DEF Trust, PayoutInv, Aware
  <2>2. state' = state /\ UNCHANGED <<saved, handed>>
        /\ (trusts' = trusts \/ trusts' = trusts \cup {a})
    BY <1>5, <2>0 DEF Trust, issuer
  <2>3. CASE trusts' = trusts
    BY <1>3, <2>2, <2>3 DEF keys
  <2>4. CASE trusts' = trusts \cup {a} /\ a \notin trusts
    <3>1. PhaseOf(a) = "opened"
      BY <2>1, <2>4, Phases DEF PayoutInv, Sound
    <3>2. PhaseOf(a)' = "trusting"
      BY <2>1, <2>2, <2>4 DEF PayoutInv, Sound, PhaseOf, Payment
    <3>3. \A b \in Assets : b # a => PhaseOf(b)' = PhaseOf(b)
      BY <2>2, <2>4 DEF PhaseOf
    <3>4. Promise!Advance(w, i, "opened", "trusting")
      BY <2>1, <2>2, <3>1, <3>2, <3>3, OnePhaseOn
    <3>5. \A j \in 1 .. i - 1 : j \in Places(w) /\ PhaseOf(AssetsOf[w][j]) = "owned"
      BY <2>1, AssetFacts DEF PhaseOf, Places
    <3>6. Promise!Deliver(w, i)
      BY <2>1, <3>4, <3>5 DEF Promise!Deliver, Places
    <3>7. QED
      BY <2>1, <3>6 DEF Promise!PayoutNext, Promise!Places, Places
  <2>5. QED
    BY <2>2, <2>3, <2>4
<1>6. ASSUME NEW w \in Withdraws, HandOver(w) PROVE Goal
  <2>0. PICK i \in Places(w) : i = at[w]
    BY <1>6, AssetFacts DEF HandOver, PayoutInv, Aware, Places
  <2> DEFINE a == AssetsOf[w][i]
  <2>1. /\ at[w] = i /\ w \in saved
        /\ \A j \in 1 .. i - 1 : AssetsOf[w][j] \in handed
        /\ Payment(a) = "landed"
    BY <1>6, <2>0 DEF HandOver, PayoutInv, Aware
  <2>2. state' = state /\ UNCHANGED <<saved, trusts>>
        /\ (handed' = handed \/ handed' = handed \cup {a})
    BY <1>6, <2>0 DEF HandOver, issuer
  <2>3. CASE handed' = handed
    BY <1>3, <2>2, <2>3 DEF keys
  <2>4. CASE handed' = handed \cup {a} /\ a \notin handed
    <3>1. PhaseOf(a) = "paid"
      BY <2>1, <2>4 DEF PhaseOf, Payment
    <3>2. PhaseOf(a)' = "owned"
      BY <2>4 DEF PhaseOf
    <3>3. \A b \in Assets : b # a => PhaseOf(b)' = PhaseOf(b)
      BY <2>2, <2>4 DEF PhaseOf
    <3>4. Promise!Advance(w, i, "paid", "owned")
      BY <2>1, <2>2, <3>1, <3>2, <3>3, OnePhaseOn
    <3>5. \A j \in 1 .. i - 1 : j \in Places(w) /\ PhaseOf(AssetsOf[w][j]) = "owned"
      BY <2>1, AssetFacts DEF PhaseOf, Places
    <3>6. Promise!Deliver(w, i)
      BY <2>1, <3>4, <3>5 DEF Promise!Deliver, Places
    <3>7. QED
      BY <2>1, <3>6 DEF Promise!PayoutNext, Promise!Places, Places
  <2>5. QED
    BY <2>2, <2>3, <2>4
<1>7. ASSUME NEW c \in Accounts, AccountStep(c) PROVE Goal
  <2>1. /\ \A t \in Transactions : state[t] = "landed" <=> state'[t] = "landed"
        /\ saved' = saved
    BY <1>7 DEF AccountStep, Request, Created, CreateFails, TrustAll,
       HandOverAccount, SaveAccount, Send, HearOk, HearError, IssuerTypeOK,
       issuer, requests
  <2>2. /\ trusts' = trusts \/ trusts' = trusts \cup {c}
        /\ handed' = handed \/ handed' = handed \cup {c}
    BY <1>7 DEF AccountStep, Request, Created, CreateFails, TrustAll,
       HandOverAccount, SaveAccount, keys
  <2>3. \A b \in Assets : PhaseOf(b)' = PhaseOf(b)
    BY <1>2, <2>1, <2>2 DEF PhaseOf
  <2>4. QED
    BY <2>1, <2>3, NoPhase
<1>8. ASSUME NEW w \in Withdraws,
             \/ Enter(w) \/ Open(w) \/ Opened(w) \/ OpenFails(w)
             \/ SectionFails(w) \/ Dispatch(w)
             \/ SendPay(w) \/ Paid(w) \/ PayFails(w)
      PROVE  Goal
  <2>1. /\ \A t \in Transactions : state[t] = "landed" <=> state'[t] = "landed"
        /\ UNCHANGED <<saved, keys>>
    BY <1>8 DEF Enter, Open, Opened, OpenFails, SectionFails, Dispatch, SendPay,
       Paid, PayFails, Send, HearOk, HearError, IssuerTypeOK, issuer
  <2>2. QED
    BY <1>3, <2>1
<1>9. ASSUME NEW x \in Transfers, Transfer(x) PROVE Goal
  <2>1. /\ \A t \in Transactions : state[t] = "landed" <=> state'[t] = "landed"
        /\ UNCHANGED <<saved, keys>>
    BY <1>9 DEF Transfer, Send, HearOk, HearError, IssuerTypeOK, requests
  <2>2. QED
    BY <1>3, <2>1
<1>10. CASE Crash \/ Start \/ UNCHANGED vars
  <2>1. state' = state /\ UNCHANGED <<saved, keys>>
    BY <1>10 DEF Crash, IssuerCrash, Start, IssuerStart, vars, issuer, requests, keys
  <2>2. QED
    BY <1>3, <2>1
<1>11. ASSUME NEW t \in Transactions, OnLedger(t) PROVE Goal
  <2>1. /\ UNCHANGED <<saved, keys>> /\ state[t] = "sent"
        /\ \A u \in Transactions \ {t} : state'[u] = state[u]
    BY <1>11 DEF OnLedger, Land, Reject, IssuerTypeOK, requests
  <2>2. CASE state'[t] # "landed"
    BY <1>3, <2>1, <2>2
  <2>3. CASE t \notin {"create", "pay"} \X Assets
    <3>0. \A b \in Assets : t # <<"create", b>> /\ t # <<"pay", b>>
      BY <2>3
    <3>1. \A b \in Assets : PhaseOf(b)' = PhaseOf(b)
      BY <1>2, <2>1, <3>0 DEF PhaseOf, keys
    <3>2. QED
      BY <2>1, <3>1, NoPhase
  <2>4. ASSUME NEW w \in Withdraws, NEW i \in Places(w), state'[t] = "landed",
               t = <<"create", AssetsOf[w][i]>>
        PROVE  Goal
    <3> DEFINE a == AssetsOf[w][i]
    <3>1. Sound(w, i) /\ Opening(a) = "sent"
      BY <2>1, <2>4 DEF Opening, PayoutInv
    <3>2. w \notin saved /\ a \notin trusts /\ Payment(a) = "new" /\ a \notin handed
      BY <3>1 DEF Sound
    <3>3. PhaseOf(a) = "none"
      BY <3>1, Phases
    <3>4. Opening(a)' = "landed" /\ Payment(a)' = Payment(a)
      BY <2>1, <2>4, AssetFacts DEF Opening, Payment
    <3>5. PhaseOf(a)' = "opened"
      BY <2>1, <3>2, <3>4 DEF PhaseOf, Opening, Payment, keys
    <3>6. \A b \in Assets : b # a => PhaseOf(b)' = PhaseOf(b)
      BY <1>2, <2>1, <2>4 DEF PhaseOf, keys
    <3>7. Promise!Advance(w, i, "none", "opened")
      BY <2>1, <3>3, <3>5, <3>6, OnePhaseOn
    <3>8. \A j \in 1 .. i - 1 : j \in Places(w) /\ PhaseOf(AssetsOf[w][j]) = "opened"
      <4>1. ASSUME NEW j \in 1 .. i - 1
            PROVE  j \in Places(w) /\ PhaseOf(AssetsOf[w][j]) = "opened"
        <5>1. j \in Places(w)
          BY AssetFacts DEF Places
        <5>2. Opening(AssetsOf[w][j]) = "landed"
          BY <3>1 DEF Sound
        <5>3. QED
          BY <3>2, <5>1, <5>2, Phases
      <4>2. QED
        BY <4>1
    <3>9. Promise!Open(w, i)
      BY <3>2, <3>7, <3>8 DEF Promise!Open, Places
    <3>10. QED
      BY <3>9 DEF Promise!PayoutNext, Promise!Places, Places
  <2>5. ASSUME NEW w \in Withdraws, NEW i \in Places(w), state'[t] = "landed",
               t = <<"pay", AssetsOf[w][i]>>
        PROVE  Goal
    <3> DEFINE a == AssetsOf[w][i]
    <3>1. Sound(w, i) /\ Payment(a) = "sent"
      BY <2>1, <2>5 DEF Payment, PayoutInv
    <3>2. /\ a \in trusts /\ a \notin handed /\ w \in saved
          /\ \A j \in 1 .. i - 1 : AssetsOf[w][j] \in handed
      BY <3>1 DEF Sound
    <3>3. PhaseOf(a) = "trusting"
      BY <3>1, <3>2, Phases
    <3>4. PhaseOf(a)' = "paid"
      BY <2>1, <2>5, <3>2 DEF PhaseOf, keys
    <3>5. \A b \in Assets : b # a => PhaseOf(b)' = PhaseOf(b)
      BY <1>2, <2>1, <2>5 DEF PhaseOf, keys
    <3>6. Promise!Advance(w, i, "trusting", "paid")
      BY <2>1, <3>3, <3>4, <3>5, OnePhaseOn
    <3>7. \A j \in 1 .. i - 1 : j \in Places(w) /\ PhaseOf(AssetsOf[w][j]) = "owned"
      BY <3>2, AssetFacts DEF PhaseOf, Places
    <3>8. Promise!Deliver(w, i)
      BY <3>2, <3>6, <3>7 DEF Promise!Deliver, Places
    <3>9. QED
      BY <3>8 DEF Promise!PayoutNext, Promise!Places, Places
  <2>6. CASE t \in {"create", "pay"} \X Assets /\ state'[t] = "landed"
    <3>1. PICK b \in Assets : t = <<"create", b>> \/ t = <<"pay", b>>
      BY <2>6
    <3>2. PICK w \in Withdraws : \E i \in Places(w) : b = AssetsOf[w][i]
      BY <1>2
    <3>3. QED
      BY <2>4, <2>5, <2>6, <3>1, <3>2
  <2>7. QED
    BY <2>2, <2>3, <2>6
<1>12. QED
  BY <1>4, <1>5, <1>6, <1>7, <1>8, <1>9, <1>10, <1>11
     DEF Next, WithdrawStep, CourierStep

\* Through any failure and any number of crashes, the withdraws take the
\* addresses of their assets through the phases Payout promises, in its order.
THEOREM DeliveryImplementsPayout == Spec => IsPayout
<1>1. Init => Promise!PayoutInit
  <2>1. ASSUME Init, NEW w \in Withdraws, NEW i \in Places(w)
        PROVE  PhaseOf(AssetsOf[w][i]) = "none"
    <3>1. \A t \in Transactions : state[t] = "new"
      BY <2>1 DEF Init, IssuerInit
    <3>2. QED
      BY <2>1, <3>1, AssetFacts DEF Init, PhaseOf
  <2>2. QED
    BY <2>1 DEF Init, Promise!PayoutInit, Promise!Places, Places
<1>2. TypeOK /\ PayoutInv /\ [Next]_vars
        => [Promise!PayoutNext]_<<saved,
              [w \in Withdraws |->
                 [i \in 1 .. Len(AssetsOf[w]) |-> PhaseOf(AssetsOf[w][i])]]>>
  BY PayoutMoves
<1>3. QED
  BY <1>1, <1>2, PayoutAlways, PTL DEF Spec, IsPayout, Promise!PayoutSpec
===============================================================================
