----------------------------- MODULE WalletProofs -----------------------------
(***************************************************************************)
(* What a tab keeps, for any number of accounts, saves, reloads and        *)
(* payments, and however often the page is loaded again.  Then its         *)
(* withdraw form, for any units, amounts and numbers: the total on the     *)
(* page is that of the assets entered, whatever was added and removed      *)
(* (FormInv), and the browser adds up as the server does, so that what the *)
(* page shows is what the server checks.                                   *)
(***************************************************************************)
EXTENDS WithdrawForm, SequenceTheorems, SumTheorems, TLAPS

\* The queue of the mutex holds jobs that wait, the form accounts, and so does what
\* is on its way to the server; each of them once.
QueueInv ==
  /\ \A i \in 1 .. Len(queue) : pc[queue[i]] = "waiting"
  /\ \A i, k \in 1 .. Len(queue) : queue[i] = queue[k] => i = k
  /\ \A i, k \in 1 .. Len(form) : form[i] = form[k] => i = k
  /\ \A i, k \in 1 .. Len(posted) : posted[i] = posted[k] => i = k

\* An address somebody has stored or set out to store.
Started == Known \cup {a \in Arriving \cup Submits : pc[a] # "idle"}

\* Nothing is known of an account before the job that stores it begins.
StartedInv ==
  /\ list \subseteq Started
  /\ gone \subseteq Started
  /\ \A j \in Jobs : todo[j] \cup snap[j] \cup {target[j]} \subseteq Started \cup {Nobody}
  /\ \A p \in Payments : pc[p] # "idle" => AccountOf[p] \in Started
  /\ posted # << >> => granted = {}
  /\ granted = {} => \A a \in Arriving : pc[a] = "idle"

\* Whoever has read the list, or threw after it, has the mutex, and nothing was
\* added since.
ListInv ==
  /\ NothingForgotten
  /\ \A j \in Jobs :
       /\ pc[j] \in {"reading", "failed"} => holder = j
       /\ pc[j] = "reading" => list \subseteq snap[j]

\* An account that was removed while nobody had it in hand is in no hand later.
GhostInv ==
  /\ NoGhosts
  /\ \A j \in Jobs : (todo[j] \cup {target[j]} \cup snap[j]) \cap gone \subseteq raced

\* The account of a withdraw is saved once, by a job of its own; until something
\* is taken out of the form, the map has the keys of all that is in it or posted.
SecretInv ==
  /\ SecretsKept
  /\ ~disturbed => \A a \in InForm \cup Posted : KeyOf[a] \in mapped
  /\ \A a \in Arriving :
       /\ todo[a] = {}
       /\ pc[a] \in {"waiting", "reading"} => target[a] = a

\* Two sequences, one after the other.
LEMMA Joined ==
  ASSUME NEW S, NEW a \in Seq(S), NEW b \in Seq(S)
  PROVE  /\ a \o b \in Seq(S)
         /\ Len(a \o b) = Len(a) + Len(b)
         /\ \A k \in 1 .. Len(a) + Len(b) :
              (a \o b)[k] = IF k <= Len(a) THEN a[k] ELSE b[k - Len(a)]
OBVIOUS

\* A sequence without its element at i.
LEMMA WithoutOne ==
  ASSUME NEW S, NEW s \in Seq(S), NEW i \in 1 .. Len(s)
  PROVE  LET t == SubSeq(s, 1, i - 1) \o SubSeq(s, i + 1, Len(s))
         IN  /\ t \in Seq(S)
             /\ Len(t) = Len(s) - 1
             /\ \A k \in 1 .. Len(s) - 1 : t[k] = IF k < i THEN s[k] ELSE s[k + 1]
<1> DEFINE a == SubSeq(s, 1, i - 1)
           b == SubSeq(s, i + 1, Len(s))
           t == a \o b
           n == Len(s)
<1>1. n \in Nat /\ i \in 1 .. n
  OBVIOUS
<1>2. a \in Seq(S) /\ Len(a) = i - 1 /\ \A k \in 1 .. i - 1 : a[k] = s[k]
  BY <1>1, SubSeqProperties
<1>3. b \in Seq(S) /\ Len(b) = n - i /\ \A k \in 1 .. n - i : b[k] = s[k + i]
  <2>1. \A k \in i + 1 .. n : s[k] \in S
    BY <1>1
  <2>2. \A k \in 1 .. n - i : b[k] = s[(i + 1) + k - 1] /\ (i + 1) + k - 1 = k + i
    BY <1>1, <2>1, SubSeqProperties
  <2>3. b \in Seq(S) /\ Len(b) = n - i
    BY <1>1, <2>1, SubSeqProperties
  <2>4. QED
    BY <2>2, <2>3
<1> HIDE DEF a, b, n
<1>5. /\ t \in Seq(S)
      /\ Len(t) = (i - 1) + (n - i)
      /\ \A k \in 1 .. (i - 1) + (n - i) : t[k] = IF k <= i - 1 THEN a[k] ELSE b[k - (i - 1)]
  <2>1. /\ a \o b \in Seq(S)
        /\ Len(a \o b) = Len(a) + Len(b)
        /\ \A k \in 1 .. Len(a) + Len(b) :
             (a \o b)[k] = IF k <= Len(a) THEN a[k] ELSE b[k - Len(a)]
    <3>1. a \in Seq(S) /\ b \in Seq(S)
      BY <1>2, <1>3
    <3>2. QED
      BY <3>1, Joined
  <2>2. Len(a) = i - 1 /\ Len(b) = n - i
    BY <1>2, <1>3
  <2>3. QED
    BY <2>1, <2>2
<1> HIDE DEF t
<1>6. Len(t) = n - 1
  BY <1>1, <1>5
<1>7. ASSUME NEW k \in 1 .. n - 1, k < i PROVE t[k] = s[k]
  BY <1>1, <1>2, <1>5, <1>7
<1>8. ASSUME NEW k \in 1 .. n - 1, ~(k < i) PROVE t[k] = s[k + 1]
  <2>1. k - (i - 1) \in 1 .. n - i /\ (k - (i - 1)) + i = k + 1
    BY <1>1, <1>8
  <2>2. t[k] = b[k - (i - 1)]
    BY <1>1, <1>5, <1>8
  <2>3. QED
    BY <1>3, <2>1, <2>2
<1>9. QED
  BY <1>5, <1>6, <1>7, <1>8 DEF n, t, a, b

\* What is on its way to the server are accounts that may be opened.
LEMMA PostedArrives ==
  ASSUME TypeOK
  PROVE  /\ Posted \subseteq Arriving
         /\ \A n \in 0 .. Len(posted) : FirstPosted(n) \subseteq Posted
<1>1. \A i \in 1 .. Len(posted) : posted[i] \in Arriving
  BY ElementOfSeq DEF TypeOK
<1>2. Posted = {posted[i] : i \in 1 .. Len(posted)}
  BY DEF Posted, FirstPosted
<1>3. \A n \in 0 .. Len(posted) : 1 .. n \subseteq 1 .. Len(posted)
  BY LenProperties DEF TypeOK
<1>4. QED
  BY <1>1, <1>2, <1>3 DEF FirstPosted

\* One step keeps the types.
LEMMA TypeStep ==
  ASSUME TypeOK, QueueInv, StartedInv, [Next]_vars
  PROVE  TypeOK'
<1> USE WalletAssumption DEF TypeOK, storage, jobs, withdraw, Addresses, Jobs
<1>1. ASSUME NEW j \in Jobs, Ask(j) PROVE TypeOK'
  BY <1>1 DEF Ask
<1>2. ASSUME NEW j \in Jobs, Acquire(j) PROVE TypeOK'
  BY <1>2 DEF Acquire, Free
<1>3. ASSUME NEW j \in Jobs, Store(j) PROVE TypeOK'
  BY <1>3 DEF Store, Released
<1>4. ASSUME NEW j \in Jobs, SaveFails(j) PROVE TypeOK'
  BY <1>4 DEF SaveFails, HolderAfterThrow
<1>5. ASSUME NEW a \in Submits, SubmitAddress(a) PROVE TypeOK'
  BY <1>5 DEF SubmitAddress
<1>6. ASSUME NEW r \in Reloads, ReloadList(r) PROVE TypeOK'
  BY <1>6 DEF ReloadList
<1>7. ASSUME NEW a \in Addresses, Discard(a) PROVE TypeOK'
  BY <1>7 DEF Discard, Remove, Without
<1>8. ASSUME NEW p \in Payments, Pay(p) PROVE TypeOK'
  BY <1>8 DEF Pay
<1>9. ASSUME NEW p \in Payments, Paid(p) PROVE TypeOK'
  <2>1. /\ todo' \in [Jobs -> SUBSET Addresses]
        /\ pc' \in [Jobs -> {"idle", "next", "waiting", "reading", "failed", "done",
                             "paying", "untrusting", "merging", "merged"}]
        /\ holder = Nobody \/ pc'[holder] \in {"reading", "failed"}
    BY <1>9 DEF Paid, AfterPayment
  <2>2. QED
    BY <1>9, <2>1 DEF Paid
<1>10. ASSUME NEW p \in Payments, PayFails(p) PROVE TypeOK'
  BY <1>10 DEF PayFails
<1>11. ASSUME NEW p \in Payments, Untrust(p) PROVE TypeOK'
  BY <1>11 DEF Untrust
<1>12. ASSUME NEW p \in Payments, Merge(p) PROVE TypeOK'
  BY <1>12 DEF Merge
<1>13. ASSUME NEW p \in Payments, Forget(p) PROVE TypeOK'
  BY <1>13 DEF Forget, AfterPayment, Remove, Without
<1>14. ASSUME NEW p \in Payments, ClosingFails(p) PROVE TypeOK'
  BY <1>14 DEF ClosingFails, AfterPayment, Kept
<1>15. ASSUME NEW a \in Arriving, AddAsset(a) PROVE TypeOK'
  BY <1>15 DEF AddAsset, Mapped
<1>16. ASSUME NEW i \in DOMAIN form, RemoveAsset(i) PROVE TypeOK'
  <2>1. form' \in Seq(Arriving)
    BY <1>16, WithoutOne DEF RemoveAsset
  <2>2. QED
    BY <1>16, <2>1 DEF RemoveAsset
<1>17. CASE Submit
  BY <1>17 DEF Submit
<1>18. CASE Receive
  <2>1. PICK n \in 0 .. Len(posted) :
          /\ Reached(n)
          /\ queue' = queue \o SubSeq(posted, 1, n)
          /\ pc' = [j \in Jobs |-> IF j \in FirstPosted(n) THEN "waiting" ELSE pc[j]]
          /\ target' = [j \in Jobs |-> IF j \in FirstPosted(n) THEN j ELSE target[j]]
    BY <1>18 DEF Receive, Opened
  <2>2. SubSeq(posted, 1, n) \in Seq(Jobs)
    BY SubSeqProperties
  <2>3. queue' \in Seq(Jobs)
    BY <2>1, <2>2
  <2>4. FirstPosted(n) \subseteq Arriving
    BY DEF FirstPosted
  <2>5. holder' = Nobody \/ pc'[holder'] \in {"reading", "failed"}
    <3>1. \A a \in FirstPosted(n) : pc[a] = "idle"
      BY <1>18, <2>4 DEF Receive, sent, StartedInv
    <3>2. holder' = holder
      BY <1>18 DEF Receive
    <3>3. QED
      BY <2>1, <3>1, <3>2
  <2>6. target' \in [Jobs -> Addresses \cup {Nobody}]
    BY <2>1, <2>4
  <2>7. QED
    <3>1. pc' \in [Jobs -> {"idle", "next", "waiting", "reading", "failed", "done",
                           "paying", "untrusting", "merging", "merged"}]
      BY <2>1
    <3>2. granted' \subseteq Arriving /\ open' \subseteq Addresses
      BY <1>18 DEF Receive, Opened, Posted, FirstPosted
    <3>3. QED
      BY <1>18, <2>3, <2>5, <2>6, <3>1, <3>2 DEF Receive, Opened
<1>19. CASE Refused \/ AnswerLost
  <2>1. posted' \in Seq(Arriving) /\ granted' \subseteq Arriving /\ open' \subseteq Addresses
    <3>1. posted' = << >> /\ granted' \subseteq granted \cup Posted /\ open' \subseteq open \cup Posted
      BY <1>19 DEF Refused, AnswerLost, Opened
    <3>2. Posted \subseteq Arriving
      BY PostedArrives
    <3>3. QED
      BY <3>1, <3>2
  <2>2. disturbed' \in BOOLEAN /\ UNCHANGED <<form, mapped, storage, jobs, refreshes>>
    BY <1>19 DEF Refused, AnswerLost
  <2>3. QED
    BY <2>1, <2>2
<1>20. CASE Refresh
  <2>1. queue' \in Seq(Jobs) /\ form' \in Seq(Arriving) /\ posted' \in Seq(Arriving)
    BY <1>20 DEF Refresh
  <2>2. pc' \in [Jobs -> {"idle", "next", "waiting", "reading", "failed", "done",
                         "paying", "untrusting", "merging", "merged"}]
    BY <1>20 DEF Refresh
  <2>3. /\ target' \in [Jobs -> Addresses \cup {Nobody}]
        /\ todo' \in [Jobs -> SUBSET Addresses]
        /\ snap' \in [Jobs -> SUBSET Addresses]
    BY <1>20 DEF Refresh
  <2>4. /\ list' = list /\ stored' = stored /\ gone' = gone /\ raced' = raced
        /\ holder' = Nobody /\ mapped' = {} /\ disturbed' = TRUE /\ refreshes' \in Nat
    BY <1>20 DEF Refresh
  <2>6. granted' \subseteq Arriving /\ open' \subseteq Addresses
    BY <1>20, PostedArrives DEF Refresh, Opened
  <2>5. QED
    BY <2>1, <2>2, <2>3, <2>4, <2>6
<1>21. CASE UNCHANGED vars
  BY <1>21 DEF vars
<1>22. QED
  BY <1>1, <1>2, <1>3, <1>4, <1>5, <1>6, <1>7, <1>8, <1>9, <1>10, <1>11, <1>12, <1>13, <1>14, <1>15, <1>16, <1>17, <1>18, <1>19, <1>20, <1>21 DEF Next, SaveStep, PaymentStep

\* One step keeps QueueInv.
LEMMA QueueStep ==
  ASSUME TypeOK, TypeOK', QueueInv, StartedInv, [Next]_vars
  PROVE  QueueInv'
<1> USE WalletAssumption DEF TypeOK, storage, jobs, withdraw, Addresses, Jobs, QueueInv
<1>1. ASSUME NEW j \in Jobs, Ask(j) PROVE QueueInv'
  BY <1>1 DEF Ask
<1>2. ASSUME NEW j \in Jobs, Acquire(j) PROVE QueueInv'
  BY <1>2 DEF Acquire, Free
<1>3. ASSUME NEW j \in Jobs, Store(j) PROVE QueueInv'
  BY <1>3 DEF Store, Released
<1>4. ASSUME NEW j \in Jobs, SaveFails(j) PROVE QueueInv'
  BY <1>4 DEF SaveFails, HolderAfterThrow
<1>5. ASSUME NEW a \in Submits, SubmitAddress(a) PROVE QueueInv'
  BY <1>5 DEF SubmitAddress
<1>6. ASSUME NEW r \in Reloads, ReloadList(r) PROVE QueueInv'
  BY <1>6 DEF ReloadList
<1>7. ASSUME NEW a \in Addresses, Discard(a) PROVE QueueInv'
  BY <1>7 DEF Discard, Remove, Without
<1>8. ASSUME NEW p \in Payments, Pay(p) PROVE QueueInv'
  BY <1>8 DEF Pay
<1>9. ASSUME NEW p \in Payments, Paid(p) PROVE QueueInv'
  BY <1>9 DEF Paid, AfterPayment
<1>10. ASSUME NEW p \in Payments, PayFails(p) PROVE QueueInv'
  BY <1>10 DEF PayFails
<1>11. ASSUME NEW p \in Payments, Untrust(p) PROVE QueueInv'
  BY <1>11 DEF Untrust
<1>12. ASSUME NEW p \in Payments, Merge(p) PROVE QueueInv'
  BY <1>12 DEF Merge
<1>13. ASSUME NEW p \in Payments, Forget(p) PROVE QueueInv'
  BY <1>13 DEF Forget, AfterPayment, Remove, Without
<1>14. ASSUME NEW p \in Payments, ClosingFails(p) PROVE QueueInv'
  BY <1>14 DEF ClosingFails, AfterPayment, Kept
<1>15. ASSUME NEW a \in Arriving, AddAsset(a) PROVE QueueInv'
  BY <1>15 DEF AddAsset, InForm
<1>16. ASSUME NEW i \in DOMAIN form, RemoveAsset(i) PROVE QueueInv'
  <2>1. /\ Len(form') = Len(form) - 1
        /\ \A k \in 1 .. Len(form) - 1 : form'[k] = IF k < i THEN form[k] ELSE form[k + 1]
    <3>1. i \in 1 .. Len(form)
      BY <1>16
    <3> DEFINE t == SubSeq(form, 1, i - 1) \o SubSeq(form, i + 1, Len(form))
    <3>2. form' = t
      BY <1>16 DEF RemoveAsset
    <3>3. form \in Seq(Arriving)
      OBVIOUS
    <3>4. /\ Len(t) = Len(form) - 1
          /\ \A k \in 1 .. Len(form) - 1 : t[k] = IF k < i THEN form[k] ELSE form[k + 1]
      BY ONLY <3>1, <3>3, WithoutOne
    <3> HIDE DEF t
    <3>5. QED
      BY <3>2, <3>4
  <2>2. \A k, l \in 1 .. Len(form') : form'[k] = form'[l] => k = l
    <3>0. SUFFICES ASSUME NEW k \in 1 .. Len(form) - 1, NEW l \in 1 .. Len(form) - 1,
                          form'[k] = form'[l]
                   PROVE  k = l
      BY <2>1
    <3> DEFINE at(m) == IF m < i THEN m ELSE m + 1
    <3>1. i \in 1 .. Len(form) /\ Len(form) \in Nat
      BY <1>16
    <3>2. at(k) \in 1 .. Len(form) /\ at(l) \in 1 .. Len(form)
      BY ONLY <3>0, <3>1
    <3>3. form'[k] = form[at(k)] /\ form'[l] = form[at(l)]
      BY ONLY <2>1, <3>0
    <3>4. \A m, n \in 1 .. Len(form) : form[m] = form[n] => m = n
      OBVIOUS
    <3> HIDE DEF at
    <3>5. at(k) = at(l)
      BY ONLY <3>0, <3>2, <3>3, <3>4
    <3>6. QED
      BY ONLY <3>0, <3>1, <3>5 DEF at
  <2>3. UNCHANGED <<queue, pc, posted>>
    BY <1>16 DEF RemoveAsset
  <2>4. QED
    BY <2>2, <2>3
<1>17. CASE Submit
  BY <1>17 DEF Submit
<1>18. CASE Receive
  <2>1. PICK n \in 0 .. Len(posted) :
          /\ Reached(n)
          /\ queue' = queue \o SubSeq(posted, 1, n)
          /\ pc' = [j \in Jobs |-> IF j \in FirstPosted(n) THEN "waiting" ELSE pc[j]]
          /\ target' = [j \in Jobs |-> IF j \in FirstPosted(n) THEN j ELSE target[j]]
    BY <1>18 DEF Receive, Opened
  <2> DEFINE more == SubSeq(posted, 1, n)
  <2>2. FirstPosted(n) \subseteq Arriving /\ \A a \in FirstPosted(n) : pc[a] = "idle"
    BY <1>18 DEF Receive, Opened, StartedInv, FirstPosted
  <2>3. /\ more \in Seq(Jobs)
        /\ Len(more) = n
        /\ \A i \in 1 .. n : more[i] = posted[i]
    BY SubSeqProperties
  <2>4. /\ Len(queue') = Len(queue) + n
        /\ \A i \in 1 .. Len(queue) : queue'[i] = queue[i]
        /\ \A i \in Len(queue) + 1 .. Len(queue) + n : queue'[i] = posted[i - Len(queue)]
    <3>1. queue \in Seq(Jobs) /\ queue' = queue \o more
      BY <2>1
    <3> HIDE DEF more
    <3>2. /\ Len(queue') = Len(queue) + Len(more)
          /\ \A k \in 1 .. Len(queue) + Len(more) :
               queue'[k] = IF k <= Len(queue) THEN queue[k] ELSE more[k - Len(queue)]
      BY ONLY <3>1, <2>3, Joined
    <3>3. Len(queue) \in Nat /\ n \in Nat
      OBVIOUS
    <3>4. QED
      BY ONLY <2>3, <3>2, <3>3
  <2>5. \A i \in Len(queue) + 1 .. Len(queue) + n : i - Len(queue) \in 1 .. n /\ queue'[i] \in FirstPosted(n)
    <3> SUFFICES ASSUME NEW i \in Len(queue) + 1 .. Len(queue) + n
                 PROVE  i - Len(queue) \in 1 .. n /\ queue'[i] \in FirstPosted(n)
      OBVIOUS
    <3>1. Len(queue) \in Nat /\ n \in Nat
      OBVIOUS
    <3>2. i - Len(queue) \in 1 .. n
      BY ONLY <3>1, i \in Len(queue) + 1 .. Len(queue) + n
    <3>3. queue'[i] = posted[i - Len(queue)]
      BY <2>4
    <3>4. QED
      BY <3>2, <3>3 DEF FirstPosted
  <2>6. \A i \in 1 .. Len(queue') : pc'[queue'[i]] = "waiting"
    BY <2>1, <2>2, <2>4, <2>5
  <2>7. \A i, k \in 1 .. Len(queue') : queue'[i] = queue'[k] => i = k
    <3> SUFFICES ASSUME NEW i \in 1 .. Len(queue'), NEW k \in 1 .. Len(queue'),
                        queue'[i] = queue'[k]
                 PROVE  i = k
      OBVIOUS
    <3>1. CASE i <= Len(queue) /\ k <= Len(queue)
      BY <2>4, <3>1
    <3>2. CASE i > Len(queue) /\ k > Len(queue)
      <4>1. /\ i \in Len(queue) + 1 .. Len(queue) + n
            /\ k \in Len(queue) + 1 .. Len(queue) + n
        BY <2>4, <3>2
      <4>2. posted[i - Len(queue)] = posted[k - Len(queue)]
        BY <2>4, <4>1
      <4>3. i - Len(queue) = k - Len(queue)
        <5>1. i - Len(queue) \in 1 .. Len(posted) /\ k - Len(queue) \in 1 .. Len(posted)
          BY <2>5, <4>1
        <5>2. \A x, y \in 1 .. Len(posted) : posted[x] = posted[y] => x = y
          OBVIOUS
        <5>3. QED
          BY <4>2, <5>1, <5>2
      <4>4. QED
        BY <4>1, <4>3
    <3>3. ASSUME NEW l \in 1 .. Len(queue'), NEW m \in 1 .. Len(queue'),
                 l <= Len(queue), m > Len(queue)
          PROVE  queue'[l] # queue'[m]
      <4>1. l \in 1 .. Len(queue) /\ m \in Len(queue) + 1 .. Len(queue) + n
        BY <2>4, <3>3
      <4>2. pc[queue'[l]] = "waiting"
        BY <2>4, <4>1
      <4>3. pc[queue'[m]] = "idle"
        BY <2>2, <2>5, <4>1
      <4>4. QED
        BY <4>2, <4>3
    <3>4. QED
      BY <2>4, <3>1, <3>2, <3>3
  <2>8. form' = form /\ posted' = << >>
    BY <1>18 DEF Receive
  <2>9. QED
    BY <2>6, <2>7, <2>8
<1>19. CASE Refused \/ AnswerLost
  BY <1>19 DEF Refused, AnswerLost, Opened
<1>20. CASE Refresh
  BY <1>20 DEF Refresh, Opened
<1>21. CASE UNCHANGED vars
  BY <1>21 DEF vars
<1>22. QED
  BY <1>1, <1>2, <1>3, <1>4, <1>5, <1>6, <1>7, <1>8, <1>9, <1>10, <1>11, <1>12, <1>13, <1>14, <1>15, <1>16, <1>17, <1>18, <1>19, <1>20, <1>21 DEF Next, SaveStep, PaymentStep

\* One step keeps StartedInv.
LEMMA StartedStep ==
  ASSUME TypeOK, TypeOK', QueueInv, StartedInv, [Next]_vars
  PROVE  StartedInv'
<1> USE WalletAssumption DEF TypeOK, storage, jobs, withdraw, Addresses, Jobs, StartedInv, Started
<1>1. ASSUME NEW j \in Jobs, Ask(j) PROVE StartedInv'
  BY <1>1 DEF Ask
<1>2. ASSUME NEW j \in Jobs, Acquire(j) PROVE StartedInv'
  <2>1. pc[j] = "waiting"
    BY <1>2 DEF Acquire, QueueInv
  <2>2. Started' = Started
    BY <1>2, <2>1 DEF Acquire
  <2>3. QED
    BY <1>2, <2>1, <2>2 DEF Acquire
<1>3. ASSUME NEW j \in Jobs, Store(j) PROVE StartedInv'
  BY <1>3 DEF Store, Released
<1>4. ASSUME NEW j \in Jobs, SaveFails(j) PROVE StartedInv'
  BY <1>4 DEF SaveFails, HolderAfterThrow
<1>5. ASSUME NEW a \in Submits, SubmitAddress(a) PROVE StartedInv'
  BY <1>5 DEF SubmitAddress
<1>6. ASSUME NEW r \in Reloads, ReloadList(r) PROVE StartedInv'
  BY <1>6 DEF ReloadList
<1>7. ASSUME NEW a \in Addresses, Discard(a) PROVE StartedInv'
  BY <1>7 DEF Discard, Remove, Without
<1>8. ASSUME NEW p \in Payments, Pay(p) PROVE StartedInv'
  BY <1>8 DEF Pay
<1>9. ASSUME NEW p \in Payments, Paid(p) PROVE StartedInv'
  <2>1. Started' = Started
    BY <1>9 DEF Paid, AfterPayment
  <2>2. \A j \in Jobs : todo'[j] \subseteq todo[j] \cup Started
    BY <1>9 DEF Paid, AfterPayment
  <2>3. \A q \in Payments : pc'[q] # "idle" => pc[q] # "idle"
    BY <1>9 DEF Paid, AfterPayment
  <2>4. \A a \in Arriving : pc'[a] = pc[a]
    BY <1>9 DEF Paid, AfterPayment
  <2>5. QED
    BY <1>9, <2>1, <2>2, <2>3, <2>4 DEF Paid
<1>10. ASSUME NEW p \in Payments, PayFails(p) PROVE StartedInv'
  BY <1>10 DEF PayFails
<1>11. ASSUME NEW p \in Payments, Untrust(p) PROVE StartedInv'
  BY <1>11 DEF Untrust
<1>12. ASSUME NEW p \in Payments, Merge(p) PROVE StartedInv'
  BY <1>12 DEF Merge
<1>13. ASSUME NEW p \in Payments, Forget(p) PROVE StartedInv'
  BY <1>13 DEF Forget, AfterPayment, Remove, Without
<1>14. ASSUME NEW p \in Payments, ClosingFails(p) PROVE StartedInv'
  BY <1>14 DEF ClosingFails, AfterPayment, Kept
<1>15. ASSUME NEW a \in Arriving, AddAsset(a) PROVE StartedInv'
  BY <1>15 DEF AddAsset, Mapped
<1>16. ASSUME NEW i \in DOMAIN form, RemoveAsset(i) PROVE StartedInv'
  BY <1>16 DEF RemoveAsset
<1>17. CASE Submit
  BY <1>17 DEF Submit, sent
<1>18. CASE Receive
  <2>1. PICK n \in 0 .. Len(posted) :
          /\ Reached(n)
          /\ queue' = queue \o SubSeq(posted, 1, n)
          /\ pc' = [j \in Jobs |-> IF j \in FirstPosted(n) THEN "waiting" ELSE pc[j]]
          /\ target' = [j \in Jobs |-> IF j \in FirstPosted(n) THEN j ELSE target[j]]
    BY <1>18 DEF Receive, Opened, sent
  <2>2. FirstPosted(n) \subseteq Posted /\ Posted \subseteq Arriving
    BY DEF FirstPosted, Posted
  <2>3. Started \cup FirstPosted(n) \subseteq Started'
    BY <1>18, <2>1, <2>2 DEF Receive, Opened, sent
  <2>4. \A j \in Jobs : todo'[j] \cup snap'[j] \cup {target'[j]} \subseteq Started' \cup {Nobody}
    BY <1>18, <2>1, <2>3 DEF Receive, Opened, sent
  <2>5. \A p \in Payments : pc'[p] # "idle" => AccountOf[p] \in Started'
    BY <2>1, <2>2, <2>3
  <2>6. granted' = {} => \A a \in Arriving : pc'[a] = "idle"
    BY <1>18, <2>1, <2>2 DEF Receive, Opened, sent
  <2>7. QED
    BY <1>18, <2>3, <2>4, <2>5, <2>6 DEF Receive, Opened, sent
<1>19. CASE Refused \/ AnswerLost
  BY <1>19 DEF Refused, AnswerLost, Opened, sent
<1>20. CASE Refresh
  BY <1>20 DEF Refresh, Opened, sent
<1>21. CASE UNCHANGED vars
  BY <1>21 DEF vars
<1>22. QED
  BY <1>1, <1>2, <1>3, <1>4, <1>5, <1>6, <1>7, <1>8, <1>9, <1>10, <1>11, <1>12, <1>13, <1>14, <1>15, <1>16, <1>17, <1>18, <1>19, <1>20, <1>21 DEF Next, SaveStep, PaymentStep

\* One step keeps ListInv.
LEMMA ListStep ==
  ASSUME TypeOK, TypeOK', QueueInv, StartedInv, ListInv, [Next]_vars
  PROVE  ListInv'
<1> USE WalletAssumption DEF TypeOK, storage, jobs, withdraw, Addresses, Jobs, ListInv, NothingForgotten
<1>1. ASSUME NEW j \in Jobs, Ask(j) PROVE ListInv'
  BY <1>1 DEF Ask
<1>2. ASSUME NEW j \in Jobs, Acquire(j) PROVE ListInv'
  BY <1>2 DEF Acquire, Free
<1>3. ASSUME NEW j \in Jobs, Store(j) PROVE ListInv'
  BY <1>3 DEF Store, Released
<1>4. ASSUME NEW j \in Jobs, SaveFails(j) PROVE ListInv'
  BY <1>4 DEF SaveFails, HolderAfterThrow
<1>5. ASSUME NEW a \in Submits, SubmitAddress(a) PROVE ListInv'
  BY <1>5 DEF SubmitAddress
<1>6. ASSUME NEW r \in Reloads, ReloadList(r) PROVE ListInv'
  BY <1>6 DEF ReloadList
<1>7. ASSUME NEW a \in Addresses, Discard(a) PROVE ListInv'
  BY <1>7 DEF Discard, Remove, Without
<1>8. ASSUME NEW p \in Payments, Pay(p) PROVE ListInv'
  BY <1>8 DEF Pay
<1>9. ASSUME NEW p \in Payments, Paid(p) PROVE ListInv'
  BY <1>9 DEF Paid, AfterPayment
<1>10. ASSUME NEW p \in Payments, PayFails(p) PROVE ListInv'
  BY <1>10 DEF PayFails
<1>11. ASSUME NEW p \in Payments, Untrust(p) PROVE ListInv'
  BY <1>11 DEF Untrust
<1>12. ASSUME NEW p \in Payments, Merge(p) PROVE ListInv'
  BY <1>12 DEF Merge
<1>13. ASSUME NEW p \in Payments, Forget(p) PROVE ListInv'
  BY <1>13 DEF Forget, AfterPayment, Remove, Without
<1>14. ASSUME NEW p \in Payments, ClosingFails(p) PROVE ListInv'
  BY <1>14 DEF ClosingFails, AfterPayment, Kept
<1>15. ASSUME NEW a \in Arriving, AddAsset(a) PROVE ListInv'
  BY <1>15 DEF AddAsset, Mapped
<1>16. ASSUME NEW i \in DOMAIN form, RemoveAsset(i) PROVE ListInv'
  BY <1>16 DEF RemoveAsset
<1>17. CASE Submit
  BY <1>17 DEF Submit
<1>18. CASE Receive
  BY <1>18 DEF Receive, Opened, Reached, Posted, FirstPosted
<1>19. CASE Refused \/ AnswerLost
  BY <1>19 DEF Refused, AnswerLost, Opened
<1>20. CASE Refresh
  BY <1>20 DEF Refresh, Opened
<1>21. CASE UNCHANGED vars
  BY <1>21 DEF vars
<1>22. QED
  BY <1>1, <1>2, <1>3, <1>4, <1>5, <1>6, <1>7, <1>8, <1>9, <1>10, <1>11, <1>12, <1>13, <1>14, <1>15, <1>16, <1>17, <1>18, <1>19, <1>20, <1>21 DEF Next, SaveStep, PaymentStep

\* One step keeps GhostInv.
LEMMA GhostStep ==
  ASSUME TypeOK, TypeOK', QueueInv, StartedInv, GhostInv, [Next]_vars
  PROVE  GhostInv'
<1> USE WalletAssumption DEF TypeOK, storage, jobs, withdraw, Addresses, Jobs, GhostInv, NoGhosts
<1>1. ASSUME NEW j \in Jobs, Ask(j) PROVE GhostInv'
  BY <1>1 DEF Ask
<1>2. ASSUME NEW j \in Jobs, Acquire(j) PROVE GhostInv'
  BY <1>2 DEF Acquire, Free
<1>3. ASSUME NEW j \in Jobs, Store(j) PROVE GhostInv'
  BY <1>3 DEF Store, Released
<1>4. ASSUME NEW j \in Jobs, SaveFails(j) PROVE GhostInv'
  BY <1>4 DEF SaveFails, HolderAfterThrow
<1>5. ASSUME NEW a \in Submits, SubmitAddress(a) PROVE GhostInv'
  BY <1>5 DEF SubmitAddress, StartedInv, Started
<1>6. ASSUME NEW r \in Reloads, ReloadList(r) PROVE GhostInv'
  BY <1>6 DEF ReloadList
<1>7. ASSUME NEW a \in Addresses, Discard(a) PROVE GhostInv'
  BY <1>7 DEF Discard, Remove, Without, Underway
<1>8. ASSUME NEW p \in Payments, Pay(p) PROVE GhostInv'
  BY <1>8 DEF Pay
<1>9. ASSUME NEW p \in Payments, Paid(p) PROVE GhostInv'
  <2>1. \A j \in Jobs : todo'[j] \subseteq todo[j] \cup list
    BY <1>9 DEF Paid, AfterPayment
  <2>2. QED
    BY <1>9, <2>1 DEF Paid
<1>10. ASSUME NEW p \in Payments, PayFails(p) PROVE GhostInv'
  BY <1>10 DEF PayFails
<1>11. ASSUME NEW p \in Payments, Untrust(p) PROVE GhostInv'
  BY <1>11 DEF Untrust
<1>12. ASSUME NEW p \in Payments, Merge(p) PROVE GhostInv'
  BY <1>12 DEF Merge
<1>13. ASSUME NEW p \in Payments, Forget(p) PROVE GhostInv'
  BY <1>13 DEF Forget, AfterPayment, Remove, Without, Underway
<1>14. ASSUME NEW p \in Payments, ClosingFails(p) PROVE GhostInv'
  BY <1>14 DEF ClosingFails, AfterPayment, Kept
<1>15. ASSUME NEW a \in Arriving, AddAsset(a) PROVE GhostInv'
  BY <1>15 DEF AddAsset, Mapped
<1>16. ASSUME NEW i \in DOMAIN form, RemoveAsset(i) PROVE GhostInv'
  BY <1>16 DEF RemoveAsset
<1>17. CASE Submit
  BY <1>17 DEF Submit
<1>18. CASE Receive
  BY <1>18 DEF Receive, Opened, Reached, Posted, FirstPosted, StartedInv, Started
<1>19. CASE Refused \/ AnswerLost
  BY <1>19 DEF Refused, AnswerLost, Opened
<1>20. CASE Refresh
  BY <1>20 DEF Refresh, Opened
<1>21. CASE UNCHANGED vars
  BY <1>21 DEF vars
<1>22. QED
  BY <1>1, <1>2, <1>3, <1>4, <1>5, <1>6, <1>7, <1>8, <1>9, <1>10, <1>11, <1>12, <1>13, <1>14, <1>15, <1>16, <1>17, <1>18, <1>19, <1>20, <1>21 DEF Next, SaveStep, PaymentStep

\* One step keeps SecretInv.
LEMMA SecretStep ==
  ASSUME TypeOK, TypeOK', QueueInv, StartedInv, SecretInv, [Next]_vars
  PROVE  SecretInv'
<1> USE WalletAssumption DEF TypeOK, storage, jobs, withdraw, Addresses, Jobs, sent, SecretInv, SecretsKept, InForm, Posted, FirstPosted, StartedInv
<1>1. ASSUME NEW j \in Jobs, Ask(j) PROVE SecretInv'
  BY <1>1 DEF Ask
<1>2. ASSUME NEW j \in Jobs, Acquire(j) PROVE SecretInv'
  <2>1. pc[j] = "waiting"
    BY <1>2 DEF Acquire, QueueInv
  <2>2. QED
    BY <1>2, <2>1 DEF Acquire
<1>3. ASSUME NEW j \in Jobs, Store(j) PROVE SecretInv'
  BY <1>3 DEF Store, Released
<1>4. ASSUME NEW j \in Jobs, SaveFails(j) PROVE SecretInv'
  BY <1>4 DEF SaveFails, HolderAfterThrow
<1>5. ASSUME NEW a \in Submits, SubmitAddress(a) PROVE SecretInv'
  BY <1>5 DEF SubmitAddress
<1>6. ASSUME NEW r \in Reloads, ReloadList(r) PROVE SecretInv'
  BY <1>6 DEF ReloadList
<1>7. ASSUME NEW a \in Addresses, Discard(a) PROVE SecretInv'
  BY <1>7 DEF Discard, Remove, Without
<1>8. ASSUME NEW p \in Payments, Pay(p) PROVE SecretInv'
  BY <1>8 DEF Pay
<1>9. ASSUME NEW p \in Payments, Paid(p) PROVE SecretInv'
  BY <1>9 DEF Paid, AfterPayment
<1>10. ASSUME NEW p \in Payments, PayFails(p) PROVE SecretInv'
  BY <1>10 DEF PayFails
<1>11. ASSUME NEW p \in Payments, Untrust(p) PROVE SecretInv'
  BY <1>11 DEF Untrust
<1>12. ASSUME NEW p \in Payments, Merge(p) PROVE SecretInv'
  BY <1>12 DEF Merge
<1>13. ASSUME NEW p \in Payments, Forget(p) PROVE SecretInv'
  BY <1>13 DEF Forget, AfterPayment, Remove, Without
<1>14. ASSUME NEW p \in Payments, ClosingFails(p) PROVE SecretInv'
  BY <1>14 DEF ClosingFails, AfterPayment, Kept
<1>15. ASSUME NEW a \in Arriving, AddAsset(a) PROVE SecretInv'
  BY <1>15 DEF AddAsset, Mapped
<1>16. ASSUME NEW i \in DOMAIN form, RemoveAsset(i) PROVE SecretInv'
  BY <1>16 DEF RemoveAsset
<1>17. CASE Submit
  BY <1>17 DEF Submit
<1>18. CASE Receive
  <2>1. PICK n \in 0 .. Len(posted) :
          /\ Reached(n)
          /\ queue' = queue \o SubSeq(posted, 1, n)
          /\ pc' = [j \in Jobs |-> IF j \in FirstPosted(n) THEN "waiting" ELSE pc[j]]
          /\ target' = [j \in Jobs |-> IF j \in FirstPosted(n) THEN j ELSE target[j]]
    BY <1>18 DEF Receive, Opened
  <2>2. FirstPosted(n) \subseteq Arriving
    BY DEF FirstPosted
  <2>3. ~disturbed => Posted = FirstPosted(n)
    <3>1. CASE n < Len(posted)
      <4>1. n + 1 \in DOMAIN posted /\ posted[n + 1] \in Posted
        BY <3>1 DEF FirstPosted
      <4>2. QED
        BY <2>1, <3>1, <4>1 DEF Reached
    <3>2. CASE n = Len(posted)
      BY <3>2
    <3>3. n < Len(posted) \/ n = Len(posted)
      OBVIOUS
    <3>4. QED
      BY <3>1, <3>2, <3>3
  <2>4. SecretsKept'
    BY <1>18, <2>1, <2>2, <2>3 DEF Receive, Opened
  <2>5. \A a \in Arriving :
          todo'[a] = {} /\ (pc'[a] \in {"waiting", "reading"} => target'[a] = a)
    BY <1>18, <2>1, <2>2 DEF Receive, Opened
  <2>6. InForm' = InForm /\ Posted' = {} /\ mapped' = mapped /\ disturbed' = disturbed
    BY <1>18 DEF Receive, Opened
  <2>7. QED
    BY <2>4, <2>5, <2>6
<1>19. CASE Refused \/ AnswerLost
  BY <1>19 DEF Refused, AnswerLost, Opened
<1>20. CASE Refresh
  BY <1>20 DEF Refresh, Opened
<1>21. CASE UNCHANGED vars
  BY <1>21 DEF vars
<1>22. QED
  BY <1>1, <1>2, <1>3, <1>4, <1>5, <1>6, <1>7, <1>8, <1>9, <1>10, <1>11, <1>12, <1>13, <1>14, <1>15, <1>16, <1>17, <1>18, <1>19, <1>20, <1>21 DEF Next, SaveStep, PaymentStep

-------------------------------------------------------------------------------
IInv == TypeOK /\ QueueInv /\ StartedInv /\ ListInv /\ GhostInv /\ SecretInv

\* The parts together hold of every state that can be reached.
LEMMA Invariance == Spec => []IInv
<1>1. Init => IInv
  <2> SUFFICES ASSUME Init PROVE IInv
    OBVIOUS
  <2> USE WalletAssumption DEF Init, Addresses, Jobs
  <2>1. TypeOK
    <3>1. queue \in Seq(Jobs) /\ form \in Seq(Arriving) /\ posted \in Seq(Arriving)
      OBVIOUS
    <3>2. pc \in [Jobs -> {"idle", "next", "waiting", "reading", "failed", "done",
                          "paying", "untrusting", "merging", "merged"}]
      OBVIOUS
    <3>3. /\ target \in [Jobs -> Addresses \cup {Nobody}]
          /\ todo \in [Jobs -> SUBSET Addresses]
          /\ snap \in [Jobs -> SUBSET Addresses]
      OBVIOUS
    <3>4. QED
      BY <3>1, <3>2, <3>3 DEF TypeOK
  <2>2. QueueInv /\ StartedInv
    BY DEF QueueInv, StartedInv, Started
  <2>3. ListInv /\ GhostInv
    BY DEF ListInv, NothingForgotten, GhostInv, NoGhosts
  <2>4. SecretInv
    BY DEF SecretInv, SecretsKept, InForm, Posted, FirstPosted
  <2>5. QED
    BY <2>1, <2>2, <2>3, <2>4 DEF IInv
<1>2. IInv /\ [Next]_vars => IInv'
  BY TypeStep, QueueStep, StartedStep, ListStep, GhostStep, SecretStep DEF IInv
<1>3. QED
  BY <1>1, <1>2, PTL DEF Spec

\* Everything stays in its type: in particular, whoever has the mutex is in the
\* middle of a save, or threw in one (private.account.service.ts:64-94).
THEOREM WalletTypeCorrect == Spec => []TypeOK
BY Invariance, PTL DEF IInv

\* Saves that nobody awaits, reloads and payments never write over each other's
\* secrets (private.account.service.ts:64-94).
THEOREM NothingIsForgotten == Spec => []NothingForgotten
BY Invariance, PTL DEF IInv, ListInv

\* An account that was removed comes back only if a save had it in hand
\* (private.account.service.ts:96-103).
THEOREM OnlyRacedComeBack == Spec => []NoGhosts
BY Invariance, PTL DEF IInv, GhostInv

\* Both, of whatever goes on at once in a tab (private.account.service.ts:64-103).
THEOREM ListIsFaithful == Spec => []ListFaithful
BY NothingIsForgotten, OnlyRacedComeBack, PTL DEF ListFaithful

\* The secrets of a granted withdraw are stored, or in a save that can still end,
\* unless an asset was taken out of the form, the answer was lost, a save threw or
\* the page was loaded again (withdraw-form.component.ts:128-148).
THEOREM SecretsAreKept == Spec => []SecretsKept
BY Invariance, PTL DEF IInv, SecretInv

\* Once a save has thrown and until the page is loaded again, no account is
\* stored (private.account.service.ts:65-92).
THEOREM StuckStaysStuck == Spec => StuckForGood
<1>1. IInv /\ [Next]_vars => (Stuck /\ Stuck' => stored' = stored)
  <2> SUFFICES ASSUME IInv, [Next]_vars, Stuck PROVE stored' = stored
    OBVIOUS
  <2>1. ASSUME NEW k \in Jobs, Store(k) PROVE FALSE
    BY <2>1 DEF Store, IInv, ListInv, Stuck
  <2>2. QED
    BY <2>1 DEF Next, SaveStep, Ask, Acquire, SaveFails, SubmitAddress, ReloadList, Discard,
       Remove, PaymentStep, Pay, Paid, PayFails, Untrust, Merge, Forget, ClosingFails,
       AddAsset, RemoveAsset, Submit, Receive, Refused, AnswerLost, Refresh, storage, vars
<1>2. QED
  BY <1>1, Invariance, PTL DEF StuckForGood, Spec

(***************************************************************************)
(* The withdraw form                                                       *)
(***************************************************************************)

\* What the page shows is what its assets add up to, and what was asked for when
\* Submit was pressed is what was sent adds up to.
FormInv ==
  /\ form \in Seq(Arriving) /\ assets \in Seq(Entries)
  /\ Len(assets) = Len(form)
  /\ assets = << >> \/ totalAmount = calculateTotal(assets)
  /\ posted \in Seq(Arriving) /\ order \in Seq(Entries)
  /\ Len(order) = Len(posted)
  /\ order = << >> \/ asked = calculateTotal(order)

-------------------------------------------------------------------------------
\* The browser's sum is the server's: asset.math.util.ts and math.ts, the loop
\* of calculateTotal and that of totalAssetsAmount.
LEMMA SameSum == ASSUME NEW s PROVE calculateTotal(s) = totalAssetsAmount(s)
BY DEF calculateTotal, totalAssetsAmount, clientAssetToNumber,
             multipleAssetToValue, assetToNumber

\* What an asset that was sent is worth, as the server counts.
Worth(i) == multipleAssetToValue(order[i].assetName, order[i].amountNumber)

\* Assets that pass validateAmmount add up to no less than each of them is worth.
LEMMA NoneAboveSum ==
  ASSUME FormInv, validateAmmount(order), NEW i \in 1 .. Len(order)
  PROVE  Worth(i) <= totalAssetsAmount(order)
<1> DEFINE worth == [k \in DOMAIN order |-> Worth(k)]
<1>1. DOMAIN order = 1 .. Len(order) /\ Len(order) \in Nat
  BY DEF FormInv
<1>2. IsFiniteSet(DOMAIN order)
  BY <1>1, FS_Interval
<1>3. \A k \in DOMAIN order : worth[k] = Worth(k) /\ worth[k] \in Nat
  <2> SUFFICES ASSUME NEW k \in DOMAIN order PROVE Worth(k) \in Nat
    OBVIOUS
  <2>1. order[k] \in Entries
    BY <1>1, ElementOfSeq DEF FormInv
  <2>2. order[k] \in [assetName : Names, amountNumber : Int]
    BY <2>1 DEF Entries
  <2> DEFINE name == order[k].assetName
             amount == order[k].amountNumber
  <2>3. name \in Names /\ amount \in Nat
    BY <1>1, <2>2 DEF validateAmmount
  <2>4. assetToNumber(name) \in Nat
    BY <2>3 DEF Names, assetToNumber
  <2> HIDE DEF name, amount
  <2>5. assetToNumber(name) * amount \in Nat
    BY <2>3, <2>4
  <2>6. QED
    BY <2>5 DEF Worth, multipleAssetToValue, name, amount
<1>4. totalAssetsAmount(order) = Sum(worth, DOMAIN order)
  <2>1. totalAssetsAmount(order) = SumFunction(worth)
    BY DEF totalAssetsAmount, Worth
  <2>2. DOMAIN worth = DOMAIN order
    OBVIOUS
  <2>3. QED
    BY <2>1, <2>2, SumFunctionIs
<1> HIDE DEF worth
<1>5. QED
  BY <1>1, <1>2, <1>3, <1>4, TermBelowSum

\* What the steps of Wallet do to its form.
LEMMA FormKept ==
  ASSUME Elsewhere \/ PaymentArrives
  PROVE  UNCHANGED <<form, posted, page, request>>
BY DEF Elsewhere, PaymentArrives, SaveStep, Ask, Acquire, Store, SaveFails,
       SubmitAddress, ReloadList, Discard, Remove, PaymentStep, Pay, Paid, PayFails,
       Untrust, Merge, Forget, ClosingFails, withdraw, vars, formVars

LEMMA FormStep ==
  ASSUME FormInv, [FormNext]_<<vars, formVars>>
  PROVE  FormInv'
<1> USE DEF page, request
<1>1. ASSUME NEW a \in Arriving, NEW choice \in Choices[a], EnterAsset(a, choice)
      PROVE  FormInv'
  <2>1. /\ form' = Append(form, a) /\ assets' = Append(assets, choice)
        /\ totalAmount' = calculateTotal(assets')
        /\ UNCHANGED <<posted, order, asked>>
    BY <1>1 DEF EnterAsset, AddAsset
  <2>2. /\ form \in Seq(Arriving) /\ assets \in Seq(Entries)
        /\ Len(assets) = Len(form)
    BY DEF FormInv
  <2>3. form' \in Seq(Arriving) /\ Len(form') = Len(form) + 1
    BY <2>1, <2>2
  <2>4. assets' \in Seq(Entries) /\ Len(assets') = Len(assets) + 1
    <3>1. choice \in Entries
      BY <1>1, FormAssumption DEF FormAssumption
    <3>2. QED
      BY <2>1, <2>2, <3>1
  <2>5. QED
    BY <2>1, <2>2, <2>3, <2>4 DEF FormInv
<1>2. ASSUME NEW i \in DOMAIN form, DropAsset(i) PROVE FormInv'
  <2>1. /\ form' = SubSeq(form, 1, i - 1) \o SubSeq(form, i + 1, Len(form))
        /\ assets' = SubSeq(assets, 1, i - 1) \o SubSeq(assets, i + 1, Len(assets))
        /\ totalAmount' = calculateTotal(assets')
        /\ UNCHANGED <<posted, order, asked>>
    BY <1>2 DEF DropAsset, RemoveAsset, Recalculated
  <2>2. /\ form \in Seq(Arriving) /\ assets \in Seq(Entries)
        /\ Len(assets) = Len(form)
    BY DEF FormInv
  <2>3. i \in 1 .. Len(form) /\ i \in 1 .. Len(assets)
    BY <2>2
  <2>4. form' \in Seq(Arriving) /\ Len(form') = Len(form) - 1
    BY <2>1, <2>2, <2>3, WithoutOne
  <2>5. assets' \in Seq(Entries) /\ Len(assets') = Len(assets) - 1
    BY <2>1, <2>2, <2>3, WithoutOne
  <2>6. QED
    BY <2>1, <2>2, <2>4, <2>5 DEF FormInv
<1>3. CASE PressSubmit
  <2>1. /\ UNCHANGED <<form, assets, totalAmount>>
        /\ posted' = form /\ order' = assets /\ asked' = totalAmount
    BY <1>3 DEF PressSubmit, Submit
  <2>2. QED
    BY <2>1 DEF FormInv
<1>4. CASE Granted \/ RefusedByCheck \/ NotGranted \/ GrantedUnseen
  <2>1. /\ UNCHANGED <<form, assets, totalAmount>>
        /\ posted' = << >> /\ order' = << >>
    BY <1>4 DEF Granted, Receive, RefusedByCheck, NotGranted, Refused, GrantedUnseen,
            AnswerLost, Answered
  <2>2. QED
    BY <2>1 DEF FormInv
<1>5. CASE LoadAgain
  <2>1. form' = << >> /\ assets' = << >> /\ posted' = << >> /\ order' = << >>
    BY <1>5 DEF LoadAgain, Refresh, Answered
  <2>2. QED
    BY <2>1 DEF FormInv
<1>6. CASE Elsewhere \/ PaymentArrives
  BY <1>6, FormKept DEF FormInv
<1>7. CASE UNCHANGED <<vars, formVars>>
  BY <1>7 DEF FormInv, vars, withdraw, formVars
<1>8. QED
  BY <1>1, <1>2, <1>3, <1>4, <1>5, <1>6, <1>7 DEF FormNext

LEMMA FormInvariant == FormSpec => []FormInv
<1>1. FormInit => FormInv
  BY DEF FormInit, Init, FormInv
<1>2. FormInv /\ [FormNext]_<<vars, formVars>> => FormInv'
  BY FormStep
<1>3. QED
  BY <1>1, <1>2, PTL DEF FormSpec

-------------------------------------------------------------------------------
(* Theorems                                                                *)

\* The tab with its withdraw form is the tab of Wallet, and what WalletProofs
\* proves holds in it (private.account.service.ts, withdraw-form.component.ts).
THEOREM FormIsWallet == FormSpec => Spec
<1>1. FormInit => Init
  BY DEF FormInit
<1>2. [FormNext]_<<vars, formVars>> => [Next]_vars
  <2> SUFFICES ASSUME [FormNext]_<<vars, formVars>> PROVE [Next]_vars
    OBVIOUS
  <2>1. ASSUME NEW a \in Arriving, NEW choice \in Choices[a], EnterAsset(a, choice)
        PROVE  Next
    BY <2>1 DEF EnterAsset, Next
  <2>2. ASSUME NEW i \in DOMAIN form, DropAsset(i) PROVE Next
    BY <2>2 DEF DropAsset, Next
  <2>3. CASE PressSubmit \/ Granted \/ RefusedByCheck \/ NotGranted \/ GrantedUnseen \/ LoadAgain
    BY <2>3 DEF PressSubmit, Granted, RefusedByCheck, NotGranted, GrantedUnseen, LoadAgain, Next
  <2>4. CASE Elsewhere
    BY <2>4 DEF Elsewhere, Next
  <2>5. CASE PaymentArrives \/ UNCHANGED <<vars, formVars>>
    BY <2>5 DEF PaymentArrives
  <2>6. QED
    BY <2>1, <2>2, <2>3, <2>4, <2>5 DEF FormNext
<1>3. QED
  BY <1>1, <1>2, PTL DEF FormSpec, Spec

\* So a tab with a withdraw form in it loses no stored secret, stores those of a
\* granted withdraw but for the four exceptions of SecretsKept, and stores none once
\* a save has thrown.
THEOREM FormIsSafe ==
  FormSpec => [](TypeOK /\ ListFaithful /\ SecretsKept) /\ StuckForGood
BY FormIsWallet, WalletTypeCorrect, ListIsFaithful, SecretsAreKept, StuckStaysStuck, PTL

\* A form whose total is the amount to receive when Submit is pressed is not refused
\* for what it adds up to, while the page has the server's number, and whatever is
\* done to it meanwhile (withdraw-form.component.ts:57-100,
\* withdraws.service.ts:72-79).
THEOREM FormIsGranted == FormSpec => HonestPostGranted
<1>1. FormInv /\ RefusedByCheck =>
        asked # Due \/ owed # Due \/ ~validateAmmount(order)
  <2> SUFFICES ASSUME FormInv, RefusedByCheck, asked = Due, owed = Due,
                      validateAmmount(order)
               PROVE  FALSE
    OBVIOUS
  <2>1. order # << >>
    BY DEF FormInv, RefusedByCheck, Refused, sent
  <2>2. asked = totalAssetsAmount(order)
    BY <2>1, SameSum DEF FormInv
  <2>3. QED
    BY <2>2 DEF RefusedByCheck, AddsUp
<1>2. QED
  BY <1>1, FormInvariant, PTL DEF HonestPostGranted

\* What the server grants is what the total on the page said when Submit was
\* pressed, and no asset of it is worth more than the deposit
\* (withdraws.controller.ts:38-46).
THEOREM FormIsHonoured == FormSpec => GrantedAsShown
<1> DEFINE Honoured ==
             /\ asked = owed
             /\ \A i \in 1 .. Len(order) :
                  multipleAssetToValue(order[i].assetName, order[i].amountNumber) <= owed
<1>1. FormInv /\ [FormNext]_<<vars, formVars>> =>
        (granted = {} /\ granted' # {} => Honoured)
  <2> SUFFICES ASSUME FormInv, [FormNext]_<<vars, formVars>>,
                      granted = {}, granted' # {}
               PROVE  Honoured
    OBVIOUS
  <2>1. Granted \/ GrantedUnseen \/ LoadAgain
    BY DEF FormNext, EnterAsset, AddAsset, DropAsset, RemoveAsset, PressSubmit, Submit,
           RefusedByCheck, NotGranted, Refused, PaymentArrives,
           Elsewhere, SaveStep, Ask, Acquire, Store, SaveFails, SubmitAddress,
           ReloadList, Discard, Remove, PaymentStep, Pay, Paid, PayFails, Untrust,
           Merge, Forget, ClosingFails, withdraw, vars
  <2>2. sent /\ AddsUp
    BY <2>1 DEF Granted, Receive, GrantedUnseen, AnswerLost, LoadAgain, Refresh
  <2>3. order # << >>
    BY <2>2 DEF FormInv, sent
  <2>4. asked = totalAssetsAmount(order)
    BY <2>3, SameSum DEF FormInv
  <2>5. totalAssetsAmount(order) = owed /\ validateAmmount(order)
    BY <2>2 DEF AddsUp
  <2>6. QED
    BY <2>4, <2>5, NoneAboveSum DEF Worth
<1>2. QED
  BY <1>1, FormInvariant, PTL DEF FormSpec, GrantedAsShown
===============================================================================
