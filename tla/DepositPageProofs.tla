--------------------------- MODULE DepositPageProofs ---------------------------
(***************************************************************************)
(* What holds of DepositPage for any number of deposits, tabs, reloads and *)
(* changes.  A call begins (Begin) or goes on (GoOn) in few ways, about    *)
(* which there is a lemma each; the actions only cite them.                *)
(***************************************************************************)
EXTENDS DepositPage, TLAPS

\* A call under way asks about a deposit.
AskedInv == \A c \in Live : asked[c] \in Hashes

\* A list that says of each deposit what its row once was.
Own(list) == \A h \in Hashes : list[h] # Absent =>
               list[h].of = h /\ list[h].ver \in 0..version[h]

\* And so do the answers that are on their way.
OwnInv ==
  /\ Own(stored)
  /\ \A t \in Tabs : Own(shown[t])
  /\ \A c \in Loads : Own(snap[c])
  /\ \A c \in Live : rpc[c] = "answered" => answer[c] \in 0..version[asked[c]]

\* Two calls ask about a deposit at once only where it is muddled, and what an
\* answer brings elsewhere is no older than what is stored.
OrderInv ==
  /\ \A c, d \in Live : c # d /\ asked[c] = asked[d] => asked[c] \in muddled
  /\ \A c \in Live :
       rpc[c] = "answered" /\ asked[c] \notin muddled
         /\ stored[asked[c]] # Absent
         => stored[asked[c]].ver <= answer[c]

\* A list that says of each of its deposits what the server now has.
UpToDate(list) == \A h \in Hashes : Current(h, list[h])

\* What a call that is alone has done so far.
CalmInv ==
  calm =>
    /\ \A c, d \in Live : c = d
    /\ \A c \in Live :
         /\ \A h \in Hashes \ (todo[c] \cup {asked[c]}) : Current(h, stored[h])
         /\ rpc[c] = "answered" => answer[c] = version[asked[c]]
         /\ Listed(snap[c]) = Listed(stored)
         /\ streak >= 1 => UpToDate(snap[c])

StreakInv ==
  /\ streak >= 1 =>
       /\ last \in Tabs
       /\ UpToDate(stored)
       /\ Listed(shown[last]) = Listed(stored)
  /\ streak = 2 => UpToDate(shown[last])

USE DEF page, calls, history

-------------------------------------------------------------------------------
(* Types                                                                   *)

LEMMA TypeInit == ASSUME ConstantsAssumption PROVE Init => TypeOK /\ AskedInv
<1> SUFFICES ASSUME Init PROVE TypeOK /\ AskedInv
  OBVIOUS
<1>1. NoList \in Lists
  BY DEF NoList, Lists
<1>2. Live = {}
  BY DEF Init, Live
<1>3. /\ version \in [Hashes -> Nat] /\ stored \in Lists
      /\ shown \in [Tabs -> Lists] /\ snap \in [Loads -> Lists]
  BY <1>1 DEF Init
<1>4. /\ rpc \in [Loads -> {"idle", "asked", "answered", "done", "killed"}]
      /\ todo \in [Loads -> SUBSET Hashes]
      /\ asked \in [Loads -> Hashes \cup {Absent}]
      /\ answer \in [Loads -> Nat]
  BY DEF Init
<1>5. /\ kept \subseteq Hashes /\ muddled \subseteq Hashes
      /\ streak \in 0..2 /\ last \in Tabs \cup {Absent}
  BY DEF Init
<1>6. calm \in BOOLEAN
  BY DEF Init
<1>7. QED
  BY <1>2, <1>3, <1>4, <1>5, <1>6 DEF AskedInv, TypeOK

\* The variables of the calls, as a step of one call leaves them.
CallTypes ==
  /\ shown \in [Tabs -> Lists]
  /\ rpc \in [Loads -> {"idle", "asked", "answered", "done", "killed"}]
  /\ snap \in [Loads -> Lists]
  /\ todo \in [Loads -> SUBSET Hashes]
  /\ asked \in [Loads -> Hashes \cup {Absent}]
  /\ answer \in [Loads -> Nat]
  /\ muddled \subseteq Hashes
  /\ streak \in 0..2
  /\ last \in Tabs \cup {Absent}
  /\ AskedInv

LEMMA TypeGoOn ==
  ASSUME ConstantsAssumption, TypeOK, AskedInv,
         NEW c \in Loads, NEW list \in Lists, NEW left \in SUBSET Hashes,
         NEW run \in 0..2, GoOn(c, list, left, run)
  PROVE  CallTypes'
<1> USE DEF ConstantsAssumption
<1>1. CASE Show(c, list, run)
  <2>1. streak' \in 0..2
    BY <1>1 DEF Show
  <2>2. /\ shown' \in [Tabs -> Lists]
        /\ snap' \in [Loads -> Lists]
        /\ last' \in Tabs \cup {Absent}
    BY <1>1 DEF Show, TypeOK, NoList, Lists
  <2>3. /\ rpc' \in [Loads -> {"idle", "asked", "answered", "done", "killed"}]
        /\ todo' \in [Loads -> SUBSET Hashes]
        /\ asked' \in [Loads -> Hashes \cup {Absent}]
        /\ answer' \in [Loads -> Nat]
        /\ muddled' \subseteq Hashes
    BY <1>1 DEF Show, TypeOK
  <2>4. AskedInv'
    BY <1>1 DEF Show, TypeOK, AskedInv, Live
  <2>5. QED
    BY <2>1, <2>2, <2>3, <2>4 DEF CallTypes
<1>2. ASSUME NEW h \in left, Ask(c, list, left, h, run) PROVE CallTypes'
  <2>1. streak' \in 0..2
    BY <1>2 DEF Ask
  <2>2. /\ shown' \in [Tabs -> Lists]
        /\ snap' \in [Loads -> Lists]
        /\ last' \in Tabs \cup {Absent}
    BY <1>2 DEF Ask, TypeOK
  <2>3. /\ rpc' \in [Loads -> {"idle", "asked", "answered", "done", "killed"}]
        /\ todo' \in [Loads -> SUBSET Hashes]
        /\ asked' \in [Loads -> Hashes \cup {Absent}]
        /\ answer' \in [Loads -> Nat]
    BY <1>2 DEF Ask, TypeOK
  <2>4. muddled' \subseteq Hashes
    BY <1>2 DEF Ask, TypeOK
  <2>5. AskedInv'
    BY <1>2 DEF Ask, TypeOK, AskedInv, Live
  <2>6. QED
    BY <2>1, <2>2, <2>3, <2>4, <2>5 DEF CallTypes
<1>3. QED
  BY <1>1, <1>2 DEF GoOn

LEMMA TypeBegin ==
  ASSUME ConstantsAssumption, TypeOK, AskedInv,
         NEW c \in Loads, NEW list \in Lists, NEW run \in 0..2,
         Begin(c, list, run)
  PROVE  CallTypes' /\ calm' \in BOOLEAN
<1>1. Listed(list) \in SUBSET Hashes
  BY DEF Listed
<1>2. CallTypes'
  BY <1>1, TypeGoOn DEF Begin
<1>3. calm' \in BOOLEAN
  BY DEF Begin, Alone
<1>4. QED
  BY <1>2, <1>3

\* What a save or a removal makes of a list.
LEMMA ListsChange ==
  ASSUME NEW list \in Lists, NEW h \in Hashes
  PROVE  /\ [list EXCEPT ![h] = Fresh(h)] \in Lists
         /\ [list EXCEPT ![h] = Absent] \in Lists
BY DEF Lists, Entries, Fresh

LEMMA TypeStep ==
  ASSUME ConstantsAssumption, TypeOK, AskedInv, [Next]_vars
  PROVE  TypeOK' /\ AskedInv'
<1>1. ASSUME NEW c \in Loads, Reload(c) PROVE TypeOK' /\ AskedInv'
  <2>1. stored \in Lists /\ streak \in 0..2
    BY DEF TypeOK
  <2>2. CallTypes' /\ calm' \in BOOLEAN
    BY <1>1, <2>1, TypeBegin DEF Reload
  <2>3. QED
    BY <1>1, <2>2 DEF Reload, TypeOK, CallTypes
<1>2. ASSUME NEW c \in Loads, NEW h \in Hashes, SaveDeposit(c, h)
      PROVE TypeOK' /\ AskedInv'
  <2>1. stored' \in Lists
    BY <1>2, ListsChange DEF SaveDeposit, TypeOK
  <2>2. CallTypes' /\ calm' \in BOOLEAN
    BY <1>2, <2>1, TypeBegin DEF SaveDeposit
  <2>3. QED
    BY <1>2, <2>1, <2>2 DEF SaveDeposit, TypeOK, CallTypes
<1>3. ASSUME NEW c \in Loads, NEW h \in Hashes, RemoveDeposit(c, h)
      PROVE TypeOK' /\ AskedInv'
  <2>1. stored' \in Lists
    BY <1>3, ListsChange DEF RemoveDeposit, TypeOK
  <2>2. CallTypes' /\ calm' \in BOOLEAN
    BY <1>3, <2>1, TypeBegin DEF RemoveDeposit
  <2>3. QED
    BY <1>3, <2>1, <2>2 DEF RemoveDeposit, TypeOK, CallTypes
<1>4. ASSUME NEW c \in Loads, Serve(c) PROVE TypeOK' /\ AskedInv'
  <2>1. asked[c] \in Hashes
    BY <1>4 DEF Serve, AskedInv, Live
  <2>2. answer' \in [Loads -> Nat]
    BY <1>4, <2>1 DEF Serve, TypeOK
  <2>3. rpc' \in [Loads -> {"idle", "asked", "answered", "done", "killed"}]
    BY <1>4 DEF Serve, TypeOK
  <2>4. TypeOK'
    BY <1>4, <2>2, <2>3 DEF Serve, TypeOK
  <2>5. AskedInv'
    BY <1>4 DEF Serve, TypeOK, AskedInv, Live
  <2>6. QED
    BY <2>4, <2>5
<1>5. ASSUME NEW c \in Loads, Receive(c) PROVE TypeOK' /\ AskedInv'
  <2>1. asked[c] \in Hashes
    BY <1>5 DEF Receive, AskedInv, Live
  <2>2. stored' \in Lists
    BY <1>5, <2>1 DEF Receive, TypeOK, Updated, ListToUpdate, Lists, Entries
  <2>3. /\ snap[c] \in Lists /\ todo[c] \in SUBSET Hashes /\ streak \in 0..2
        /\ GoOn(c, snap[c], todo[c], streak)
    BY <1>5 DEF TypeOK, Receive
  <2>4. CallTypes'
    BY <2>3, TypeGoOn
  <2>5. QED
    BY <1>5, <2>2, <2>4 DEF Receive, TypeOK, CallTypes
<1>6. ASSUME NEW c \in Loads, Fail(c) PROVE TypeOK' /\ AskedInv'
  <2>1. /\ snap[c] \in Lists /\ todo[c] \in SUBSET Hashes /\ streak \in 0..2
        /\ GoOn(c, snap[c], todo[c], streak)
    BY <1>6 DEF TypeOK, Fail
  <2>2. CallTypes'
    BY <2>1, TypeGoOn
  <2>3. calm' \in BOOLEAN
    BY <1>6 DEF Fail, TypeOK
  <2>4. QED
    BY <1>6, <2>2, <2>3 DEF Fail, TypeOK, CallTypes
<1>7. ASSUME NEW t \in Tabs, Close(t) PROVE TypeOK' /\ AskedInv'
  <2>1. rpc' \in [Loads -> {"idle", "asked", "answered", "done", "killed"}]
    BY <1>7 DEF Close, TypeOK
  <2>2. shown' \in [Tabs -> Lists]
    BY <1>7 DEF Close, TypeOK, NoList, Lists
  <2>3. calm' \in BOOLEAN
    BY <1>7 DEF Close
  <2>4. TypeOK'
    BY <1>7, <2>1, <2>2, <2>3 DEF Close, TypeOK
  <2>5. AskedInv'
    BY <1>7 DEF Close, AskedInv, Live
  <2>6. QED
    BY <2>4, <2>5
<1>8. ASSUME NEW h \in Hashes, Change(h) PROVE TypeOK' /\ AskedInv'
  <2>1. version' \in [Hashes -> Nat]
    BY <1>8 DEF Change, TypeOK
  <2>2. calm' \in BOOLEAN
    BY <1>8 DEF Change
  <2>3. UNCHANGED <<stored, shown, rpc, snap, todo, asked, answer, kept,
                    muddled, last>> /\ streak' = 0
    BY <1>8 DEF Change
  <2>4. QED
    BY <2>1, <2>2, <2>3 DEF TypeOK, AskedInv, Live
<1>9. CASE UNCHANGED vars
  BY <1>9 DEF vars, TypeOK, AskedInv, Live
<1>10. QED
  BY <1>1, <1>2, <1>3, <1>4, <1>5, <1>6, <1>7, <1>8, <1>9 DEF Next

-------------------------------------------------------------------------------
(* The list in the storage                                                 *)

\* What an answer is written to: the entries that are there, and no others.
LEMMA ReceiveStores ==
  ASSUME ConstantsAssumption, TypeOK, AskedInv, NEW c \in Loads, Receive(c)
  PROVE  /\ c \in Live /\ asked[c] \in Hashes /\ answer[c] \in Nat
         /\ version' = version
         /\ GoOn(c, snap[c], todo[c], streak)
         /\ calm' = calm
         /\ \A h \in Hashes :
              /\ stored[h] = Absent <=> stored'[h] = Absent
              /\ stored[h] # Absent /\ h = asked[c]
                   => stored'[h] = [of |-> h, ver |-> answer[c]]
              /\ h # asked[c] => stored'[h] = stored[h]
<1> USE DEF ConstantsAssumption
<1>1. c \in Live
  BY DEF Receive, Live
<1>2. asked[c] \in Hashes /\ answer[c] \in Nat
  BY <1>1 DEF AskedInv, TypeOK
<1>3. \A h \in Hashes : stored'[h] = Updated(c, h, stored[h])
  BY DEF Receive, ListToUpdate
<1>4. [of |-> asked[c], ver |-> answer[c]] # Absent
  BY <1>2
<1>5. \A h \in Hashes :
        /\ stored[h] = Absent <=> stored'[h] = Absent
        /\ stored[h] # Absent /\ h = asked[c]
             => stored'[h] = [of |-> h, ver |-> answer[c]]
        /\ h # asked[c] => stored'[h] = stored[h]
  BY <1>3, <1>4 DEF Updated
<1>6. QED
  BY <1>1, <1>2, <1>5 DEF Receive

\* What a save and a removal make of the list, entry by entry.
LEMMA SaveStores ==
  ASSUME ConstantsAssumption, TypeOK,
         NEW c \in Loads, NEW h \in Hashes, SaveDeposit(c, h)
  PROVE  /\ stored' \in Lists
         /\ version' = version /\ kept' = kept \cup {h}
         /\ Begin(c, stored', 0)
         /\ stored[h] = Absent => stored'[h] = Fresh(h)
         /\ stored[h] # Absent => stored'[h] = stored[h]
         /\ Fresh(h) # Absent
         /\ \A g \in Hashes \ {h} : stored'[g] = stored[g]
<1>1. stored' \in Lists
  BY ListsChange DEF SaveDeposit, TypeOK
<1>2. Fresh(h) # Absent
  BY DEF Fresh, ConstantsAssumption
<1>3. QED
  BY <1>1, <1>2 DEF SaveDeposit, TypeOK, Lists

LEMMA RemoveStores ==
  ASSUME ConstantsAssumption, TypeOK,
         NEW c \in Loads, NEW h \in Hashes, RemoveDeposit(c, h)
  PROVE  /\ stored' \in Lists
         /\ version' = version /\ kept' = kept \ {h}
         /\ Begin(c, stored', 0)
         /\ stored'[h] = Absent
         /\ \A g \in Hashes \ {h} : stored'[g] = stored[g]
<1>1. stored' \in Lists
  BY ListsChange DEF RemoveDeposit, TypeOK
<1>2. QED
  BY <1>1 DEF RemoveDeposit, TypeOK, Lists

LEMMA ListInit == ASSUME ConstantsAssumption PROVE Init => ListExact
  BY DEF Init, ListExact, Listed, NoList

LEMMA ListStep ==
  ASSUME ConstantsAssumption, TypeOK, AskedInv, ListExact, [Next]_vars
  PROVE  ListExact'
<1> USE DEF ListExact, Listed
<1>1. ASSUME NEW c \in Loads, NEW h \in Hashes, SaveDeposit(c, h)
      PROVE ListExact'
  BY <1>1, SaveStores
<1>2. ASSUME NEW c \in Loads, NEW h \in Hashes, RemoveDeposit(c, h)
      PROVE ListExact'
  BY <1>2, RemoveStores
<1>3. ASSUME NEW c \in Loads, Receive(c) PROVE ListExact'
  <2>1. kept' = kept
    BY <1>3 DEF Receive
  <2>2. QED
    BY <1>3, <2>1, ReceiveStores
<1>4. ASSUME NEW c \in Loads, Reload(c) \/ Serve(c) \/ Fail(c) PROVE ListExact'
  BY <1>4 DEF Reload, Serve, Fail
<1>5. ASSUME NEW t \in Tabs, Close(t) PROVE ListExact'
  BY <1>5 DEF Close
<1>6. ASSUME NEW h \in Hashes, Change(h) PROVE ListExact'
  BY <1>6 DEF Change
<1>7. CASE UNCHANGED vars
  BY <1>7 DEF vars
<1>8. QED
  BY <1>1, <1>2, <1>3, <1>4, <1>5, <1>6, <1>7 DEF Next

-------------------------------------------------------------------------------
(* Whose the numbers are                                                   *)

LEMMA OwnInit == ASSUME ConstantsAssumption PROVE Init => OwnInv
<1> SUFFICES ASSUME Init PROVE OwnInv
  OBVIOUS
<1>1. Own(NoList)
  BY DEF Own, NoList
<1>2. Live = {}
  BY DEF Init, Live
<1>3. QED
  BY <1>1, <1>2 DEF Init, OwnInv

LEMMA OwnGoOn ==
  ASSUME ConstantsAssumption, TypeOK, OwnInv, version' = version,
         NEW c \in Loads, NEW list, NEW left, NEW run,
         GoOn(c, list, left, run), Own(list), Own(stored')
  PROVE  OwnInv'
<1> USE DEF ConstantsAssumption
<1>0. Own(NoList)
  BY DEF Own, NoList
<1>1. CASE Show(c, list, run)
  <2>1. /\ \A d \in Live' : d # c /\ d \in Live /\ rpc'[d] = rpc[d]
                             /\ answer'[d] = answer[d] /\ asked'[d] = asked[d]
    BY <1>1 DEF Show, TypeOK, Live
  <2>2. \A t \in Tabs : shown'[t] \in {list, shown[t]}
    BY <1>1 DEF Show, TypeOK
  <2>3. \A d \in Loads : snap'[d] \in {NoList, snap[d]}
    BY <1>1 DEF Show, TypeOK
  <2>4. /\ \A t \in Tabs : Own(shown'[t])
        /\ \A d \in Loads : Own(snap'[d])
    BY <1>0, <2>2, <2>3 DEF OwnInv
  <2>5. QED
    BY <2>1, <2>4 DEF OwnInv, Own
<1>2. ASSUME NEW h \in left, Ask(c, list, left, h, run) PROVE OwnInv'
  <2>1. /\ rpc'[c] = "asked"
        /\ \A d \in Live' \ {c} : d \in Live /\ rpc'[d] = rpc[d]
                             /\ answer'[d] = answer[d] /\ asked'[d] = asked[d]
    BY <1>2 DEF Ask, TypeOK, Live
  <2>2. shown' = shown
    BY <1>2 DEF Ask
  <2>3. \A d \in Loads : snap'[d] \in {list, snap[d]}
    BY <1>2 DEF Ask, TypeOK
  <2>4. /\ \A t \in Tabs : Own(shown'[t])
        /\ \A d \in Loads : Own(snap'[d])
    BY <2>2, <2>3 DEF OwnInv
  <2>5. QED
    BY <2>1, <2>4 DEF OwnInv, Own
<1>3. QED
  BY <1>1, <1>2 DEF GoOn

LEMMA OwnStep ==
  ASSUME ConstantsAssumption, TypeOK, AskedInv, OwnInv, [Next]_vars
  PROVE  OwnInv'
<1>1. ASSUME NEW c \in Loads, Reload(c) PROVE OwnInv'
  <2>1. Own(stored) /\ stored' = stored /\ version' = version
    BY <1>1 DEF OwnInv, Reload
  <2>2. GoOn(c, stored, Listed(stored), streak)
    BY <1>1 DEF Reload, Begin
  <2>3. QED
    BY <2>1, <2>2, OwnGoOn
<1>2. ASSUME NEW c \in Loads, NEW h \in Hashes, SaveDeposit(c, h) PROVE OwnInv'
  <2>1. version[h] \in Nat
    BY DEF TypeOK
  <2>2. \A g \in Hashes : (stored'[g] = Fresh(h) /\ g = h) \/ stored'[g] = stored[g]
    BY <1>2, SaveStores
  <2>3. Fresh(h).of = h /\ Fresh(h).ver \in 0..version[h]
    BY <2>1 DEF Fresh
  <2>4. Own(stored')
    BY <2>2, <2>3 DEF OwnInv, Own
  <2>5. GoOn(c, stored', Listed(stored'), 0) /\ version' = version
    BY <1>2 DEF SaveDeposit, Begin
  <2>6. QED
    BY <2>4, <2>5, OwnGoOn
<1>3. ASSUME NEW c \in Loads, NEW h \in Hashes, RemoveDeposit(c, h) PROVE OwnInv'
  <2>1. Own(stored')
    BY <1>3, RemoveStores DEF OwnInv, Own
  <2>2. GoOn(c, stored', Listed(stored'), 0) /\ version' = version
    BY <1>3 DEF RemoveDeposit, Begin
  <2>3. QED
    BY <2>1, <2>2, OwnGoOn
<1>4. ASSUME NEW c \in Loads, Serve(c) PROVE OwnInv'
  <2>1. asked[c] \in Hashes
    BY <1>4 DEF Serve, AskedInv, Live
  <2>2. version[asked[c]] \in 0..version[asked[c]]
    BY <2>1 DEF TypeOK
  <2>3. /\ \A d \in Live' : d \in Live
        /\ \A d \in Loads \ {c} : rpc'[d] = rpc[d] /\ answer'[d] = answer[d]
        /\ answer'[c] = version[asked[c]]
    BY <1>4 DEF Serve, TypeOK, Live
  <2>4. UNCHANGED <<version, stored, shown, snap, asked>>
    BY <1>4 DEF Serve
  <2>5. QED
    BY <2>2, <2>3, <2>4 DEF OwnInv, Own, Live
<1>5. ASSUME NEW c \in Loads, Receive(c) PROVE OwnInv'
  <2>1. Own(snap[c])
    BY <1>5 DEF OwnInv
  <2>2. answer[c] \in 0..version[asked[c]]
    BY <1>5, ReceiveStores DEF OwnInv, Receive, Live
  <2>3. \A g \in Hashes :
          \/ g = asked[c] /\ stored'[g] = [of |-> g, ver |-> answer[c]]
          \/ stored'[g] = stored[g]
    BY <1>5, ReceiveStores
  <2>4. Own(stored')
    <3>1. ASSUME NEW g \in Hashes, g = asked[c],
                 stored'[g] = [of |-> g, ver |-> answer[c]]
          PROVE stored'[g].of = g /\ stored'[g].ver \in 0..version[g]
      BY <2>2, <3>1
    <3>2. QED
      BY <2>3, <3>1 DEF OwnInv, Own
  <2>5. version' = version /\ GoOn(c, snap[c], todo[c], streak)
    BY <1>5, ReceiveStores
  <2>6. QED
    BY <2>1, <2>4, <2>5, OwnGoOn
<1>6. ASSUME NEW c \in Loads, Fail(c) PROVE OwnInv'
  <2>1. Own(stored') /\ Own(snap[c]) /\ version' = version
    BY <1>6 DEF OwnInv, Fail
  <2>2. GoOn(c, snap[c], todo[c], streak)
    BY <1>6 DEF Fail
  <2>3. QED
    BY <2>1, <2>2, OwnGoOn
<1>7. ASSUME NEW t \in Tabs, Close(t) PROVE OwnInv'
  <2>1. Own(NoList)
    BY DEF Own, NoList
  <2>2. \A u \in Tabs : shown'[u] \in {NoList, shown[u]}
    BY <1>7 DEF Close, TypeOK
  <2>3. \A d \in Live' : d \in Live /\ rpc'[d] = rpc[d]
    BY <1>7 DEF Close, Live
  <2>4. UNCHANGED <<version, stored, snap, asked, answer>>
    BY <1>7 DEF Close
  <2>5. \A u \in Tabs : Own(shown'[u])
    BY <2>1, <2>2 DEF OwnInv
  <2>6. QED
    BY <2>3, <2>4, <2>5 DEF OwnInv, Own
<1>8. ASSUME NEW h \in Hashes, Change(h) PROVE OwnInv'
  <2>1. \A g \in Hashes : /\ version[g] \in Nat /\ version'[g] \in Nat
                          /\ version[g] <= version'[g]
    BY <1>8 DEF Change, TypeOK
  <2>2. \A g \in Hashes : \A n \in 0..version[g] : n \in 0..version'[g]
    BY <2>1
  <2>3. UNCHANGED <<stored, shown, rpc, snap, asked, answer>>
    BY <1>8 DEF Change
  <2>4. QED
    BY <2>2, <2>3 DEF OwnInv, Own, AskedInv, Live
<1>9. CASE UNCHANGED vars
  BY <1>9 DEF vars, OwnInv, Own, Live
<1>10. QED
  BY <1>1, <1>2, <1>3, <1>4, <1>5, <1>6, <1>7, <1>8, <1>9 DEF Next

-------------------------------------------------------------------------------
(* How old the numbers are                                                 *)

LEMMA OrderInit == ASSUME ConstantsAssumption PROVE Init => OrderInv
<1> SUFFICES ASSUME Init PROVE OrderInv
  OBVIOUS
<1>1. Live = {}
  BY DEF Init, Live
<1>2. QED
  BY <1>1 DEF OrderInv

LEMMA OrderGoOn ==
  ASSUME ConstantsAssumption, TypeOK, OrderInv,
         NEW c \in Loads, NEW list, NEW left, NEW run, GoOn(c, list, left, run),
         \A d \in Live \ {c} :
           rpc[d] = "answered" /\ asked[d] \notin muddled
             /\ stored'[asked[d]] # Absent
             => stored'[asked[d]].ver <= answer[d]
  PROVE  OrderInv' /\ muddled \subseteq muddled'
<1>1. CASE Show(c, list, run)
  <2>1. /\ \A d \in Live' : d # c /\ d \in Live /\ rpc'[d] = rpc[d]
                             /\ answer'[d] = answer[d] /\ asked'[d] = asked[d]
        /\ muddled' = muddled
    BY <1>1 DEF Show, TypeOK, Live
  <2>2. QED
    BY <2>1 DEF OrderInv
<1>2. ASSUME NEW h \in left, Ask(c, list, left, h, run)
      PROVE OrderInv' /\ muddled \subseteq muddled'
  <2>1. /\ rpc'[c] = "asked" /\ asked'[c] = h
        /\ \A d \in Live' \ {c} : d \in Live /\ rpc'[d] = rpc[d]
                             /\ answer'[d] = answer[d] /\ asked'[d] = asked[d]
    BY <1>2 DEF Ask, TypeOK, Live
  <2>2. /\ muddled \subseteq muddled'
        /\ \A d \in Live \ {c} : asked[d] = h => h \in muddled'
    BY <1>2 DEF Ask
  <2>3. QED
    BY <2>1, <2>2 DEF OrderInv
<1>3. QED
  BY <1>1, <1>2 DEF GoOn

LEMMA OrderStep ==
  ASSUME ConstantsAssumption, TypeOK, AskedInv, OwnInv, OrderInv, [Next]_vars
  PROVE  OrderInv' /\ muddled \subseteq muddled'
<1> USE DEF ConstantsAssumption
<1>1. ASSUME NEW c \in Loads, Reload(c)
      PROVE OrderInv' /\ muddled \subseteq muddled'
  <2>1. stored' = stored /\ GoOn(c, stored, Listed(stored), streak)
    BY <1>1 DEF Reload, Begin
  <2>2. QED
    BY <2>1, OrderGoOn DEF OrderInv
<1>2. ASSUME NEW c \in Loads, NEW h \in Hashes, SaveDeposit(c, h)
      PROVE OrderInv' /\ muddled \subseteq muddled'
  <2>1. GoOn(c, stored', Listed(stored'), 0)
    BY <1>2 DEF SaveDeposit, Begin
  <2>2. \A g \in Hashes : stored'[g] = Fresh(h) \/ stored'[g] = stored[g]
    BY <1>2, SaveStores
  <2>3. \A d \in Live : 0 <= answer[d]
    BY DEF Live, TypeOK
  <2>4. \A d \in Live \ {c} :
          rpc[d] = "answered" /\ asked[d] \notin muddled
            /\ stored'[asked[d]] # Absent
            => stored'[asked[d]].ver <= answer[d]
    BY <2>2, <2>3 DEF OrderInv, AskedInv, Fresh
  <2>5. QED
    BY <2>1, <2>4, OrderGoOn
<1>3. ASSUME NEW c \in Loads, NEW h \in Hashes, RemoveDeposit(c, h)
      PROVE OrderInv' /\ muddled \subseteq muddled'
  <2>1. GoOn(c, stored', Listed(stored'), 0)
    BY <1>3 DEF RemoveDeposit, Begin
  <2>2. \A g \in Hashes : stored'[g] = Absent \/ stored'[g] = stored[g]
    BY <1>3, RemoveStores
  <2>3. QED
    BY <2>1, <2>2, OrderGoOn DEF OrderInv, AskedInv
<1>4. ASSUME NEW c \in Loads, Serve(c)
      PROVE OrderInv' /\ muddled \subseteq muddled'
  <2>1. asked[c] \in Hashes
    BY <1>4 DEF Serve, AskedInv, Live
  <2>2. stored[asked[c]] # Absent => stored[asked[c]].ver <= version[asked[c]]
    BY <2>1 DEF OwnInv, Own, TypeOK
  <2>3. /\ Live' = Live
        /\ \A d \in Loads \ {c} : rpc'[d] = rpc[d] /\ answer'[d] = answer[d]
        /\ answer'[c] = version[asked[c]]
    BY <1>4 DEF Serve, TypeOK, Live
  <2>4. UNCHANGED <<stored, asked, muddled>>
    BY <1>4 DEF Serve
  <2>5. QED
    BY <2>2, <2>3, <2>4 DEF OrderInv, Live
<1>5. ASSUME NEW c \in Loads, Receive(c)
      PROVE OrderInv' /\ muddled \subseteq muddled'
  <2>1. c \in Live /\ GoOn(c, snap[c], todo[c], streak)
    BY <1>5, ReceiveStores
  <2>2. \A h \in Hashes : h # asked[c] => stored'[h] = stored[h]
    BY <1>5, ReceiveStores
  <2>3. \A d \in Live \ {c} :
          rpc[d] = "answered" /\ asked[d] \notin muddled
            /\ stored'[asked[d]] # Absent
            => stored'[asked[d]].ver <= answer[d]
    BY <2>1, <2>2 DEF OrderInv, AskedInv
  <2>4. QED
    BY <2>1, <2>3, OrderGoOn
<1>6. ASSUME NEW c \in Loads, Fail(c)
      PROVE OrderInv' /\ muddled \subseteq muddled'
  <2>1. stored' = stored /\ GoOn(c, snap[c], todo[c], streak)
    BY <1>6 DEF Fail
  <2>2. QED
    BY <2>1, OrderGoOn DEF OrderInv
<1>7. ASSUME NEW t \in Tabs, Close(t)
      PROVE OrderInv' /\ muddled \subseteq muddled'
  <2>1. \A d \in Live' : d \in Live /\ rpc'[d] = rpc[d]
    BY <1>7 DEF Close, Live
  <2>2. UNCHANGED <<stored, asked, answer, muddled>>
    BY <1>7 DEF Close
  <2>3. QED
    BY <2>1, <2>2 DEF OrderInv
<1>8. ASSUME NEW h \in Hashes, Change(h)
      PROVE OrderInv' /\ muddled \subseteq muddled'
  BY <1>8 DEF Change, OrderInv, Live
<1>9. CASE UNCHANGED vars
  BY <1>9 DEF vars, OrderInv, Live
<1>10. QED
  BY <1>1, <1>2, <1>3, <1>4, <1>5, <1>6, <1>7, <1>8, <1>9 DEF Next

\* One step of an entry, from the order of the answers.
Forward ==
  \A h \in Hashes \ muddled' :
    stored[h] # Absent /\ stored'[h] # Absent
      => stored[h].ver <= stored'[h].ver

LEMMA ForwardStep ==
  ASSUME ConstantsAssumption, TypeOK, AskedInv, OwnInv, OrderInv, [Next]_vars
  PROVE  Forward
<1>0. \A h \in Hashes : stored[h] # Absent => stored[h].ver <= stored[h].ver
  BY DEF OwnInv, Own, TypeOK
<1>1. ASSUME NEW c \in Loads, NEW h \in Hashes, SaveDeposit(c, h) PROVE Forward
  <2>1. \A g \in Hashes : stored[g] # Absent => stored'[g] = stored[g]
    BY <1>1, SaveStores
  <2>2. QED
    BY <1>0, <2>1 DEF Forward
<1>2. ASSUME NEW c \in Loads, NEW h \in Hashes, RemoveDeposit(c, h) PROVE Forward
  <2>1. \A g \in Hashes : stored'[g] # Absent => stored'[g] = stored[g]
    BY <1>2, RemoveStores
  <2>2. QED
    BY <1>0, <2>1 DEF Forward
<1>3. ASSUME NEW c \in Loads, Receive(c) PROVE Forward
  <2>1. c \in Live /\ rpc[c] = "answered"
    BY <1>3, ReceiveStores DEF Receive
  <2>2. muddled \subseteq muddled'
    BY OrderStep
  <2>3. \A g \in Hashes :
          \/ g = asked[c] /\ stored'[g] = [of |-> g, ver |-> answer[c]]
          \/ stored'[g] = stored[g]
    BY <1>3, ReceiveStores
  <2>4. asked[c] \notin muddled /\ stored[asked[c]] # Absent
          => stored[asked[c]].ver <= answer[c]
    BY <2>1 DEF OrderInv
  <2>5. ASSUME NEW g \in Hashes \ muddled', stored[g] # Absent
        PROVE stored[g].ver <= stored'[g].ver
    <3>1. CASE stored'[g] = stored[g]
      BY <1>0, <2>5, <3>1
    <3>2. CASE g = asked[c] /\ stored'[g] = [of |-> g, ver |-> answer[c]]
      BY <2>2, <2>4, <2>5, <3>2
    <3>3. QED
      BY <2>3, <3>1, <3>2
  <2>6. QED
    BY <2>5 DEF Forward
<1>4. ASSUME stored' = stored PROVE Forward
  BY <1>0, <1>4 DEF Forward
<1>5. ASSUME NEW c \in Loads, Reload(c) \/ Serve(c) \/ Fail(c) PROVE Forward
  BY <1>4, <1>5 DEF Reload, Serve, Fail
<1>6. ASSUME NEW t \in Tabs, Close(t) PROVE Forward
  BY <1>4, <1>6 DEF Close
<1>7. ASSUME NEW h \in Hashes, Change(h) PROVE Forward
  BY <1>4, <1>7 DEF Change
<1>8. CASE UNCHANGED vars
  BY <1>4, <1>8 DEF vars
<1>9. QED
  BY <1>1, <1>2, <1>3, <1>5, <1>6, <1>7, <1>8 DEF Next

-------------------------------------------------------------------------------
(* What a reload nothing gets in the way of does                           *)

LEMMA CalmInit == ASSUME ConstantsAssumption PROVE Init => CalmInv /\ StreakInv
<1> SUFFICES ASSUME Init PROVE CalmInv /\ StreakInv
  OBVIOUS
<1>1. ~calm /\ streak = 0
  BY DEF Init
<1>2. QED
  BY <1>1 DEF CalmInv, StreakInv

\* A call that is alone and about to go on with the list it has read: what it
\* has asked about is up to date, and if earlier calls were, so is its list.
Going(c, list, left, run) ==
  /\ Live \ {c} = {}
  /\ \A h \in Hashes \ left : Current(h, stored'[h])
  /\ Listed(list) = Listed(stored')
  /\ run >= 1 => /\ last \in Tabs
                 /\ UpToDate(list) /\ UpToDate(stored')
                 /\ Listed(shown[last]) = Listed(stored')
  /\ run = 2 => UpToDate(shown[last])

LEMMA CalmGoOn ==
  ASSUME ConstantsAssumption, TypeOK, version' = version,
         NEW c \in Loads, NEW list, NEW left \in SUBSET Hashes, NEW run \in 0..2,
         GoOn(c, list, left, run), calm' => Going(c, list, left, run)
  PROVE  CalmInv' /\ StreakInv'
<1> USE DEF ConstantsAssumption
<1>1. CASE ~calm'
  <2>1. streak' = 0
    BY <1>1 DEF GoOn, Show, Ask
  <2>2. QED
    BY <1>1, <2>1 DEF CalmInv, StreakInv
<1>2. CASE calm' /\ left = {} /\ Show(c, list, run)
  <2>1. Live' = {}
    BY <1>2 DEF Show, TypeOK, Live, Going
  <2>2. /\ last' \in Tabs /\ shown'[last'] = list
        /\ streak' = IF run = 2 THEN 2 ELSE run + 1
    BY <1>2 DEF Show, TypeOK
  <2>3. UpToDate(stored')
    BY <1>2 DEF Going, UpToDate
  <2>4. streak' = 2 => UpToDate(list)
    BY <1>2, <2>2 DEF Going
  <2>5. Listed(shown'[last']) = Listed(stored')
    BY <1>2, <2>2 DEF Going
  <2>6. streak' = 2 => UpToDate(shown'[last'])
    BY <2>2, <2>4
  <2>7. StreakInv'
    BY <2>2, <2>3, <2>5, <2>6 DEF StreakInv, UpToDate, Current, Listed
  <2>8. QED
    BY <2>1, <2>7 DEF CalmInv
<1>3. ASSUME calm', NEW h \in left, Ask(c, list, left, h, run)
      PROVE CalmInv' /\ StreakInv'
  <2>1. /\ Live' \subseteq {c}
        /\ rpc'[c] = "asked" /\ snap'[c] = list
        /\ todo'[c] \cup {asked'[c]} = left
    BY <1>3 DEF Ask, TypeOK, Live, Going
  <2>2. streak' = run /\ shown' = shown /\ last' = last
    BY <1>3 DEF Ask
  <2>3. StreakInv'
    BY <1>3, <2>2 DEF StreakInv, Going, UpToDate, Current, Listed
  <2>4. CalmInv'
    <3>1. \A g \in Hashes \ (todo'[c] \cup {asked'[c]}) : Current(g, stored'[g])
      BY <1>3, <2>1 DEF Going
    <3>2. Listed(snap'[c]) = Listed(stored')
      BY <1>3, <2>1 DEF Going
    <3>3. streak' >= 1 => UpToDate(snap'[c])
      BY <1>3, <2>1, <2>2 DEF Going
    <3>4. rpc'[c] # "answered"
      BY <2>1
    <3>5. QED
      BY <2>1, <3>1, <3>2, <3>3, <3>4 DEF CalmInv, UpToDate, Current, Listed
  <2>5. QED
    BY <2>3, <2>4
<1>4. QED
  BY <1>1, <1>2, <1>3 DEF GoOn

\* A call begins alone with a list it has just read or written.
LEMMA CalmBegin ==
  ASSUME ConstantsAssumption, TypeOK, StreakInv, version' = version,
         NEW c \in Loads, NEW run \in 0..2, Begin(c, stored', run),
         run # 0 => run = streak /\ stored' = stored
  PROVE  CalmInv' /\ StreakInv'
<1>1. Listed(stored') \in SUBSET Hashes
  BY DEF Listed
<1>2. \A h \in Hashes \ Listed(stored') : Current(h, stored'[h])
  BY DEF Listed, Current
<1>3. run >= 1 => /\ last \in Tabs
                  /\ UpToDate(stored')
                  /\ Listed(shown[last]) = Listed(stored')
  BY DEF StreakInv
<1>4. run = 2 => UpToDate(shown[last])
  BY DEF StreakInv
<1>5. calm' => Live = {}
  BY DEF Begin, Alone
<1>6. calm' => Going(c, stored', Listed(stored'), run)
  BY <1>2, <1>3, <1>4, <1>5 DEF Going
<1>7. GoOn(c, stored', Listed(stored'), run)
  BY DEF Begin
<1>8. QED
  BY <1>1, <1>6, <1>7, CalmGoOn

LEMMA CalmStep ==
  ASSUME ConstantsAssumption, TypeOK, AskedInv, OwnInv, CalmInv, StreakInv,
         [Next]_vars
  PROVE  CalmInv' /\ StreakInv'
<1> USE DEF ConstantsAssumption
<1>1. ASSUME NEW c \in Loads, Reload(c) PROVE CalmInv' /\ StreakInv'
  <2>1. stored' = stored /\ version' = version /\ streak \in 0..2
    BY <1>1 DEF Reload, TypeOK
  <2>2. Begin(c, stored', streak)
    BY <1>1, <2>1 DEF Reload
  <2>3. QED
    BY <2>1, <2>2, CalmBegin
<1>2. ASSUME NEW c \in Loads, NEW h \in Hashes,
             SaveDeposit(c, h) \/ RemoveDeposit(c, h)
      PROVE CalmInv' /\ StreakInv'
  <2>1. Begin(c, stored', 0) /\ version' = version
    BY <1>2 DEF SaveDeposit, RemoveDeposit
  <2>2. QED
    BY <2>1, CalmBegin
<1>3. ASSUME NEW c \in Loads, Serve(c) PROVE CalmInv' /\ StreakInv'
  <2>1. /\ Live' = Live
        /\ \A d \in Loads \ {c} : rpc'[d] = rpc[d] /\ answer'[d] = answer[d]
        /\ answer'[c] = version[asked[c]]
    BY <1>3 DEF Serve, TypeOK, Live
  <2>2. UNCHANGED <<version, stored, shown, snap, todo, asked, calm, streak, last>>
    BY <1>3 DEF Serve
  <2>3. CalmInv'
    BY <2>1, <2>2 DEF CalmInv, UpToDate, Current, Listed, Live
  <2>4. StreakInv'
    BY <2>2 DEF StreakInv, UpToDate, Current, Listed
  <2>5. QED
    BY <2>3, <2>4
<1>4. ASSUME NEW c \in Loads, Receive(c) PROVE CalmInv' /\ StreakInv'
  <2>1. /\ c \in Live /\ rpc[c] = "answered"
        /\ version' = version /\ calm' = calm
        /\ GoOn(c, snap[c], todo[c], streak)
    BY <1>4, ReceiveStores DEF Receive
  <2>2. /\ \A h \in Hashes : stored[h] = Absent <=> stored'[h] = Absent
        /\ \A h \in Hashes : stored[h] # Absent /\ h = asked[c]
                               => stored'[h] = [of |-> h, ver |-> answer[c]]
        /\ \A h \in Hashes : h # asked[c] => stored'[h] = stored[h]
    BY <1>4, ReceiveStores
  <2>3. Listed(stored') = Listed(stored)
    BY <2>2 DEF Listed
  <2>4. ASSUME calm PROVE Going(c, snap[c], todo[c], streak)
    <3>1. Live \ {c} = {} /\ answer[c] = version[asked[c]]
      BY <2>1, <2>4 DEF CalmInv
    <3>2. \A h \in Hashes \ (todo[c] \cup {asked[c]}) : Current(h, stored[h])
      BY <2>1, <2>4 DEF CalmInv
    <3>3. Current(asked[c], stored'[asked[c]])
      BY <2>1, <2>2, <3>1 DEF Current, AskedInv
    <3>4. \A h \in Hashes \ todo[c] : Current(h, stored'[h])
      BY <2>2, <3>2, <3>3
    <3>5. Listed(snap[c]) = Listed(stored') /\ (streak >= 1 => UpToDate(snap[c]))
      BY <2>1, <2>3, <2>4 DEF CalmInv
    <3>6. streak >= 1 => UpToDate(stored')
      BY <2>2, <3>3 DEF StreakInv, UpToDate
    <3>7. /\ streak >= 1 => last \in Tabs /\ Listed(shown[last]) = Listed(stored')
          /\ streak = 2 => UpToDate(shown[last])
      BY <2>3 DEF StreakInv
    <3>8. QED
      BY <3>1, <3>4, <3>5, <3>6, <3>7 DEF Going
  <2>5. todo[c] \in SUBSET Hashes /\ streak \in 0..2
    BY DEF TypeOK
  <2>6. QED
    BY <2>1, <2>4, <2>5, CalmGoOn
<1>5. ASSUME NEW c \in Loads, Fail(c) PROVE CalmInv' /\ StreakInv'
  <2>1. /\ c \in Live /\ version' = version /\ stored' = stored
        /\ GoOn(c, snap[c], todo[c], streak)
    BY <1>5 DEF Fail, Live
  <2>2. ASSUME calm' PROVE Going(c, snap[c], todo[c], streak)
    <3>1. calm /\ asked[c] \in Hashes /\ version[asked[c]] = 0
      BY <1>5, <2>1, <2>2 DEF Fail, AskedInv
    <3>2. Live \ {c} = {}
      BY <2>1, <3>1 DEF CalmInv
    <3>3. \A h \in Hashes \ (todo[c] \cup {asked[c]}) : Current(h, stored[h])
      BY <2>1, <3>1 DEF CalmInv
    <3>4. ASSUME stored[asked[c]] # Absent
          PROVE stored[asked[c]] = [of |-> asked[c], ver |-> 0]
      <4>1. stored[asked[c]] \in Entries
        BY <3>1, <3>4 DEF TypeOK, Lists
      <4>2. stored[asked[c]].of = asked[c] /\ stored[asked[c]].ver \in 0..0
        BY <3>1, <3>4 DEF OwnInv, Own
      <4>3. QED
        BY <4>1, <4>2 DEF Entries
    <3>5. Current(asked[c], stored[asked[c]])
      BY <3>1, <3>4 DEF Current
    <3>6. \A h \in Hashes \ todo[c] : Current(h, stored'[h])
      BY <2>1, <3>3, <3>5
    <3>7. Listed(snap[c]) = Listed(stored') /\ (streak >= 1 => UpToDate(snap[c]))
      BY <2>1, <3>1 DEF CalmInv
    <3>8. /\ streak >= 1 => /\ last \in Tabs /\ UpToDate(stored')
                            /\ Listed(shown[last]) = Listed(stored')
          /\ streak = 2 => UpToDate(shown[last])
      BY <2>1 DEF StreakInv
    <3>9. QED
      BY <3>2, <3>6, <3>7, <3>8 DEF Going
  <2>3. todo[c] \in SUBSET Hashes /\ streak \in 0..2
    BY <2>1 DEF TypeOK, Live
  <2>4. QED
    BY <2>1, <2>2, <2>3, CalmGoOn
<1>6. ASSUME NEW t \in Tabs, Close(t) PROVE CalmInv' /\ StreakInv'
  <2>1. ~calm' /\ streak' = 0
    BY <1>6 DEF Close
  <2>2. QED
    BY <2>1 DEF CalmInv, StreakInv
<1>7. ASSUME NEW h \in Hashes, Change(h) PROVE CalmInv' /\ StreakInv'
  <2>1. ~calm' /\ streak' = 0
    BY <1>7 DEF Change
  <2>2. QED
    BY <2>1 DEF CalmInv, StreakInv
<1>8. CASE UNCHANGED vars
  <2>1. UNCHANGED <<version, stored, shown, rpc, snap, todo, asked, answer,
                    calm, streak, last>>
    BY <1>8 DEF vars
  <2>2. CalmInv'
    BY <2>1 DEF CalmInv, UpToDate, Current, Listed, Live
  <2>3. StreakInv'
    BY <2>1 DEF StreakInv, UpToDate, Current, Listed
  <2>4. QED
    BY <2>2, <2>3
<1>9. QED
  BY <1>1, <1>2, <1>3, <1>4, <1>5, <1>6, <1>7, <1>8 DEF Next

-------------------------------------------------------------------------------
(* Theorems                                                                *)

LEMMA PageInvariant ==
  ASSUME ConstantsAssumption
  PROVE  Spec => [](TypeOK /\ AskedInv /\ ListExact /\ OwnInv /\ OrderInv
                    /\ CalmInv /\ StreakInv)
<1> DEFINE Inv == TypeOK /\ AskedInv /\ ListExact /\ OwnInv /\ OrderInv
                  /\ CalmInv /\ StreakInv
<1>1. Init => Inv
  BY TypeInit, ListInit, OwnInit, OrderInit, CalmInit
<1>2. Inv /\ [Next]_vars => Inv'
  BY TypeStep, ListStep, OwnStep, OrderStep, CalmStep
<1>3. QED
  BY <1>1, <1>2, PTL DEF Spec

\* Whatever reloads, saves, removals and failures interleave, the state stays
\* in its types (deposits.service.ts, deposits.component.ts).
THEOREM DepositPageTypeCorrect == ASSUME ConstantsAssumption PROVE Spec => []TypeOK
BY PageInvariant, PTL

\* No reload loses a password that was saved or brings back one that was
\* removed, in any tab: reloadDeposit reads and writes the storage in one turn.
THEOREM DepositListExact == ASSUME ConstantsAssumption PROVE Spec => []ListExact
BY PageInvariant, PTL

\* The numbers of one deposit never end up under another, or under none.
THEOREM DepositNumbersAreOwn ==
  ASSUME ConstantsAssumption PROVE Spec => []NumbersAreOwn
<1>1. OwnInv => NumbersAreOwn
  BY DEF OwnInv, Own, NumbersAreOwn
<1>2. QED
  BY <1>1, PageInvariant, PTL

\* An entry goes back to an older version of its row only where two calls of
\* reloadDeposit for it were under way at once.
THEOREM DepositNewerStays == ASSUME ConstantsAssumption PROVE Spec => NewerStays
<1>1. TypeOK /\ AskedInv /\ OwnInv /\ OrderInv /\ [Next]_vars => [Forward]_stored
  BY ForwardStep
<1>2. QED
  BY <1>1, PageInvariant, PTL DEF Spec, NewerStays, Forward

\* A reload that nothing gets in the way of brings every entry up to date.
THEOREM DepositReloadStores ==
  ASSUME ConstantsAssumption PROVE Spec => []ReloadStores
<1>1. StreakInv => ReloadStores
  BY DEF StreakInv, ReloadStores, UpToDate
<1>2. QED
  BY <1>1, PageInvariant, PTL

\* And the second such reload in a row shows them (the first shows the list
\* it has read before it asked: deposits.component.ts:22-32).
THEOREM DepositSecondReloadShows ==
  ASSUME ConstantsAssumption PROVE Spec => []SecondReloadShows
<1>1. StreakInv => SecondReloadShows
  BY DEF StreakInv, SecondReloadShows, UpToDate
<1>2. QED
  BY <1>1, PageInvariant, PTL

\* Both, of reloadList (deposits.component.ts:21-33).
THEOREM DepositReloadsConverge ==
  ASSUME ConstantsAssumption PROVE Spec => []ReloadsConverge
BY DepositReloadStores, DepositSecondReloadShows, PTL DEF ReloadsConverge
===============================================================================
