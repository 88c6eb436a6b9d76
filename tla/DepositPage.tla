------------------------------ MODULE DepositPage ------------------------------
(***************************************************************************)
(* The browser's list of deposits: kept in the local storage, which all    *)
(* tabs share, brought up to date by reloads that ask the server about one *)
(* deposit after the other, and shown on a page in each tab.               *)
(*                                                                         *)
(* Every action is one turn of a tab's event loop or one answer of the     *)
(* server.  The numbers of a deposit are known by whose they are and how   *)
(* often the server had changed the row when it read them.                 *)
(***************************************************************************)
EXTENDS Integers, Sequences, Functions

CONSTANTS
  Hashes,       \* deposits whose passwords the user has
  Tabs,         \* tabs of the browser
  Loads,        \* calls of reloadList
  TabOf,        \* the tab each of them runs in
  Absent,       \* what is stored of a deposit that is not in the list
  MaxChanges,   \* bound: changes of the deposits' rows
  Faults        \* may a request fail, or its answer be lost?

ASSUME ConstantsAssumption ==
  /\ TabOf \in [Loads -> Tabs]
  /\ Absent \notin [of : Hashes, ver : Nat] \cup Hashes \cup Tabs
  /\ MaxChanges \in Nat
  /\ Faults \in BOOLEAN

VARIABLES
  version,      \* server: hash -> how often its row has changed; 0, no row
  stored,       \* local storage: hash -> its entry in the list, or Absent
  shown,        \* tab -> the list on its page
  \* one call of reloadList for each of Loads
  rpc,          \* where it is
  snap,         \* the list it has read at first
  todo,         \* deposits it has yet to ask about
  asked,        \* the deposit it asks about
  answer,       \* the version in the server's answer
  \* history, read by no guard
  kept,         \* deposits saved and not removed since
  muddled,      \* deposits that two calls were asking about at once
  calm,         \* the call under way is alone, and nothing has changed since
  streak,       \* how many calls in a row were, two at most
  last          \* the tab of the latest call to end

page == <<stored, shown>>
calls == <<rpc, snap, todo, asked, answer>>
history == <<kept, muddled, calm, streak, last>>
vars == <<version, page, calls, history>>

Entries == [of : Hashes, ver : Nat]
Lists == [Hashes -> Entries \cup {Absent}]
NoList == [h \in Hashes |-> Absent]

\* What a new entry of the list says: zeros, whatever the server has.
Fresh(h) == [of |-> h, ver |-> 0]

Listed(list) == {h \in Hashes : list[h] # Absent}

\* How often rows have changed: what MaxChanges bounds.
Changes == FoldFunction(+, 0, version)

Live == {c \in Loads : rpc[c] \in {"asked", "answered"}}

-------------------------------------------------------------------------------
Init ==
  /\ version = [h \in Hashes |-> 0]
  /\ stored = NoList
  /\ shown = [t \in Tabs |-> NoList]
  /\ rpc = [c \in Loads |-> "idle"]
  /\ snap = [c \in Loads |-> NoList]
  /\ todo = [c \in Loads |-> {}]
  /\ asked = [c \in Loads |-> Absent]
  /\ answer = [c \in Loads |-> 0]
  /\ kept = {}
  /\ muddled = {}
  /\ calm = FALSE
  /\ streak = 0
  /\ last = Absent

-------------------------------------------------------------------------------
(* reloadList and reloadDeposit                                            *)

\* A call begins while no other is under way.
Alone == Live = {}

\* The list is shown: the one the call read when it began.
Show(c, list, run) ==
  /\ shown' = [shown EXCEPT ![TabOf[c]] = list]
  /\ rpc' = [rpc EXCEPT ![c] = "done"]
  /\ snap' = [snap EXCEPT ![c] = NoList]
  /\ todo' = [todo EXCEPT ![c] = {}]
  /\ asked' = [asked EXCEPT ![c] = Absent]
  /\ answer' = [answer EXCEPT ![c] = 0]
  /\ last' = TabOf[c]
  /\ streak' = IF ~calm' THEN 0 ELSE IF run = 2 THEN 2 ELSE run + 1
  /\ UNCHANGED muddled

\* reloadDeposit sends the hash and the password of one deposit.
Ask(c, list, left, h, run) ==
  /\ rpc' = [rpc EXCEPT ![c] = "asked"]
  /\ snap' = [snap EXCEPT ![c] = list]
  /\ todo' = [todo EXCEPT ![c] = left \ {h}]
  /\ asked' = [asked EXCEPT ![c] = h]
  /\ answer' = [answer EXCEPT ![c] = 0]
  /\ muddled' = IF \E d \in Live \ {c} : asked[d] = h
                THEN muddled \cup {h} ELSE muddled
  /\ streak' = IF calm' THEN run ELSE 0
  /\ UNCHANGED <<shown, last>>

\* A slip: the loop ends with its first answer.
GoOnce(c, list, left, run) ==
  \/ (left = {} \/ c \in Live) /\ Show(c, list, run)
  \/ c \notin Live /\ \E h \in left : Ask(c, list, left, h, run)

\* The loop over the deposits, one await after the other.  In which order the
\* list has them is left open.
GoOn(c, list, left, run) ==
  \/ left = {} /\ Show(c, list, run)
  \/ \E h \in left : Ask(c, list, left, h, run)

\* reloadList reads the list and, in the same turn, asks about the first one.
Begin(c, list, run) ==
  /\ rpc[c] = "idle"
  /\ calm' = Alone
  /\ GoOn(c, list, Listed(list), run)

\* The page is opened or turned, or its button pressed.
Reload(c) ==
  /\ Begin(c, stored, streak)
  /\ UNCHANGED <<version, stored, kept>>

\* save(), and reloadList in the same turn: an entry of zeros, if there is none.
SaveDeposit(c, h) ==
  /\ stored' = IF stored[h] = Absent
               THEN [stored EXCEPT ![h] = Fresh(h)] ELSE stored
  /\ kept' = kept \cup {h}
  /\ Begin(c, stored', 0)
  /\ UNCHANGED version

\* remove() of a deposit on the page, and reloadList in the same turn.
RemoveDeposit(c, h) ==
  /\ h \in Listed(shown[TabOf[c]])
  /\ stored' = [stored EXCEPT ![h] = Absent]
  /\ kept' = kept \ {h}
  /\ Begin(c, stored', 0)
  /\ UNCHANGED version

\* POST /api/deposits/info: the server reads the row.
Serve(c) ==
  /\ rpc[c] = "asked"
  /\ version[asked[c]] # 0
  /\ rpc' = [rpc EXCEPT ![c] = "answered"]
  /\ answer' = [answer EXCEPT ![c] = version[asked[c]]]
  /\ UNCHANGED <<version, page, snap, todo, asked, history>>

\* A slip: the list read before the request is the one that is written back.
ListReadBefore(c) == snap[c]

\* getDeposits() once the answer is there.
ListToUpdate(c) == stored

\* A slip: the hash of the answer is not looked at.
EveryEntry(c, h, entry) ==
  IF entry = Absent THEN Absent ELSE [of |-> asked[c], ver |-> answer[c]]

\* The entry with the hash of the answer takes its numbers.
Updated(c, h, entry) ==
  IF entry # Absent /\ h = asked[c]
  THEN [of |-> asked[c], ver |-> answer[c]] ELSE entry

\* The list is read, changed and written in the turn the answer comes in.
Receive(c) ==
  /\ rpc[c] = "answered"
  /\ stored' = [h \in Hashes |-> Updated(c, h, ListToUpdate(c)[h])]
  /\ UNCHANGED calm
  /\ GoOn(c, snap[c], todo[c], streak)
  /\ UNCHANGED <<version, kept>>

\* A slip: nothing catches the error.
FailUncaught(c) ==
  /\ rpc[c] \in {"asked", "answered"}
  /\ Faults \/ version[asked[c]] = 0
  /\ rpc' = [rpc EXCEPT ![c] = "failed"]
  /\ UNCHANGED <<version, page, snap, todo, asked, answer, history>>

\* The server has no such deposit, or the request or its answer is lost: the
\* error is caught and the loop goes on.
Fail(c) ==
  /\ \/ /\ rpc[c] = "asked"
        /\ version[asked[c]] = 0
        /\ UNCHANGED calm
     \/ /\ Faults
        /\ rpc[c] \in {"asked", "answered"}
        /\ calm' = FALSE
  /\ GoOn(c, snap[c], todo[c], streak)
  /\ UNCHANGED <<version, stored, kept>>

\* The tab is closed, or its page loaded again: its calls are gone.
Close(t) ==
  LET mine == {c \in Live : TabOf[c] = t} IN
  /\ shown[t] # NoList \/ mine # {}
  /\ shown' = [shown EXCEPT ![t] = NoList]
  /\ rpc' = [c \in Loads |-> IF c \in mine THEN "killed" ELSE rpc[c]]
  /\ calm' = FALSE
  /\ streak' = 0
  /\ UNCHANGED <<version, stored, snap, todo, asked, answer,
                 kept, muddled, last>>

-------------------------------------------------------------------------------
(* The server, as Settlement has it: payments and payouts of the deposits.   *)

\* A first payment creates the row, payments raise its numbers, a payout takes
\* them away.
Change(h) ==
  /\ Changes < MaxChanges
  /\ version' = [version EXCEPT ![h] = @ + 1]
  /\ calm' = FALSE
  /\ streak' = 0
  /\ UNCHANGED <<page, calls, kept, muddled, last>>

-------------------------------------------------------------------------------
Next ==
  \/ \E c \in Loads : \/ Reload(c) \/ Serve(c) \/ Receive(c) \/ Fail(c)
                      \/ \E h \in Hashes : SaveDeposit(c, h) \/ RemoveDeposit(c, h)
  \/ \E t \in Tabs : Close(t)
  \/ \E h \in Hashes : Change(h)

Spec == Init /\ [][Next]_vars

\* A request is answered or fails, and the browser runs what waits for it.
Fairness == \A c \in Loads : WF_vars(Serve(c) \/ Receive(c) \/ Fail(c))

FairSpec == Spec /\ Fairness

-------------------------------------------------------------------------------
(* Properties                                                              *)

TypeOK ==
  /\ version \in [Hashes -> Nat]
  /\ stored \in Lists
  /\ shown \in [Tabs -> Lists]
  /\ rpc \in [Loads -> {"idle", "asked", "answered", "done", "killed"}]
  /\ snap \in [Loads -> Lists]
  /\ todo \in [Loads -> SUBSET Hashes]
  /\ asked \in [Loads -> Hashes \cup {Absent}]
  /\ answer \in [Loads -> Nat]
  /\ kept \subseteq Hashes
  /\ muddled \subseteq Hashes
  /\ calm \in BOOLEAN
  /\ streak \in 0..2
  /\ last \in Tabs \cup {Absent}

\* The list in the storage is what was saved and not removed, whatever reloads
\* were under way in whichever tabs: a password is not lost, and a deposit
\* that was removed does not come back with an answer that was awaited.
\* (reloadDeposit reads and writes the storage in one turn.)
ListExact == Listed(stored) = kept

\* Every number stored or on a page is one the server's row of that very
\* deposit has had, and the zeros of a new entry otherwise.
NumbersAreOwn ==
  \A h \in Hashes, list \in {stored} \cup {shown[t] : t \in Tabs}
                              \cup {snap[c] : c \in Loads} :
    list[h] # Absent => list[h].of = h /\ list[h].ver \in 0..version[h]

\* Unless two calls ask about a deposit at once, its entry never goes back to
\* an older version of the row, as long as it is in the list.
NewerStays ==
  [][\A h \in Hashes \ muddled' :
       stored[h] # Absent /\ stored'[h] # Absent
         => stored[h].ver <= stored'[h].ver]_stored

Current(h, entry) == entry # Absent => entry = [of |-> h, ver |-> version[h]]

\* A reload nothing gets in the way of brings the storage up to date and shows
\* every deposit of the list and no other.
ReloadStores ==
  streak >= 1 =>
    /\ \A h \in Hashes : Current(h, stored[h])
    /\ Listed(shown[last]) = Listed(stored)

\* And a second one brings the page up to date.  The first shows the list it has
\* read before it asked: doc/GUIDE.md:55 and :64 expect the new numbers of it.
SecondReloadShows ==
  streak = 2 => \A h \in Hashes : Current(h, shown[last][h])

\* What reloads that nothing gets in the way of come to.
ReloadsConverge == ReloadStores /\ SecondReloadShows

\* A reload ends, whatever fails, unless its page is closed.
EveryReloadEnds ==
  \A c \in Loads : c \in Live ~> rpc[c] \in {"done", "killed"}

===============================================================================
