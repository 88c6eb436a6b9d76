---------------------------- MODULE TransfersProofs ----------------------------
(***************************************************************************)
(* What holds of Transfers for any number of documents, calls, taxes and   *)
(* crashes.  Each invariant is proved of Init and of one step, action by   *)
(* action; the theorems at the end put the two together.                   *)
(***************************************************************************)
EXTENDS Transfers, TLAPS

\* TypeOK without the bound on the amounts, which follows from TrailInv.
TypeInv ==
  /\ revenue \in Int
  /\ shown \in Int
  /\ rows \subseteq Calls
  /\ amounts \in [Calls -> Nat]
  /\ executed \subseteq Calls
  /\ pc \in [Users -> InCall \cup {"idle", "refused", "failed", "killed", "done"}]
  /\ \A w \in Collectors :
       pc[w] \in {"idle", "writestate", "announce", "done", "failed", "killed"}
  /\ read \in [Users -> Int]
  /\ up \in BOOLEAN
  /\ crashes \in Nat
  /\ gathered \in Nat
  /\ charged \subseteq Calls
  /\ spent \in Nat
  /\ raced \in BOOLEAN
  /\ muddled \subseteq Documents

\* The bounds of the State row hold of what its users have read too.
BoundInv ==
  /\ RevenueBounded
  /\ \A u \in Users : pc[u] = "writestate" =>
       -spent <= read[u] /\ read[u] <= gathered

\* Nobody has overlapped: one user at most is at the row, what it has read is
\* what is there, a transfer is covered, and only its news is outstanding.
RowInv ==
  ~raced =>
    /\ revenue = gathered - spent
    /\ revenue >= 0
    /\ \A u, v \in Users : pc[u] \in UsingRow /\ pc[v] \in UsingRow => u = v
    /\ \A u \in Users : pc[u] = "writestate" => read[u] = revenue
    /\ \A c \in Calls : pc[c] \in {"minimise", "writestate"} => Price(c) <= revenue
    /\ \A c \in Calls : pc[c] = "announce" => revenue = Lowered(c)
    /\ \A w \in Collectors : pc[w] = "announce" => revenue = Raised(w)
    /\ (crashes = 0 /\ \A u \in Users : pc[u] # "announce") => shown = revenue

\* Where a call is says what it has left in the tables and on the ledger.
TrailInv ==
  \A c \in Calls :
    /\ c \in rows <=> pc[c] = "done"
    /\ pc[c] \in {"transfer", "done"} => amounts[c] = PartsOf(c)
    /\ pc[c] \in {"idle"} \cup Sending => amounts[c] = 0 /\ c \notin executed
    /\ amounts[c] <= PartsOf(c)
    /\ pc[c] = "amounts" => amounts[c] < PartsOf(c)
    /\ pc[c] \in Saving \cup {"done"} => c \in executed
    /\ Taxed(c) /\ (pc[c] \in {"announce", "account", "execute"} \/ c \in executed)
         => c \in charged
    /\ pc[c] \in UsingRow \cup {"checkstate"} => Taxed(c)

\* A call that may pay its document, or has.
Active(c) == pc[c] \in InCall \/ c \in executed

\* One call at most has to do with an unmuddled document, until it is on record.
OnceInv ==
  \A c \in Calls : DocumentOf[c] \notin muddled =>
    /\ c \in executed => c \in rows \/ pc[c] \in Saving
    /\ \A d \in Calls \ {c} :
         DocumentOf[d] = DocumentOf[c] => ~(Active(c) /\ Active(d))

USE DEF Users, Price, Taxed, UsingRow, Sending, Saving, InCall, Goto,
        row, tables, process, history

-------------------------------------------------------------------------------
(* Types                                                                   *)

LEMMA TypeInit == ASSUME ConstantsAssumption PROVE Init => TypeInv
<1> SUFFICES ASSUME Init PROVE TypeInv
  OBVIOUS
<1>1. /\ pc \in [Users -> InCall \cup {"idle", "refused", "failed", "killed", "done"}]
      /\ \A w \in Collectors :
           pc[w] \in {"idle", "writestate", "announce", "done", "failed", "killed"}
  BY DEF Init
<1>2. amounts \in [Calls -> Nat] /\ read \in [Users -> Int]
  BY DEF Init
<1>3. up \in BOOLEAN /\ raced \in BOOLEAN
  BY DEF Init
<1>4. /\ revenue \in Int /\ shown \in Int /\ crashes \in Nat
      /\ gathered \in Nat /\ spent \in Nat
  BY DEF Init
<1>5. /\ rows \subseteq Calls /\ executed \subseteq Calls
      /\ charged \subseteq Calls /\ muddled \subseteq Documents
  BY DEF Init
<1>6. QED
  BY <1>1, <1>2, <1>3, <1>4, <1>5 DEF TypeInv

LEMMA TypeStep ==
  ASSUME ConstantsAssumption, TypeInv, [Next]_vars PROVE TypeInv'
<1> USE DEF ConstantsAssumption, TypeInv
<1>1. ASSUME NEW c \in Calls,
             Refuse(c) \/ CheckSignature(c) \/ CheckState(c) \/ ReadState(c)
      PROVE TypeInv'
  <2>1. CASE Refuse(c)
    BY <2>1 DEF Refuse
  <2>2. CASE CheckSignature(c)
    BY <2>2 DEF CheckSignature, Muddle
  <2>3. CASE CheckState(c)
    BY <2>3 DEF CheckState, Race
  <2>4. CASE ReadState(c)
    BY <2>4 DEF ReadState
  <2>5. QED
    BY <1>1, <2>1, <2>2, <2>3, <2>4
<1>2. ASSUME NEW c \in Calls, WriteState(c) \/ Announce(c) \/ FindAccount(c)
      PROVE TypeInv'
  BY <1>2 DEF WriteState, Announce, FindAccount, Lowered
<1>3. ASSUME NEW c \in Calls,
             Execute(c) \/ ExecuteFails(c) \/ SaveAmount(c) \/ SaveTransfer(c)
               \/ CallFails(c)
      PROVE TypeInv'
  <2>1. CASE Execute(c) \/ ExecuteFails(c)
    BY <2>1 DEF Execute, ExecuteFails
  <2>2. CASE SaveAmount(c) \/ SaveTransfer(c)
    BY <2>2 DEF SaveAmount, SaveTransfer
  <2>3. CASE CallFails(c)
    BY <2>3 DEF CallFails
  <2>4. QED
    BY <1>3, <2>1, <2>2, <2>3
<1>4. ASSUME NEW w \in Collectors,
             Collect(w) \/ AddTax(w) \/ TellTax(w) \/ CollectFails(w)
      PROVE TypeInv'
  BY <1>4 DEF Collect, AddTax, TellTax, CollectFails, Raised, Race
<1>5. ASSUME Crash \/ Start \/ UNCHANGED vars
      PROVE TypeInv'
  <2>1. CASE Crash
    <3>1. pc' \in [Users -> InCall \cup {"idle", "refused", "failed", "killed", "done"}]
      BY <2>1 DEF Crash
    <3>2. \A w \in Collectors :
            pc'[w] \in {"idle", "writestate", "announce", "done", "failed", "killed"}
      BY <2>1 DEF Crash
    <3>3. executed' \subseteq Calls /\ muddled' \subseteq Documents
      BY <2>1 DEF Crash
    <3>4. up' \in BOOLEAN
      BY <2>1 DEF Crash
    <3>5. crashes' \in Nat
      BY <2>1 DEF Crash
    <3>6. UNCHANGED <<row, tables, read, gathered, charged, spent, raced>>
      BY <2>1 DEF Crash
    <3>7. QED
      BY <3>1, <3>2, <3>3, <3>4, <3>5, <3>6
  <2>2. CASE Start \/ UNCHANGED vars
    BY <2>2 DEF Start, vars
  <2>3. QED
    BY <1>5, <2>1, <2>2
<1>6. QED
  BY <1>1, <1>2, <1>3, <1>4, <1>5 DEF Next, Serve

-------------------------------------------------------------------------------
(* The bounds of the State row                                             *)

LEMMA BoundInit == ASSUME ConstantsAssumption PROVE Init => BoundInv
  BY DEF ConstantsAssumption, Init, BoundInv, RevenueBounded

LEMMA BoundStep ==
  ASSUME ConstantsAssumption, TypeInv, BoundInv, [Next]_vars PROVE BoundInv'
<1> USE DEF ConstantsAssumption, TypeInv, BoundInv, RevenueBounded
<1>1. ASSUME NEW c \in Calls,
             Refuse(c) \/ CheckSignature(c) \/ CheckState(c) \/ FindAccount(c)
               \/ Execute(c) \/ ExecuteFails(c) \/ SaveAmount(c)
               \/ SaveTransfer(c) \/ CallFails(c) \/ Announce(c)
      PROVE BoundInv'
  <2>1. /\ UNCHANGED <<revenue, read, spent, gathered>>
        /\ \A u \in Users : pc'[u] = "writestate" => pc[u] = "writestate"
    BY <1>1 DEF Refuse, CheckSignature, CheckState, FindAccount, Execute,
                ExecuteFails, SaveAmount, SaveTransfer, CallFails, Announce
  <2>2. QED
    BY <2>1
<1>2. ASSUME NEW c \in Calls, ReadState(c) \/ WriteState(c)
      PROVE BoundInv'
  BY <1>2 DEF ReadState, WriteState, Lowered
<1>3. ASSUME NEW w \in Collectors,
             Collect(w) \/ AddTax(w) \/ TellTax(w) \/ CollectFails(w)
      PROVE BoundInv'
  BY <1>3 DEF Collect, AddTax, TellTax, CollectFails, Raised
<1>4. ASSUME Crash \/ Start \/ UNCHANGED vars
      PROVE BoundInv'
  BY <1>4 DEF Crash, Start, vars
<1>5. QED
  BY <1>1, <1>2, <1>3, <1>4 DEF Next, Serve

-------------------------------------------------------------------------------
(* The State row of users that do not overlap                              *)

LEMMA RowInit == ASSUME ConstantsAssumption PROVE Init => RowInv
<1> SUFFICES ASSUME Init PROVE RowInv
  OBVIOUS
<1>1. \A u \in Users : pc[u] = "idle"
  BY DEF Init
<1>2. QED
  BY <1>1 DEF Init, RowInv

LEMMA RowStep ==
  ASSUME ConstantsAssumption, TypeInv, RowInv, [Next]_vars PROVE RowInv'
<1> USE DEF ConstantsAssumption, TypeInv
\* A step that leaves the row and what was read of it alone, and takes a user
\* no further towards it.
<1>1. ASSUME UNCHANGED <<revenue, shown, gathered, spent, raced, read>>,
             crashes' >= crashes, crashes' \in Nat,
             \A u \in Users : pc'[u] \in UsingRow => pc'[u] = pc[u],
             crashes' = 0 => \A u \in Users : pc[u] = "announce" => pc'[u] = "announce"
      PROVE RowInv'
  BY <1>1 DEF RowInv, Lowered, Raised
<1>2. ASSUME NEW c \in Calls,
             Refuse(c) \/ CheckSignature(c) \/ FindAccount(c)
               \/ Execute(c) \/ ExecuteFails(c) \/ SaveAmount(c)
               \/ SaveTransfer(c) \/ CallFails(c)
      PROVE RowInv'
  <2>1. /\ UNCHANGED <<revenue, shown, gathered, spent, raced, read, crashes>>
        /\ \A u \in Users : pc'[u] \in UsingRow => pc'[u] = pc[u]
        /\ \A u \in Users : pc[u] = "announce" => pc'[u] = "announce"
    BY <1>2 DEF Refuse, CheckSignature, FindAccount, Execute,
                ExecuteFails, SaveAmount, SaveTransfer, CallFails
  <2>2. QED
    BY <2>1, <1>1
<1>3. ASSUME NEW c \in Calls, CheckState(c)
      PROVE RowInv'
  <2>1. CASE Covered(c) /\ ~raced'
    <3>1. \A v \in Users \ {c} : pc[v] \notin UsingRow /\ pc'[v] = pc[v]
      BY <1>3, <2>1 DEF CheckState, Race
    <3>2. ~raced
      BY <1>3, <2>1 DEF CheckState, Race
    <3>3. pc'[c] = "minimise" /\ UNCHANGED <<revenue, shown, gathered, spent, read, crashes>>
      BY <1>3, <2>1 DEF CheckState, Covered
    <3>4. Price(c) <= revenue /\ pc[c] = "checkstate"
      BY <1>3, <2>1 DEF CheckState, Covered
    <3>5. QED
      BY <3>1, <3>2, <3>3, <3>4 DEF RowInv, Lowered, Raised
  <2>2. CASE Covered(c) /\ raced'
    BY <2>2 DEF RowInv
  <2>3. CASE ~Covered(c)
    <3>1. /\ UNCHANGED <<revenue, shown, gathered, spent, raced, read, crashes>>
          /\ \A u \in Users : pc'[u] \in UsingRow => pc'[u] = pc[u]
          /\ \A u \in Users : pc[u] = "announce" => pc'[u] = "announce"
      BY <1>3, <2>3 DEF CheckState
    <3>2. QED
      BY <3>1, <1>1
  <2>4. QED
    BY <2>1, <2>2, <2>3
<1>4. ASSUME NEW c \in Calls, ReadState(c) \/ WriteState(c) \/ Announce(c), ~raced'
      PROVE RowInv'
  <2>1. ~raced /\ pc[c] \in UsingRow
    BY <1>4 DEF ReadState, WriteState, Announce
  <2>2. \A v \in Users \ {c} : pc[v] \notin UsingRow /\ pc'[v] = pc[v]
    BY <1>4, <2>1 DEF ReadState, WriteState, Announce, RowInv
  <2>3. CASE ReadState(c)
    BY <2>1, <2>2, <2>3 DEF ReadState, RowInv
  <2>4. CASE WriteState(c)
    BY <2>1, <2>2, <2>4 DEF WriteState, RowInv, Lowered
  <2>5. CASE Announce(c)
    BY <2>1, <2>2, <2>5 DEF Announce, RowInv, Lowered
  <2>6. QED
    BY <1>4, <2>3, <2>4, <2>5
<1>5. ASSUME NEW w \in Collectors, Collect(w), ~raced'
      PROVE RowInv'
  <2>1. ~raced /\ \A v \in Users \ {w} : pc[v] \notin UsingRow /\ pc'[v] = pc[v]
    BY <1>5 DEF Collect, Race
  <2>2. QED
    BY <1>5, <2>1 DEF Collect, RowInv
<1>6. ASSUME NEW w \in Collectors, AddTax(w) \/ TellTax(w), ~raced'
      PROVE RowInv'
  <2>1. ~raced /\ pc[w] \in UsingRow
    BY <1>6 DEF AddTax, TellTax
  <2>2. \A v \in Users \ {w} : pc[v] \notin UsingRow /\ pc'[v] = pc[v]
    BY <1>6, <2>1 DEF AddTax, TellTax, RowInv
  <2>3. CASE AddTax(w)
    BY <2>1, <2>2, <2>3 DEF AddTax, RowInv, Raised
  <2>4. CASE TellTax(w)
    BY <2>1, <2>2, <2>4 DEF TellTax, RowInv, Raised
  <2>5. QED
    BY <1>6, <2>3, <2>4
<1>7. ASSUME NEW w \in Collectors, CollectFails(w)
      PROVE RowInv'
  <2>1. /\ UNCHANGED <<revenue, shown, gathered, spent, raced, read, crashes>>
        /\ \A u \in Users : pc'[u] \in UsingRow => pc'[u] = pc[u]
        /\ \A u \in Users : pc[u] = "announce" => pc'[u] = "announce"
    BY <1>7 DEF CollectFails
  <2>2. QED
    BY <2>1, <1>1
<1>8. ASSUME Crash \/ Start \/ UNCHANGED vars
      PROVE RowInv'
  <2>1. /\ UNCHANGED <<revenue, shown, gathered, spent, raced, read>>
        /\ crashes' >= crashes /\ crashes' \in Nat
    BY <1>8 DEF Crash, Start, vars
  <2>2. /\ \A u \in Users : pc'[u] \in UsingRow => pc'[u] = pc[u]
        /\ crashes' = 0 => UNCHANGED pc
    BY <1>8 DEF Crash, Start, vars
  <2>3. QED
    BY <2>1, <2>2, <1>1
<1>9. QED
  BY <1>2, <1>3, <1>4, <1>5, <1>6, <1>7, <1>8 DEF Next, Serve, RowInv

-------------------------------------------------------------------------------
(* What a call leaves behind                                               *)

LEMMA TrailInit == ASSUME ConstantsAssumption PROVE Init => TrailInv
<1> SUFFICES ASSUME Init PROVE TrailInv
  OBVIOUS
<1>1. \A c \in Calls : pc[c] = "idle" /\ amounts[c] = 0
  BY DEF Init
<1>2. QED
  BY <1>1 DEF ConstantsAssumption, Init, TrailInv, PartsOf

LEMMA TrailStep ==
  ASSUME ConstantsAssumption, TypeInv, TrailInv, [Next]_vars PROVE TrailInv'
<1> USE DEF ConstantsAssumption, TypeInv, PartsOf
<1>1. ASSUME NEW c \in Calls,
             Refuse(c) \/ CheckSignature(c) \/ CheckState(c) \/ ReadState(c)
               \/ WriteState(c) \/ Announce(c) \/ FindAccount(c)
      PROVE TrailInv'
  <2>1. /\ UNCHANGED <<rows, amounts, executed>>
        /\ \A d \in Calls \ {c} : pc'[d] = pc[d]
        /\ pc[c] \in {"idle"} \cup Sending
        /\ pc'[c] \in Sending \cup {"refused"}
    BY <1>1 DEF Refuse, CheckSignature, CheckState, ReadState, WriteState,
                Announce, FindAccount
  <2>2. /\ charged \subseteq charged'
        /\ pc'[c] = "announce" => c \in charged'
        /\ Taxed(c) /\ pc'[c] \in {"account", "execute"}
             => pc[c] \in {"announce", "account"}
        /\ pc'[c] \in UsingRow \cup {"checkstate"}
             => Taxed(c) \/ pc[c] \in UsingRow \cup {"checkstate"}
    BY <1>1 DEF Refuse, CheckSignature, CheckState, ReadState, WriteState,
                Announce, FindAccount
  <2>3. QED
    BY <2>1, <2>2 DEF TrailInv
<1>2. ASSUME NEW c \in Calls,
             Execute(c) \/ ExecuteFails(c) \/ SaveAmount(c)
               \/ SaveTransfer(c) \/ CallFails(c)
      PROVE TrailInv'
  <2>1. CASE Execute(c) \/ ExecuteFails(c)
    BY <2>1 DEF Execute, ExecuteFails, TrailInv
  <2>2. CASE SaveAmount(c)
    BY <2>2 DEF SaveAmount, TrailInv
  <2>3. CASE SaveTransfer(c)
    BY <2>3 DEF SaveTransfer, TrailInv
  <2>4. CASE CallFails(c)
    BY <2>4 DEF CallFails, TrailInv
  <2>5. QED
    BY <1>2, <2>1, <2>2, <2>3, <2>4
<1>3. ASSUME NEW w \in Collectors,
             Collect(w) \/ AddTax(w) \/ TellTax(w) \/ CollectFails(w)
      PROVE TrailInv'
  <2>1. /\ UNCHANGED <<rows, amounts, executed, charged>>
        /\ \A d \in Calls : pc'[d] = pc[d]
    BY <1>3 DEF Collect, AddTax, TellTax, CollectFails
  <2>2. QED
    BY <2>1 DEF TrailInv
<1>4. CASE Crash
  <2>1. PICK landed \in SUBSET {c \in Calls : pc[c] = "execute"} :
          executed' = executed \cup landed
    BY <1>4 DEF Crash
  <2>2. /\ UNCHANGED <<rows, amounts, charged>>
        /\ \A c \in Calls : pc'[c] = IF pc[c] \in InCall THEN "killed" ELSE pc[c]
    BY <1>4 DEF Crash
  <2>3. QED
    BY <2>1, <2>2 DEF TrailInv
<1>5. CASE Start \/ UNCHANGED vars
  BY <1>5 DEF Start, vars, TrailInv
<1>6. QED
  BY <1>1, <1>2, <1>3, <1>4, <1>5 DEF Next, Serve

-------------------------------------------------------------------------------
(* Who has to do with a document                                           *)

LEMMA OnceInit == ASSUME ConstantsAssumption PROVE Init => OnceInv
<1> SUFFICES ASSUME Init PROVE OnceInv
  OBVIOUS
<1>1. \A c \in Calls : pc[c] = "idle"
  BY DEF Init
<1>2. QED
  BY <1>1 DEF Init, OnceInv, Active

\* A step that lets no call become active, and leaves alone what a call that
\* is active has done with an unmuddled document.
LEMMA OnceKept ==
  ASSUME ConstantsAssumption, TypeInv, OnceInv,
         muddled \subseteq muddled',
         \A c \in Calls : Active(c)' => Active(c),
         \A c \in Calls : c \in executed' /\ DocumentOf[c] \notin muddled'
                           => c \in rows' \/ pc'[c] \in Saving
  PROVE  OnceInv'
<1>1. \A c \in Calls : DocumentOf[c] \notin muddled' => DocumentOf[c] \notin muddled
  OBVIOUS
<1>2. QED
  BY <1>1 DEF OnceInv

LEMMA OnceStep ==
  ASSUME ConstantsAssumption, TypeInv, TrailInv, OnceInv, [Next]_vars PROVE OnceInv'
<1> USE DEF ConstantsAssumption, TypeInv
<1>1. ASSUME NEW c \in Calls, CheckSignature(c)
      PROVE OnceInv'
  <2>1. CASE SignatureExists(c)
    <3>1. /\ UNCHANGED <<muddled, executed, rows>>
          /\ \A d \in Calls : pc'[d] \in InCall => pc'[d] = pc[d]
          /\ \A d \in Calls : pc[d] \in Saving => pc'[d] = pc[d]
      BY <1>1, <2>1 DEF CheckSignature
    <3>2. QED
      BY <3>1, OnceKept DEF Active, OnceInv
  <2>2. CASE ~SignatureExists(c)
    <3>1. /\ UNCHANGED <<executed, rows>>
          /\ \A d \in Calls \ {c} : pc'[d] = pc[d]
          /\ pc[c] = "idle"
          /\ muddled \subseteq muddled'
      BY <1>1, <2>2 DEF CheckSignature, Muddle
    <3>2. c \notin executed
      BY <3>1 DEF TrailInv
    <3>3. ASSUME NEW d \in Calls \ {c}, DocumentOf[d] = DocumentOf[c],
                 DocumentOf[c] \notin muddled'
          PROVE ~Active(d)
      <4>1. pc[d] \notin InCall
        BY <1>1, <2>2, <3>3 DEF CheckSignature, Muddle
      <4>2. d \notin rows
        BY <2>2, <3>3 DEF SignatureExists
      <4>3. d \notin executed
        BY <3>1, <3>3, <4>1, <4>2 DEF OnceInv
      <4>4. QED
        BY <4>1, <4>3 DEF Active
    <3>4. QED
      BY <3>1, <3>2, <3>3 DEF OnceInv, Active
  <2>3. QED
    BY <2>1, <2>2
<1>2. ASSUME NEW c \in Calls,
             Refuse(c) \/ CheckState(c) \/ ReadState(c) \/ WriteState(c)
               \/ Announce(c) \/ FindAccount(c)
      PROVE OnceInv'
  <2>1. /\ UNCHANGED <<muddled, executed, rows>>
        /\ \A d \in Calls \ {c} : pc'[d] = pc[d]
        /\ pc'[c] \in InCall => pc[c] \in InCall
        /\ pc[c] \notin Saving
    BY <1>2 DEF Refuse, CheckState, ReadState, WriteState, Announce, FindAccount
  <2>2. QED
    BY <2>1, OnceKept DEF Active, OnceInv
<1>3. ASSUME NEW c \in Calls, Execute(c) \/ ExecuteFails(c)
      PROVE OnceInv'
  <2>1. /\ muddled \subseteq muddled' /\ UNCHANGED rows
        /\ \A d \in Calls \ {c} : pc'[d] = pc[d] /\ (d \in executed' <=> d \in executed)
        /\ Active(c)
        /\ c \in executed' /\ DocumentOf[c] \notin muddled'
             => pc'[c] \in Saving \/ c \in executed
    BY <1>3 DEF Execute, ExecuteFails, Active
  <2>2. c \notin executed
    BY <1>3 DEF Execute, ExecuteFails, TrailInv
  <2>3. QED
    BY <2>1, <2>2, OnceKept DEF Active, OnceInv
<1>4. ASSUME NEW c \in Calls, SaveAmount(c) \/ SaveTransfer(c) \/ CallFails(c)
      PROVE OnceInv'
  <2>1. /\ muddled \subseteq muddled' /\ rows \subseteq rows' /\ UNCHANGED executed
        /\ \A d \in Calls \ {c} : pc'[d] = pc[d]
        /\ pc'[c] \in InCall => pc[c] \in InCall
        /\ pc[c] \in Saving =>
             pc'[c] \in Saving \/ c \in rows' \/ DocumentOf[c] \in muddled'
    BY <1>4 DEF SaveAmount, SaveTransfer, CallFails
  <2>2. QED
    BY <2>1, OnceKept DEF Active, OnceInv
<1>5. ASSUME NEW w \in Collectors,
             Collect(w) \/ AddTax(w) \/ TellTax(w) \/ CollectFails(w)
      PROVE OnceInv'
  <2>1. UNCHANGED <<muddled, executed, rows>> /\ \A d \in Calls : pc'[d] = pc[d]
    BY <1>5 DEF Collect, AddTax, TellTax, CollectFails
  <2>2. QED
    BY <2>1, OnceKept DEF Active, OnceInv
<1>6. CASE Crash
  <2>1. PICK landed \in SUBSET {c \in Calls : pc[c] = "execute"} :
          /\ executed' = executed \cup landed
          /\ muddled' = muddled \cup
               {DocumentOf[c] : c \in landed \cup {d \in Calls : pc[d] \in Saving}}
    BY <1>6 DEF Crash
  <2>2. /\ UNCHANGED rows
        /\ \A c \in Calls : pc'[c] \notin InCall
    BY <1>6 DEF Crash
  <2>3. \A c \in Calls : pc[c] \in Saving \/ c \in landed => DocumentOf[c] \in muddled'
    BY <2>1
  <2>4. QED
    BY <2>1, <2>2, <2>3, OnceKept DEF Active, OnceInv
<1>7. CASE Start \/ UNCHANGED vars
  <2>1. UNCHANGED <<muddled, executed, rows, pc>>
    BY <1>7 DEF Start, vars
  <2>2. QED
    BY <2>1, OnceKept DEF Active, OnceInv
<1>8. QED
  BY <1>1, <1>2, <1>3, <1>4, <1>5, <1>6, <1>7 DEF Next, Serve

-------------------------------------------------------------------------------
(* The theorems                                                            *)

\* Every variable of the transfers keeps its type.
THEOREM TransfersTypeCorrect == ASSUME ConstantsAssumption PROVE Spec => []TypeOK
<1>1. Init => TypeInv /\ TrailInv
  BY TypeInit, TrailInit
<1>2. (TypeInv /\ TrailInv) /\ [Next]_vars => (TypeInv /\ TrailInv)'
  BY TypeStep, TrailStep
<1>3. TypeInv /\ TrailInv => TypeOK
  BY DEF TypeInv, TrailInv, TypeOK, PartsOf
<1>4. QED
  BY <1>1, <1>2, <1>3, PTL DEF Spec

\* The State row stays between what transfers took and what taxes brought,
\* however its users overlap: a lost update loses one or the other, no more.
THEOREM RevenueStaysBounded == ASSUME ConstantsAssumption PROVE Spec => []RevenueBounded
<1>1. Init => TypeInv /\ BoundInv
  BY TypeInit, BoundInit
<1>2. (TypeInv /\ BoundInv) /\ [Next]_vars => (TypeInv /\ BoundInv)'
  BY TypeStep, BoundStep
<1>3. BoundInv => RevenueBounded
  BY DEF BoundInv
<1>4. QED
  BY <1>1, <1>2, <1>3, PTL DEF Spec

\* Users of the State row that do not overlap leave it exact and not negative.
THEOREM RevenueIsExact == ASSUME ConstantsAssumption PROVE Spec => []RevenueExact
<1>1. Init => TypeInv /\ RowInv
  BY TypeInit, RowInit
<1>2. (TypeInv /\ RowInv) /\ [Next]_vars => (TypeInv /\ RowInv)'
  BY TypeStep, RowStep
<1>3. RowInv => RevenueExact
  BY DEF RowInv, RevenueExact
<1>4. QED
  BY <1>1, <1>2, <1>3, PTL DEF Spec

\* Both, of every user of the State row (config.service.ts:149-188).
THEOREM RevenueIsSound == ASSUME ConstantsAssumption PROVE Spec => []RevenueSound
BY RevenueStaysBounded, RevenueIsExact, PTL DEF RevenueSound

\* What is on record was paid in full, after the State row was lowered for it.
THEOREM RecordsArePaid == ASSUME ConstantsAssumption PROVE Spec => []RecordIsPaid
<1>1. Init => TypeInv /\ TrailInv
  BY TypeInit, TrailInit
<1>2. (TypeInv /\ TrailInv) /\ [Next]_vars => (TypeInv /\ TrailInv)'
  BY TypeStep, TrailStep
<1>3. TypeInv /\ TrailInv => RecordIsPaid
  BY DEF TrailInv, RecordIsPaid, TypeInv, PartsOf
<1>4. QED
  BY <1>1, <1>2, <1>3, PTL DEF Spec

\* A signed document whose calls neither overlap nor stop halfway is paid once.
THEOREM DocumentsPaidOnce == ASSUME ConstantsAssumption PROVE Spec => []PaidOnce
<1>1. Init => TypeInv /\ TrailInv /\ OnceInv
  BY TypeInit, TrailInit, OnceInit
<1>2. (TypeInv /\ TrailInv /\ OnceInv) /\ [Next]_vars
        => (TypeInv /\ TrailInv /\ OnceInv)'
  BY TypeStep, TrailStep, OnceStep
<1>3. TypeInv /\ OnceInv => PaidOnce
  BY DEF TypeInv, OnceInv, PaidOnce, Active
<1>4. QED
  BY <1>1, <1>2, <1>3, PTL DEF Spec

\* A change of the State row is a step of the treasury.
LEMMA TreasuryStep ==
  ASSUME ConstantsAssumption, TypeInv, RowInv, TrailInv, [Next]_vars, ~raced',
         revenue' # revenue
  PROVE  Bank!TreasuryNext
<1> USE DEF ConstantsAssumption, TypeInv
<1>1. ASSUME NEW c \in Calls, WriteState(c) PROVE Bank!TreasuryNext
  <2>1. read[c] = revenue /\ Price(c) <= revenue /\ Taxed(c)
    BY <1>1 DEF WriteState, RowInv, TrailInv
  <2>2. revenue' = revenue - Price(c) /\ Price(c) \in {Worth[d] : d \in FromTaxes}
    BY <1>1, <2>1 DEF WriteState, Lowered
  <2>3. Bank!Spend(Price(c))
    BY <2>1, <2>2 DEF Bank!Spend
  <2>4. QED
    BY <2>2, <2>3 DEF Bank!TreasuryNext
<1>2. ASSUME NEW w \in Collectors, AddTax(w) PROVE Bank!TreasuryNext
  <2>1. revenue' = revenue + Income[w] /\ Income[w] \in {Income[v] : v \in Collectors}
    BY <1>2 DEF AddTax, RowInv, Raised
  <2>2. QED
    BY <2>1 DEF Bank!TreasuryNext, Bank!Collect
<1>3. ASSUME NEW c \in Calls,
             Refuse(c) \/ CheckSignature(c) \/ CheckState(c) \/ ReadState(c)
               \/ Announce(c) \/ FindAccount(c) \/ Execute(c) \/ ExecuteFails(c)
               \/ SaveAmount(c) \/ SaveTransfer(c) \/ CallFails(c)
      PROVE UNCHANGED revenue
  BY <1>3 DEF Refuse, CheckSignature, CheckState, ReadState, Announce, FindAccount,
              Execute, ExecuteFails, SaveAmount, SaveTransfer, CallFails
<1>4. ASSUME NEW w \in Collectors, Collect(w) \/ TellTax(w) \/ CollectFails(w)
      PROVE UNCHANGED revenue
  BY <1>4 DEF Collect, TellTax, CollectFails
<1>5. Crash \/ Start \/ UNCHANGED vars => UNCHANGED revenue
  BY DEF Crash, Start, vars
<1>6. QED
  BY <1>1, <1>2, <1>3, <1>4, <1>5 DEF Next, Serve

\* Until two of its users overlap, the State row implements the treasury: each
\* tax and each transfer is one step, and no transfer overdraws it.
THEOREM TransfersImplementTreasury == ASSUME ConstantsAssumption PROVE Spec => IsTreasury
<1>1. Init => TypeInv /\ RowInv /\ TrailInv /\ Bank!TreasuryInit
  <2>1. Init => Bank!TreasuryInit
    BY DEF Init, Bank!TreasuryInit
  <2>2. QED
    BY <2>1, TypeInit, RowInit, TrailInit
<1>2. (TypeInv /\ RowInv /\ TrailInv) /\ [Next]_vars
        => (TypeInv /\ RowInv /\ TrailInv)'
  BY TypeStep, RowStep, TrailStep
<1>3. (TypeInv /\ RowInv /\ TrailInv) /\ [Next]_vars
        => [~raced' => Bank!TreasuryNext]_revenue
  BY TreasuryStep
<1>4. QED
  BY <1>1, <1>2, <1>3, PTL DEF Spec, IsTreasury
===============================================================================
