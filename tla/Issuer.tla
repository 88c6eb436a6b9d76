-------------------------------- MODULE Issuer --------------------------------
(***************************************************************************)
(* The sequence number of the issuing account.  Every transaction of the   *)
(* state carries the next one; ConfigService.issuer keeps the last one     *)
(* used, in memory and for everybody, and TransactionBuilder.build adds    *)
(* one to it before the transaction is sent.  The ledger takes a           *)
(* transaction only if it carries the number after the last one it took.   *)
(***************************************************************************)
EXTENDS Integers

CONSTANTS
  Transactions, \* what the server may send in the issuer's name, once each
  MaxCrashes,   \* bound: times the server stops
  Faults,       \* may Horizon reject a transaction, or answer too late?
  Patient       \* does Horizon hold a transaction that comes before its turn,
                \* rather than reject it?

ASSUME IssuerAssumption ==
  /\ MaxCrashes \in Nat
  /\ Faults \in BOOLEAN
  /\ Patient \in BOOLEAN

VARIABLES
  sequence,     \* the sequence number configService.issuer has got to
  ledger,       \* the one the ledger has got to
  number,       \* the number each transaction carries
  state,        \* "new", "sent", "landed", "void" or "rejected"
  heard,        \* what its caller has been told: "nothing", "ok", "error",
                \* or "gone" when there is nobody left to tell
  up, crashes,
  life          \* history: how often the server had stopped when each was sent

issuer == <<sequence, ledger, number, state, heard, up, crashes, life>>

\* What became of a transaction the ledger no longer waits for: "void" took
\* its number and did nothing.
Outcomes == {"landed", "void", "rejected"}

-------------------------------------------------------------------------------
IssuerInit ==
  /\ sequence = 0
  /\ ledger = 0
  /\ number = [t \in Transactions |-> 0]
  /\ state = [t \in Transactions |-> "new"]
  /\ heard = [t \in Transactions |-> "nothing"]
  /\ up = TRUE
  /\ crashes = 0
  /\ life = [t \in Transactions |-> 0]

\* A slip: the account is loaded for every transaction.
Reloaded == ledger + 1

\* A slip: the transaction is built twice and sent once.
BuiltTwice == sequence + 2

NextNumber == sequence + 1

\* build(), sign() and submitTransaction(), up to its await.
Send(t) ==
  /\ up
  /\ state[t] = "new"
  /\ sequence' = NextNumber
  /\ number' = [number EXCEPT ![t] = NextNumber]
  /\ state' = [state EXCEPT ![t] = "sent"]
  /\ life' = [life EXCEPT ![t] = crashes]
  /\ UNCHANGED <<ledger, heard, up, crashes>>

\* The ledger takes the transaction; what it asks for may still not be possible.
Land(t) ==
  /\ state[t] = "sent"
  /\ number[t] = ledger + 1
  /\ ledger' = ledger + 1
  /\ \E outcome \in IF Faults THEN {"landed", "void"} ELSE {"landed"} :
       state' = [state EXCEPT ![t] = outcome]
  /\ UNCHANGED <<sequence, number, heard, up, crashes, life>>

\* The ledger still waits for the number before this one, and it is on its way.
InTurn(t) ==
  /\ number[t] > ledger + 1
  /\ \E u \in Transactions : state[u] = "sent" /\ number[u] = ledger + 1

\* tx_bad_seq, or, if anything may fail, a fee too low or a time bound passed.
Reject(t) ==
  /\ state[t] = "sent"
  /\ \/ Faults
     \/ number[t] # ledger + 1 /\ ~(Patient /\ InTurn(t))
  /\ state' = [state EXCEPT ![t] = "rejected"]
  /\ UNCHANGED <<sequence, ledger, number, heard, up, crashes, life>>

Succeeded(t) == state[t] = "landed"

\* submitTransaction resolves.
HearOk(t) ==
  /\ up
  /\ heard[t] = "nothing"
  /\ Succeeded(t)
  /\ heard' = [heard EXCEPT ![t] = "ok"]
  /\ UNCHANGED <<sequence, ledger, number, state, up, crashes, life>>

\* It rejects: Horizon says so or, the transaction being wherever it is, does
\* not say anything in time.
HearError(t) ==
  /\ up
  /\ heard[t] = "nothing"
  /\ \/ state[t] \in {"void", "rejected"}
     \/ Faults /\ state[t] # "new"
  /\ heard' = [heard EXCEPT ![t] = "error"]
  /\ UNCHANGED <<sequence, ledger, number, state, up, crashes, life>>

\* The process stops.  What was sent is out of its hands.
IssuerCrash ==
  /\ up
  /\ crashes < MaxCrashes
  /\ up' = FALSE
  /\ crashes' = crashes + 1
  /\ heard' = [t \in Transactions |->
       IF heard[t] = "nothing" /\ state[t] # "new" THEN "gone" ELSE heard[t]]
  /\ UNCHANGED <<sequence, ledger, number, state, life>>

\* A slip: the number is kept over the restart, as if it were stored.
KeptSequence == sequence

Loaded == ledger

\* initStellarIssuer loads the account as the ledger has it.
IssuerStart ==
  /\ ~up
  /\ up' = TRUE
  /\ sequence' = Loaded
  /\ UNCHANGED <<ledger, number, state, heard, crashes, life>>

IssuerNext ==
  \/ \E t \in Transactions : \/ Send(t) \/ Land(t) \/ Reject(t)
                             \/ HearOk(t) \/ HearError(t)
  \/ IssuerCrash
  \/ IssuerStart

IssuerSpec == IssuerInit /\ [][IssuerNext]_issuer

-------------------------------------------------------------------------------
(* Properties                                                              *)

IssuerTypeOK ==
  /\ sequence \in Nat
  /\ ledger \in Nat
  /\ number \in [Transactions -> Nat]
  /\ state \in [Transactions -> {"new", "sent"} \cup Outcomes]
  /\ heard \in [Transactions -> {"nothing", "ok", "error", "gone"}]
  /\ up \in BOOLEAN
  /\ crashes \in Nat
  /\ life \in [Transactions -> Nat]

\* Two transactions that the server sent between the same two starts never carry
\* the same number, whoever asked for them.  Sent in different lives, they may.
OneNumberEach ==
  \A t, u \in Transactions :
    /\ state[t] # "new" /\ state[u] # "new"
    /\ life[t] = life[u]
    /\ number[t] = number[u]
    => t = u

\* The server never skips a number: every one between what the ledger has got to
\* and what the server has got to was given out since the server last started.
NumbersFollow ==
  up => \A n \in ledger + 1 .. sequence :
          \E t \in Transactions :
            state[t] # "new" /\ life[t] = crashes /\ number[t] = n

\* In each life of the server, after any number of restarts, numbers are given out
\* once and follow what the ledger had taken when the server started
\* (config.service.ts:39).
NumbersOnce == OneNumberEach /\ NumbersFollow

\* The number the ledger waits for was used by a transaction that is gone.
Wedged ==
  /\ up
  /\ ledger < sequence
  /\ \A t \in Transactions : state[t] = "sent" => number[t] # ledger + 1

\* From then on nothing the server sends is taken, until it is restarted: one
\* rejected transaction stops all transfers, payouts and accounts.
WedgedUntilRestart ==
  [][Wedged /\ up' => Wedged' /\ ledger' = ledger]_issuer

\* With an orderly ledger that does not happen: every number between the
\* ledger's and the server's is on its way.
NeverWedged ==
  ~Faults /\ Patient /\ crashes = 0 =>
    \A n \in ledger + 1 .. sequence :
      \E t \in Transactions : state[t] = "sent" /\ number[t] = n
===============================================================================
