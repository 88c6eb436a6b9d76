------------------------------- MODULE FifoLock -------------------------------
(***************************************************************************)
(* What the withdraw endpoint expects of its mutex: one holder at a time,  *)
(* clients served in the order they asked, and a lock that is handed over  *)
(* or freed by every release.  The detailed protocol (the queue and the    *)
(* pending flag of async-mutex, and the single field in which the          *)
(* controller keeps the releaser) is in Settlement, which implements this  *)
(* specification.                                                          *)
(***************************************************************************)
EXTENDS Sequences

CONSTANTS Clients,    \* whoever may ask for the lock
          Nobody      \* the holder of a free lock, not a client

VARIABLES holder,     \* the client inside the section, or Nobody
          waiting     \* the clients still to be served, in order

lockVars == <<holder, waiting>>

LockInit == holder = Nobody /\ waiting = <<>>

\* A client asks for the lock: it gets it at once or joins the line.
Acquire(c) ==
  /\ c # holder
  /\ \A i \in DOMAIN waiting : waiting[i] # c
  /\ \/ /\ holder = Nobody
        /\ waiting = <<>>
        /\ holder' = c
        /\ UNCHANGED waiting
     \/ /\ holder # Nobody
        /\ waiting' = Append(waiting, c)
        /\ UNCHANGED holder

\* The holder leaves; the client that has waited longest is inside at once.
Release ==
  /\ holder # Nobody
  /\ \/ /\ waiting = <<>>
        /\ holder' = Nobody
        /\ UNCHANGED waiting
     \/ /\ waiting # <<>>
        /\ holder' = Head(waiting)
        /\ waiting' = Tail(waiting)

\* The process that keeps the lock in its memory stops: everybody is gone.
Reset == holder' = Nobody /\ waiting' = <<>>

LockNext == (\E c \in Clients : Acquire(c)) \/ Release \/ Reset

LockSpec == LockInit /\ [][LockNext]_lockVars
===============================================================================
