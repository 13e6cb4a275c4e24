-------------------------- MODULE CountingSemaphore --------------------------
(***************************************************************************)
(* What the semaphores of a real-time kernel promise to their clients: the *)
(* tokens of a semaphore are never more than its limit, a token is handed  *)
(* to the waiting client with the highest priority (the lowest number) if  *)
(* there is one and kept otherwise, a wait ends well only with a token     *)
(* that was handed over, and a client that gives up takes none with it.    *)
(***************************************************************************)
EXTENDS Integers

CONSTANTS Clients, Sems, MaxCount, Counts, Nil

VARIABLES
  count,     \* tokens kept; Nil before the semaphore is created
  waitsFor,  \* the semaphore each client has asked for and not left yet
  granted    \* the clients that have been handed a token

svars == <<count, waitsFor, granted>>

Init ==
  /\ count = [s \in Sems |-> Nil]
  /\ waitsFor = [c \in Clients |-> Nil]
  /\ granted = {}

Queue(s) == {c \in Clients : waitsFor[c] = s /\ c \notin granted}

Create(s, n) ==
  /\ count[s] = Nil
  /\ count' = [count EXCEPT ![s] = n]
  /\ UNCHANGED <<waitsFor, granted>>

Take(s) ==
  /\ count[s] \in 1..MaxCount
  /\ count' = [count EXCEPT ![s] = @ - 1]
  /\ UNCHANGED <<waitsFor, granted>>

Wait(c, s) ==
  /\ waitsFor[c] = Nil
  /\ count[s] = 0
  /\ waitsFor' = [waitsFor EXCEPT ![c] = s]
  /\ UNCHANGED <<count, granted>>

Keep(s) ==
  /\ count[s] \in 0..(MaxCount - 1)
  /\ Queue(s) = {}
  /\ count' = [count EXCEPT ![s] = @ + 1]
  /\ UNCHANGED <<waitsFor, granted>>

HandOver(s) ==
  /\ \E c \in Queue(s) :
       /\ \A d \in Queue(s) : c <= d
       /\ granted' = granted \cup {c}
  /\ UNCHANGED <<count, waitsFor>>

Leave(c) ==
  /\ waitsFor[c] # Nil
  /\ waitsFor' = [waitsFor EXCEPT ![c] = Nil]
  /\ UNCHANGED count

Succeed(c) == c \in granted /\ Leave(c) /\ granted' = granted \ {c}

GiveUp(c) == c \notin granted /\ Leave(c) /\ UNCHANGED granted

Next ==
  \/ \E s \in Sems, n \in Counts : Create(s, n)
  \/ \E s \in Sems : Take(s) \/ Keep(s) \/ HandOver(s)
  \/ \E c \in Clients, s \in Sems : Wait(c, s)
  \/ \E c \in Clients : Succeed(c) \/ GiveUp(c)

Spec == Init /\ [][Next]_svars

=============================================================================
