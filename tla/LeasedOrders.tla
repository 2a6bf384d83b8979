---------------------------- MODULE LeasedOrders ----------------------------
(***************************************************************************)
(* What the motor link promises, without packets, sockets or replies: the  *)
(* base obeys numbered orders that clients issued, each for the length of  *)
(* one lease, never an order older than the last one obeyed for the same   *)
(* client, and without a fresh order it stands still.                      *)
(*                                                                         *)
(* docs/BASE_CALIBRATION.md: "The Pi releases all controls after 350 ms    *)
(* without commands".                                                      *)
(***************************************************************************)
EXTENDS Integers

CONSTANTS Clients, Numbers, Drives, Stop, LEASE

\* LEASE is a positive number of ticks, Numbers are natural and Stop is none of
\* the Drives: the modules that give them values assume it of their own.

VARIABLES book,     \* the orders that may be obeyed: <<client, number, command>>
          next,     \* client -> the number its next order has at least
          floor,    \* client -> the number it may not go below
          moving,   \* the command in force
          left      \* what is left of the lease

vars == <<book, next, floor, moving, left>>

Init ==
    /\ book = {}
    /\ next = [c \in Clients |-> 0]
    /\ floor = [c \in Clients |-> 0]
    /\ moving = Stop
    /\ left = 0

\* Orders of a client that are numbered from first to before end, no two alike.
Orders(c, first, end) ==
    {new \in SUBSET ({c} \X (first..(end - 1)) \X (Drives \union {Stop})) :
       \A o, p \in new : o[2] = p[2] => o = p}

\* A client issues orders, or skips numbers: no number is given twice.
Issue(c, n) ==
    /\ n >= next[c]
    /\ next' = [next EXCEPT ![c] = n]
    /\ \E new \in Orders(c, next[c], n) : book' = book \union new
    /\ UNCHANGED <<floor, moving, left>>

\* The base obeys an order, which may be obeyed again if it is kept, and the
\* lease starts anew.
Obey(o) ==
    /\ o[2] >= floor[o[1]]
    /\ floor' = [floor EXCEPT ![o[1]] = o[2]]
    /\ moving' = o[3]
    /\ left' = IF o[3] = Stop THEN 0 ELSE LEASE
    /\ book' \in {book, book \ {o}}
    /\ UNCHANGED next

\* An order does not arrive, or is refused.
Drop(o) ==
    /\ book' = book \ {o}
    /\ UNCHANGED <<next, floor, moving, left>>

\* The lease has run out.
Expire ==
    /\ moving # Stop /\ left = 0
    /\ moving' = Stop
    /\ UNCHANGED <<book, next, floor, left>>

\* The base loses power or its service: it stands still and remembers nothing.
Forget ==
    /\ moving' = Stop /\ left' = 0
    /\ floor' = [c \in Clients |-> 0]
    /\ UNCHANGED <<book, next>>

\* Time passes, but not past the end of a lease that is still in use.
Tick ==
    /\ moving # Stop => left > 0
    /\ left' = IF left = 0 THEN 0 ELSE left - 1
    /\ UNCHANGED <<book, next, floor, moving>>

Next ==
    \/ \E c \in Clients, n \in Numbers : Issue(c, n)
    \/ \E o \in book : Obey(o) \/ Drop(o)
    \/ Expire
    \/ Forget
    \/ Tick

Spec == Init /\ [][Next]_vars
=============================================================================
