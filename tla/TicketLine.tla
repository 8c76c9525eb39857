----------------------------- MODULE TicketLine -----------------------------
(***************************************************************************)
(* What the waiting room promises, without statements and races: a ticket  *)
(* dispenser.  Numbers are drawn in order and by one request each, a user  *)
(* enters the line once with a number that was drawn, the front only moves *)
(* forward, and a user is served when the front has reached the number.    *)
(* WaitingRoom is shown to implement this specification while Redis keeps  *)
(* its keys.                                                               *)
(***************************************************************************)
EXTENDS Naturals

CONSTANTS Users, Requests

VARIABLES
    last,   \* the last number drawn
    hand,   \* the number each request has drawn and not used, or 0
    line,   \* the number of each user in the line, or 0
    front,  \* the numbers up to this one may be served
    served  \* the users who have been served

vars == <<last, hand, line, front, served>>

Draw(r) ==
    /\ hand[r] = 0
    /\ last' = last + 1
    /\ hand' = [hand EXCEPT ![r] = last']
    /\ UNCHANGED <<line, front, served>>

Drop(r) ==
    /\ hand' = [hand EXCEPT ![r] = 0]
    /\ UNCHANGED <<last, line, front, served>>

Enter(r, u) ==
    /\ hand[r] # 0
    /\ line[u] = 0
    /\ line' = [line EXCEPT ![u] = hand[r]]
    /\ hand' = [hand EXCEPT ![r] = 0]
    /\ UNCHANGED <<last, front, served>>

Advance ==
    /\ front' \in Nat
    /\ front' > front
    /\ UNCHANGED <<last, hand, line, served>>

Serve(u) ==
    /\ line[u] # 0
    /\ line[u] <= front
    /\ served' = served \cup {u}
    /\ UNCHANGED <<last, hand, line, front>>

Init ==
    /\ last = 0
    /\ hand = [r \in Requests |-> 0]
    /\ line = [u \in Users |-> 0]
    /\ front = 0
    /\ served = {}

Next ==
    \/ \E r \in Requests :
          Draw(r) \/ Drop(r) \/ \E u \in Users : Enter(r, u)
    \/ \E u \in Users : Serve(u)
    \/ Advance

Spec == Init /\ [][Next]_vars

=============================================================================
