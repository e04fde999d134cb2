------------------------------ MODULE CarLending ------------------------------
(***************************************************************************)
(* What the drive tables promise: a car is lent to one invited user at a   *)
(* time, a user holds one car at a time, a car changes hands only by going *)
(* back first, and every car comes back.                                   *)
(***************************************************************************)
CONSTANTS Users, Cars, None

VARIABLES
    holder,     \* who holds each car, or None
    invited     \* the users that may take a car

lendingVars == <<holder, invited>>

Init ==
    /\ holder = [c \in Cars |-> None]
    /\ invited = {}

Invite ==
    /\ invited' \in SUBSET Users
    /\ UNCHANGED holder

Lend(u, c) ==
    /\ u \in invited
    /\ holder[c] = None
    /\ \A d \in Cars : holder[d] # u
    /\ holder' = [holder EXCEPT ![c] = u]
    /\ invited' = invited \ {u}

TakeBack(back) ==
    /\ back # {}
    /\ \A c \in back : holder[c] # None
    /\ holder' = [c \in Cars |-> IF c \in back THEN None ELSE holder[c]]
    /\ UNCHANGED invited

Next ==
    \/ Invite
    \/ \E u \in Users, c \in Cars : Lend(u, c)
    \/ \E back \in SUBSET Cars : TakeBack(back)

Spec == Init /\ [][Next]_lendingVars

FairSpec == Spec /\ \A c \in Cars :
    WF_lendingVars(\E back \in SUBSET Cars : c \in back /\ TakeBack(back))
=============================================================================
