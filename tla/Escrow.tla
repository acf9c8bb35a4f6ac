------------------------------- MODULE Escrow --------------------------------
(***************************************************************************)
(* What an escrow promises its users, whatever its time locks are: a       *)
(* deposit is taken once, is held, and leaves once, either released to its *)
(* beneficiary or returned to its depositor, never both.                   *)
(***************************************************************************)
VARIABLES held, released, returned

escrowVars == <<held, released, returned>>

Init == held = {} /\ released = {} /\ returned = {}

Deposit(d) ==
    /\ d \notin held \cup released \cup returned
    /\ held' = held \cup {d}
    /\ UNCHANGED <<released, returned>>

Release(d) ==
    /\ d \in held
    /\ held' = held \ {d}
    /\ released' = released \cup {d}
    /\ UNCHANGED returned

Return(d) ==
    /\ d \in held
    /\ held' = held \ {d}
    /\ returned' = returned \cup {d}
    /\ UNCHANGED released

Next ==
    \/ \E d \in held' : Deposit(d)
    \/ \E d \in held : Release(d) \/ Return(d)

Spec == Init /\ [][Next]_escrowVars
=============================================================================
