------------------------------- MODULE Escrow -------------------------------
(* What a funded campaign or challenge promises about its money, whatever    *)
(* the handlers do: credits set aside at creation only ever leave the pot,   *)
(* to the people who did the work or back to the creator, and never more     *)
(* than was put in.                                                          *)
EXTENDS Integers

CONSTANT Deposit   \* what the creator's funding debit put in the pot

VARIABLES
  held,     \* still in the pot
  paid,     \* released for work done
  returned  \* given back to the creator

evars == <<held, paid, returned>>

Init == held = Deposit /\ paid = 0 /\ returned = 0

Pay(n) ==
  /\ held' = held - n /\ paid' = paid + n
  /\ UNCHANGED returned

Return(n) ==
  /\ held' = held - n /\ returned' = returned + n
  /\ UNCHANGED paid

Next == \E n \in 1..held : Pay(n) \/ Return(n)

Spec == Init /\ [][Next]_evars

\* Nothing is created or lost, and the pot is never overdrawn.
Conserved == held >= 0 /\ held + paid + returned = Deposit
=============================================================================
