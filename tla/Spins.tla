------------------------------- MODULE Spins -------------------------------
(* What the wheel promises its player: a click settles at most once, at the  *)
(* price it confirmed, and a day has one free and MaxPaid paid spins.        *)
EXTENDS Integers

CONSTANTS
  Clicks,   \* clicks on the spin button
  Days,     \* days of the allowance
  Prizes,   \* what the wheel gives
  NoPrize,  \* the prize of a click that has not settled
  Cost,     \* price of a paid spin
  MaxPaid   \* paid spins a day

VARIABLES
  price,  \* what each click confirmed: 0 or Cost, once it was made
  prize,  \* what each click won
  used    \* spins charged to each day

svars == <<price, prize, used>>

Unset == -1

Init ==
  /\ price = [c \in Clicks |-> Unset]
  /\ prize = [c \in Clicks |-> NoPrize]
  /\ used \in [Days -> [free: 0..1, paid: {0}]]

Confirm(c, cost) ==
  /\ price[c] = Unset
  /\ price' = [price EXCEPT ![c] = cost]
  /\ UNCHANGED <<prize, used>>

Charge(c, d) ==
  \/ price[c] = 0 /\ used[d].free = 0
     /\ used' = [used EXCEPT ![d].free = 1]
  \/ price[c] = Cost /\ used[d].paid < MaxPaid
     /\ used' = [used EXCEPT ![d].paid = @ + 1]

Settle(c, d, p) ==
  /\ prize[c] = NoPrize
  /\ Charge(c, d)
  /\ prize' = [prize EXCEPT ![c] = p]
  /\ UNCHANGED price

Next == \E c \in Clicks :
  \/ \E cost \in {0, Cost} : Confirm(c, cost)
  \/ \E d \in Days, p \in Prizes : Settle(c, d, p)
=============================================================================
