----------------------------- MODULE IdealEscrow ------------------------------
(***************************************************************************)
(* What the escrow program promises, with no accounts, statuses or token   *)
(* program in it: a trusted third party who holds the principal of each    *)
(* deal apart from everything else.                                        *)
(*                                                                         *)
(* A deal is open, its principal is held, and then the third party parts   *)
(* with exactly that principal once: to the payee before the deadline or   *)
(* back to the depositor from the deadline on.  Whatever else is sent to   *)
(* it (gifts) is kept for ever and never mixed with a principal.           *)
(***************************************************************************)
EXTENDS Integers

CONSTANTS
    Deals,       \* names of deals
    Parties,     \* those who hold a purse
    Nobody       \* value of a deal that was not opened

VARIABLES
    time,     \* the deadline clock
    deal,     \* deal[d]: Nobody, or the terms of the deal and its phase
    purse,    \* purse[p]: what party p has
    held,     \* held[d]: the principal held for deal d
    gifts     \* gifts[d]: what was given to deal d beyond its principal

ideal == <<time, deal, purse, held, gifts>>

Closed(d, phase) == deal' = [deal EXCEPT ![d].phase = phase]

Open(d, depositor, payee, amount, deadline) ==
    /\ deal[d] = Nobody
    /\ amount > 0 /\ deadline > time
    /\ deal' = [deal EXCEPT ![d] =
           [depositor |-> depositor, payee |-> payee, amount |-> amount,
            deadline |-> deadline, phase |-> "open"]]
    /\ UNCHANGED <<time, purse, held, gifts>>

Withdraw(d) ==
    /\ deal[d] # Nobody /\ deal[d].phase = "open"
    /\ Closed(d, "withdrawn")
    /\ UNCHANGED <<time, purse, held, gifts>>

Deposit(d) ==
    /\ deal[d] # Nobody /\ deal[d].phase = "open" /\ time < deal[d].deadline
    /\ purse[deal[d].depositor] >= deal[d].amount
    /\ purse' = [purse EXCEPT ![deal[d].depositor] = @ - deal[d].amount]
    /\ held' = [held EXCEPT ![d] = deal[d].amount]
    /\ Closed(d, "held")
    /\ UNCHANGED <<time, gifts>>

(* A payee that is itself a deal receives the payment as a gift.            *)
Pay(d) ==
    /\ deal[d] # Nobody /\ deal[d].phase = "held" /\ time < deal[d].deadline
    /\ held' = [held EXCEPT ![d] = 0]
    /\ \/ /\ deal[d].payee \in Parties
          /\ purse' = [purse EXCEPT ![deal[d].payee] = @ + deal[d].amount]
          /\ UNCHANGED gifts
       \/ /\ deal[d].payee \in Deals
          /\ gifts' = [gifts EXCEPT ![deal[d].payee] = @ + deal[d].amount]
          /\ UNCHANGED purse
    /\ Closed(d, "paid")
    /\ UNCHANGED time

Return(d) ==
    /\ deal[d] # Nobody /\ deal[d].phase = "held" /\ time >= deal[d].deadline
    /\ held' = [held EXCEPT ![d] = 0]
    /\ purse' = [purse EXCEPT ![deal[d].depositor] = @ + deal[d].amount]
    /\ Closed(d, "returned")
    /\ UNCHANGED <<time, gifts>>

(* Parties move their own money among themselves or give it away.           *)
Give(p, q, amount) ==
    /\ p # q /\ amount >= 0 /\ purse[p] >= amount
    /\ \/ /\ q \in Parties
          /\ purse' = [purse EXCEPT ![p] = @ - amount, ![q] = @ + amount]
          /\ UNCHANGED gifts
       \/ /\ q \in Deals
          /\ purse' = [purse EXCEPT ![p] = @ - amount]
          /\ gifts' = [gifts EXCEPT ![q] = @ + amount]
    /\ UNCHANGED <<time, deal, held>>

Pass == time' > time /\ UNCHANGED <<deal, purse, held, gifts>>

IdealInit ==
    /\ time = 0
    /\ deal = [d \in Deals |-> Nobody]
    /\ purse \in [Parties -> Nat]
    /\ held = [d \in Deals |-> 0]
    /\ gifts = [d \in Deals |-> 0]

IdealNext ==
    \/ \E d \in Deals :
          \/ Withdraw(d) \/ Deposit(d) \/ Pay(d) \/ Return(d)
          \/ /\ deal'[d] # Nobody
             /\ Open(d, deal'[d].depositor, deal'[d].payee, deal'[d].amount,
                     deal'[d].deadline)
    \/ \E p \in Parties, q \in Parties \cup Deals :
          Give(p, q, purse[p] - purse'[p])
    \/ Pass

IdealSpec == IdealInit /\ [][IdealNext]_ideal
===============================================================================
