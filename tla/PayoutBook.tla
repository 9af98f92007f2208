------------------------------ MODULE PayoutBook ------------------------------
(***************************************************************************)
(* What payouts promise to the rest of the system, with no tasks, no reads *)
(* that age and no locks: one payout per idempotency key, decided in one   *)
(* step at a time along the legal transitions, and in the same step the    *)
(* money it asks for is held, paid, or let go again, always all of it.     *)
(***************************************************************************)
EXTENDS Integers

CONSTANTS Keys, Vaults, Bodies, MaxMinor, NoRow

VARIABLES
  book,   \* the payout recorded under each key, or NoRow
  held,   \* what each vault has reserved
  paid    \* what each vault has paid

bookVars == <<book, held, paid>>

BookInit ==
  /\ book = [k \in Keys |-> NoRow]
  /\ held = [v \in Vaults |-> 0]
  /\ paid = [v \in Vaults |-> 0]

Request(k, b) ==
  /\ book[k] = NoRow
  /\ b.amount > 0
  /\ book' = [book EXCEPT ![k] = [body |-> b, status |-> "Pending"]]
  /\ UNCHANGED <<held, paid>>

Move(k, from, to) ==
  /\ book[k] # NoRow
  /\ book[k].status = from
  /\ book' = [book EXCEPT ![k].status = to]

\* The vault of a payout holds and pays this much more, and neither falls below zero.
Transfer(k, toHeld, toPaid) ==
  LET v == book[k].body.vault IN
  /\ held[v] + toHeld \in 0 .. MaxMinor
  /\ paid[v] + toPaid \in 0 .. MaxMinor
  /\ held' = [held EXCEPT ![v] = @ + toHeld]
  /\ paid' = [paid EXCEPT ![v] = @ + toPaid]

Review(k) ==
  /\ \/ Move(k, "Pending", "UnderReview")
     \/ Move(k, "Pending", "Rejected")
     \/ Move(k, "UnderReview", "Rejected")
     \/ Move(k, "Approved", "Processing")
  /\ UNCHANGED <<held, paid>>

Approve(k) ==
  /\ Move(k, "UnderReview", "Approved")
  /\ Transfer(k, book[k].body.amount, 0)

Complete(k) ==
  /\ Move(k, "Processing", "Completed")
  /\ Transfer(k, -book[k].body.amount, book[k].body.amount)

Fail(k) ==
  /\ Move(k, "Processing", "Failed")
  /\ Transfer(k, -book[k].body.amount, 0)

BookNext ==
  \E k \in Keys :
    \/ \E b \in Bodies : Request(k, b)
    \/ Review(k)
    \/ Approve(k)
    \/ Complete(k)
    \/ Fail(k)

BookSpec == BookInit /\ [][BookNext]_bookVars
=============================================================================
