--------------------------- MODULE ContributionBook ---------------------------
(***************************************************************************)
(* What contributions promise to the rest of the system, with no tasks, no *)
(* reads that age and no locks: one contribution per idempotency key, each *)
(* settled in one step along the legal transitions, and a vault total that *)
(* moves in the same step.                                                 *)
(***************************************************************************)
EXTENDS Integers

CONSTANTS Keys, Vaults, Intents, MaxMinor, NoRow

VARIABLES
  book,   \* the contribution recorded under each key, or NoRow
  total   \* what each vault has received

bookVars == <<book, total>>

BookInit ==
  /\ book = [k \in Keys |-> NoRow]
  /\ total = [v \in Vaults |-> 0]

Record(k, in) ==
  /\ book[k] = NoRow
  /\ book' = [book EXCEPT ![k] = [intent |-> in, status |-> "Pending"]]
  /\ UNCHANGED total

InStatus(k, status) == book[k] # NoRow /\ book[k].status = status

SetStatus(k, status) == book' = [book EXCEPT ![k].status = status]

Credit(k, amount) ==
  LET v == book[k].intent.vault IN
  /\ total[v] + amount \in 0 .. MaxMinor
  /\ total' = [total EXCEPT ![v] = @ + amount]

Confirm(k) ==
  /\ InStatus(k, "Pending")
  /\ Credit(k, book[k].intent.amount)
  /\ SetStatus(k, "Confirmed")

Fail(k) ==
  /\ InStatus(k, "Pending")
  /\ SetStatus(k, "Failed")
  /\ UNCHANGED total

Reverse(k) ==
  /\ InStatus(k, "Confirmed")
  /\ Credit(k, -book[k].intent.amount)
  /\ SetStatus(k, "Reversed")

BookNext ==
  \E k \in Keys :
    \/ \E in \in Intents : Record(k, in)
    \/ Confirm(k)
    \/ Fail(k)
    \/ Reverse(k)

BookSpec == BookInit /\ [][BookNext]_bookVars
=============================================================================
