------------------------------ MODULE VaultRows ------------------------------
(***************************************************************************)
(* The balance columns of a savings_vaults row, and the only two SQL       *)
(* helpers by which a transaction that holds the row lock rewrites them.   *)
(* Contributions and payouts share these rows; each module extends this    *)
(* one.                                                                    *)
(*                                                                         *)
(* Amounts are BIGINT minor units.  A sum is computed as an i64 by the     *)
(* service: two non-negative addends that pass MaxMinor either panic       *)
(* (checked build) or wrap to a negative number, which the CHECK (.. >= 0) *)
(* of the column refuses.  Either way the transaction is rolled back, so a *)
(* write happens only when the sum Fits.                                   *)
(***************************************************************************)
EXTENDS Integers

CONSTANT
  \* the largest value of a BIGINT column (i64::MAX in the code)
  MaxMinor

ASSUME MaxMinorAssumption == MaxMinor \in Nat \ {0}

Minor == 0 .. MaxMinor

VaultRow == [contributed : Minor, locked : Minor, disbursed : Minor, version : Nat]

\* The column defaults of a vault that has just been inserted.
NewVault == [contributed |-> 0, locked |-> 0, disbursed |-> 0, version |-> 0]

Fits(sum) == sum <= MaxMinor

\* What ensure_available_funds compares a payout amount with.
Available(row) == row.contributed - row.locked - row.disbursed

\* A mistake the runs must notice: the whole row is
\* written, with a locked column of the caller's making.
WithContributedResetting(row, contributed) ==
  [contributed |-> contributed, locked |-> 0, disbursed |-> row.disbursed,
   version |-> row.version + 1]

\* update_vault_totals: the row is found by its id alone, so the version is
\* bumped but never compared.
WithContributed(row, contributed) ==
  [contributed |-> contributed, locked |-> row.locked, disbursed |-> row.disbursed,
   version |-> row.version + 1]

\* Mistakes the runs must notice: a payout is also taken from the contributed
\* column; the version is not bumped.
WithPaidDeducted(row, locked, disbursed) ==
  [contributed |-> row.contributed - (disbursed - row.disbursed), locked |-> locked,
   disbursed |-> disbursed, version |-> row.version + 1]

WithoutVersion(row, locked, disbursed) ==
  [contributed |-> row.contributed, locked |-> locked, disbursed |-> disbursed,
   version |-> row.version]

\* update_vault_locked_and_disbursed: likewise.
WithLockedAndDisbursed(row, locked, disbursed) ==
  [contributed |-> row.contributed, locked |-> locked, disbursed |-> disbursed,
   version |-> row.version + 1]
=============================================================================
