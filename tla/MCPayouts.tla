------------------------------ MODULE MCPayouts ------------------------------
(* Instances of Payouts small enough for TLC. *)
EXTENDS Payouts, TLC

CONSTANTS
  parent, stranger, admin, v1, v2, tuition, books, paid, school1,
  MaxDecisions   \* bound on the decisions audited for one payout

MCUsers == {parent, stranger, admin}
MCRoleOf == parent :> "Parent" @@ stranger :> "Parent" @@ admin :> "PlatformAdmin"

Body(v, milestone, user, amount, currency) ==
  [vault |-> v, milestone |-> milestone, school |-> school1, requester |-> user,
   amount |-> amount, currency |-> currency]

\* tuition and books can be paid for; paid is a milestone already paid out.
MCMilestones == {tuition, books, paid}
MCPayable == {tuition, books}
MCSchools == {school1}

\* One vault that can pay either of the two good bodies, not both.
OneVault == {v1}
OneOwner == v1 :> parent
OneCurrency == v1 :> "NGN"
OneFunded == v1 :> 3
OneMilestoneVault == tuition :> v1 @@ books :> v1 @@ paid :> v1
GoodBodies == {Body(v1, tuition, parent, 2, "NGN"), Body(v1, books, parent, 2, "NGN")}

\* Two vaults; each check of a body refuses one of these.
TwoVaults == {v1, v2}
TwoOwner == v1 :> parent @@ v2 :> stranger
TwoCurrency == v1 :> "NGN" @@ v2 :> "USD"
TwoFunded == v1 :> 3 @@ v2 :> 1
TwoMilestoneVault == tuition :> v1 @@ books :> v2 @@ paid :> v1
MixedBodies ==
  {Body(v1, tuition, parent, 2, "NGN"), Body(v1, tuition, parent, 1, "NGN"),
   Body(v2, books, stranger, 1, "USD"),
   Body(v1, tuition, stranger, 1, "NGN"), Body(v1, books, parent, 1, "NGN"),
   Body(v1, paid, parent, 1, "NGN"), Body(v2, books, stranger, 1, "NGN"),
   Body(v2, books, stranger, 2, "USD"), Body(v1, tuition, parent, 0, "NGN"),
   Body(v1, tuition, admin, 1, "NGN")}

\* Stale decisions can drive a payout round in circles, so the behaviours of
\* a run stop after MaxDecisions audit rows per payout.
FewDecisions == \A id \in Ids : Len(audit[id]) <= MaxDecisions

BoundedSpec == Init /\ [][Next /\ FewDecisions']_vars

Symmetric == Permutations(Requests) \cup Permutations(Ids) \cup Permutations(Keys)
=============================================================================
