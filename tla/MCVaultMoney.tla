----------------------------- MODULE MCVaultMoney ----------------------------
(* One vault that a parent funds and pays a school from. *)
EXTENDS VaultMoney, TLC

CONSTANTS parent, admin, v1, tuition, school1

MCUsers == {parent, admin}
MCRoleOf == parent :> "Parent" @@ admin :> "PlatformAdmin"
MCOwner == v1 :> parent
MCCurrency == v1 :> "NGN"
MCContributors == v1 :> {}
MCMilestoneVault == tuition :> v1

MCIntents ==
  {[vault |-> v1, contributor |-> parent, amount |-> 2, currency |-> "NGN",
    source |-> "Fiat"]}

MCBodies ==
  {[vault |-> v1, milestone |-> tuition, school |-> school1, requester |-> parent,
    amount |-> 2, currency |-> "NGN"]}

Symmetric ==
  Permutations(ContributionIds) \cup Permutations(ContributionKeys)
  \cup Permutations(ContributionTasks) \cup Permutations(PayoutIds)
  \cup Permutations(PayoutKeys) \cup Permutations(PayoutTasks)
=============================================================================
