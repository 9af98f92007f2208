--------------------------- MODULE MCContributions ---------------------------
(* Instances of Contributions small enough for TLC.                        *)
EXTENDS Contributions, TLC

CONSTANTS parent, friend, stranger, admin, v1, v2

MCUsers == {parent, friend, stranger, admin}
MCRoleOf == parent :> "Parent" @@ friend :> "Contributor"
            @@ stranger :> "Contributor" @@ admin :> "PlatformAdmin"

Body(v, user, amount, currency) ==
  [vault |-> v, contributor |-> user, amount |-> amount, currency |-> currency,
   source |-> "Fiat"]

\* One vault owned by parent to which friend was added.
OneVault == {v1}
OneOwner == v1 :> parent
OneCurrency == v1 :> "NGN"
OneContributors == v1 :> {friend}

\* Two good bodies of different amounts, and one for each check that refuses.
Bodies ==
  {Body(v1, parent, 1, "NGN"), Body(v1, friend, 2, "NGN"),
   Body(v1, stranger, 1, "NGN"), Body(v1, parent, 0, "NGN"),
   Body(v1, parent, 1, "USD"), Body(v1, admin, 1, "NGN")}

\* Two vaults, the second owned by parent alone.
TwoVaults == {v1, v2}
TwoOwner == v1 :> parent @@ v2 :> parent
TwoCurrency == v1 :> "NGN" @@ v2 :> "USD"
TwoContributors == v1 :> {friend} @@ v2 :> {}
TwoVaultBodies ==
  {Body(v1, parent, 1, "NGN"), Body(v1, friend, 2, "NGN"), Body(v2, parent, 1, "USD"),
   Body(v2, friend, 1, "USD")}

Symmetric == Permutations(Requests) \cup Permutations(Ids) \cup Permutations(Keys)
=============================================================================
