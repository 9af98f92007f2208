------------------------ MODULE MCOnchainContributions -----------------------
(* One contribution, whose vault has its contract in the old column only.    *)
EXTENDS OnchainContributions, TLC

CONSTANTS c1, k1, k2, contract

MCContractRef == c1 :> None
MCLegacyRef == c1 :> contract
MCIdentifier == k1 :> "id1" @@ k2 :> "id2"

Symmetric == Permutations(Requests)
=============================================================================
