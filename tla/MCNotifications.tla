--------------------------- MODULE MCNotifications ---------------------------
(* A parent who is told of a contribution and of a payout. *)
EXTENDS Notifications, TLC

CONSTANTS gift, fee, parent

MCKind == gift :> "contribution" @@ fee :> "payout"
MCRecipient == gift :> parent @@ fee :> parent

Symmetric == Permutations(Tasks) \cup Permutations(Rows) \cup Permutations(PrefIds)
=============================================================================
