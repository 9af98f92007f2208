------------------------- MODULE MCScholarshipPools --------------------------
(* Instances of ScholarshipPools small enough for TLC. *)
EXTENDS ScholarshipPools, TLC

CONSTANTS donor, parent, student, admin, child, pool1, pool2

MCUsers == {donor, parent, student, admin}
MCRoleOf == donor :> "Donor" @@ parent :> "Parent" @@ student :> "Student"
            @@ admin :> "PlatformAdmin"
MCChildOwner == child :> parent

Form(p, user, category) ==
  [pool |-> p, applicant |-> user, child |-> child, category |-> category]

\* Pools are for science students; a parent may not found one, and a donor may
\* not apply.
MCPoolBodies == {[owner |-> donor, restriction |-> "science"],
                 [owner |-> parent, restriction |-> "any"]}

MCForms == {Form(pool1, parent, "science"), Form(pool1, parent, "arts"),
            Form(pool2, student, "science"), Form(pool2, donor, "science")}

\* A negative amount is always refused.  Two donations of 1 fill a pool (MaxMinor is
\* 2), and with an award revoked twice the next donation overflows it.
MCAmounts == {-1, 1}

Symmetric ==
  Permutations(Keys) \cup Permutations(Applications) \cup Permutations(Requests)
=============================================================================
