------------------------------ MODULE MCRecords ------------------------------
EXTENDS Records, TLC
CONSTANTS admin, head, mother, student, kid1, kid2, vault

MCRole == admin :> "PlatformAdmin" @@ head :> "SchoolAdmin"
          @@ mother :> "Parent" @@ student :> "Student"

MCOwner == kid1 :> mother @@ kid2 :> mother @@ vault :> mother

Symmetry == Permutations(Requests) \cup Permutations(Credentials) \cup Permutations(Items)
              \cup Permutations(Children)
=============================================================================
