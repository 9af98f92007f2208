------------------------------ MODULE FiniteSums ------------------------------
(***************************************************************************)
(* What SumFunctionOnSet computes on a finite set, for every finite set:   *)
(* the sums of amounts that the properties of this project speak of.       *)
(*                                                                         *)
(* The community module defines the sum by a recursive function over the   *)
(* subsets of the set, from which an arbitrary element is taken at each    *)
(* step.  That this function exists, and that the order of the elements is *)
(* immaterial, is shown by taking a smallest set for which it were not so. *)
(***************************************************************************)
EXTENDS Integers, Functions, FiniteSetTheorems, WellFoundedInduction, TLAPS

Pick(S) == CHOOSE x \in S : TRUE

\* The sum of the empty set, or the sum of what remains when Pick(s) is taken out.
Unfold(f, g, s) == IF s = {} THEN 0 ELSE f[Pick(s)] + g[s \ {Pick(s)}]

Adds(g, f, S) == g = [s \in SUBSET S |-> Unfold(f, g, s)]

LEMMA SumUnfolds ==
  ASSUME NEW f, NEW S
  PROVE  SumFunctionOnSet(f, S) = (CHOOSE g : Adds(g, f, S))[S]
BY Zenon DEF SumFunctionOnSet, FoldFunctionOnSet, MapThenFoldSet, Adds, Unfold, Pick

LEMMA PickOne == \A S : S # {} => Pick(S) \in S
BY DEF Pick

Smallest(s, T) == \A t \in T : ~(t \subseteq s /\ t # s)

\* Induction: a set of finite sets that is not empty has a smallest member.
LEMMA SmallestMember ==
  ASSUME NEW S, NEW T, T \subseteq FiniteSubsetsOf(S), T # {}
  PROVE  \E s \in T : Smallest(s, T)
<1>1. PICK s \in T : \A t \in T : <<t, s>> \notin StrictSubsetOrdering(S)
  BY FS_StrictSubsetOrderingWellFounded, WFMin
<1>2. \A t \in T : t \subseteq s /\ t # s => <<t, s>> \in StrictSubsetOrdering(S)
  BY DEF StrictSubsetOrdering, FiniteSubsetsOf
<1>3. Smallest(s, T)
  BY <1>1, <1>2, Zenon DEF Smallest
<1> QED
  BY <1>3, Zenon

\* Two functions that add up agree on the sets they both know.
LEMMA AddsAgree ==
  ASSUME NEW f, NEW S, NEW T, NEW g, NEW h, Adds(g, f, S), Adds(h, f, T),
         NEW s, IsFiniteSet(s), s \subseteq S, s \subseteq T
  PROVE  g[s] = h[s]
<1> DEFINE Bad == {t \in FiniteSubsetsOf(s) : g[t] # h[t]}
<1> SUFFICES ASSUME Bad # {} PROVE FALSE
  BY DEF FiniteSubsetsOf
<1>1. PICK t \in Bad : Smallest(t, Bad)
  <2>1. Bad \subseteq FiniteSubsetsOf(s)
    OBVIOUS
  <2> HIDE DEF Bad
  <2> QED
    BY <2>1, SmallestMember, Zenon
<1>2. t \subseteq s /\ t \in SUBSET S /\ t \in SUBSET T /\ IsFiniteSet(t) /\ g[t] # h[t]
  BY DEF FiniteSubsetsOf
<1>3. g[t] = Unfold(f, g, t) /\ h[t] = Unfold(f, h, t)
  BY <1>2, Zenon DEF Adds
<1>4. t # {}
  BY <1>2, <1>3 DEF Unfold
<1> DEFINE u == t \ {Pick(t)}
<1>5. u \subseteq t /\ u # t /\ IsFiniteSet(u)
  BY <1>2, <1>4, PickOne, FS_RemoveElement
<1>6. g[u] = h[u]
  BY <1>1, <1>2, <1>5 DEF FiniteSubsetsOf, Smallest
<1> QED
  BY <1>2, <1>3, <1>4, <1>6 DEF Unfold

\* For every finite set there is one.
LEMMA AddsExists ==
  ASSUME NEW f, NEW S, IsFiniteSet(S)
  PROVE  \E g : Adds(g, f, S)
<1> DEFINE Bad == {t \in FiniteSubsetsOf(S) : ~\E g : Adds(g, f, t)}
<1> SUFFICES ASSUME Bad # {} PROVE FALSE
  BY DEF FiniteSubsetsOf
<1>1. PICK s \in Bad : Smallest(s, Bad)
  <2>1. Bad \subseteq FiniteSubsetsOf(S)
    OBVIOUS
  <2> HIDE DEF Bad
  <2> QED
    BY <2>1, SmallestMember, Zenon
<1>2. s \subseteq S /\ IsFiniteSet(s) /\ ~\E g : Adds(g, f, s)
  BY DEF FiniteSubsetsOf
<1> DEFINE G(t) == CHOOSE g : Adds(g, f, t)
           Rest(t) == t \ {Pick(t)}
           new == [t \in SUBSET s |-> IF t = {} THEN 0 ELSE f[Pick(t)] + G(Rest(t))[Rest(t)]]
<1>3. ASSUME NEW t \in SUBSET s
      PROVE  IsFiniteSet(t) /\ (t # s => Adds(G(t), f, t))
  <2>1. IsFiniteSet(t)
    BY <1>2, FS_Subset
  <2>2. t # s => \E g : Adds(g, f, t)
    BY <1>1, <1>2, <2>1 DEF FiniteSubsetsOf, Smallest
  <2> QED
    BY <2>1, <2>2
<1>4. \A t \in SUBSET s : t # {} => Rest(t) \in SUBSET s /\ Rest(t) # s /\ Rest(t) # t
  BY PickOne
<1>5. ASSUME NEW t \in SUBSET s, t # {}
      PROVE  new[Rest(t)] = G(Rest(t))[Rest(t)]
  <2> DEFINE u == Rest(t)
  <2>1. u \in SUBSET s /\ Adds(G(u), f, u) /\ IsFiniteSet(u)
    BY <1>3, <1>4, <1>5
  <2>2. G(u)[u] = Unfold(f, G(u), u)
    <3>1. u \in SUBSET u
      OBVIOUS
    <3> HIDE DEF G, u
    <3> QED
      BY <2>1, <3>1, Zenon DEF Adds
  <2>3. CASE u = {}
    BY <2>1, <2>2, <2>3 DEF Unfold
  <2>4. CASE u # {}
    <3> DEFINE w == Rest(u)
    <3>1. w \in SUBSET s /\ w # s /\ w \subseteq u
      BY <1>4, <2>1, <2>4
    <3>2. Adds(G(w), f, w) /\ IsFiniteSet(w)
      BY <1>3, <3>1
    <3>3. G(u)[w] = G(w)[w]
      <4> HIDE DEF G, u, w
      <4> QED
        BY <2>1, <3>1, <3>2, AddsAgree
    <3>4. new[u] = f[Pick(u)] + G(w)[w]
      <4> HIDE DEF G, u
      <4> QED
        BY <2>1, <2>4
    <3>5. G(u)[u] = f[Pick(u)] + G(u)[w]
      <4> HIDE DEF G, u
      <4> QED
        BY <2>2, <2>4 DEF Unfold
    <3> QED
      BY <3>3, <3>4, <3>5
  <2> QED
    BY <2>3, <2>4
<1>6. Adds(new, f, s)
  <2>1. ASSUME NEW t \in SUBSET s
        PROVE  new[t] = Unfold(f, new, t)
    <3>1. CASE t = {}
      BY <3>1 DEF Unfold
    <3>2. CASE t # {}
      <4>1. new[Rest(t)] = G(Rest(t))[Rest(t)]
        BY <1>5, <3>2
      <4>2. new[t] = f[Pick(t)] + G(Rest(t))[Rest(t)]
        <5> HIDE DEF G, Rest
        <5> QED
          BY <3>2
      <4> HIDE DEF new, G
      <4> QED
        BY <3>2, <4>1, <4>2 DEF Unfold
    <3> QED
      BY <3>1, <3>2
  <2>2. new = [t \in SUBSET s |-> new[t]]
    OBVIOUS
  <2> HIDE DEF new
  <2> QED
    BY <2>1, <2>2 DEF Adds
<1> QED
  BY <1>2, <1>6

\* Sums of finite sets unfold.
LEMMA SumPick ==
  ASSUME NEW f, NEW S, IsFiniteSet(S)
  PROVE  /\ S = {} => SumFunctionOnSet(f, S) = 0
         /\ S # {} => SumFunctionOnSet(f, S) = f[Pick(S)] + SumFunctionOnSet(f, S \ {Pick(S)})
<1> DEFINE G(s) == CHOOSE g : Adds(g, f, s)
           R == S \ {Pick(S)}
<1>1. IsFiniteSet(R)
  BY FS_Subset
<1>2. Adds(G(S), f, S) /\ Adds(G(R), f, R)
  BY <1>1, AddsExists
<1>3. SumFunctionOnSet(f, S) = G(S)[S] /\ SumFunctionOnSet(f, R) = G(R)[R]
  BY SumUnfolds, Zenon
<1>4. G(S)[S] = Unfold(f, G(S), S)
  <2>1. S \in SUBSET S
    OBVIOUS
  <2> HIDE DEF G
  <2> QED
    BY <1>2, <2>1, Zenon DEF Adds
<1>5. G(S)[R] = G(R)[R]
  <2> HIDE DEF G
  <2>1. R \subseteq S
    OBVIOUS
  <2> HIDE DEF R
  <2> QED
    BY <1>1, <1>2, <2>1, AddsAgree
<1> HIDE DEF G
<1> QED
  BY <1>3, <1>4, <1>5 DEF Unfold
-----------------------------------------------------------------------------
(* Types and order.                                                        *)

Integral(f, S) == \A x \in S : f[x] \in Int

LEMMA SumType ==
  ASSUME NEW f, NEW S, IsFiniteSet(S), Integral(f, S)
  PROVE  SumFunctionOnSet(f, S) \in Int
<1> DEFINE Bad == {t \in FiniteSubsetsOf(S) : SumFunctionOnSet(f, t) \notin Int}
<1> SUFFICES ASSUME Bad # {} PROVE FALSE
  BY DEF FiniteSubsetsOf
<1>1. PICK t \in Bad : Smallest(t, Bad)
  <2>1. Bad \subseteq FiniteSubsetsOf(S)
    OBVIOUS
  <2> HIDE DEF Bad
  <2> QED
    BY <2>1, SmallestMember, Zenon
<1>2. t \subseteq S /\ IsFiniteSet(t) /\ SumFunctionOnSet(f, t) \notin Int
  BY DEF FiniteSubsetsOf
<1>3. t # {}
  <2>1. t = {} => SumFunctionOnSet(f, t) = 0
    BY <1>2, SumPick
  <2> QED
    BY <1>2, <2>1
<1> DEFINE u == t \ {Pick(t)}
<1>4. Pick(t) \in t /\ u \subseteq t /\ u # t /\ IsFiniteSet(u)
  BY <1>2, <1>3, PickOne, FS_RemoveElement
<1>5. SumFunctionOnSet(f, u) \in Int
  BY <1>1, <1>2, <1>4 DEF FiniteSubsetsOf, Smallest
<1>6. SumFunctionOnSet(f, t) = f[Pick(t)] + SumFunctionOnSet(f, u)
  BY <1>2, <1>3, SumPick
<1>7. f[Pick(t)] \in Int
  BY <1>2, <1>4 DEF Integral
<1> HIDE DEF u
<1> QED
  BY <1>2, <1>5, <1>6, <1>7

\* Whichever element is taken out first, the sum is the same.
Takes(f, t) == \A x \in t : SumFunctionOnSet(f, t) = f[x] + SumFunctionOnSet(f, t \ {x})

LEMMA SumTakes ==
  ASSUME NEW f, NEW S, IsFiniteSet(S), Integral(f, S)
  PROVE  Takes(f, S)
<1> DEFINE Bad == {t \in FiniteSubsetsOf(S) : ~Takes(f, t)}
<1> SUFFICES ASSUME Bad # {} PROVE FALSE
  BY DEF FiniteSubsetsOf
<1>1. PICK t \in Bad : Smallest(t, Bad)
  <2>1. Bad \subseteq FiniteSubsetsOf(S)
    OBVIOUS
  <2> HIDE DEF Bad
  <2> QED
    BY <2>1, SmallestMember, Zenon
<1>2. t \subseteq S /\ IsFiniteSet(t) /\ ~Takes(f, t)
  BY DEF FiniteSubsetsOf
<1>3. PICK x \in t : SumFunctionOnSet(f, t) # f[x] + SumFunctionOnSet(f, t \ {x})
  BY <1>2 DEF Takes
<1> DEFINE p == Pick(t)
           A == t \ {p}
           B == t \ {x}
           C == (t \ {p}) \ {x}
<1>4. p \in t /\ SumFunctionOnSet(f, t) = f[p] + SumFunctionOnSet(f, A)
  BY <1>2, SumPick, PickOne
<1>5. p # x
  BY <1>3, <1>4
<1>6. ASSUME NEW u, u \subseteq t, u # t
      PROVE  IsFiniteSet(u) /\ Takes(f, u)
  <2>1. IsFiniteSet(u)
    BY <1>2, <1>6, FS_Subset
  <2> QED
    BY <1>1, <1>2, <1>6, <2>1 DEF FiniteSubsetsOf, Smallest
<1>7. SumFunctionOnSet(f, A) = f[x] + SumFunctionOnSet(f, C)
  <2>1. A \subseteq t /\ A # t /\ x \in A
    BY <1>4, <1>5
  <2> QED
    BY <1>6, <2>1 DEF Takes
<1>8. SumFunctionOnSet(f, B) = f[p] + SumFunctionOnSet(f, C)
  <2>1. B \subseteq t /\ B # t /\ p \in B /\ B \ {p} = C
    BY <1>4, <1>5
  <2> HIDE DEF p, B, C
  <2> QED
    BY <1>6, <2>1 DEF Takes
<1>9. f[x] \in Int /\ f[p] \in Int /\ SumFunctionOnSet(f, C) \in Int
  <2>1. IsFiniteSet(C)
    BY <1>2, FS_Subset
  <2> QED
    BY <1>2, <1>4, <2>1, SumType DEF Integral
<1> HIDE DEF p, A, B, C
<1> QED
  BY <1>3, <1>4, <1>7, <1>8, <1>9 DEF B

-----------------------------------------------------------------------------
(* What the other modules use.                                             *)

\* An element contributes its value once.
THEOREM SumTake ==
  ASSUME NEW f, NEW S, IsFiniteSet(S), Integral(f, S), NEW x \in S
  PROVE  /\ SumFunctionOnSet(f, S) \in Int /\ SumFunctionOnSet(f, S \ {x}) \in Int
         /\ SumFunctionOnSet(f, S) = f[x] + SumFunctionOnSet(f, S \ {x})
<1>1. IsFiniteSet(S \ {x}) /\ Integral(f, S \ {x})
  BY FS_Subset DEF Integral
<1> QED
  BY <1>1, SumType, SumTakes DEF Takes

\* A new element adds its value.
THEOREM SumAdd ==
  ASSUME NEW f, NEW S, IsFiniteSet(S), NEW x, x \notin S, Integral(f, S \cup {x})
  PROVE  /\ SumFunctionOnSet(f, S) \in Int /\ SumFunctionOnSet(f, S \cup {x}) \in Int
         /\ SumFunctionOnSet(f, S \cup {x}) = f[x] + SumFunctionOnSet(f, S)
<1>1. IsFiniteSet(S \cup {x}) /\ (S \cup {x}) \ {x} = S
  BY FS_AddElement
<1> QED
  BY <1>1, SumTake

LEMMA SumEmpty == \A f : SumFunctionOnSet(f, {}) = 0
BY SumPick, FS_EmptySet

\* Nothing but the values at the elements matters, and larger values sum to more.
THEOREM SumMonotone ==
  ASSUME NEW f, NEW g, NEW S, IsFiniteSet(S), Integral(f, S), Integral(g, S),
         \A x \in S : f[x] <= g[x]
  PROVE  SumFunctionOnSet(f, S) <= SumFunctionOnSet(g, S)
<1> DEFINE Bad == {t \in FiniteSubsetsOf(S) :
                     ~(SumFunctionOnSet(f, t) <= SumFunctionOnSet(g, t))}
<1> SUFFICES ASSUME Bad # {} PROVE FALSE
  BY DEF FiniteSubsetsOf
<1>1. PICK t \in Bad : Smallest(t, Bad)
  <2>1. Bad \subseteq FiniteSubsetsOf(S)
    OBVIOUS
  <2> HIDE DEF Bad
  <2> QED
    BY <2>1, SmallestMember, Zenon
<1>2. t \subseteq S /\ IsFiniteSet(t) /\ ~(SumFunctionOnSet(f, t) <= SumFunctionOnSet(g, t))
  BY DEF FiniteSubsetsOf
<1>3. t # {}
  BY <1>2, SumEmpty
<1>4. PICK x \in t : TRUE
  BY <1>3
<1> DEFINE u == t \ {x}
<1>5. u \subseteq t /\ u # t /\ IsFiniteSet(u)
  BY <1>2, FS_RemoveElement
<1>6. SumFunctionOnSet(f, u) <= SumFunctionOnSet(g, u)
  BY <1>1, <1>2, <1>5 DEF FiniteSubsetsOf, Smallest
<1>7. /\ SumFunctionOnSet(f, u) \in Int
      /\ SumFunctionOnSet(f, t) = f[x] + SumFunctionOnSet(f, u)
  BY <1>2, SumTake DEF Integral
<1>8. /\ SumFunctionOnSet(g, u) \in Int
      /\ SumFunctionOnSet(g, t) = g[x] + SumFunctionOnSet(g, u)
  BY <1>2, SumTake DEF Integral
<1>9. f[x] \in Int /\ g[x] \in Int /\ f[x] <= g[x]
  BY <1>2 DEF Integral
<1> HIDE DEF u
<1> QED
  BY <1>2, <1>6, <1>7, <1>8, <1>9

LEMMA SumSame ==
  ASSUME NEW f, NEW g, NEW S, IsFiniteSet(S), Integral(f, S), \A x \in S : f[x] = g[x]
  PROVE  SumFunctionOnSet(f, S) = SumFunctionOnSet(g, S)
<1>1. Integral(g, S) /\ (\A x \in S : f[x] <= g[x]) /\ (\A x \in S : g[x] <= f[x])
  BY DEF Integral
<1> QED
  BY <1>1, SumMonotone, SumType

\* Changing the value of one element changes the sum by the difference.
LEMMA SumChange ==
  ASSUME NEW f, NEW g, NEW S, IsFiniteSet(S), NEW x \in S,
         Integral(f, S), g[x] \in Int, \A y \in S \ {x} : g[y] = f[y]
  PROVE  /\ SumFunctionOnSet(f, S) \in Int
         /\ SumFunctionOnSet(g, S) = SumFunctionOnSet(f, S) - f[x] + g[x]
<1>1. Integral(g, S)
  BY DEF Integral
<1>2. IsFiniteSet(S \ {x}) /\ Integral(f, S \ {x})
  BY FS_Subset DEF Integral
<1>3. SumFunctionOnSet(f, S \ {x}) = SumFunctionOnSet(g, S \ {x})
  BY <1>2, SumSame
<1>4. /\ SumFunctionOnSet(f, S) \in Int
      /\ SumFunctionOnSet(f, S \ {x}) \in Int
      /\ SumFunctionOnSet(f, S) = f[x] + SumFunctionOnSet(f, S \ {x})
  BY SumTake
<1>5. SumFunctionOnSet(g, S) = g[x] + SumFunctionOnSet(g, S \ {x})
  BY <1>1, SumTake
<1>6. f[x] \in Int
  BY DEF Integral
<1> QED
  BY <1>3, <1>4, <1>5, <1>6

\* A sum of values that are not negative is not negative.
LEMMA SumNonNegative ==
  ASSUME NEW f, NEW S, IsFiniteSet(S), \A x \in S : f[x] \in Nat
  PROVE  SumFunctionOnSet(f, S) \in Nat
<1> DEFINE zero == [x \in S |-> 0]
<1>1. SumFunctionOnSet(zero, S) = 0
  <2> DEFINE Bad == {t \in FiniteSubsetsOf(S) : SumFunctionOnSet(zero, t) # 0}
  <2> SUFFICES ASSUME Bad # {} PROVE FALSE
    BY DEF FiniteSubsetsOf
  <2>1. PICK t \in Bad : Smallest(t, Bad)
    <3>1. Bad \subseteq FiniteSubsetsOf(S)
      OBVIOUS
    <3> HIDE DEF Bad
    <3> QED
      BY <3>1, SmallestMember, Zenon
  <2>2. t \subseteq S /\ IsFiniteSet(t) /\ SumFunctionOnSet(zero, t) # 0
    BY DEF FiniteSubsetsOf
  <2>3. PICK x \in t : TRUE
    BY <2>2, SumEmpty
  <2> DEFINE u == t \ {x}
  <2>4. u \subseteq t /\ u # t /\ IsFiniteSet(u)
    BY <2>2, FS_RemoveElement
  <2>5. SumFunctionOnSet(zero, u) = 0
    BY <2>1, <2>2, <2>4 DEF FiniteSubsetsOf, Smallest
  <2>6. SumFunctionOnSet(zero, t) = zero[x] + SumFunctionOnSet(zero, u)
    BY <2>2, SumTake DEF Integral
  <2> HIDE DEF u
  <2> QED
    BY <2>2, <2>5, <2>6
<1>2. Integral(zero, S) /\ Integral(f, S) /\ \A x \in S : zero[x] <= f[x]
  BY DEF Integral
<1>3. SumFunctionOnSet(zero, S) <= SumFunctionOnSet(f, S) /\ SumFunctionOnSet(f, S) \in Int
  BY <1>2, SumMonotone, SumType, Zenon
<1> QED
  BY <1>1, <1>3
-----------------------------------------------------------------------------
(* The sum over a table: how it follows the rows.                          *)

Summable(f) == IsFiniteSet(DOMAIN f) /\ Integral(f, DOMAIN f)

LEMMA TableType == ASSUME NEW f, Summable(f) PROVE SumFunction(f) \in Int
BY SumType DEF SumFunction, Summable

LEMMA TableEmpty == ASSUME NEW f, DOMAIN f = {} PROVE SumFunction(f) = 0
BY SumEmpty DEF SumFunction

LEMMA TableNonNegative ==
  ASSUME NEW f, IsFiniteSet(DOMAIN f), \A x \in DOMAIN f : f[x] \in Nat
  PROVE  SumFunction(f) \in Nat
BY SumNonNegative DEF SumFunction

\* A row is inserted.
THEOREM TableInsert ==
  ASSUME NEW f, NEW g, NEW x, Summable(f), x \notin DOMAIN f, g[x] \in Int,
         DOMAIN g = DOMAIN f \cup {x}, \A y \in DOMAIN f : g[y] = f[y]
  PROVE  /\ Summable(g)
         /\ SumFunction(f) \in Int
         /\ SumFunction(g) = SumFunction(f) + g[x]
<1> DEFINE S == DOMAIN f
<1>1. IsFiniteSet(S) /\ IsFiniteSet(S \cup {x})
  BY FS_AddElement DEF Summable
<1>2. Integral(f, S) /\ Integral(g, S) /\ Integral(g, S \cup {x})
  BY DEF Summable, Integral
<1>3. SumFunctionOnSet(f, S) = SumFunctionOnSet(g, S)
  BY <1>1, <1>2, SumSame
<1>4. /\ SumFunctionOnSet(g, S) \in Int
      /\ SumFunctionOnSet(g, S \cup {x}) = g[x] + SumFunctionOnSet(g, S)
  BY <1>1, <1>2, SumAdd
<1> QED
  BY <1>1, <1>2, <1>3, <1>4 DEF SumFunction, Summable

\* A row is taken out.
THEOREM TableDelete ==
  ASSUME NEW f, NEW g, NEW x, Summable(f), x \in DOMAIN f,
         DOMAIN g = DOMAIN f \ {x}, \A y \in DOMAIN g : g[y] = f[y]
  PROVE  /\ Summable(g)
         /\ SumFunction(f) \in Int /\ SumFunction(g) \in Int
         /\ SumFunction(g) = SumFunction(f) - f[x]
<1>1. Summable(g)
  BY FS_Subset DEF Summable, Integral
<1>2. DOMAIN f \ {x} = DOMAIN g /\ IsFiniteSet(DOMAIN g) /\ Integral(g, DOMAIN g)
  BY <1>1 DEF Summable
<1>3. SumFunctionOnSet(f, DOMAIN g) = SumFunctionOnSet(g, DOMAIN g)
  BY <1>2, SumSame
<1>4. /\ SumFunctionOnSet(f, DOMAIN f) \in Int /\ SumFunctionOnSet(f, DOMAIN g) \in Int
      /\ SumFunctionOnSet(f, DOMAIN f) = f[x] + SumFunctionOnSet(f, DOMAIN g)
  BY <1>2, SumTake DEF Summable
<1>5. f[x] \in Int
  BY DEF Summable, Integral
<1> QED
  BY <1>1, <1>3, <1>4, <1>5 DEF SumFunction

\* A row changes.
THEOREM TableUpdate ==
  ASSUME NEW f, NEW g, NEW x, Summable(f), x \in DOMAIN f, g[x] \in Int,
         DOMAIN g = DOMAIN f, \A y \in DOMAIN f \ {x} : g[y] = f[y]
  PROVE  /\ Summable(g)
         /\ SumFunction(f) \in Int
         /\ SumFunction(g) = SumFunction(f) - f[x] + g[x]
<1>1. Summable(g)
  BY DEF Summable, Integral
<1> QED
  BY <1>1, SumChange DEF SumFunction, Summable

\* Rows have not become smaller.
LEMMA TableMonotone ==
  ASSUME NEW f, NEW g, Summable(f), Summable(g), DOMAIN g = DOMAIN f,
         \A x \in DOMAIN f : f[x] <= g[x]
  PROVE  SumFunction(f) <= SumFunction(g)
BY SumMonotone DEF SumFunction, Summable

===============================================================================
