----------------------------- MODULE Sums_proofs -----------------------------
(***************************************************************************)
(* Sums and maxima over finite sets, for the proofs about seats, points    *)
(* and prices that are kept in several places.                             *)
(*                                                                         *)
(* SumFunctionOnSet is defined by a function that takes one element after  *)
(* the other out of the set.  That there is such a function, and that it   *)
(* does not matter which element goes first, is shown on the smallest set  *)
(* for which it would be otherwise.                                        *)
(***************************************************************************)
EXTENDS Integers, FiniteSetsExt, FiniteSetTheorems, TLAPS

Pick(s) == CHOOSE x \in s : TRUE
Rule(f, g, S) ==
  g = [s \in SUBSET S |-> IF s = {} THEN 0 ELSE f[Pick(s)] + g[s \ {Pick(s)}]]
Iter(f, S) == CHOOSE g : Rule(f, g, S)

LEMMA SumIsIter ==
  ASSUME NEW f, NEW S
  PROVE  SumFunctionOnSet(f, S) = Iter(f, S)[S]
BY DEF SumFunctionOnSet, FoldFunctionOnSet, MapThenFoldSet, Iter, Rule, Pick

\* A set of finite sets that is not empty has a member of which no other member
\* is a strict subset.
LEMMA Smallest ==
  ASSUME NEW S, IsFiniteSet(S), NEW T \in SUBSET SUBSET S, T # {}
  PROVE  \E U \in T : \A V \in T : V \subseteq U => V = U
<1>1. T \subseteq FiniteSubsetsOf(S)
  BY FS_Subset DEF FiniteSubsetsOf
<1>2. \E U \in T : \A V \in T : ~(<<V, U>> \in StrictSubsetOrdering(S))
  BY <1>1, FS_StrictSubsetOrderingWellFounded, WFMin
<1> QED
  BY <1>1, <1>2 DEF StrictSubsetOrdering, FiniteSubsetsOf

LEMMA PickIn == ASSUME NEW s, s # {} PROVE Pick(s) \in s
BY DEF Pick

\* What the rule says of one value.
LEMMA RuleAt ==
  ASSUME NEW f, NEW g, NEW S, Rule(f, g, S), NEW s \in SUBSET S
  PROVE  g[s] = IF s = {} THEN 0 ELSE f[Pick(s)] + g[s \ {Pick(s)}]
<1> DEFINE h == [u \in SUBSET S |-> IF u = {} THEN 0 ELSE f[Pick(u)] + g[u \ {Pick(u)}]]
<1>1. g = h
  BY DEF Rule
<1>2. h[s] = IF s = {} THEN 0 ELSE f[Pick(s)] + g[s \ {Pick(s)}]
  OBVIOUS
<1> QED
  BY <1>1, <1>2

\* Two sums that follow the rule agree on the sets that both know.
LEMMA RuleUnique ==
  ASSUME NEW f, NEW S, NEW T, NEW g, NEW h, Rule(f, g, S), Rule(f, h, T),
         NEW U, IsFiniteSet(U), U \subseteq S, U \subseteq T
  PROVE  g[U] = h[U]
<1> DEFINE Bad == {V \in SUBSET U : g[V] # h[V]}
<1>1. SUFFICES ASSUME Bad # {} PROVE FALSE
  OBVIOUS
<1>2. PICK V \in Bad : \A W \in Bad : W \subseteq V => W = V
  <2>1. Bad \in SUBSET SUBSET U
    OBVIOUS
  <2> HIDE DEF Bad
  <2> QED
    BY <1>1, <2>1, Smallest
<1>3. V \in SUBSET S /\ V \in SUBSET T /\ g[V] # h[V]
  OBVIOUS
<1>4. V # {}
  BY <1>3, RuleAt
<1>5. Pick(V) \in V
  BY <1>4, PickIn
<1>6. g[V \ {Pick(V)}] = h[V \ {Pick(V)}]
  <2>1. V \ {Pick(V)} \subseteq V /\ V \ {Pick(V)} # V /\ V \ {Pick(V)} \in SUBSET U
    BY <1>5
  <2>2. V \ {Pick(V)} \notin Bad
    BY <1>2, <2>1
  <2> QED
    BY <2>1, <2>2
<1>7. g[V] = f[Pick(V)] + g[V \ {Pick(V)}] /\ h[V] = f[Pick(V)] + h[V \ {Pick(V)}]
  BY <1>3, <1>4, RuleAt
<1> QED
  BY <1>3, <1>6, <1>7

\* On a finite set there is a sum that follows the rule: put together from
\* those of the smaller sets.
LEMMA RuleExists ==
  ASSUME NEW f, NEW S, IsFiniteSet(S)
  PROVE  Rule(f, Iter(f, S), S)
<1> DEFINE Bad == {V \in SUBSET S : ~\E g : Rule(f, g, V)}
<1>1. SUFFICES ASSUME Bad # {} PROVE FALSE
  <2>1. CASE Bad = {}
    <3>1. \E g : Rule(f, g, S)
      BY <2>1
    <3> QED
      BY <3>1, Zenon DEF Iter
  <2> QED
    BY <1>1, <2>1
<1>2. PICK U \in Bad : \A V \in Bad : V \subseteq U => V = U
  <2>1. Bad \in SUBSET SUBSET S
    OBVIOUS
  <2> HIDE DEF Bad
  <2> QED
    BY <1>1, <2>1, Smallest
<1>3. U \in SUBSET S /\ ~\E g : Rule(f, g, U)
  OBVIOUS
<1>4. \A V \in SUBSET U : V # U => Rule(f, Iter(f, V), V)
  <2> SUFFICES ASSUME NEW V \in SUBSET U, V # U PROVE Rule(f, Iter(f, V), V)
    OBVIOUS
  <2>1. \E g : Rule(f, g, V)
    BY <1>2, <1>3
  <2> QED
    BY <2>1, Zenon DEF Iter
<1> HIDE DEF Bad
<1> DEFINE below(V) == IF V = {} THEN 0 ELSE f[Pick(V)] + Iter(f, V \ {Pick(V)})[V \ {Pick(V)}]
           g == [V \in SUBSET U |-> below(V)]
<1>5. ASSUME NEW V \in SUBSET U, V # U PROVE Iter(f, V)[V] = below(V)
  <2>1. Rule(f, Iter(f, V), V) /\ V \in SUBSET V
    BY <1>4, <1>5
  <2>2. Iter(f, V)[V] = IF V = {} THEN 0 ELSE f[Pick(V)] + Iter(f, V)[V \ {Pick(V)}]
    BY <2>1, RuleAt
  <2>3. CASE V = {}
    BY <2>2, <2>3
  <2>4. CASE V # {}
    <3>1. Pick(V) \in V
      BY <2>4, PickIn
    <3> DEFINE W == V \ {Pick(V)}
    <3>2. W \in SUBSET U /\ W # U /\ W \subseteq V /\ W \subseteq W
      BY <1>5, <3>1
    <3>3. IsFiniteSet(W)
      BY <1>3, <3>2, FS_Subset
    <3> HIDE DEF W
    <3>4. Rule(f, Iter(f, W), W)
      BY <1>4, <3>2
    <3>5. Iter(f, V)[W] = Iter(f, W)[W]
      BY <2>1, <3>2, <3>3, <3>4, RuleUnique
    <3> QED
      BY <2>2, <2>4, <3>5 DEF W
  <2> QED
    BY <2>3, <2>4
<1>6. ASSUME NEW V \in SUBSET U
      PROVE  g[V] = IF V = {} THEN 0 ELSE f[Pick(V)] + g[V \ {Pick(V)}]
  <2>1. g[V] = below(V)
    OBVIOUS
  <2>2. CASE V = {}
    BY <2>1, <2>2
  <2>3. CASE V # {}
    <3>1. Pick(V) \in V
      BY <2>3, PickIn
    <3>2. V \ {Pick(V)} \in SUBSET U /\ V \ {Pick(V)} # U
      BY <3>1
    <3>3. Iter(f, V \ {Pick(V)})[V \ {Pick(V)}] = below(V \ {Pick(V)})
      BY <1>5, <3>2
    <3>4. g[V \ {Pick(V)}] = below(V \ {Pick(V)})
      BY <3>2
    <3> QED
      BY <2>1, <2>3, <3>3, <3>4
  <2> QED
    BY <2>2, <2>3
<1>7. g = [V \in SUBSET U |-> g[V]]
  OBVIOUS
<1>8. Rule(f, g, U)
  <2> HIDE DEF g
  <2>1. [V \in SUBSET U |-> g[V]]
        = [V \in SUBSET U |-> IF V = {} THEN 0 ELSE f[Pick(V)] + g[V \ {Pick(V)}]]
    BY <1>6
  <2> QED
    BY <1>7, <2>1 DEF Rule
<1> QED
  BY <1>3, <1>8

LEMMA SumEmpty == \A f : SumFunctionOnSet(f, {}) = 0
<1> TAKE f
<1>1. Rule(f, Iter(f, {}), {}) /\ {} \in SUBSET {}
  BY RuleExists, FS_EmptySet
<1> QED
  BY <1>1, RuleAt, SumIsIter

LEMMA SumPicked ==
  ASSUME NEW f, NEW S, IsFiniteSet(S), S # {}
  PROVE  SumFunctionOnSet(f, S) = f[Pick(S)] + SumFunctionOnSet(f, S \ {Pick(S)})
<1> DEFINE T == S \ {Pick(S)}
<1>1. IsFiniteSet(T) /\ T \subseteq S /\ T \subseteq T /\ S \in SUBSET S
  BY FS_Subset
<1>2. SumFunctionOnSet(f, S) = f[Pick(S)] + Iter(f, S)[T]
  BY <1>1, RuleExists, RuleAt, SumIsIter
<1> HIDE DEF T
<1>3. Iter(f, S)[T] = Iter(f, T)[T]
  BY <1>1, RuleExists, RuleUnique
<1> QED
  BY <1>2, <1>3, SumIsIter DEF T

LEMMA SumType ==
  ASSUME NEW f, NEW S, IsFiniteSet(S), \A x \in S : f[x] \in Int
  PROVE  SumFunctionOnSet(f, S) \in Int
<1> DEFINE Bad == {V \in SUBSET S : SumFunctionOnSet(f, V) \notin Int}
<1>1. SUFFICES ASSUME Bad # {} PROVE FALSE
  OBVIOUS
<1>2. PICK V \in Bad : \A W \in Bad : W \subseteq V => W = V
  <2>1. Bad \in SUBSET SUBSET S
    OBVIOUS
  <2> HIDE DEF Bad
  <2> QED
    BY <1>1, <2>1, Smallest
<1>3. V \in SUBSET S /\ SumFunctionOnSet(f, V) \notin Int /\ IsFiniteSet(V)
  BY FS_Subset
<1>4. V # {}
  BY <1>3, SumEmpty
<1>5. Pick(V) \in V /\ SumFunctionOnSet(f, V) = f[Pick(V)] + SumFunctionOnSet(f, V \ {Pick(V)})
  BY <1>3, <1>4, PickIn, SumPicked
<1>6. SumFunctionOnSet(f, V \ {Pick(V)}) \in Int
  <2>1. V \ {Pick(V)} \subseteq V /\ V \ {Pick(V)} # V /\ V \ {Pick(V)} \in SUBSET S
    BY <1>3, <1>5
  <2> QED
    BY <1>2, <2>1
<1> QED
  BY <1>3, <1>5, <1>6

\* Any one element may be taken out of a sum.
LEMMA SumRemove ==
  ASSUME NEW f, NEW S, IsFiniteSet(S), \A y \in S : f[y] \in Int
  PROVE  \A x \in S : SumFunctionOnSet(f, S) = f[x] + SumFunctionOnSet(f, S \ {x})
<1> DEFINE Bad == {V \in SUBSET S : \E x \in V : SumFunctionOnSet(f, V) # f[x] + SumFunctionOnSet(f, V \ {x})}
<1>1. SUFFICES ASSUME Bad # {} PROVE FALSE
  OBVIOUS
<1>2. PICK V \in Bad : \A W \in Bad : W \subseteq V => W = V
  <2>1. Bad \in SUBSET SUBSET S
    OBVIOUS
  <2> HIDE DEF Bad
  <2> QED
    BY <1>1, <2>1, Smallest
<1>3. PICK x \in V : SumFunctionOnSet(f, V) # f[x] + SumFunctionOnSet(f, V \ {x})
  OBVIOUS
<1>4. ASSUME NEW W \in SUBSET V, W # V, NEW y \in W
      PROVE  SumFunctionOnSet(f, W) = f[y] + SumFunctionOnSet(f, W \ {y})
  <2>1. W \notin Bad /\ W \in SUBSET S
    BY <1>2, <1>4
  <2> QED
    BY <2>1
<1> HIDE DEF Bad
<1>5. V \in SUBSET S /\ IsFiniteSet(V)
  BY FS_Subset DEF Bad
<1> DEFINE c == Pick(V)
           W == V \ {c, x}
<1>6. c \in V /\ SumFunctionOnSet(f, V) = f[c] + SumFunctionOnSet(f, V \ {c})
  BY <1>3, <1>5, PickIn, SumPicked
<1> HIDE DEF c
<1>7. c # x /\ (V \ {c}) \ {x} = W /\ (V \ {x}) \ {c} = W
  BY <1>3, <1>6
<1>8. SumFunctionOnSet(f, V \ {c}) = f[x] + SumFunctionOnSet(f, W)
  <2>1. SumFunctionOnSet(f, V \ {c}) = f[x] + SumFunctionOnSet(f, (V \ {c}) \ {x})
    BY <1>4, <1>6, <1>7
  <2> QED
    BY <1>7, <2>1
<1>9. SumFunctionOnSet(f, V \ {x}) = f[c] + SumFunctionOnSet(f, W)
  <2>1. SumFunctionOnSet(f, V \ {x}) = f[c] + SumFunctionOnSet(f, (V \ {x}) \ {c})
    BY <1>4, <1>6, <1>7
  <2> QED
    BY <1>7, <2>1
<1>10. SumFunctionOnSet(f, W) \in Int /\ f[c] \in Int /\ f[x] \in Int
  BY <1>5, <1>6, SumType, FS_Subset
<1> HIDE DEF W
<1> QED
  BY <1>3, <1>6, <1>8, <1>9, <1>10

LEMMA SumAdd ==
  ASSUME NEW f, NEW S, IsFiniteSet(S), NEW x, x \notin S,
         \A y \in S \cup {x} : f[y] \in Int
  PROVE  SumFunctionOnSet(f, S \cup {x}) = SumFunctionOnSet(f, S) + f[x]
<1>1. IsFiniteSet(S \cup {x}) /\ (S \cup {x}) \ {x} = S
  BY FS_AddElement
<1>2. SumFunctionOnSet(f, S \cup {x}) = f[x] + SumFunctionOnSet(f, (S \cup {x}) \ {x})
  BY <1>1, SumRemove
<1>3. SumFunctionOnSet(f, S) \in Int /\ f[x] \in Int
  BY SumType
<1>4. SumFunctionOnSet(f, (S \cup {x}) \ {x}) = SumFunctionOnSet(f, S)
  BY <1>1
<1> QED
  BY <1>2, <1>3, <1>4

\* Sums of functions that differ by no less than nothing.
LEMMA SumLeq ==
  ASSUME NEW f, NEW g, NEW S, IsFiniteSet(S),
         \A x \in S : f[x] \in Int /\ g[x] \in Int /\ f[x] <= g[x]
  PROVE  SumFunctionOnSet(f, S) <= SumFunctionOnSet(g, S)
<1> DEFINE Bad == {V \in SUBSET S : ~(SumFunctionOnSet(f, V) <= SumFunctionOnSet(g, V))}
<1>1. SUFFICES ASSUME Bad # {} PROVE FALSE
  OBVIOUS
<1>2. PICK V \in Bad : \A W \in Bad : W \subseteq V => W = V
  <2>1. Bad \in SUBSET SUBSET S
    OBVIOUS
  <2> HIDE DEF Bad
  <2> QED
    BY <1>1, <2>1, Smallest
<1>3. V \in SUBSET S /\ IsFiniteSet(V) /\ ~(SumFunctionOnSet(f, V) <= SumFunctionOnSet(g, V))
  BY FS_Subset
<1>4. V # {}
  BY <1>3, SumEmpty
<1>5. PICK x \in V : TRUE
  BY <1>4
<1>6. /\ SumFunctionOnSet(f, V) = f[x] + SumFunctionOnSet(f, V \ {x})
      /\ SumFunctionOnSet(g, V) = g[x] + SumFunctionOnSet(g, V \ {x})
  BY <1>3, SumRemove
<1>7. /\ SumFunctionOnSet(f, V \ {x}) \in Int /\ SumFunctionOnSet(g, V \ {x}) \in Int
      /\ f[x] \in Int /\ g[x] \in Int /\ f[x] <= g[x]
  BY <1>3, SumType, FS_Subset
<1>8. SumFunctionOnSet(f, V \ {x}) <= SumFunctionOnSet(g, V \ {x})
  <2>1. V \ {x} \subseteq V /\ V \ {x} # V /\ V \ {x} \in SUBSET S
    BY <1>3, <1>5
  <2> QED
    BY <1>2, <2>1
<1> QED
  BY <1>3, <1>6, <1>7, <1>8

LEMMA SumZero ==
  ASSUME NEW f, NEW S, IsFiniteSet(S), \A x \in S : f[x] = 0
  PROVE  SumFunctionOnSet(f, S) = 0
<1> DEFINE Bad == {V \in SUBSET S : SumFunctionOnSet(f, V) # 0}
<1>1. SUFFICES ASSUME Bad # {} PROVE FALSE
  OBVIOUS
<1>2. PICK V \in Bad : \A W \in Bad : W \subseteq V => W = V
  <2>1. Bad \in SUBSET SUBSET S
    OBVIOUS
  <2> HIDE DEF Bad
  <2> QED
    BY <1>1, <2>1, Smallest
<1>3. V \in SUBSET S /\ IsFiniteSet(V) /\ SumFunctionOnSet(f, V) # 0
  BY FS_Subset
<1>4. V # {}
  BY <1>3, SumEmpty
<1>5. Pick(V) \in V /\ SumFunctionOnSet(f, V) = f[Pick(V)] + SumFunctionOnSet(f, V \ {Pick(V)})
  BY <1>3, <1>4, PickIn, SumPicked
<1>6. SumFunctionOnSet(f, V \ {Pick(V)}) = 0
  <2>1. V \ {Pick(V)} \subseteq V /\ V \ {Pick(V)} # V /\ V \ {Pick(V)} \in SUBSET S
    BY <1>3, <1>5
  <2> QED
    BY <1>2, <2>1
<1> QED
  BY <1>3, <1>5, <1>6

LEMMA SumSame ==
  ASSUME NEW f, NEW g, NEW S, IsFiniteSet(S),
         \A x \in S : f[x] \in Int /\ g[x] = f[x]
  PROVE  SumFunctionOnSet(f, S) = SumFunctionOnSet(g, S)
<1>1. SumFunctionOnSet(f, S) <= SumFunctionOnSet(g, S) /\ SumFunctionOnSet(g, S) <= SumFunctionOnSet(f, S)
  BY SumLeq
<1>2. SumFunctionOnSet(f, S) \in Int /\ SumFunctionOnSet(g, S) \in Int
  BY SumType
<1> QED
  BY <1>1, <1>2

\* One value changes.
LEMMA SumChange ==
  ASSUME NEW f, NEW g, NEW S, IsFiniteSet(S), NEW x \in S,
         \A y \in S : f[y] \in Int /\ g[y] \in Int,
         \A y \in S \ {x} : g[y] = f[y]
  PROVE  SumFunctionOnSet(g, S) = SumFunctionOnSet(f, S) + g[x] - f[x]
<1>1. IsFiniteSet(S \ {x}) /\ SumFunctionOnSet(f, S \ {x}) = SumFunctionOnSet(g, S \ {x})
  BY FS_Subset, SumSame
<1>2. SumFunctionOnSet(f, S) = f[x] + SumFunctionOnSet(f, S \ {x}) /\ SumFunctionOnSet(g, S) = g[x] + SumFunctionOnSet(g, S \ {x})
  BY SumRemove
<1>3. SumFunctionOnSet(f, S \ {x}) \in Int
  BY <1>1, SumType
<1> QED
  BY <1>1, <1>2, <1>3

\* Two sets that have nothing in common.
LEMMA SumUnion ==
  ASSUME NEW f, NEW S, NEW T, IsFiniteSet(S), IsFiniteSet(T), S \cap T = {},
         \A x \in S \cup T : f[x] \in Int
  PROVE  SumFunctionOnSet(f, S \cup T) = SumFunctionOnSet(f, S) + SumFunctionOnSet(f, T)
<1> DEFINE Bad == {V \in SUBSET T : SumFunctionOnSet(f, S \cup V) # SumFunctionOnSet(f, S) + SumFunctionOnSet(f, V)}
<1>1. SUFFICES ASSUME Bad # {} PROVE FALSE
  OBVIOUS
<1>2. PICK V \in Bad : \A W \in Bad : W \subseteq V => W = V
  <2>1. Bad \in SUBSET SUBSET T
    OBVIOUS
  <2> HIDE DEF Bad
  <2> QED
    BY <1>1, <2>1, Smallest
<1>3. V \in SUBSET T /\ IsFiniteSet(V) /\ SumFunctionOnSet(f, S \cup V) # SumFunctionOnSet(f, S) + SumFunctionOnSet(f, V)
  BY FS_Subset
<1>4. V # {}
  <2>1. SumFunctionOnSet(f, S) \in Int /\ S \cup {} = S
    BY SumType
  <2> QED
    BY <1>3, <2>1, SumEmpty
<1>5. PICK x \in V : TRUE
  BY <1>4
<1> DEFINE W == V \ {x}
<1>6. W \subseteq V /\ W # V /\ W \in SUBSET T /\ x \notin W /\ x \notin S \cup W
  BY <1>3, <1>5
<1>7. V = W \cup {x} /\ S \cup V = (S \cup W) \cup {x}
  BY <1>5
<1>8. SumFunctionOnSet(f, S \cup W) = SumFunctionOnSet(f, S) + SumFunctionOnSet(f, W)
  BY <1>2, <1>6
<1> HIDE DEF W
<1>9. IsFiniteSet(W) /\ IsFiniteSet(S \cup W)
  BY <1>6, FS_Subset, FS_Union
<1>10. SumFunctionOnSet(f, W \cup {x}) = SumFunctionOnSet(f, W) + f[x]
  BY <1>3, <1>5, <1>6, <1>9, SumAdd
<1>11. SumFunctionOnSet(f, (S \cup W) \cup {x}) = SumFunctionOnSet(f, S \cup W) + f[x]
  BY <1>3, <1>5, <1>6, <1>9, SumAdd
<1>12. SumFunctionOnSet(f, S) \in Int /\ SumFunctionOnSet(f, W) \in Int /\ f[x] \in Int
  BY <1>3, <1>5, <1>6, <1>9, SumType
<1>13. SumFunctionOnSet(f, V) = SumFunctionOnSet(f, W \cup {x})
  BY <1>7
<1>14. SumFunctionOnSet(f, S \cup V) = SumFunctionOnSet(f, (S \cup W) \cup {x})
  BY <1>7
<1> HIDE DEF Bad
<1> QED
  BY <1>3, <1>8, <1>10, <1>11, <1>12, <1>13, <1>14

LEMMA SumNat ==
  ASSUME NEW f, NEW S, IsFiniteSet(S), \A x \in S : f[x] \in Nat
  PROVE  SumFunctionOnSet(f, S) \in Nat
<1> DEFINE g == [x \in S |-> 0]
           Bad == {V \in SUBSET S : SumFunctionOnSet(f, V) \notin Nat}
<1>1. SUFFICES ASSUME Bad # {} PROVE FALSE
  OBVIOUS
<1>2. PICK V \in Bad : \A W \in Bad : W \subseteq V => W = V
  <2>1. Bad \in SUBSET SUBSET S
    OBVIOUS
  <2> HIDE DEF Bad
  <2> QED
    BY <1>1, <2>1, Smallest
<1>3. V \in SUBSET S /\ IsFiniteSet(V) /\ SumFunctionOnSet(f, V) \notin Nat
  BY FS_Subset
<1>4. V # {}
  BY <1>3, SumEmpty
<1>5. Pick(V) \in V /\ SumFunctionOnSet(f, V) = f[Pick(V)] + SumFunctionOnSet(f, V \ {Pick(V)})
  BY <1>3, <1>4, PickIn, SumPicked
<1>6. SumFunctionOnSet(f, V \ {Pick(V)}) \in Nat
  <2>1. V \ {Pick(V)} \subseteq V /\ V \ {Pick(V)} # V /\ V \ {Pick(V)} \in SUBSET S
    BY <1>3, <1>5
  <2> QED
    BY <1>2, <2>1
<1> QED
  BY <1>3, <1>5, <1>6

LEMMA SumSubset ==
  ASSUME NEW f, NEW S, IsFiniteSet(S), \A x \in S : f[x] \in Nat, NEW T \in SUBSET S
  PROVE  SumFunctionOnSet(f, T) <= SumFunctionOnSet(f, S)
<1> DEFINE R == S \ T
<1>1. IsFiniteSet(T) /\ IsFiniteSet(R) /\ T \cap R = {} /\ T \cup R = S
  BY FS_Subset
<1>2. (\A x \in T : f[x] \in Nat) /\ (\A x \in R : f[x] \in Nat)
  OBVIOUS
<1> HIDE DEF R
<1>3. SumFunctionOnSet(f, T) \in Nat /\ SumFunctionOnSet(f, R) \in Nat
  BY <1>1, <1>2, SumNat
<1>4. SumFunctionOnSet(f, T \cup R) = SumFunctionOnSet(f, T) + SumFunctionOnSet(f, R)
  BY <1>1, <1>2, SumUnion
<1>5. SumFunctionOnSet(f, T \cup R) = SumFunctionOnSet(f, S)
  BY <1>1
<1> QED
  BY <1>3, <1>4, <1>5

\* The sum over a part is the sum over the whole of what counts nothing outside.
LEMMA SumMask ==
  ASSUME NEW f, NEW S, IsFiniteSet(S), NEW T \in SUBSET S, \A x \in T : f[x] \in Int
  PROVE  SumFunctionOnSet(f, T)
           = SumFunctionOnSet([x \in S |-> IF x \in T THEN f[x] ELSE 0], S)
<1> DEFINE m == [x \in S |-> IF x \in T THEN f[x] ELSE 0]
           R == S \ T
<1>1. IsFiniteSet(T) /\ IsFiniteSet(R) /\ T \cap R = {} /\ T \cup R = S
  BY FS_Subset
<1>2. /\ \A x \in T : m[x] = f[x] /\ m[x] \in Int
      /\ \A x \in R : m[x] = 0
      /\ \A x \in T \cup R : m[x] \in Int
  OBVIOUS
<1> HIDE DEF m, R
<1>4. SumFunctionOnSet(m, T \cup R) = SumFunctionOnSet(m, T) + SumFunctionOnSet(m, R)
  BY <1>1, <1>2, SumUnion
<1>5. SumFunctionOnSet(m, T \cup R) = SumFunctionOnSet(m, S)
  BY <1>1
<1>6. SumFunctionOnSet(m, T) = SumFunctionOnSet(f, T) /\ SumFunctionOnSet(m, T) \in Int
  BY <1>1, <1>2, SumSame, SumType
<1>7. SumFunctionOnSet(m, R) = 0
  BY <1>1, <1>2, SumZero
<1>8. SumFunctionOnSet(m, S) = SumFunctionOnSet(f, T)
  BY <1>4, <1>5, <1>6, <1>7
<1> QED
  BY <1>8 DEF m

LEMMA SumPlus ==
  ASSUME NEW f, NEW g, NEW h, NEW S, IsFiniteSet(S),
         \A x \in S : f[x] \in Int /\ g[x] \in Int /\ h[x] = f[x] + g[x]
  PROVE  SumFunctionOnSet(h, S) = SumFunctionOnSet(f, S) + SumFunctionOnSet(g, S)
<1> DEFINE Bad == {V \in SUBSET S :
             SumFunctionOnSet(h, V) # SumFunctionOnSet(f, V) + SumFunctionOnSet(g, V)}
<1>1. SUFFICES ASSUME Bad # {} PROVE FALSE
  OBVIOUS
<1>2. PICK V \in Bad : \A W \in Bad : W \subseteq V => W = V
  <2>1. Bad \in SUBSET SUBSET S
    OBVIOUS
  <2> HIDE DEF Bad
  <2> QED
    BY <1>1, <2>1, Smallest
<1>3. /\ V \in SUBSET S /\ IsFiniteSet(V)
      /\ SumFunctionOnSet(h, V) # SumFunctionOnSet(f, V) + SumFunctionOnSet(g, V)
  BY FS_Subset
<1>4. V # {}
  BY <1>3, SumEmpty
<1>5. PICK x \in V : TRUE
  BY <1>4
<1> DEFINE W == V \ {x}
<1>6. W \subseteq V /\ W # V /\ W \in SUBSET S /\ IsFiniteSet(W)
  BY <1>3, <1>5, FS_Subset
<1>7. SumFunctionOnSet(h, W) = SumFunctionOnSet(f, W) + SumFunctionOnSet(g, W)
  BY <1>2, <1>6
<1> HIDE DEF Bad
<1>8. \A y \in V : f[y] \in Int /\ g[y] \in Int /\ h[y] \in Int
  BY <1>3
<1>9. /\ SumFunctionOnSet(f, V) = f[x] + SumFunctionOnSet(f, W)
      /\ SumFunctionOnSet(g, V) = g[x] + SumFunctionOnSet(g, W)
      /\ SumFunctionOnSet(h, V) = h[x] + SumFunctionOnSet(h, W)
  BY <1>3, <1>5, <1>8, SumRemove
<1>10. SumFunctionOnSet(f, W) \in Int /\ SumFunctionOnSet(g, W) \in Int
  BY <1>6, <1>8, SumType
<1> HIDE DEF W
<1>11. h[x] = f[x] + g[x] /\ f[x] \in Int /\ g[x] \in Int
  BY <1>3, <1>5
<1> QED
  BY <1>3, <1>7, <1>9, <1>10, <1>11

(***************************************************************************)
(* Maxima                                                                  *)
(***************************************************************************)
LEMMA Largest ==
  ASSUME NEW S, IsFiniteSet(S), S # {}, \A x \in S : x \in Int
  PROVE  \E m \in S : \A x \in S : x <= m
<1> DEFINE above(m) == {x \in S : m < x}
           T == {above(m) : m \in S}
<1>1. PICK U \in T : \A V \in T : V \subseteq U => V = U
  <2>1. T \in SUBSET SUBSET S /\ T # {}
    OBVIOUS
  <2> HIDE DEF T
  <2> QED
    BY <2>1, Smallest
<1>2. PICK m \in S : U = above(m)
  OBVIOUS
<1>3. ASSUME NEW y \in S, m < y PROVE FALSE
  <2>1. above(y) \in T /\ above(y) \subseteq above(m)
    BY <1>3
  <2>2. y \in above(m) /\ y \notin above(y)
    BY <1>3
  <2> QED
    BY <1>1, <1>2, <2>1, <2>2
<1> QED
  BY <1>3

LEMMA MaxIs ==
  ASSUME NEW S, IsFiniteSet(S), S # {}, S \subseteq Int
  PROVE  Max(S) \in S /\ \A x \in S : x <= Max(S)
<1>1. PICK m \in S : \A x \in S : x <= m
  BY Largest
<1>2. \A x \in S : m >= x
  BY <1>1
<1>3. Max(S) \in S /\ \A x \in S : Max(S) >= x
  BY <1>2 DEF Max
<1> QED
  BY <1>3

\* The values of a function on a finite set.
LEMMA ImageFinite ==
  ASSUME NEW f, NEW S, IsFiniteSet(S)
  PROVE  IsFiniteSet({f[x] : x \in S})
<1> DEFINE T == {f[x] : x \in S}
           g == [x \in S |-> f[x]]
<1>1. g \in Surjection(S, T)
  BY DEF Surjection
<1> HIDE DEF g, T
<1>2. IsFiniteSet(T)
  BY <1>1, FS_Surjection
<1> QED
  BY <1>2 DEF T

LEMMA MaxOfTwo ==
  ASSUME NEW a \in Int, NEW b \in Int
  PROVE  Max({a, b}) = IF a <= b THEN b ELSE a
<1>1. \E m \in {a, b} : \A x \in {a, b} : m >= x
  OBVIOUS
<1>2. Max({a, b}) \in {a, b} /\ \A x \in {a, b} : Max({a, b}) >= x
  BY <1>1 DEF Max
<1> QED
  BY <1>2

LEMMA MinOfTwo ==
  ASSUME NEW a \in Int, NEW b \in Int
  PROVE  Min({a, b}) = IF a <= b THEN a ELSE b
<1>1. \E m \in {a, b} : \A x \in {a, b} : x >= m
  OBVIOUS
<1>2. Min({a, b}) \in {a, b} /\ \A x \in {a, b} : x >= Min({a, b})
  BY <1>1 DEF Min
<1> QED
  BY <1>2

\* A sum of which no summand is larger than m.
LEMMA SumBound ==
  ASSUME NEW f, NEW S, IsFiniteSet(S), NEW m \in Nat,
         \A x \in S : f[x] \in Nat /\ f[x] <= m
  PROVE  SumFunctionOnSet(f, S) <= Cardinality(S) * m
<1> DEFINE Bad == {V \in SUBSET S : ~(SumFunctionOnSet(f, V) <= Cardinality(V) * m)}
<1>1. SUFFICES ASSUME Bad # {} PROVE FALSE
  OBVIOUS
<1>2. PICK V \in Bad : \A W \in Bad : W \subseteq V => W = V
  <2>1. Bad \in SUBSET SUBSET S
    OBVIOUS
  <2> HIDE DEF Bad
  <2> QED
    BY <1>1, <2>1, Smallest
<1>3. V \in SUBSET S /\ IsFiniteSet(V) /\ ~(SumFunctionOnSet(f, V) <= Cardinality(V) * m)
  BY FS_Subset
<1>4. V # {}
  <2>1. ASSUME V = {} PROVE FALSE
    <3>1. SumFunctionOnSet(f, V) = 0 /\ Cardinality(V) = 0
      BY <2>1, SumEmpty, FS_EmptySet
    <3> QED
      BY <1>3, <3>1
  <2> QED
    BY <2>1
<1>5. Pick(V) \in V /\ SumFunctionOnSet(f, V) = f[Pick(V)] + SumFunctionOnSet(f, V \ {Pick(V)})
  BY <1>3, <1>4, PickIn, SumPicked
<1>6. PICK x \in V : x = Pick(V)
  BY <1>5
<1>7. SumFunctionOnSet(f, V \ {x}) <= Cardinality(V \ {x}) * m
  <2>1. V \ {x} \subseteq V /\ V \ {x} # V /\ V \ {x} \in SUBSET S
    BY <1>3
  <2> QED
    BY <1>2, <2>1
<1>8. Cardinality(V \ {x}) = Cardinality(V) - 1 /\ Cardinality(V) \in Nat
      /\ SumFunctionOnSet(f, V \ {x}) \in Nat /\ f[x] \in Nat /\ f[x] <= m
  <2>1. IsFiniteSet(V \ {x}) /\ \A y \in V \ {x} : f[y] \in Nat
    BY <1>3, FS_Subset
  <2> QED
    BY <1>3, <2>1, FS_RemoveElement, FS_CardinalityType, SumNat
<1>9. (Cardinality(V) - 1) * m + m = Cardinality(V) * m
  BY <1>8
<1>10. f[x] + SumFunctionOnSet(f, V \ {x}) <= Cardinality(V) * m
  <2>1. Cardinality(V) * m \in Int /\ (Cardinality(V) - 1) * m \in Int
    BY <1>8
  <2> QED
    BY <1>7, <1>8, <1>9, <2>1
<1> QED
  BY <1>3, <1>5, <1>6, <1>10
=============================================================================
