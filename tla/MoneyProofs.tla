----------------------------- MODULE MoneyProofs -----------------------------
(***************************************************************************)
(* The ledger and what is computed from it, for any number of events,      *)
(* calls, customers, payments, visitors, leads and candidates.             *)
(***************************************************************************)
EXTENDS MCMoney, Sequences, FiniteSetTheorems, WellFoundedInduction, TLAPS

-----------------------------------------------------------------------------
(* Sums over finite sets *)

\* The element that a fold of the library takes next.
OneOf(s) == CHOOSE x \in s : TRUE

\* Its recursion, for the sum of f over the subsets of S.
Sums(f, h, S) ==
  h = [s \in SUBSET S |-> IF s = {} THEN 0 ELSE f[OneOf(s)] + h[s \ {OneOf(s)}]]

\* The sum of f[x] over the elements x of S.
SumOf(f, S) == (CHOOSE h : Sums(f, h, S))[S]

LEMMA OneIsIn ==
  ASSUME NEW s, s # {}
  PROVE  OneOf(s) \in s
BY DEF OneOf

\* Among some subsets of a finite set one has no other within it.
LEMMA Smallest ==
  ASSUME NEW S, IsFiniteSet(S), NEW B \in SUBSET SUBSET S, B # {}
  PROVE  \E s \in B : \A t \in B : t \subseteq s => t = s
<1>1. IsWellFoundedOn(StrictSubsetOrdering(S), SUBSET S)
  BY FS_StrictSubsetOrderingWellFounded, FS_FiniteSubsetsOfFinite
<1>2. PICK s \in B : \A t \in B : ~ (<<t, s>> \in StrictSubsetOrdering(S))
  <2>1. B \subseteq SUBSET S
    OBVIOUS
  <2> QED
    BY <1>1, <2>1, WFMin
<1>3. ASSUME NEW t \in B, t \subseteq s PROVE t = s
  <2>1. <<t, s>> \in (SUBSET S) \X (SUBSET S)
    OBVIOUS
  <2> QED
    BY <1>2, <1>3, <2>1 DEF StrictSubsetOrdering
<1> QED
  BY <1>3

LEMMA SumsAt ==
  ASSUME NEW f, NEW h, NEW S, Sums(f, h, S), NEW s \in SUBSET S
  PROVE  h[s] = IF s = {} THEN 0 ELSE f[OneOf(s)] + h[s \ {OneOf(s)}]
<1> DEFINE F == [u \in SUBSET S |-> IF u = {} THEN 0 ELSE f[OneOf(u)] + h[u \ {OneOf(u)}]]
<1>1. h = F
  BY DEF Sums
<1>2. F[s] = IF s = {} THEN 0 ELSE f[OneOf(s)] + h[s \ {OneOf(s)}]
  OBVIOUS
<1> QED
  BY <1>1, <1>2

\* There is one such recursion at most.
LEMMA SumsAgree ==
  ASSUME NEW f, NEW e, NEW g, NEW h, NEW S, NEW T, IsFiniteSet(T), T \subseteq S,
         \A x \in T : f[x] = e[x],
         Sums(f, g, S), Sums(e, h, T)
  PROVE  \A s \in SUBSET T : g[s] = h[s]
<1> DEFINE B == {s \in SUBSET T : g[s] # h[s]}
<1>1. SUFFICES ASSUME B # {} PROVE FALSE
  OBVIOUS
<1>2. PICK s \in B : \A t \in B : t \subseteq s => t = s
  <2>1. B \in SUBSET SUBSET T
    OBVIOUS
  <2> HIDE DEF B
  <2> QED
    BY <1>1, <2>1, Smallest
<1>3. /\ g[s] = IF s = {} THEN 0 ELSE f[OneOf(s)] + g[s \ {OneOf(s)}]
      /\ h[s] = IF s = {} THEN 0 ELSE e[OneOf(s)] + h[s \ {OneOf(s)}]
  <2>1. s \in SUBSET T /\ s \in SUBSET S
    OBVIOUS
  <2> QED
    BY <2>1, SumsAt
<1>4. CASE s = {}
  BY <1>3, <1>4
<1>5. CASE s # {}
  <2>1. OneOf(s) \in s
    BY <1>5, OneIsIn
  <2>2. s \ {OneOf(s)} \notin B
    BY <1>2, <2>1
  <2>3. g[s \ {OneOf(s)}] = h[s \ {OneOf(s)}] /\ f[OneOf(s)] = e[OneOf(s)]
    BY <2>1, <2>2
  <2> QED
    BY <1>3, <1>5, <2>3
<1> QED
  BY <1>4, <1>5

\* And there is one: the least set without one would have one, put together
\* from those of the sets within it.
LEMMA SumsExist ==
  ASSUME NEW f, NEW S, IsFiniteSet(S)
  PROVE  \E h : Sums(f, h, S)
<1> DEFINE Has(s) == \E h : Sums(f, h, s)
           B == {s \in SUBSET S : ~Has(s)}
<1>1. CASE B = {}
  BY <1>1
<1>2. CASE B # {}
  <2>1. PICK s \in B : \A t \in B : t \subseteq s => t = s
    <3>1. B \in SUBSET SUBSET S
      OBVIOUS
    <3> HIDE DEF B
    <3> QED
      BY <1>2, <3>1, Smallest
  <2> DEFINE V(u) == (CHOOSE h : Sums(f, h, u))[u]
             H == [u \in SUBSET s |-> IF u = {} THEN 0 ELSE f[OneOf(u)] + V(u \ {OneOf(u)})]
  <2>2. ASSUME NEW u \in SUBSET s, u # s
        PROVE  V(u) = IF u = {} THEN 0 ELSE f[OneOf(u)] + V(u \ {OneOf(u)})
    <3>1. Has(u)
      BY <2>1, <2>2
    <3> DEFINE g == CHOOSE h : Sums(f, h, u)
    <3>2. Sums(f, g, u)
      BY <3>1
    <3> HIDE DEF g
    <3>3. V(u) = IF u = {} THEN 0 ELSE f[OneOf(u)] + g[u \ {OneOf(u)}]
      <4>1. V(u) = g[u]
        BY DEF g
      <4> HIDE DEF V
      <4> QED
        BY <3>2, <4>1, SumsAt
    <3>4. ASSUME u # {} PROVE g[u \ {OneOf(u)}] = V(u \ {OneOf(u)})
      <4> DEFINE w == u \ {OneOf(u)}
      <4>1. w \in SUBSET u /\ w # u /\ w # s /\ w \in SUBSET S
        BY <2>2, <3>4, OneIsIn
      <4>2. Has(w)
        BY <2>1, <4>1
      <4> DEFINE k == CHOOSE h : Sums(f, h, w)
      <4>3. Sums(f, k, w)
        BY <4>2
      <4>4. IsFiniteSet(w)
        BY <4>1, FS_Subset
      <4>5. V(w) = k[w]
        OBVIOUS
      <4> HIDE DEF k, w, V
      <4>6. \A t \in SUBSET w : g[t] = k[t]
        BY <3>2, <4>1, <4>3, <4>4, SumsAgree
      <4>7. g[w] = k[w]
        BY <4>6
      <4> QED
        BY <4>5, <4>7 DEF w
    <3> HIDE DEF V
    <3> QED
      BY <3>3, <3>4
  <2> HIDE DEF V
  <2>3. ASSUME NEW u \in SUBSET s
        PROVE  H[u] = IF u = {} THEN 0 ELSE f[OneOf(u)] + H[u \ {OneOf(u)}]
    <3>1. H[u] = IF u = {} THEN 0 ELSE f[OneOf(u)] + V(u \ {OneOf(u)})
      OBVIOUS
    <3>2. ASSUME u # {} PROVE H[u \ {OneOf(u)}] = V(u \ {OneOf(u)})
      <4> DEFINE w == u \ {OneOf(u)}
      <4>1. w \in SUBSET s /\ w # s
        BY <3>2, OneIsIn
      <4>2. V(w) = IF w = {} THEN 0 ELSE f[OneOf(w)] + V(w \ {OneOf(w)})
        <5> HIDE DEF w
        <5> QED BY <2>2, <4>1
      <4>3. H[w] = IF w = {} THEN 0 ELSE f[OneOf(w)] + V(w \ {OneOf(w)})
        <5> HIDE DEF w
        <5> QED BY <4>1
      <4> QED
        BY <4>2, <4>3
    <3> HIDE DEF H
    <3> QED
      BY <3>1, <3>2
  <2>4. H = [u \in SUBSET s |-> IF u = {} THEN 0 ELSE f[OneOf(u)] + H[u \ {OneOf(u)}]]
    <3>1. H = [u \in SUBSET s |-> H[u]]
      OBVIOUS
    <3> HIDE DEF H
    <3> QED
      BY <2>3, <3>1
  <2>5. Has(s)
    <3> HIDE DEF H
    <3> QED BY <2>4 DEF Sums
  <2> QED
    BY <2>1, <2>5
<1> QED
  BY <1>1, <1>2

\* Whatever satisfies the recursion computes the sum.
LEMMA SumIs ==
  ASSUME NEW f, NEW e, NEW S, IsFiniteSet(S), \A x \in S : f[x] = e[x],
         NEW g, Sums(f, g, S)
  PROVE  g[S] = SumOf(e, S)
<1> DEFINE h == CHOOSE k : Sums(e, k, S)
<1>1. Sums(e, h, S)
  BY SumsExist
<1>2. SumOf(e, S) = h[S]
  BY DEF SumOf
<1> HIDE DEF h
<1>3. \A s \in SUBSET S : g[s] = h[s]
  BY <1>1, SumsAgree
<1> QED
  BY <1>2, <1>3

LEMMA SumsOf ==
  ASSUME NEW f, NEW S, IsFiniteSet(S)
  PROVE  \E g : Sums(f, g, S) /\ \A s \in SUBSET S : g[s] = SumOf(f, s)
<1>1. PICK g : Sums(f, g, S)
  BY SumsExist
<1>2. ASSUME NEW s \in SUBSET S PROVE g[s] = SumOf(f, s)
  <2> DEFINE h == CHOOSE k : Sums(f, k, s)
  <2>1. IsFiniteSet(s)
    BY FS_Subset
  <2>2. Sums(f, h, s)
    BY <2>1, SumsExist
  <2>3. SumOf(f, s) = h[s]
    BY DEF SumOf
  <2> HIDE DEF h
  <2>4. \A t \in SUBSET s : g[t] = h[t]
    BY <1>1, <2>1, <2>2, SumsAgree
  <2> QED
    BY <2>3, <2>4
<1> QED
  BY <1>1, <1>2

LEMMA SumEmpty == ASSUME NEW f PROVE SumOf(f, {}) = 0
<1>1. IsFiniteSet({})
  BY FS_EmptySet
<1>2. PICK g : Sums(f, g, {}) /\ \A s \in SUBSET {} : g[s] = SumOf(f, s)
  BY <1>1, SumsOf
<1>3. {} \in SUBSET {}
  OBVIOUS
<1> QED
  BY <1>2, <1>3, SumsAt

LEMMA SumEquation ==
  ASSUME NEW f, NEW S, IsFiniteSet(S), S # {}
  PROVE  SumOf(f, S) = f[OneOf(S)] + SumOf(f, S \ {OneOf(S)})
<1>1. PICK g : Sums(f, g, S) /\ \A s \in SUBSET S : g[s] = SumOf(f, s)
  BY SumsOf
<1>2. S \in SUBSET S /\ S \ {OneOf(S)} \in SUBSET S
  OBVIOUS
<1>3. g[S] = f[OneOf(S)] + g[S \ {OneOf(S)}]
  BY <1>1, <1>2, SumsAt
<1> QED
  BY <1>1, <1>2, <1>3

\* It is a whole number when what is added are.
LEMMA SumInt ==
  ASSUME NEW f, NEW S, IsFiniteSet(S), \A x \in S : f[x] \in Int
  PROVE  SumOf(f, S) \in Int
<1> DEFINE B == {s \in SUBSET S : SumOf(f, s) \notin Int}
<1>1. CASE S \notin B
  BY <1>1
<1>2. CASE S \in B
  <2>1. PICK s \in B : \A t \in B : t \subseteq s => t = s
    <3>1. B \in SUBSET SUBSET S /\ B # {}
      BY <1>2
    <3> HIDE DEF B
    <3> QED
      BY <3>1, Smallest
  <2>2. s # {}
    BY SumEmpty
  <2>3. OneOf(s) \in s /\ OneOf(s) \in S /\ IsFiniteSet(s)
    BY <2>2, OneIsIn, FS_Subset
  <2>4. s \ {OneOf(s)} \notin B
    BY <2>1, <2>3
  <2>5. SumOf(f, s \ {OneOf(s)}) \in Int /\ f[OneOf(s)] \in Int
    BY <2>3, <2>4
  <2>6. SumOf(f, s) = f[OneOf(s)] + SumOf(f, s \ {OneOf(s)})
    BY <2>2, <2>3, SumEquation
  <2> QED
    BY <2>5, <2>6
<1> QED
  BY <1>1, <1>2

\* Any element may be taken out first.
LEMMA SumTake ==
  ASSUME NEW f, NEW S, IsFiniteSet(S), \A x \in S : f[x] \in Int, NEW x \in S
  PROVE  SumOf(f, S) = f[x] + SumOf(f, S \ {x})
<1> DEFINE Bad(s) == \E y \in s : SumOf(f, s) # f[y] + SumOf(f, s \ {y})
           B == {s \in SUBSET S : Bad(s)}
<1>1. CASE S \notin B
  BY <1>1
<1>2. CASE S \in B
  <2>1. PICK s \in B : \A t \in B : t \subseteq s => t = s
    <3>1. B \in SUBSET SUBSET S /\ B # {}
      BY <1>2
    <3> HIDE DEF B
    <3> QED
      BY <3>1, Smallest
  <2>2. PICK y \in s : SumOf(f, s) # f[y] + SumOf(f, s \ {y})
    OBVIOUS
  <2> DEFINE c == OneOf(s)
  <2>3. c \in s /\ s \subseteq S /\ IsFiniteSet(s)
    BY OneIsIn, FS_Subset
  <2>4. SumOf(f, s) = f[c] + SumOf(f, s \ {c})
    BY <2>2, <2>3, SumEquation
  <2> HIDE DEF c
  <2>5. c # y
    BY <2>2, <2>4
  <2>6. ASSUME NEW u \in SUBSET s, u # s, NEW z \in u
        PROVE  SumOf(f, u) = f[z] + SumOf(f, u \ {z})
    <3>1. u \notin B
      <4> HIDE DEF B
      <4> QED BY <2>1, <2>6
    <3> QED BY <2>3, <2>6, <3>1
  <2>7. SumOf(f, s \ {c}) = f[y] + SumOf(f, (s \ {c}) \ {y})
    BY <2>3, <2>5, <2>6
  <2>8. SumOf(f, s \ {y}) = f[c] + SumOf(f, (s \ {y}) \ {c})
    BY <2>2, <2>3, <2>5, <2>6
  <2>9. (s \ {c}) \ {y} = (s \ {y}) \ {c}
    OBVIOUS
  <2> DEFINE r == SumOf(f, (s \ {c}) \ {y})
  <2>10. f[c] \in Int /\ f[y] \in Int /\ r \in Int
    <3>1. IsFiniteSet((s \ {c}) \ {y}) /\ \A z \in (s \ {c}) \ {y} : f[z] \in Int
      BY <2>3, FS_Subset
    <3> QED
      BY <2>2, <2>3, <3>1, SumInt
  <2>11. SumOf(f, s \ {c}) = f[y] + r /\ SumOf(f, s \ {y}) = f[c] + r
    BY <2>7, <2>8, <2>9
  <2> HIDE DEF r
  <2> QED
    BY <2>2, <2>4, <2>10, <2>11
<1> QED
  BY <1>1, <1>2

LEMMA SumAdd ==
  ASSUME NEW f, NEW S, IsFiniteSet(S), \A x \in S : f[x] \in Int,
         NEW x, x \notin S, f[x] \in Int
  PROVE  SumOf(f, S \cup {x}) = SumOf(f, S) + f[x]
<1>1. IsFiniteSet(S \cup {x})
  BY FS_AddElement
<1>2. (S \cup {x}) \ {x} = S
  OBVIOUS
<1>3. SumOf(f, S \cup {x}) = f[x] + SumOf(f, (S \cup {x}) \ {x})
  BY <1>1, SumTake
<1>4. SumOf(f, S \cup {x}) = f[x] + SumOf(f, S)
  BY <1>2, <1>3, Zenon
<1>5. SumOf(f, S) \in Int
  BY SumInt
<1> QED
  BY <1>4, <1>5

\* Only what is added counts.
LEMMA SumSame ==
  ASSUME NEW f, NEW e, NEW S, IsFiniteSet(S), \A x \in S : f[x] = e[x]
  PROVE  SumOf(f, S) = SumOf(e, S)
<1>1. PICK g : Sums(f, g, S) /\ \A s \in SUBSET S : g[s] = SumOf(f, s)
  BY SumsOf
<1>2. g[S] = SumOf(e, S)
  BY <1>1, SumIs
<1> QED
  BY <1>1, <1>2

\* The sums of two parts make that of the whole.
LEMMA SumUnion ==
  ASSUME NEW f, NEW S, IsFiniteSet(S), \A x \in S : f[x] \in Int,
         NEW T, IsFiniteSet(T), \A x \in T : f[x] \in Int, S \cap T = {}
  PROVE  SumOf(f, S \cup T) = SumOf(f, S) + SumOf(f, T)
<1> DEFINE B == {t \in SUBSET T : SumOf(f, S \cup t) # SumOf(f, S) + SumOf(f, t)}
<1>1. CASE T \notin B
  BY <1>1
<1>2. CASE T \in B
  <2>1. PICK t \in B : \A u \in B : u \subseteq t => u = t
    <3>1. B \in SUBSET SUBSET T /\ B # {}
      BY <1>2
    <3> HIDE DEF B
    <3> QED
      BY <3>1, Smallest
  <2>2. SumOf(f, S) \in Int
    BY SumInt
  <2>3. t # {}
    BY <2>2, SumEmpty
  <2>4. PICK x : x \in t
    BY <2>3
  <2> DEFINE u == t \ {x}
  <2>5. IsFiniteSet(u) /\ IsFiniteSet(t) /\ IsFiniteSet(S \cup t)
    BY FS_Subset, FS_Union
  <2>6. SumOf(f, S \cup u) = SumOf(f, S) + SumOf(f, u)
    <3>1. u \notin B
      <4> HIDE DEF B
      <4> QED BY <2>1, <2>4
    <3> QED BY <3>1
  <2>7. SumOf(f, t) = f[x] + SumOf(f, u)
    BY <2>4, <2>5, SumTake
  <2>8. SumOf(f, S \cup t) = f[x] + SumOf(f, S \cup u)
    <3>1. (S \cup t) \ {x} = S \cup u
      BY <2>4
    <3>2. x \in S \cup t /\ \A y \in S \cup t : f[y] \in Int
      BY <2>4
    <3> QED
      BY <2>5, <3>1, <3>2, SumTake
  <2>9. f[x] \in Int /\ SumOf(f, u) \in Int
    BY <2>4, <2>5, SumInt
  <2> HIDE DEF u
  <2> QED
    BY <2>2, <2>6, <2>7, <2>8, <2>9
<1> QED
  BY <1>1, <1>2

\* More is added, more is the sum.
LEMMA SumLeq ==
  ASSUME NEW f, NEW e, NEW S, IsFiniteSet(S),
         \A x \in S : f[x] \in Int /\ e[x] \in Int /\ f[x] <= e[x]
  PROVE  SumOf(f, S) <= SumOf(e, S)
<1> DEFINE B == {s \in SUBSET S : ~(SumOf(f, s) <= SumOf(e, s))}
<1>1. CASE S \notin B
  BY <1>1
<1>2. CASE S \in B
  <2>1. PICK s \in B : \A t \in B : t \subseteq s => t = s
    <3>1. B \in SUBSET SUBSET S /\ B # {}
      BY <1>2
    <3> HIDE DEF B
    <3> QED
      BY <3>1, Smallest
  <2>2. s # {}
    BY SumEmpty
  <2>3. PICK x : x \in s
    BY <2>2
  <2> DEFINE u == s \ {x}
  <2>4. IsFiniteSet(u) /\ IsFiniteSet(s)
    BY FS_Subset
  <2>5. SumOf(f, u) <= SumOf(e, u)
    <3>1. u \notin B
      <4> HIDE DEF B
      <4> QED BY <2>1, <2>3
    <3> QED BY <3>1
  <2>6. SumOf(f, s) = f[x] + SumOf(f, u) /\ SumOf(e, s) = e[x] + SumOf(e, u)
    BY <2>3, <2>4, SumTake
  <2>7. SumOf(f, u) \in Int /\ SumOf(e, u) \in Int
    BY <2>4, SumInt
  <2>8. f[x] \in Int /\ e[x] \in Int /\ f[x] <= e[x]
    BY <2>3
  <2> HIDE DEF u
  <2> QED
    BY <2>5, <2>6, <2>7, <2>8
<1> QED
  BY <1>1, <1>2

LEMMA SumZero ==
  ASSUME NEW f, NEW S, IsFiniteSet(S), \A x \in S : f[x] = 0
  PROVE  SumOf(f, S) = 0
<1> DEFINE B == {s \in SUBSET S : SumOf(f, s) # 0}
<1>1. CASE S \notin B
  BY <1>1
<1>2. CASE S \in B
  <2>1. PICK s \in B : \A t \in B : t \subseteq s => t = s
    <3>1. B \in SUBSET SUBSET S /\ B # {}
      BY <1>2
    <3> HIDE DEF B
    <3> QED
      BY <3>1, Smallest
  <2>2. s # {}
    BY SumEmpty
  <2>3. OneOf(s) \in s /\ OneOf(s) \in S /\ IsFiniteSet(s)
    BY <2>2, OneIsIn, FS_Subset
  <2>4. s \ {OneOf(s)} \notin B
    BY <2>1, <2>3
  <2>5. SumOf(f, s \ {OneOf(s)}) = 0 /\ f[OneOf(s)] = 0
    BY <2>3, <2>4
  <2> QED
    BY <2>2, <2>3, <2>5, SumEquation
<1> QED
  BY <1>1, <1>2

\* A part of what is not negative is no more than the whole.
LEMMA SumOfPart ==
  ASSUME NEW f, NEW S, IsFiniteSet(S), \A x \in S : f[x] \in Int /\ f[x] >= 0,
         NEW T \in SUBSET S
  PROVE  SumOf(f, T) <= SumOf(f, S) /\ SumOf(f, T) >= 0
<1> DEFINE zero == [x \in S |-> 0]
<1>1. IsFiniteSet(T) /\ IsFiniteSet(S \ T)
  BY FS_Subset
<1>2. SumOf(zero, S \ T) = 0 /\ SumOf(zero, T) = 0
  BY <1>1, SumZero
<1>3. SumOf(zero, S \ T) <= SumOf(f, S \ T) /\ SumOf(zero, T) <= SumOf(f, T)
  <2>1. \A x \in S : zero[x] \in Int /\ f[x] \in Int /\ zero[x] <= f[x]
    OBVIOUS
  <2> HIDE DEF zero
  <2> QED
    BY <1>1, <2>1, SumLeq
<1>4. SumOf(f, T \cup (S \ T)) = SumOf(f, T) + SumOf(f, S \ T)
  BY <1>1, SumUnion
<1>5. T \cup (S \ T) = S
  OBVIOUS
<1>6. SumOf(f, S) = SumOf(f, T) + SumOf(f, S \ T)
  BY <1>4, <1>5, Zenon
<1>7. SumOf(f, T) \in Int /\ SumOf(f, S \ T) \in Int
  BY <1>1, SumInt
<1> HIDE DEF zero
<1> QED
  BY <1>2, <1>3, <1>6, <1>7

\* The sum of a sum of two functions.
LEMMA SumPlus ==
  ASSUME NEW f, NEW e, NEW g, NEW S, IsFiniteSet(S),
         \A x \in S : f[x] \in Int /\ e[x] \in Int /\ g[x] = f[x] + e[x]
  PROVE  SumOf(g, S) = SumOf(f, S) + SumOf(e, S)
<1> DEFINE B == {s \in SUBSET S : SumOf(g, s) # SumOf(f, s) + SumOf(e, s)}
<1>1. CASE S \notin B
  BY <1>1
<1>2. CASE S \in B
  <2>1. PICK s \in B : \A t \in B : t \subseteq s => t = s
    <3>1. B \in SUBSET SUBSET S /\ B # {}
      BY <1>2
    <3> HIDE DEF B
    <3> QED
      BY <3>1, Smallest
  <2>2. s # {}
    <3>1. SumOf(f, {}) = 0 /\ SumOf(e, {}) = 0 /\ SumOf(g, {}) = 0
      BY SumEmpty
    <3>2. SumOf(g, s) # SumOf(f, s) + SumOf(e, s)
      OBVIOUS
    <3> HIDE DEF B
    <3> QED
      BY <3>1, <3>2
  <2>3. PICK x : x \in s
    BY <2>2
  <2> DEFINE u == s \ {x}
  <2>4. IsFiniteSet(u) /\ IsFiniteSet(s)
    BY FS_Subset
  <2>5. SumOf(g, u) = SumOf(f, u) + SumOf(e, u)
    <3>1. u \notin B
      <4> HIDE DEF B
      <4> QED BY <2>1, <2>3
    <3> QED BY <3>1
  <2>6. \A y \in s : f[y] \in Int /\ e[y] \in Int /\ g[y] \in Int
    OBVIOUS
  <2>7. /\ SumOf(f, s) = f[x] + SumOf(f, u) /\ SumOf(e, s) = e[x] + SumOf(e, u)
        /\ SumOf(g, s) = g[x] + SumOf(g, u)
    BY <2>3, <2>4, <2>6, SumTake
  <2>8. SumOf(f, u) \in Int /\ SumOf(e, u) \in Int
    BY <2>4, SumInt
  <2>9. f[x] \in Int /\ e[x] \in Int /\ g[x] = f[x] + e[x]
    BY <2>3
  <2> HIDE DEF u
  <2> QED
    BY <2>5, <2>7, <2>8, <2>9
<1> QED
  BY <1>1, <1>2

\* A set that is cut into parts, and the sums of the parts.
LEMMA SumByParts ==
  ASSUME NEW f, NEW S, IsFiniteSet(S), \A x \in S : f[x] \in Int,
         NEW M, IsFiniteSet(M), NEW P, \A m \in M : P[m] \in SUBSET S,
         \A m, n \in M : m # n => P[m] \cap P[n] = {},
         NEW g, \A m \in M : g[m] = SumOf(f, P[m])
  PROVE  SumOf(g, M) = SumOf(f, UNION {P[m] : m \in M})
<1> DEFINE All(s) == UNION {P[m] : m \in s}
           B == {s \in SUBSET M : SumOf(g, s) # SumOf(f, All(s))}
<1>1. CASE M \notin B
  BY <1>1
<1>2. CASE M \in B
  <2>1. PICK s \in B : \A t \in B : t \subseteq s => t = s
    <3>1. B \in SUBSET SUBSET M /\ B # {}
      BY <1>2
    <3> HIDE DEF B
    <3> QED
      BY <3>1, Smallest
  <2>2. s # {}
    <3>1. All({}) = {}
      OBVIOUS
    <3>2. SumOf(f, All({})) = SumOf(f, {})
      BY <3>1, Zenon
    <3> QED
      BY <3>2, SumEmpty
  <2>3. PICK x : x \in s
    BY <2>2
  <2> DEFINE u == s \ {x}
  <2>4. IsFiniteSet(u) /\ IsFiniteSet(s) /\ x \in M /\ s \subseteq M
    BY <2>3, FS_Subset
  <2>5. SumOf(g, u) = SumOf(f, All(u))
    <3>1. u \notin B
      <4> HIDE DEF B
      <4> QED BY <2>1, <2>3
    <3> QED BY <3>1
  <2>6. \A m \in M : IsFiniteSet(P[m]) /\ g[m] \in Int
    <3> SUFFICES ASSUME NEW m \in M PROVE IsFiniteSet(P[m]) /\ g[m] \in Int
      OBVIOUS
    <3>1. IsFiniteSet(P[m]) /\ \A y \in P[m] : f[y] \in Int
      BY FS_Subset
    <3> QED
      BY <3>1, SumInt
  <2>7. SumOf(g, s) = g[x] + SumOf(g, u) /\ SumOf(g, u) \in Int
    <3>1. \A m \in s : g[m] \in Int
      BY <2>4, <2>6
    <3>2. SumOf(g, s) = g[x] + SumOf(g, u)
      BY <2>3, <2>4, <3>1, SumTake
    <3>3. SumOf(g, u) \in Int
      BY <2>4, <3>1, SumInt
    <3> QED
      BY <3>2, <3>3
  <2>8. All(u) \in SUBSET S /\ P[x] \in SUBSET S /\ All(u) \cap P[x] = {}
    BY <2>3, <2>4
  <2>9. All(s) = All(u) \cup P[x]
    BY <2>3
  <2>10. SumOf(f, All(s)) = SumOf(f, All(u)) + SumOf(f, P[x])
    <3>1. IsFiniteSet(All(u)) /\ IsFiniteSet(P[x])
      BY <2>8, FS_Subset
    <3> HIDE DEF All, u
    <3>2. SumOf(f, All(u) \cup P[x]) = SumOf(f, All(u)) + SumOf(f, P[x])
      BY <2>8, <3>1, SumUnion
    <3> QED
      BY <2>9, <3>2, Zenon
  <2>11. SumOf(g, s) # SumOf(f, All(s))
    OBVIOUS
  <2>12. g[x] = SumOf(f, P[x]) /\ g[x] \in Int
    BY <2>4, <2>6
  <2> HIDE DEF All, u, B
  <2> QED
    BY <2>5, <2>7, <2>10, <2>11, <2>12
<1> QED
  BY <1>1, <1>2

LEMMA SumOfOne ==
  ASSUME NEW f, NEW x, f[x] \in Int
  PROVE  SumOf(f, {x}) = f[x]
<1>1. SumOf(f, {} \cup {x}) = SumOf(f, {}) + f[x]
  BY FS_EmptySet, SumAdd
<1>2. {} \cup {x} = {x}
  OBVIOUS
<1>3. SumOf(f, {x}) = SumOf(f, {}) + f[x]
  BY <1>1, <1>2, Zenon
<1> QED
  BY <1>3, SumEmpty

-----------------------------------------------------------------------------
(* The ledger of recurring revenue *)

Ids == Event \cup Manual

\* Ledgers, their rows and what these add to a sum.
Ledgers == [Ids -> Row \cup {NoRow}]
Deltas(l) == [r \in Ids |-> l[r].delta]
RowsIn(l) == {r \in Ids : l[r] # NoRow}
CustomerRows(l, c) == {r \in RowsIn(l) : CustomerOf[l[r].sub] = c}
ProviderRows(l, s) == {r \in RowsIn(l) : l[r].source = "stripe" /\ l[r].sub = s}
CustomerSum(l, c) == SumOf(Deltas(l), CustomerRows(l, c))
ProviderSum(l, s) == SumOf(Deltas(l), ProviderRows(l, s))

\* The fold of the module is the sum of these lemmas.
LEMMA FoldOfDeltas ==
  ASSUME NEW l, NEW rows \in SUBSET Ids, IsFiniteSet(rows)
  PROVE  MapThenSumSet(LAMBDA r : l[r].delta, rows) = SumOf(Deltas(l), rows)
<1> DEFINE g == CHOOSE h : h = [s \in SUBSET rows |->
                  IF s = {} THEN 0 ELSE l[OneOf(s)].delta + h[s \ {OneOf(s)}]]
<1>1. MapThenSumSet(LAMBDA r : l[r].delta, rows) = g[rows]
  BY DEF MapThenSumSet, MapThenFoldSet, OneOf
<1>2. ASSUME NEW h
      PROVE  [s \in SUBSET rows |-> IF s = {} THEN 0 ELSE Deltas(l)[OneOf(s)] + h[s \ {OneOf(s)}]]
             = [s \in SUBSET rows |-> IF s = {} THEN 0 ELSE l[OneOf(s)].delta + h[s \ {OneOf(s)}]]
  <2>1. ASSUME NEW s \in SUBSET rows, s # {} PROVE Deltas(l)[OneOf(s)] = l[OneOf(s)].delta
    BY <2>1, OneIsIn DEF Deltas
  <2> QED
    BY <2>1
<1>3. PICK h : Sums(Deltas(l), h, rows)
  BY SumsExist
<1>4. h = [s \in SUBSET rows |-> IF s = {} THEN 0 ELSE l[OneOf(s)].delta + h[s \ {OneOf(s)}]]
  BY <1>2, <1>3 DEF Sums
<1>5. g = [s \in SUBSET rows |-> IF s = {} THEN 0 ELSE l[OneOf(s)].delta + g[s \ {OneOf(s)}]]
  BY <1>4
<1> HIDE DEF g
<1>6. Sums(Deltas(l), g, rows)
  BY <1>2, <1>5 DEF Sums
<1>7. g[rows] = SumOf(Deltas(l), rows)
  BY <1>6, SumIs
<1> QED
  BY <1>1, <1>7

LEMMA LedgerSums ==
  ASSUME IsFiniteSet(RowsIn(ledger))
  PROVE  /\ \A c : CustomerMrr(c) = CustomerSum(ledger, c)
         /\ \A s : ProviderMrr(s) = ProviderSum(ledger, s)
<1>1. ASSUME NEW c PROVE CustomerMrr(c) = CustomerSum(ledger, c)
  <2>1. IsFiniteSet(CustomerRows(ledger, c)) /\ CustomerRows(ledger, c) \in SUBSET Ids
    BY FS_Subset DEF CustomerRows, RowsIn
  <2>2. CustomerMrr(c) = MapThenSumSet(LAMBDA r : ledger[r].delta, CustomerRows(ledger, c))
    BY DEF CustomerMrr, RowsOf, Rows, Total, CustomerRows, RowsIn, Ids
  <2> QED
    BY <2>1, <2>2, FoldOfDeltas DEF CustomerSum
<1>2. ASSUME NEW s PROVE ProviderMrr(s) = ProviderSum(ledger, s)
  <2>1. IsFiniteSet(ProviderRows(ledger, s)) /\ ProviderRows(ledger, s) \in SUBSET Ids
    BY FS_Subset DEF ProviderRows, RowsIn
  <2>2. ProviderMrr(s) = MapThenSumSet(LAMBDA r : ledger[r].delta, ProviderRows(ledger, s))
    BY DEF ProviderMrr, Rows, Total, ProviderRows, RowsIn, Ids
  <2> QED
    BY <2>1, <2>2, FoldOfDeltas DEF ProviderSum
<1> QED
  BY <1>1, <1>2

LEMMA SumsOfLedger ==
  ASSUME NEW l \in Ledgers, IsFiniteSet(RowsIn(l)), NEW rows \in SUBSET RowsIn(l)
  PROVE  /\ IsFiniteSet(rows) /\ \A r \in rows : Deltas(l)[r] \in Int
         /\ SumOf(Deltas(l), rows) \in Int
<1>1. IsFiniteSet(rows)
  BY FS_Subset
<1>2. \A r \in rows : Deltas(l)[r] \in Int
  BY RowAssumption DEF Ledgers, RowsIn, Deltas, Row
<1> QED
  BY <1>1, <1>2, SumInt

\* A row that is inserted adds its change to the sums it belongs to.
LEMMA RowJoinsSum ==
  ASSUME NEW l \in Ledgers, IsFiniteSet(RowsIn(l)),
         NEW m \in Ledgers, NEW r \in Ids, l[r] = NoRow,
         \A q \in Ids \ {r} : m[q] = l[q],
         NEW rows \in SUBSET RowsIn(l), m[r].delta \in Int
  PROVE  /\ SumOf(Deltas(m), rows) = SumOf(Deltas(l), rows)
         /\ SumOf(Deltas(m), rows \cup {r}) = SumOf(Deltas(l), rows) + m[r].delta
<1>1. IsFiniteSet(rows) /\ r \notin rows /\ \A q \in rows : Deltas(l)[q] \in Int
  BY SumsOfLedger DEF RowsIn
<1>2. \A q \in rows : Deltas(m)[q] = Deltas(l)[q]
  BY <1>1 DEF Deltas, RowsIn
<1>3. SumOf(Deltas(m), rows) = SumOf(Deltas(l), rows)
  BY <1>1, <1>2, SumSame
<1>4. Deltas(m)[r] = m[r].delta
  BY DEF Deltas
<1>5. SumOf(Deltas(m), rows \cup {r}) = SumOf(Deltas(m), rows) + Deltas(m)[r]
  BY <1>1, <1>2, <1>4, SumAdd
<1> QED
  BY <1>3, <1>4, <1>5

LEMMA RowJoins ==
  ASSUME NEW l \in Ledgers, IsFiniteSet(RowsIn(l)),
         NEW r \in Ids, l[r] = NoRow, NEW row \in Row,
         NEW m \in Ledgers, m[r] = row, \A q \in Ids \ {r} : m[q] = l[q]
  PROVE  /\ IsFiniteSet(RowsIn(m)) /\ RowsIn(m) = RowsIn(l) \cup {r}
         /\ \A c : CustomerRows(m, c) = IF CustomerOf[row.sub] = c THEN CustomerRows(l, c) \cup {r}
                                        ELSE CustomerRows(l, c)
         /\ \A c : CustomerOf[row.sub] # c => CustomerSum(m, c) = CustomerSum(l, c)
         /\ \A s : IF row.source = "stripe" /\ row.sub = s
                   THEN ProviderSum(m, s) = ProviderSum(l, s) + row.delta
                   ELSE ProviderSum(m, s) = ProviderSum(l, s)
<1>1. m[r].delta \in Int /\ m[r].delta = row.delta
  BY DEF Row
<1>2. m[r] = row /\ row # NoRow
  BY RowAssumption
<1>3. RowsIn(m) = RowsIn(l) \cup {r}
  BY <1>2 DEF RowsIn
<1>4. IsFiniteSet(RowsIn(m))
  BY <1>3, FS_AddElement
<1>5. ASSUME NEW c
      PROVE  CustomerRows(m, c) = IF CustomerOf[row.sub] = c THEN CustomerRows(l, c) \cup {r}
                                  ELSE CustomerRows(l, c)
  BY <1>2 DEF CustomerRows, RowsIn
<1>6. ASSUME NEW rows \in SUBSET RowsIn(l)
      PROVE  /\ SumOf(Deltas(m), rows) = SumOf(Deltas(l), rows)
             /\ SumOf(Deltas(m), rows \cup {r}) = SumOf(Deltas(l), rows) + row.delta
  <2>1. /\ SumOf(Deltas(m), rows) = SumOf(Deltas(l), rows)
        /\ SumOf(Deltas(m), rows \cup {r}) = SumOf(Deltas(l), rows) + m[r].delta
    BY <1>1, RowJoinsSum
  <2> QED
    BY <1>1, <2>1
<1>7. ASSUME NEW c, CustomerOf[row.sub] # c PROVE CustomerSum(m, c) = CustomerSum(l, c)
  <2>1. CustomerRows(m, c) = CustomerRows(l, c) /\ CustomerRows(l, c) \in SUBSET RowsIn(l)
    BY <1>5, <1>7 DEF CustomerRows
  <2> QED
    BY <1>6, <2>1 DEF CustomerSum
<1>8. ASSUME NEW s
      PROVE  IF row.source = "stripe" /\ row.sub = s
             THEN ProviderSum(m, s) = ProviderSum(l, s) + row.delta
             ELSE ProviderSum(m, s) = ProviderSum(l, s)
  <2>1. ProviderRows(m, s) = IF row.source = "stripe" /\ row.sub = s
                             THEN ProviderRows(l, s) \cup {r} ELSE ProviderRows(l, s)
    BY <1>2 DEF ProviderRows, RowsIn
  <2>2. ProviderRows(l, s) \in SUBSET RowsIn(l)
    BY DEF ProviderRows
  <2>3. /\ SumOf(Deltas(m), ProviderRows(l, s)) = ProviderSum(l, s)
        /\ SumOf(Deltas(m), ProviderRows(l, s) \cup {r}) = ProviderSum(l, s) + row.delta
    BY <1>6, <2>2 DEF ProviderSum
  <2> QED
    BY <2>1, <2>3 DEF ProviderSum
<1> QED
  BY <1>3, <1>4, <1>5, <1>7, <1>8

(***************************************************************************)
(* What a call may rely on: an id is of one subscription, whichever call   *)
(* applies it, and what a call has read of a customer holds as long as no  *)
(* other call is about the same customer.                                  *)
(***************************************************************************)
IsOnItsRow(k) ==
  /\ entry[k] \in Message /\ on[k] \in Ids
  /\ on[k] \in Event => entry[k].kind \notin ByHand /\ says[on[k]] = entry[k]
  /\ on[k] \in Manual => entry[k].kind \in ByHand
  /\ ledger[on[k]] # NoRow => ledger[on[k]].sub = entry[k].sub

KnowsTheSum(k) ==
  /\ phase[k] = "reading" => entry[k].kind \in {"upsert", "canceled", "manual_changed", "manual_canceled_all"}
  /\ CustomerOn(k) \notin overlapped =>
       /\ phase[k] = "inserting" /\ entry[k].kind \in {"upsert", "canceled"} =>
            sum[k] = ProviderSum(ledger, entry[k].sub)
       /\ phase[k] = "writing" => sum[k] = CustomerSum(ledger, CustomerOn(k))

CallsAreSound == \A k \in Call : phase[k] # "idle" => IsOnItsRow(k) /\ KnowsTheSum(k)

\* Two calls that are going are about two customers, or were seen to overlap;
\* and an entry made by hand is of one call.
CallsAreApart ==
  \A j, k \in Call : j # k /\ phase[j] # "idle" /\ phase[k] # "idle" =>
    /\ CustomerOn(j) = CustomerOn(k) => CustomerOn(k) \in overlapped
    /\ on[j] = on[k] => on[k] \in Event

EventsHaveRows ==
  \A e \in Event : ledger[e] # NoRow => says[e] \in Message /\ ledger[e].sub = says[e].sub

RowsFollow ==
  \A s \in Subscription :
    CustomerOf[s] \notin overlapped => ProviderSum(ledger, s) = followed[s]

CustomersFollow ==
  \A c \in Customer : c \notin overlapped /\ CustomerRows(ledger, c) \subseteq answered =>
    /\ mrr[c] = CustomerSum(ledger, c)
    /\ c \in churned => CustomerSum(ledger, c) <= 0

RevenueInv ==
  /\ TypeOK /\ ledger \in Ledgers /\ IsFiniteSet(RowsIn(ledger))
  /\ CallsAreSound /\ CallsAreApart /\ EventsHaveRows
  /\ RowsFollow /\ CustomersFollow

LEMMA RevenueStarts == ASSUME Init PROVE RevenueInv
<1>0. NoMessage \notin Message
  BY DEF NoMessage, Message, Kind
<1>1. TypeOK
  BY RevenueAssumption DEF Init, TypeOK, Phase
<1>2. ledger \in Ledgers
  BY <1>1 DEF TypeOK, Ledgers, Ids
<1>3. RowsIn(ledger) = {}
  BY DEF Init, RowsIn, Ids
<1>4. IsFiniteSet(RowsIn(ledger))
  BY <1>3, FS_EmptySet
<1>5. \A s : ProviderSum(ledger, s) = 0
  <2>1. \A s : ProviderRows(ledger, s) = {}
    BY <1>3 DEF ProviderRows
  <2> QED
    BY <2>1, SumEmpty DEF ProviderSum
<1>6. \A c : CustomerSum(ledger, c) = 0
  <2>1. \A c : CustomerRows(ledger, c) = {}
    BY <1>3 DEF CustomerRows
  <2> QED
    BY <2>1, SumEmpty DEF CustomerSum
<1>7. RowsFollow /\ CustomersFollow
  BY <1>5, <1>6 DEF Init, RowsFollow, CustomersFollow
<1>8. CallsAreSound /\ CallsAreApart /\ EventsHaveRows
  BY DEF Init, CallsAreSound, CallsAreApart, EventsHaveRows, Ids
<1> QED
  BY <1>1, <1>2, <1>4, <1>7, <1>8 DEF RevenueInv

\* A call begins: with an event that says what it has said before, or with an
\* entry that no other call is about.
LEMMA BeginStep ==
  ASSUME RevenueInv, NEW k \in Call, NEW r \in Ids, NEW m \in Message, Begin(k, r, m),
         says' \in [Event -> Message \cup {NoMessage}],
         \A e \in Event : says[e] \in Message => says'[e] = says[e],
         r \in Event => says'[r] = m /\ m.kind \notin ByHand
                        /\ (ledger[r] # NoRow => says[r] \in Message),
         r \in Manual => m.kind \in ByHand /\ ledger[r] = NoRow /\ \A j \in Call : on[j] # r
  PROVE  RevenueInv'
<1>1. /\ phase[k] = "idle" /\ on' = [on EXCEPT ![k] = r] /\ entry' = [entry EXCEPT ![k] = m]
      /\ phase' = [phase EXCEPT ![k] =
                     IF m.kind \in {"charge", "manual_started", "manual_canceled"}
                     THEN "inserting" ELSE "reading"]
      /\ UNCHANGED <<sum, mrr, churned, ledger, answered, followed>>
  BY DEF Begin, customerVars
<1>2. /\ overlapped' \subseteq Customer /\ overlapped \subseteq overlapped'
      /\ \A j \in Call : phase[j] # "idle" /\ CustomerOn(j) = CustomerOf[m.sub]
                           => CustomerOf[m.sub] \in overlapped'
  BY RevenueAssumption DEF Begin, RevenueInv, TypeOK, Message
<1>3. /\ phase'[k] \in {"inserting", "reading"} /\ on'[k] = r /\ entry'[k] = m
      /\ phase'[k] = "inserting" => m.kind \in {"charge", "manual_started", "manual_canceled"}
      /\ phase'[k] = "reading" => m.kind \notin {"charge", "manual_started", "manual_canceled"}
      /\ \A j \in Call \ {k} : phase'[j] = phase[j] /\ on'[j] = on[j] /\ entry'[j] = entry[j]
  BY <1>1 DEF RevenueInv, TypeOK
<1>4. TypeOK'
  BY <1>1, <1>2 DEF RevenueInv, TypeOK, Phase, Ids
<1>5. m.kind \in Kind
  BY DEF Message
<1>6. ASSUME NEW j \in Call, phase'[j] # "idle" PROVE IsOnItsRow(j)' /\ KnowsTheSum(j)'
  <2>1. CASE j = k
    <3>1. ledger[r] # NoRow => ledger[r].sub = m.sub
      BY DEF RevenueInv, EventsHaveRows, Ids
    <3>2. IsOnItsRow(k)'
      BY <1>1, <1>3, <3>1 DEF IsOnItsRow, Ids, RevenueInv
    <3>3. KnowsTheSum(k)'
      BY <1>3, <1>5 DEF KnowsTheSum, Kind
    <3> QED
      BY <2>1, <3>2, <3>3
  <2>2. CASE j # k
    <3>1. IsOnItsRow(j) /\ KnowsTheSum(j)
      BY <1>3, <1>6, <2>2 DEF RevenueInv, CallsAreSound
    <3>2. phase'[j] = phase[j] /\ on'[j] = on[j] /\ entry'[j] = entry[j] /\ sum'[j] = sum[j]
      BY <1>1, <1>3, <2>2
    <3>3. IsOnItsRow(j)'
      BY <1>1, <3>1, <3>2 DEF IsOnItsRow
    <3>4. KnowsTheSum(j)'
      BY <1>1, <1>2, <3>1, <3>2 DEF KnowsTheSum, CustomerOn
    <3> QED
      BY <3>3, <3>4
  <2> QED
    BY <2>1, <2>2
<1>7. CallsAreApart'
  <2> SUFFICES ASSUME NEW i \in Call, NEW j \in Call, i # j, phase'[i] # "idle", phase'[j] # "idle"
               PROVE  /\ CustomerOn(i)' = CustomerOn(j)' => CustomerOn(j)' \in overlapped'
                      /\ on'[i] = on'[j] => on'[j] \in Event
    BY DEF CallsAreApart
  <2>1. CASE i # k /\ j # k
    BY <1>2, <1>3, <2>1 DEF RevenueInv, CallsAreApart, CustomerOn
  <2>2. CASE i = k \/ j = k
    <3>1. r \notin Manual => r \in Event
      BY DEF Ids
    <3> QED
      BY <1>2, <1>3, <2>2, <3>1 DEF CustomerOn
  <2> QED
    BY <2>1, <2>2
<1>8. EventsHaveRows'
  BY <1>1 DEF RevenueInv, EventsHaveRows
<1>9. RowsFollow' /\ CustomersFollow'
  BY <1>1, <1>2 DEF RevenueInv, RowsFollow, CustomersFollow
<1>10. (ledger \in Ledgers /\ IsFiniteSet(RowsIn(ledger)))'
  BY <1>1 DEF RevenueInv
<1> QED
  BY <1>4, <1>6, <1>7, <1>8, <1>9, <1>10 DEF RevenueInv, CallsAreSound

LEMMA BeginsStep ==
  ASSUME RevenueInv, NEW k \in Call,
         \/ \E e \in Event, m \in Message : Deliver(k, e, m)
         \/ \E r \in Manual, m \in Message : RecordManual(k, r, m)
  PROVE  RevenueInv'
<1>0. NoMessage \notin Message
  BY DEF NoMessage, Message, Kind
<1>1. ASSUME NEW e \in Event, NEW m \in Message, Deliver(k, e, m) PROVE RevenueInv'
  <2>1. /\ Begin(k, e, m) /\ says' = [says EXCEPT ![e] = m] /\ m.kind \notin ByHand
        /\ says[e] \in {NoMessage, m}
    BY <1>1 DEF Deliver
  <2>2. e \in Ids /\ e \notin Manual
    BY RevenueAssumption DEF Ids
  <2>3. says' \in [Event -> Message \cup {NoMessage}] /\ says'[e] = m
    BY <2>1 DEF RevenueInv, TypeOK
  <2>4. \A d \in Event : says[d] \in Message => says'[d] = says[d]
    BY <1>0, <2>1 DEF RevenueInv, TypeOK
  <2>5. ledger[e] # NoRow => says[e] \in Message
    BY DEF RevenueInv, EventsHaveRows
  <2> QED
    BY <2>1, <2>2, <2>3, <2>4, <2>5, BeginStep
<1>2. ASSUME NEW r \in Manual, NEW m \in Message, RecordManual(k, r, m) PROVE RevenueInv'
  <2>1. /\ Begin(k, r, m) /\ says' = says /\ m.kind \in ByHand
        /\ ledger[r] = NoRow /\ \A j \in Call : on[j] # r
    BY <1>2 DEF RecordManual
  <2>2. r \in Ids /\ r \notin Event
    BY RevenueAssumption DEF Ids
  <2>3. says' \in [Event -> Message \cup {NoMessage}]
    BY <2>1 DEF RevenueInv, TypeOK
  <2> QED
    BY <2>1, <2>2, <2>3, BeginStep
<1> QED
  BY <1>1, <1>2

\* A call that goes on or ends, and inserts nothing, disturbs no other.
LEMMA CallMoves ==
  ASSUME RevenueInv, NEW k \in Call, phase[k] # "idle",
         UNCHANGED <<ledger, says, overlapped>>,
         \A j \in Call \ {k} : /\ phase'[j] = phase[j] /\ on'[j] = on[j]
                               /\ entry'[j] = entry[j] /\ sum'[j] = sum[j],
         phase'[k] = "idle" \/ (on'[k] = on[k] /\ entry'[k] = entry[k] /\ KnowsTheSum(k)'),
         TypeOK', RowsFollow', CustomersFollow'
  PROVE  RevenueInv'
<1>1. ASSUME NEW j \in Call, phase'[j] # "idle" PROVE IsOnItsRow(j)' /\ KnowsTheSum(j)'
  <2>1. CASE j = k
    BY <1>1, <2>1 DEF RevenueInv, CallsAreSound, IsOnItsRow
  <2>2. CASE j # k
    BY <1>1, <2>2 DEF RevenueInv, CallsAreSound, IsOnItsRow, KnowsTheSum, CustomerOn
  <2> QED
    BY <2>1, <2>2
<1>2. CallsAreApart'
  <2>1. ASSUME NEW j \in Call, phase'[j] # "idle"
        PROVE  phase[j] # "idle" /\ on'[j] = on[j] /\ entry'[j] = entry[j]
    BY <2>1
  <2> QED
    BY <2>1 DEF RevenueInv, CallsAreApart, CustomerOn
<1> QED
  BY <1>1, <1>2 DEF RevenueInv, CallsAreSound, EventsHaveRows

LEMMA OverMoves ==
  ASSUME RevenueInv, NEW k \in Call, Over(k)
  PROVE  /\ phase'[k] = "idle"
         /\ \A j \in Call \ {k} : /\ phase'[j] = phase[j] /\ on'[j] = on[j]
                                  /\ entry'[j] = entry[j] /\ sum'[j] = sum[j]
         /\ phase' \in [Call -> Phase] /\ on' \in [Call -> Ids \cup {NoEvent}]
         /\ entry' \in [Call -> Message \cup {NoMessage}] /\ sum' \in [Call -> Int]
BY DEF RevenueInv, TypeOK, Over, Phase, Ids

LEMMA GotoMoves ==
  ASSUME RevenueInv, NEW k \in Call, NEW p \in Phase, Goto(k, p)
  PROVE  /\ phase'[k] = p /\ on' = on /\ entry' = entry
         /\ \A j \in Call \ {k} : phase'[j] = phase[j]
         /\ phase' \in [Call -> Phase]
BY DEF RevenueInv, TypeOK, Goto

\* What the statements read are sums of the ledger.
LEMMA CurrentIs ==
  ASSUME RevenueInv, NEW k \in Call, phase[k] # "idle"
  PROVE  /\ Current(k) \in Int
         /\ entry[k] \in Message /\ on[k] \in Ids /\ CustomerOn(k) \in Customer
         /\ entry[k].kind \notin ByHand => Current(k) = ProviderSum(ledger, entry[k].sub)
         /\ CustomerMrr(CustomerOn(k)) = CustomerSum(ledger, CustomerOn(k))
         /\ CustomerSum(ledger, CustomerOn(k)) \in Int
         /\ Target(entry[k]) \in 0..MaxMrr
<1>1. entry[k] \in Message /\ on[k] \in Ids
  BY DEF RevenueInv, CallsAreSound, IsOnItsRow
<1>2. CustomerOn(k) \in Customer /\ Target(entry[k]) \in 0..MaxMrr
  BY <1>1, RevenueAssumption DEF CustomerOn, Message, Target
<1>3. /\ CustomerMrr(CustomerOn(k)) = CustomerSum(ledger, CustomerOn(k))
      /\ ProviderMrr(entry[k].sub) = ProviderSum(ledger, entry[k].sub)
  BY LedgerSums DEF RevenueInv
<1>4. CustomerSum(ledger, CustomerOn(k)) \in Int /\ ProviderSum(ledger, entry[k].sub) \in Int
  <2>1. /\ CustomerRows(ledger, CustomerOn(k)) \in SUBSET RowsIn(ledger)
        /\ ProviderRows(ledger, entry[k].sub) \in SUBSET RowsIn(ledger)
    BY DEF CustomerRows, ProviderRows
  <2> QED
    BY <2>1, SumsOfLedger DEF RevenueInv, CustomerSum, ProviderSum
<1> QED
  BY <1>1, <1>2, <1>3, <1>4 DEF Current

LEMMA ReadStep ==
  ASSUME RevenueInv, NEW k \in Call, ReadChange(k) \/ ReadNoChange(k)
  PROVE  RevenueInv'
<1>1. phase[k] = "reading" /\ phase[k] # "idle"
  BY DEF ReadChange, ReadNoChange
<1>2. sum' = [sum EXCEPT ![k] = Current(k)] /\ UNCHANGED <<ledger, says, overlapped, mrr, churned, answered>>
  BY DEF ReadChange, ReadNoChange, ledgerVars, customerVars, history
<1>3. Current(k) \in Int /\ entry[k] \in Message
      /\ (entry[k].kind \notin ByHand => Current(k) = ProviderSum(ledger, entry[k].sub))
      /\ Target(entry[k]) \in 0..MaxMrr
  BY <1>1, CurrentIs
<1>4. sum' \in [Call -> Int] /\ sum'[k] = Current(k) /\ \A j \in Call \ {k} : sum'[j] = sum[j]
  BY <1>2, <1>3 DEF RevenueInv, TypeOK
<1>5. CustomersFollow'
  BY <1>2 DEF RevenueInv, CustomersFollow
<1>6. CASE ReadChange(k)
  <2>1. /\ phase'[k] = "inserting" /\ on' = on /\ entry' = entry
        /\ \A j \in Call \ {k} : phase'[j] = phase[j]
        /\ phase' \in [Call -> Phase]
    BY <1>6, GotoMoves DEF ReadChange, Phase
  <2>2. followed' = followed
    BY <1>6 DEF ReadChange, history
  <2>3. KnowsTheSum(k)'
    BY <1>2, <1>3, <1>4, <2>1 DEF KnowsTheSum, ByHand, CustomerOn
  <2>4. TypeOK'
    BY <1>2, <1>4, <2>1, <2>2 DEF RevenueInv, TypeOK
  <2>5. RowsFollow'
    BY <1>2, <2>2 DEF RevenueInv, RowsFollow
  <2> QED
    BY <1>1, <1>2, <1>4, <1>5, <2>1, <2>3, <2>4, <2>5, CallMoves
<1>7. CASE ReadNoChange(k)
  <2>1. /\ phase'[k] = "refreshing" /\ on' = on /\ entry' = entry
        /\ \A j \in Call \ {k} : phase'[j] = phase[j]
        /\ phase' \in [Call -> Phase]
    BY <1>7, GotoMoves DEF ReadNoChange, Phase
  <2>2. followed' = [followed EXCEPT ![entry[k].sub] = Target(entry[k])]
        /\ entry[k].kind \notin ByHand /\ Current(k) = Target(entry[k])
    BY <1>7 DEF ReadNoChange, Follow, ChangesNothing
  <2>3. entry[k].sub \in Subscription
    BY <1>3 DEF Message
  <2>4. KnowsTheSum(k)'
    BY <2>1 DEF KnowsTheSum
  <2>5. followed' \in [Subscription -> 0..MaxMrr]
    BY <1>3, <2>2, <2>3 DEF RevenueInv, TypeOK
  <2>6. TypeOK'
    BY <1>2, <1>4, <2>1, <2>5 DEF RevenueInv, TypeOK
  <2>7. RowsFollow'
    <3> SUFFICES ASSUME NEW s \in Subscription, CustomerOf[s] \notin overlapped'
                 PROVE  ProviderSum(ledger', s) = followed'[s]
      BY DEF RowsFollow
    <3>1. ProviderSum(ledger, s) = followed[s]
      BY <1>2 DEF RevenueInv, RowsFollow
    <3>2. followed'[s] = IF s = entry[k].sub THEN Target(entry[k]) ELSE followed[s]
      BY <2>2 DEF RevenueInv, TypeOK
    <3> QED
      BY <1>2, <1>3, <2>2, <3>1, <3>2
  <2> QED
    BY <1>1, <1>2, <1>4, <1>5, <2>1, <2>4, <2>6, <2>7, CallMoves
<1> QED
  BY <1>6, <1>7

LEMMA RefreshStep ==
  ASSUME RevenueInv, NEW k \in Call, ReadCustomer(k)
  PROVE  RevenueInv'
<1>1. phase[k] = "refreshing" /\ phase[k] # "idle"
  BY DEF ReadCustomer
<1>2. sum' = [sum EXCEPT ![k] = CustomerMrr(CustomerOn(k))]
      /\ UNCHANGED <<ledger, says, overlapped, mrr, churned, answered, followed>>
  BY DEF ReadCustomer, ledgerVars, customerVars, history
<1>3. /\ CustomerMrr(CustomerOn(k)) = CustomerSum(ledger, CustomerOn(k))
      /\ CustomerSum(ledger, CustomerOn(k)) \in Int
  BY <1>1, CurrentIs
<1>4. sum' \in [Call -> Int] /\ sum'[k] = CustomerSum(ledger, CustomerOn(k))
      /\ \A j \in Call \ {k} : sum'[j] = sum[j]
  BY <1>2, <1>3 DEF RevenueInv, TypeOK
<1>5. /\ phase'[k] = "writing" /\ on' = on /\ entry' = entry
      /\ \A j \in Call \ {k} : phase'[j] = phase[j]
      /\ phase' \in [Call -> Phase]
  BY GotoMoves DEF ReadCustomer, Phase
<1>6. KnowsTheSum(k)'
  BY <1>2, <1>4, <1>5 DEF KnowsTheSum, CustomerOn
<1>7. TypeOK'
  BY <1>2, <1>4, <1>5 DEF RevenueInv, TypeOK
<1>8. RowsFollow' /\ CustomersFollow'
  BY <1>2 DEF RevenueInv, RowsFollow, CustomersFollow
<1> QED
  BY <1>1, <1>2, <1>4, <1>5, <1>6, <1>7, <1>8, CallMoves

LEMMA DiesStep ==
  ASSUME RevenueInv, NEW k \in Call, CallDies(k)
  PROVE  RevenueInv'
<1>1. phase[k] # "idle" /\ Over(k)
      /\ UNCHANGED <<ledger, says, overlapped, mrr, churned, answered, followed>>
  BY DEF CallDies, ledgerVars, customerVars, history
<1>2. RowsFollow' /\ CustomersFollow'
  BY <1>1 DEF RevenueInv, RowsFollow, CustomersFollow
<1>3. TypeOK'
  BY <1>1, OverMoves DEF RevenueInv, TypeOK, Ids
<1> QED
  BY <1>1, <1>2, <1>3, OverMoves, CallMoves

\* The UPDATE writes what the customer's rows add up to, unless another call
\* was about the same customer.
LEMMA WriteStep ==
  ASSUME RevenueInv, NEW k \in Call, NEW answers \in BOOLEAN, WriteCustomer(k, answers)
  PROVE  RevenueInv'
<1> DEFINE c == CustomerOn(k)
<1>1. /\ phase[k] = "writing" /\ phase[k] # "idle" /\ Over(k)
      /\ mrr' = [mrr EXCEPT ![c] = sum[k]]
      /\ churned' \subseteq churned \cup {c} /\ churned \subseteq churned' \cup {c}
      /\ sum[k] > 0 => c \notin churned'
      /\ answered' \subseteq answered \cup {on[k]}
      /\ UNCHANGED <<ledger, says, overlapped, followed>>
  BY DEF WriteCustomer, ledgerVars
<1>2. c \in Customer /\ on[k] \in Ids /\ entry[k] \in Message
  BY <1>1, CurrentIs
<1>3. RowsFollow'
  BY <1>1 DEF RevenueInv, RowsFollow
<1>4. sum[k] \in Int
  BY DEF RevenueInv, TypeOK
<1>5. mrr' \in [Customer -> Int] /\ mrr'[c] = sum[k] /\ \A d \in Customer \ {c} : mrr'[d] = mrr[d]
  <2> HIDE DEF c
  <2> QED
    BY <1>1, <1>2, <1>4 DEF RevenueInv, TypeOK
<1>6. TypeOK'
  BY <1>1, <1>2, <1>5, OverMoves DEF RevenueInv, TypeOK, Ids
<1>7. c \notin overlapped => sum[k] = CustomerSum(ledger, c)
  BY <1>1 DEF RevenueInv, CallsAreSound, KnowsTheSum
<1>8. CustomersFollow'
  <2> SUFFICES ASSUME NEW d \in Customer, d \notin overlapped', CustomerRows(ledger', d) \subseteq answered'
               PROVE  /\ mrr'[d] = CustomerSum(ledger', d)
                      /\ d \in churned' => CustomerSum(ledger', d) <= 0
    BY DEF CustomersFollow
  <2>1. CASE d = c
    <3> HIDE DEF c
    <3> QED
      BY <1>1, <1>4, <1>5, <1>7, <2>1
  <2>2. CASE d # c
    <3>1. on[k] \notin CustomerRows(ledger, d)
      <4>1. ledger[on[k]] # NoRow => ledger[on[k]].sub = entry[k].sub
        BY <1>1 DEF RevenueInv, CallsAreSound, IsOnItsRow
      <4> QED
        BY <2>2, <4>1 DEF CustomerRows, RowsIn, CustomerOn
    <3>2. CustomerRows(ledger, d) \subseteq answered
      BY <1>1, <3>1
    <3>3. mrr[d] = CustomerSum(ledger, d) /\ (d \in churned => CustomerSum(ledger, d) <= 0)
      BY <1>1, <3>2 DEF RevenueInv, CustomersFollow
    <3> HIDE DEF c
    <3> QED
      BY <1>1, <1>5, <2>2, <3>3
  <2> QED
    BY <2>1, <2>2
<1> QED
  BY <1>1, <1>3, <1>6, <1>8, OverMoves, CallMoves

LEMMA InsertedRowIs ==
  ASSUME RevenueInv, NEW k \in Call, phase[k] = "inserting"
  PROVE  /\ InsertedRow(k) \in Row /\ InsertedRow(k).sub = entry[k].sub
         /\ InsertedRow(k).source = "stripe" <=> entry[k].kind \notin ByHand
         /\ entry[k].kind = "charge" => InsertedRow(k).delta = 0
         /\ entry[k].kind \in {"upsert", "canceled"} =>
              InsertedRow(k).delta = Target(entry[k]) - sum[k]
         /\ entry[k].sub \in Subscription /\ on[k] \in Ids
         /\ Target(entry[k]) \in 0..MaxMrr /\ sum[k] \in Int
<1>1. phase[k] # "idle"
  OBVIOUS
<1>2. entry[k] \in Message /\ on[k] \in Ids /\ Target(entry[k]) \in 0..MaxMrr
  BY <1>1, CurrentIs
<1>3. sum[k] \in Int /\ Target(entry[k]) \in Int /\ entry[k].mrr \in Int
  BY <1>2, RevenueAssumption DEF RevenueInv, TypeOK, Message
<1>4. entry[k].kind \in Kind /\ entry[k].sub \in Subscription
  BY <1>2 DEF Message
<1>5. TypeOf(entry[k], sum[k]) \in RowType
  BY <1>4 DEF TypeOf, RowType, Kind
<1>6. Delta(entry[k], sum[k]) \in Int
  BY <1>3, <1>4 DEF Delta, Kind
<1>7. InsertedRow(k) \in Row
  BY <1>4, <1>5, <1>6 DEF InsertedRow, Row
<1>8. entry[k].kind = "charge" => Delta(entry[k], sum[k]) = 0
  BY DEF Delta
<1>9. entry[k].kind \in {"upsert", "canceled"} =>
        Delta(entry[k], sum[k]) = Target(entry[k]) - sum[k]
  BY DEF Delta
<1> QED
  BY <1>2, <1>3, <1>4, <1>7, <1>8, <1>9 DEF InsertedRow

\* The row of a call: the sum of its subscription becomes what its event says,
\* and its customer has a row that nobody was answered for.
LEMMA InsertRowStep ==
  ASSUME RevenueInv, NEW k \in Call, Insert(k), ledger[on[k]] = NoRow, InsertRow(k)
  PROVE  RevenueInv'
<1> DEFINE row == InsertedRow(k)
           r == on[k]
           c == CustomerOn(k)
<1>1. phase[k] = "inserting" /\ UNCHANGED <<says, mrr, churned, overlapped, sum>>
  BY DEF Insert, InsertRow, customerVars
<1>2. /\ row \in Row /\ row.sub = entry[k].sub
      /\ row.source = "stripe" <=> entry[k].kind \notin ByHand
      /\ entry[k].kind = "charge" => row.delta = 0
      /\ entry[k].kind \in {"upsert", "canceled"} => row.delta = Target(entry[k]) - sum[k]
      /\ entry[k].sub \in Subscription /\ r \in Ids
      /\ Target(entry[k]) \in 0..MaxMrr /\ sum[k] \in Int
  BY <1>1, InsertedRowIs
<1>3. entry[k] \in Message
  BY <1>1, CurrentIs
<1>4. c = CustomerOf[row.sub] /\ c \in Customer
  BY <1>2, RevenueAssumption DEF CustomerOn
<1>5. ledger' = [ledger EXCEPT ![r] = row] /\ answered' = answered \ {r}
  BY DEF InsertRow
<1> HIDE DEF row, c
<1>6. ledger \in Ledgers /\ IsFiniteSet(RowsIn(ledger))
  BY DEF RevenueInv
<1>7. ledger' \in Ledgers /\ ledger'[r] = row /\ \A q \in Ids \ {r} : ledger'[q] = ledger[q]
  BY <1>2, <1>5, <1>6 DEF Ledgers
<1>8. /\ IsFiniteSet(RowsIn(ledger')) /\ RowsIn(ledger') = RowsIn(ledger) \cup {r}
      /\ \A d : CustomerRows(ledger', d) = IF CustomerOf[row.sub] = d THEN CustomerRows(ledger, d) \cup {r}
                                           ELSE CustomerRows(ledger, d)
      /\ \A d : CustomerOf[row.sub] # d => CustomerSum(ledger', d) = CustomerSum(ledger, d)
      /\ \A s : IF row.source = "stripe" /\ row.sub = s
                THEN ProviderSum(ledger', s) = ProviderSum(ledger, s) + row.delta
                ELSE ProviderSum(ledger', s) = ProviderSum(ledger, s)
  BY <1>2, <1>6, <1>7, RowJoins
<1>9. \A s : ProviderSum(ledger, s) \in Int
  <2>1. \A s : ProviderRows(ledger, s) \in SUBSET RowsIn(ledger)
    BY DEF ProviderRows
  <2> QED
    BY <1>6, <2>1, SumsOfLedger DEF ProviderSum
<1>10. /\ phase'[k] = "refreshing" /\ on' = on /\ entry' = entry
       /\ \A j \in Call \ {k} : phase'[j] = phase[j]
       /\ phase' \in [Call -> Phase]
  BY GotoMoves DEF InsertRow, Phase
<1>11. /\ followed' \in [Subscription -> 0..MaxMrr]
       /\ entry[k].kind \in {"upsert", "canceled"} => followed'[row.sub] = Target(entry[k])
       /\ entry[k].kind \notin {"upsert", "canceled"} => followed' = followed
       /\ \A s \in Subscription : s # row.sub => followed'[s] = followed[s]
  <2>1. IF entry[k].kind \in {"upsert", "canceled"} THEN Follow(k) ELSE UNCHANGED followed
    BY DEF InsertRow
  <2>2. followed \in [Subscription -> 0..MaxMrr]
    BY DEF RevenueInv, TypeOK
  <2>3. CASE entry[k].kind \in {"upsert", "canceled"}
    <3>1. followed' = [followed EXCEPT ![row.sub] = Target(entry[k])]
      BY <1>2, <2>1, <2>3 DEF Follow
    <3> QED
      BY <1>2, <2>2, <2>3, <3>1
  <2>4. CASE entry[k].kind \notin {"upsert", "canceled"}
    BY <2>1, <2>2, <2>4
  <2> QED
    BY <2>3, <2>4
<1>12. TypeOK'
  BY <1>1, <1>5, <1>7, <1>10, <1>11 DEF RevenueInv, TypeOK, Ledgers, Ids
<1>13. \A s \in Subscription : CustomerOf[s] = c =>
         \A j \in Call : j # k /\ phase[j] # "idle" /\ CustomerOn(j) = c => c \in overlapped
  BY <1>1 DEF RevenueInv, CallsAreApart, c
<1>14. ASSUME NEW j \in Call, phase'[j] # "idle" PROVE IsOnItsRow(j)' /\ KnowsTheSum(j)'
  <2>1. phase[j] # "idle" /\ IsOnItsRow(j) /\ KnowsTheSum(j) /\ IsOnItsRow(k)
    BY <1>1, <1>10, <1>14 DEF RevenueInv, CallsAreSound
  <2>2. on[j] = r => entry[j].sub = row.sub
    <3>1. CASE r \in Event
      BY <1>2, <2>1, <3>1 DEF IsOnItsRow
    <3>2. CASE r \in Manual
      <4>1. on[j] = r => j = k
        BY <1>1, <2>1, <3>2, RevenueAssumption DEF RevenueInv, CallsAreApart
      <4> QED
        BY <1>2, <4>1
    <3> QED
      BY <1>2, <3>1, <3>2 DEF Ids
  <2>3. IsOnItsRow(j)'
    <3>1. ledger'[on[j]] # NoRow => ledger'[on[j]].sub = entry[j].sub
      BY <1>7, <2>1, <2>2 DEF IsOnItsRow
    <3> QED
      BY <1>1, <1>10, <2>1, <3>1 DEF IsOnItsRow
  <2>4. KnowsTheSum(j)'
    <3>1. CASE j = k
      BY <1>10, <3>1 DEF KnowsTheSum
    <3>2. CASE j # k
      <4>1. phase'[j] = phase[j] /\ entry'[j] = entry[j] /\ sum'[j] = sum[j]
            /\ CustomerOn(j)' = CustomerOn(j) /\ overlapped' = overlapped
        BY <1>1, <1>10, <3>2 DEF CustomerOn
      <4>2. CustomerOn(j) \notin overlapped => CustomerOn(j) # c
        BY <1>1, <2>1, <3>2 DEF RevenueInv, CallsAreApart, c
      <4>3. CustomerOn(j) \notin overlapped =>
              /\ CustomerSum(ledger', CustomerOn(j)) = CustomerSum(ledger, CustomerOn(j))
              /\ ProviderSum(ledger', entry[j].sub) = ProviderSum(ledger, entry[j].sub)
        <5>1. CustomerOn(j) # c => row.sub # entry[j].sub
          BY <1>4 DEF CustomerOn
        <5> QED
          BY <1>4, <1>8, <4>2, <5>1
      <4> QED
        BY <2>1, <4>1, <4>3 DEF KnowsTheSum
    <3> QED
      BY <3>1, <3>2
  <2> QED
    BY <2>3, <2>4
<1>15. CallsAreApart'
  <2>1. ASSUME NEW j \in Call, phase'[j] # "idle"
        PROVE  phase[j] # "idle" /\ on'[j] = on[j] /\ entry'[j] = entry[j]
    BY <1>1, <1>10, <2>1
  <2> QED
    BY <1>1, <2>1 DEF RevenueInv, CallsAreApart, CustomerOn
<1>16. EventsHaveRows'
  <2> SUFFICES ASSUME NEW e \in Event, ledger'[e] # NoRow
               PROVE  says'[e] \in Message /\ ledger'[e].sub = says'[e].sub
    BY DEF EventsHaveRows
  <2>1. CASE e = r
    <3>1. says[e] = entry[k]
      BY <1>1, <2>1 DEF RevenueInv, CallsAreSound, IsOnItsRow
    <3> QED
      BY <1>1, <1>2, <1>3, <1>7, <2>1, <3>1
  <2>2. CASE e # r
    BY <1>1, <1>7, <2>2 DEF RevenueInv, EventsHaveRows, Ids
  <2> QED
    BY <2>1, <2>2
<1>17. RowsFollow'
  <2> SUFFICES ASSUME NEW s \in Subscription, CustomerOf[s] \notin overlapped'
               PROVE  ProviderSum(ledger', s) = followed'[s]
    BY DEF RowsFollow
  <2>1. ProviderSum(ledger, s) = followed[s] /\ ProviderSum(ledger, s) \in Int
    BY <1>1, <1>9 DEF RevenueInv, RowsFollow
  <2>2. CASE s # row.sub
    BY <1>8, <1>11, <2>1, <2>2
  <2>3. CASE s = row.sub
    <3>1. CASE entry[k].kind \in {"upsert", "canceled"}
      <4>1. row.source = "stripe" /\ row.delta = Target(entry[k]) - sum[k]
        BY <1>2, <3>1 DEF ByHand
      <4>2. sum[k] = ProviderSum(ledger, s)
        <5>1. CustomerOn(k) = CustomerOf[s] /\ entry[k].sub = s
          BY <1>2, <2>3 DEF CustomerOn
        <5> QED
          BY <1>1, <3>1, <5>1 DEF RevenueInv, CallsAreSound, KnowsTheSum
      <4>3. Target(entry[k]) \in Int
        BY <1>2, RevenueAssumption
      <4>4. ProviderSum(ledger', s) = ProviderSum(ledger, s) + row.delta
        BY <1>8, <2>3, <4>1
      <4> QED
        BY <1>2, <1>11, <2>1, <2>3, <3>1, <4>1, <4>2, <4>3, <4>4
    <3>2. CASE entry[k].kind = "charge"
      <4>1. row.delta = 0 /\ followed' = followed
        BY <1>2, <1>11, <3>2
      <4> QED
        BY <1>8, <2>1, <4>1
    <3>3. CASE entry[k].kind \in ByHand
      <4>1. row.source # "stripe" /\ followed' = followed
        BY <1>2, <1>11, <3>3 DEF ByHand
      <4> QED
        BY <1>8, <2>1, <4>1
    <3> QED
      BY <1>3, <3>1, <3>2, <3>3 DEF Message, Kind, ByHand
  <2> QED
    BY <2>2, <2>3
<1>18. CustomersFollow'
  <2> SUFFICES ASSUME NEW d \in Customer, d \notin overlapped', CustomerRows(ledger', d) \subseteq answered'
               PROVE  /\ mrr'[d] = CustomerSum(ledger', d)
                      /\ d \in churned' => CustomerSum(ledger', d) <= 0
    BY DEF CustomersFollow
  <2>1. d # c
    <3>1. d = c => r \in CustomerRows(ledger', d)
      BY <1>4, <1>8
    <3> QED
      BY <1>5, <3>1
  <2>2. /\ CustomerRows(ledger', d) = CustomerRows(ledger, d)
        /\ CustomerSum(ledger', d) = CustomerSum(ledger, d)
    BY <1>4, <1>8, <2>1
  <2>3. CustomerRows(ledger, d) \subseteq answered
    BY <1>5, <2>2
  <2> QED
    BY <1>1, <2>2, <2>3 DEF RevenueInv, CustomersFollow
<1> QED
  BY <1>7, <1>8, <1>12, <1>14, <1>15, <1>16, <1>17, <1>18 DEF RevenueInv, CallsAreSound

LEMMA InsertStep ==
  ASSUME RevenueInv, NEW k \in Call, Insert(k)
  PROVE  RevenueInv'
<1>1. CASE ledger[on[k]] = NoRow /\ InsertRow(k)
  BY <1>1, InsertRowStep
<1>2. CASE ledger[on[k]] # NoRow /\ Goto(k, "refreshing")
           /\ UNCHANGED <<ledger, sum, answered, followed>>
  <2>1. phase[k] = "inserting" /\ phase[k] # "idle"
        /\ UNCHANGED <<ledger, says, overlapped, mrr, churned, answered, followed, sum>>
    BY <1>2 DEF Insert, customerVars
  <2>2. /\ phase'[k] = "refreshing" /\ on' = on /\ entry' = entry
        /\ \A j \in Call \ {k} : phase'[j] = phase[j]
        /\ phase' \in [Call -> Phase]
    BY <1>2, GotoMoves DEF Phase
  <2>3. KnowsTheSum(k)'
    BY <2>2 DEF KnowsTheSum
  <2>4. TypeOK' /\ RowsFollow' /\ CustomersFollow'
    BY <2>1, <2>2 DEF RevenueInv, TypeOK, RowsFollow, CustomersFollow
  <2> QED
    BY <2>1, <2>2, <2>3, <2>4, CallMoves
<1> QED
  BY <1>1, <1>2 DEF Insert

LEMMA RevenueStep ==
  ASSUME RevenueInv, [Next]_vars
  PROVE  RevenueInv'
<1>1. CASE UNCHANGED vars
  <2>1. UNCHANGED <<says, ledger, mrr, churned, phase, on, entry, sum, answered, overlapped, followed>>
    BY <1>1 DEF vars, ledgerVars, customerVars, callVars, history
  <2> QED
    BY <2>1 DEF RevenueInv, TypeOK, CallsAreSound, IsOnItsRow, KnowsTheSum, CustomerOn,
       CallsAreApart, EventsHaveRows, RowsFollow, CustomersFollow
<1>2. ASSUME NEW k \in Call, NEW answers \in BOOLEAN, WriteCustomer(k, answers)
      PROVE  RevenueInv'
  BY <1>2, WriteStep
<1> QED
  BY <1>1, <1>2, BeginsStep, ReadStep, InsertStep, RefreshStep, DiesStep DEF Next

LEMMA RevenueSafe ==
  ASSUME RevenueInv
  PROVE  SumFollowsEvents /\ CustomerAgreesWithLedger
<1>1. /\ \A c : CustomerMrr(c) = CustomerSum(ledger, c)
      /\ \A s : ProviderMrr(s) = ProviderSum(ledger, s)
  BY LedgerSums DEF RevenueInv
<1>2. \A c : RowsOf(c) = CustomerRows(ledger, c)
  BY DEF RowsOf, Rows, CustomerRows, RowsIn, Ids
<1> QED
  BY <1>1, <1>2 DEF RevenueInv, RowsFollow, CustomersFollow, SumFollowsEvents,
     CustomerAgreesWithLedger

-----------------------------------------------------------------------------
(* Every behaviour of the services *)

LEMMA RevenueServed ==
  ASSUME RevenueInv, [ServicesNext]_all
  PROVE  RevenueInv'
<1>1. [Next]_vars
  BY DEF ServicesNext, Rest, all
<1> QED
  BY <1>1, RevenueStep

LEMMA RevenueAlways == ServicesSpec => []RevenueInv
<1>1. ServicesInit => RevenueInv
  BY RevenueStarts DEF ServicesInit
<1> QED
  BY <1>1, RevenueServed, PTL DEF ServicesSpec

\* However many events, subscriptions, customers and calls there are, and
\* however large the amounts: applyVerified leaves the rows of a subscription
\* adding up to what was applied last, after any repetition, reordering or
\* failure of deliveries, unless two calls for its customer overlapped.
THEOREM DifferencesDoNotDrift == ServicesSpec => []SumFollowsEvents
<1>1. RevenueInv => SumFollowsEvents
  BY RevenueSafe
<1> QED
  BY <1>1, RevenueAlways, PTL

\* refreshCustomer keeps the figure and the status of a customer in agreement
\* with the ledger, under the same condition, once each call has been answered.
THEOREM CustomersAreMadeGood == ServicesSpec => []CustomerAgreesWithLedger
<1>1. RevenueInv => CustomerAgreesWithLedger
  BY RevenueSafe
<1> QED
  BY <1>1, RevenueAlways, PTL

-----------------------------------------------------------------------------
(* From a visitor to a lead *)

InTransit == [at : {"idle", "sent", "updating", "inserting", "recording"},
              event : Funn!TrackingEvents, visitor : Visitor \cup {NoOne},
              email : Email \cup {NoOne}, variant : Variants \cup {0}]

\* An event on its way is of somebody who saw a variant, and a signup is of an
\* address that the site has stored, and that has a lead when there is no
\* statement left but the one that records it.
IsOfAVisitor(f) ==
  LET x == forward[f]
  IN x.at # "idle" =>
       /\ x.visitor \in Visitor /\ x.variant \in Variants
       /\ x.at \in {"updating", "inserting"} => x.event = "signup"
       /\ x.event = "signup" =>
            /\ x.email \in Email /\ x.email \in signups
            /\ x.at \in {"updating", "recording"} => leads[x.email] # "none"

\* As long as there was one configuration, what is under way or recorded is of
\* the variant that the visitor's browser keeps.
OneDraw ==
  configs = 1 =>
    /\ config = Variants
    /\ \A f \in Forwarding : forward[f].at # "idle" =>
         forward[f].variant = funnelStored[forward[f].visitor]
    /\ \A t \in tracked : t.variant = funnelStored[t.visitor]

FunnelInv ==
  /\ Funn!TypeOK /\ config # {} /\ forward \in [Forwarding -> InTransit]
  /\ \A f \in Forwarding : IsOfAVisitor(f)
  /\ OneDraw
  /\ Funn!CountedSignupHasLead /\ Funn!UnsubscribedShows

LEMMA FirstIsOffered ==
  ASSUME NEW S \in SUBSET Variants, S # {}
  PROVE  Funn!First(S) \in S
<1>1. S \subseteq Nat
  BY FunnelAssumption
<1> DEFINE less == OpToRel(<, Nat)
<1>2. less = {ss \in Nat \X Nat : ss[1] < ss[2]}
  BY DEF OpToRel
<1>3. PICK x \in S : \A y \in S : ~ (<<y, x>> \in less)
  <2>1. IsWellFoundedOn(less, Nat)
    BY NatLessThanWellFounded
  <2> HIDE DEF less
  <2> QED
    BY <1>1, <2>1, WFMin
<1> HIDE DEF less
<1>4. ASSUME NEW y \in S PROVE x <= y
  <2>1. <<y, x>> \in less <=> y < x
    BY <1>1, <1>2
  <2> QED
    BY <1>1, <1>3, <2>1
<1> QED
  BY <1>4 DEF Funn!First

LEMMA FunnelStarts == ASSUME Funn!Init PROVE FunnelInv
<1> USE FunnelAssumption DEF Funn!Init, Funn!Idle
<1>1. Funn!TypeOK
  BY DEF Funn!TypeOK, Funn!Statuses
<1>2. forward \in [Forwarding -> InTransit]
  BY DEF InTransit, Funn!TrackingEvents
<1> QED
  BY <1>1, <1>2 DEF FunnelInv, IsOfAVisitor, OneDraw, Funn!CountedSignupHasLead,
     Funn!UnsubscribedShows

\* A visit: the visitor keeps the variant there is, or the one that is drawn.
LEMMA VisitStep ==
  ASSUME FunnelInv, NEW f \in Forwarding, NEW v \in Visitor, NEW e \in Email \cup {NoOne},
         NEW event \in Funn!TrackingEvents, event = "signup" => e \in Email /\ e \in signups',
         forward[f].at = "idle", Funn!Draw(v), Funn!Send(f, event, v, e),
         signups' = signups \/ (e \in Email /\ signups' = signups \cup {e}),
         UNCHANGED <<config, configs, leads, suppressed, unsubscribing, unsubscribed, tracked>>
  PROVE  FunnelInv'
<1> DEFINE shown == Funn!Shown(v)
<1>1. PICK x \in config : funnelStored' = [funnelStored EXCEPT ![v] = IF @ = 0 THEN x ELSE @]
  BY DEF Funn!Draw
<1>2. /\ config \subseteq Variants /\ config # {} /\ Funn!TypeOK
      /\ funnelStored \in [Visitor -> Variants \cup {0}]
      /\ forward \in [Forwarding -> InTransit]
  BY DEF FunnelInv, Funn!TypeOK
<1>3. funnelStored' \in [Visitor -> Variants \cup {0}] /\ funnelStored'[v] \in Variants
  BY <1>1, <1>2
<1>4. \A u \in Visitor : funnelStored[u] # 0 => funnelStored'[u] = funnelStored[u]
  BY <1>1, <1>2
<1>5. shown \in Variants /\ (config = Variants => shown = funnelStored'[v])
  BY <1>2, <1>3, FirstIsOffered DEF Funn!Shown
<1> HIDE DEF shown
<1>6. /\ forward' = [forward EXCEPT ![f] = [at |-> "sent", event |-> event, visitor |-> v,
                                            email |-> e, variant |-> shown]]
      /\ forward' \in [Forwarding -> InTransit]
  BY <1>2, <1>5 DEF Funn!Send, InTransit, shown
<1>7. Funn!TypeOK'
  <2>1. \A g \in Forwarding : forward'[g].at \in {"idle", "sent", "updating", "inserting", "recording"}
    BY <1>6 DEF InTransit
  <2> QED
    BY <1>2, <1>3, <2>1 DEF Funn!TypeOK
<1>8. ASSUME NEW g \in Forwarding PROVE IsOfAVisitor(g)'
  BY <1>2, <1>5, <1>6 DEF FunnelInv, IsOfAVisitor
<1>9. OneDraw'
  <2> SUFFICES ASSUME configs = 1 PROVE OneDraw'
    BY DEF OneDraw
  <2>1. config = Variants /\ OneDraw
    BY DEF FunnelInv, OneDraw
  <2>2. ASSUME NEW g \in Forwarding, forward'[g].at # "idle"
        PROVE  forward'[g].variant = funnelStored'[forward'[g].visitor]
    <3>1. CASE g = f
      BY <1>2, <1>5, <1>6, <2>1, <3>1
    <3>2. CASE g # f
      <4>1. forward'[g] = forward[g]
        BY <1>2, <1>6, <3>2
      <4>2. forward[g].visitor \in Visitor /\ forward[g].variant \in Variants
        BY <2>2, <4>1 DEF FunnelInv, IsOfAVisitor
      <4>3. forward[g].variant = funnelStored[forward[g].visitor]
        BY <2>1, <2>2, <4>1 DEF OneDraw
      <4> QED
        BY <1>4, <4>1, <4>2, <4>3, FunnelAssumption
    <3> QED
      BY <3>1, <3>2
  <2>3. ASSUME NEW t \in tracked PROVE t.variant = funnelStored'[t.visitor]
    <3>1. t.visitor \in Visitor /\ t.variant \in Variants
      BY <1>2 DEF Funn!TypeOK
    <3> QED
      BY <1>4, <2>1, <3>1, FunnelAssumption DEF OneDraw
  <2> QED
    BY <2>1, <2>2, <2>3 DEF OneDraw
<1>10. Funn!CountedSignupHasLead' /\ Funn!UnsubscribedShows'
  BY DEF FunnelInv, Funn!CountedSignupHasLead, Funn!UnsubscribedShows
<1> QED
  BY <1>2, <1>6, <1>7, <1>8, <1>9, <1>10 DEF FunnelInv

\* A step of an event's ingestion: the other events stay where they are, and
\* no lead disappears.
LEMMA IngestStep ==
  ASSUME FunnelInv, NEW f \in Forwarding, IsOfAVisitor(f)',
         forward' \in [Forwarding -> InTransit],
         \A g \in Forwarding \ {f} : forward'[g] = forward[g],
         forward'[f].at # "idle" =>
           /\ forward[f].at # "idle"
           /\ forward'[f].variant = forward[f].variant
           /\ forward'[f].visitor = forward[f].visitor,
         leads' \in [Email -> Funn!Statuses],
         \A e \in Email : leads[e] # "none" => leads'[e] = leads[e],
         tracked' \subseteq [event : Funn!TrackingEvents, visitor : Visitor,
                             email : Email \cup {NoOne}, variant : Variants],
         \A t \in tracked' \ tracked :
           /\ forward[f].at # "idle"
           /\ t.variant = forward[f].variant /\ t.visitor = forward[f].visitor
           /\ t.event = "signup" => /\ t.email \in Email /\ leads[t.email] # "none"
                                    /\ t.email \in signups,
         UNCHANGED <<signups, config, funnelStored, configs, suppressed, unsubscribing, unsubscribed>>
  PROVE  FunnelInv'
<1>1. Funn!TypeOK /\ forward \in [Forwarding -> InTransit]
  BY DEF FunnelInv
<1>2. Funn!TypeOK'
  <2>1. \A g \in Forwarding : forward'[g].at \in {"idle", "sent", "updating", "inserting", "recording"}
    BY DEF InTransit
  <2> QED
    BY <1>1, <2>1 DEF Funn!TypeOK
<1>3. ASSUME NEW t \in tracked
      PROVE  t.event = "signup" => t.email \in Email
  BY FunnelAssumption, <1>1 DEF FunnelInv, Funn!CountedSignupHasLead, Funn!TypeOK
<1>4. ASSUME NEW g \in Forwarding PROVE IsOfAVisitor(g)'
  <2>1. CASE g = f
    BY <2>1
  <2>2. CASE g # f
    <3>1. forward'[g] = forward[g] /\ IsOfAVisitor(g)
      BY <2>2 DEF FunnelInv
    <3> QED
      BY <3>1 DEF IsOfAVisitor
  <2> QED
    BY <2>1, <2>2
<1>5. OneDraw'
  <2> SUFFICES ASSUME configs = 1 PROVE OneDraw'
    BY DEF OneDraw
  <2>1. OneDraw
    BY DEF FunnelInv
  <2>2. ASSUME NEW g \in Forwarding, forward'[g].at # "idle"
        PROVE  forward'[g].variant = funnelStored[forward'[g].visitor]
    BY <2>1, <2>2 DEF OneDraw
  <2>3. ASSUME NEW t \in tracked' PROVE t.variant = funnelStored[t.visitor]
    <3>1. CASE t \in tracked
      BY <2>1, <3>1 DEF OneDraw
    <3>2. CASE t \notin tracked
      BY <2>1, <3>2 DEF OneDraw
    <3> QED
      BY <3>1, <3>2
  <2> QED
    BY <2>1, <2>2, <2>3 DEF OneDraw
<1>6. Funn!CountedSignupHasLead'
  <2> SUFFICES ASSUME NEW t \in tracked', t.event = "signup"
               PROVE  leads'[t.email] # "none" /\ t.email \in signups
    BY DEF Funn!CountedSignupHasLead
  <2>1. leads[t.email] # "none" /\ t.email \in signups
    BY DEF FunnelInv, Funn!CountedSignupHasLead
  <2>2. t.email \in Email
    BY <1>1, <2>1 DEF Funn!TypeOK
  <2> QED
    BY <2>1, <2>2
<1>7. Funn!UnsubscribedShows'
  <2> SUFFICES ASSUME NEW e \in unsubscribed PROVE leads'[e] = "unsubscribed"
    BY DEF Funn!UnsubscribedShows
  <2>1. leads[e] = "unsubscribed" /\ e \in Email
    BY <1>1 DEF FunnelInv, Funn!UnsubscribedShows, Funn!TypeOK
  <2> QED
    BY <2>1
<1> QED
  BY <1>2, <1>4, <1>5, <1>6, <1>7 DEF FunnelInv

LEMMA TransitGoes ==
  ASSUME FunnelInv, NEW f \in Forwarding, NEW p \in {"updating", "inserting", "recording"},
         Funn!Goto(f, p)
  PROVE  /\ forward' \in [Forwarding -> InTransit]
         /\ \A g \in Forwarding \ {f} : forward'[g] = forward[g]
         /\ forward'[f] = [forward[f] EXCEPT !.at = p]
         /\ forward'[f].at = p /\ forward'[f].event = forward[f].event
         /\ forward'[f].variant = forward[f].variant /\ forward'[f].visitor = forward[f].visitor
         /\ forward'[f].email = forward[f].email
<1>1. forward \in [Forwarding -> InTransit] /\ forward[f] \in InTransit
  BY DEF FunnelInv
<1>2. forward' = [forward EXCEPT ![f].at = p]
  BY DEF Funn!Goto
<1>3. forward'[f] = [forward[f] EXCEPT !.at = p]
  BY <1>1, <1>2
<1>4. [forward[f] EXCEPT !.at = p] \in InTransit
  BY <1>1 DEF InTransit
<1>5. \A g \in Forwarding \ {f} : forward'[g] = forward[g]
  BY <1>1, <1>2
<1>6. forward' \in [Forwarding -> InTransit]
  BY <1>1, <1>2, <1>3, <1>4, <1>5
<1>7. /\ forward'[f].at = p /\ forward'[f].event = forward[f].event
      /\ forward'[f].variant = forward[f].variant /\ forward'[f].visitor = forward[f].visitor
      /\ forward'[f].email = forward[f].email
  BY <1>1, <1>3 DEF InTransit
<1> QED
  BY <1>3, <1>5, <1>6, <1>7

LEMMA TransitEnds ==
  ASSUME FunnelInv, NEW f \in Forwarding, forward' = [forward EXCEPT ![f] = Funn!Idle]
  PROVE  /\ forward' \in [Forwarding -> InTransit]
         /\ \A g \in Forwarding \ {f} : forward'[g] = forward[g]
         /\ forward'[f].at = "idle" /\ IsOfAVisitor(f)'
<1>1. forward \in [Forwarding -> InTransit] /\ Funn!Idle \in InTransit
  BY DEF FunnelInv, InTransit, Funn!Idle, Funn!TrackingEvents
<1>2. forward'[f] = Funn!Idle
  BY <1>1
<1>3. forward'[f].at = "idle"
  BY <1>2 DEF Funn!Idle
<1> QED
  BY <1>1, <1>3 DEF IsOfAVisitor

LEMMA TransitStep ==
  ASSUME FunnelInv, NEW f \in Forwarding,
         \/ Funn!Ingest(f) \/ Funn!UpdateLead(f) \/ Funn!InsertLead(f)
         \/ Funn!RecordEvent(f) \/ Funn!Lose(f)
  PROVE  FunnelInv'
<1>1. /\ Funn!TypeOK /\ forward \in [Forwarding -> InTransit] /\ forward[f] \in InTransit
      /\ IsOfAVisitor(f) /\ leads \in [Email -> Funn!Statuses]
  BY DEF FunnelInv, Funn!TypeOK
<1>2. UNCHANGED <<signups, config, funnelStored, configs, suppressed, unsubscribing, unsubscribed>>
  BY DEF Funn!Ingest, Funn!UpdateLead, Funn!InsertLead, Funn!RecordEvent, Funn!Lose,
     Funn!siteVars, Funn!leadVars
<1>3. tracked \subseteq [event : Funn!TrackingEvents, visitor : Visitor,
                         email : Email \cup {NoOne}, variant : Variants]
  BY <1>1 DEF Funn!TypeOK
<1>4. CASE Funn!Ingest(f)
  <2>1. forward[f].at = "sent" /\ UNCHANGED <<leads, tracked>>
    BY <1>4 DEF Funn!Ingest, Funn!leadVars
  <2> DEFINE p == IF forward[f].event # "signup" THEN "recording"
                  ELSE IF leads[forward[f].email] = "none" THEN "inserting" ELSE "updating"
  <2>2. p \in {"updating", "inserting", "recording"} /\ Funn!Goto(f, p)
    BY <1>4 DEF Funn!Ingest
  <2>3. p = "updating" => forward[f].event = "signup" /\ leads[forward[f].email] # "none"
    OBVIOUS
  <2>4. p = "inserting" => forward[f].event = "signup"
    OBVIOUS
  <2>5. p = "recording" => forward[f].event # "signup"
    OBVIOUS
  <2> HIDE DEF p
  <2>6. IsOfAVisitor(f)'
    BY <1>1, <1>2, <2>1, <2>2, <2>3, <2>4, <2>5, TransitGoes DEF IsOfAVisitor
  <2> QED
    BY <1>1, <1>2, <1>3, <2>1, <2>2, <2>6, TransitGoes, IngestStep
<1>5. CASE Funn!UpdateLead(f)
  <2>1. forward[f].at = "updating" /\ UNCHANGED <<leads, tracked>> /\ Funn!Goto(f, "recording")
    BY <1>5 DEF Funn!UpdateLead, Funn!leadVars
  <2>2. IsOfAVisitor(f)'
    BY <1>1, <1>2, <2>1, TransitGoes DEF IsOfAVisitor
  <2> QED
    BY <1>1, <1>2, <1>3, <2>1, <2>2, TransitGoes, IngestStep
<1>6. CASE Funn!InsertLead(f)
  <2> DEFINE e == forward[f].email
  <2>1. forward[f].at = "inserting" /\ tracked' = tracked
    BY <1>6 DEF Funn!InsertLead
  <2>2. forward[f].event = "signup" /\ e \in Email /\ e \in signups
    BY <1>1, <2>1 DEF IsOfAVisitor
  <2>3. CASE leads[e] = "none" /\ leads' = [leads EXCEPT ![e] = "open"] /\ Funn!Goto(f, "recording")
    <3>1. /\ leads' \in [Email -> Funn!Statuses] /\ leads'[e] # "none"
          /\ \A a \in Email : leads[a] # "none" => leads'[a] = leads[a]
      BY <1>1, <2>2, <2>3 DEF Funn!Statuses
    <3>2. IsOfAVisitor(f)'
      BY <1>1, <1>2, <2>1, <2>2, <2>3, <3>1, TransitGoes DEF IsOfAVisitor
    <3> QED
      BY <1>2, <1>3, <2>1, <2>3, <3>1, <3>2, TransitGoes, IngestStep
  <2>4. CASE forward' = [forward EXCEPT ![f] = Funn!Idle] /\ leads' = leads
    BY <1>1, <1>2, <1>3, <2>1, <2>4, TransitEnds, IngestStep
  <2> QED
    BY <1>6, <2>3, <2>4 DEF Funn!InsertLead
<1>7. CASE Funn!RecordEvent(f)
  <2> DEFINE t == [event |-> forward[f].event, visitor |-> forward[f].visitor,
                   email |-> forward[f].email, variant |-> forward[f].variant]
  <2>1. /\ forward[f].at = "recording" /\ leads' = leads /\ tracked' = tracked \cup {t}
        /\ forward' = [forward EXCEPT ![f] = Funn!Idle]
    BY <1>7 DEF Funn!RecordEvent, Funn!leadVars
  <2>2. forward[f].visitor \in Visitor /\ forward[f].variant \in Variants
    BY <1>1, <2>1 DEF IsOfAVisitor
  <2>3. t \in [event : Funn!TrackingEvents, visitor : Visitor, email : Email \cup {NoOne},
               variant : Variants]
    BY <1>1, <2>2 DEF InTransit
  <2>4. ASSUME t.event = "signup"
        PROVE  t.email \in Email /\ leads[t.email] # "none" /\ t.email \in signups
    BY <1>1, <2>1, <2>4 DEF IsOfAVisitor
  <2>5. t.variant = forward[f].variant /\ t.visitor = forward[f].visitor
    OBVIOUS
  <2> HIDE DEF t
  <2> QED
    BY <1>1, <1>2, <1>3, <2>1, <2>3, <2>4, <2>5, TransitEnds, IngestStep
<1>8. CASE Funn!Lose(f)
  <2>1. forward' = [forward EXCEPT ![f] = Funn!Idle] /\ UNCHANGED <<leads, tracked>>
    BY <1>8 DEF Funn!Lose, Funn!leadVars
  <2> QED
    BY <1>1, <1>2, <1>3, <2>1, TransitEnds, IngestStep
<1> QED
  BY <1>4, <1>5, <1>6, <1>7, <1>8

\* What happens to a lead elsewhere: only a human opens one that was left.
LEMMA LeadStep ==
  ASSUME FunnelInv, NEW e \in Email,
         Funn!AddLead(e) \/ Funn!UpdateByHuman(e) \/ Funn!Suppress(e) \/ Funn!SuppressLead(e)
  PROVE  FunnelInv'
<1>1. /\ Funn!TypeOK /\ leads \in [Email -> Funn!Statuses]
      /\ unsubscribing \subseteq suppressed /\ unsubscribed \subseteq suppressed
      /\ suppressed \subseteq Email
  BY DEF FunnelInv, Funn!TypeOK
<1>2. UNCHANGED <<signups, config, funnelStored, configs, tracked, forward>>
  BY DEF Funn!AddLead, Funn!UpdateByHuman, Funn!Suppress, Funn!SuppressLead, Funn!siteVars
<1>3. /\ leads' \in [Email -> Funn!Statuses]
      /\ \A a \in Email : leads[a] # "none" => leads'[a] # "none"
  BY <1>1 DEF Funn!AddLead, Funn!UpdateByHuman, Funn!Suppress, Funn!SuppressLead, Funn!Statuses
<1>4. /\ suppressed' \subseteq Email /\ unsubscribing' \subseteq suppressed'
      /\ unsubscribed' \subseteq suppressed'
  BY <1>1 DEF Funn!AddLead, Funn!UpdateByHuman, Funn!Suppress, Funn!SuppressLead
<1>5. Funn!TypeOK'
  BY <1>1, <1>2, <1>3, <1>4 DEF Funn!TypeOK
<1>6. ASSUME NEW f \in Forwarding PROVE IsOfAVisitor(f)'
  <2>1. IsOfAVisitor(f)
    BY DEF FunnelInv
  <2> QED
    BY <1>2, <1>3, <2>1 DEF IsOfAVisitor
<1>7. Funn!CountedSignupHasLead'
  <2> SUFFICES ASSUME NEW t \in tracked, t.event = "signup"
               PROVE  leads'[t.email] # "none" /\ t.email \in signups
    BY <1>2 DEF Funn!CountedSignupHasLead
  <2>1. leads[t.email] # "none" /\ t.email \in signups
    BY DEF FunnelInv, Funn!CountedSignupHasLead
  <2>2. t.email \in Email
    BY <1>1, <2>1 DEF Funn!TypeOK
  <2> QED
    BY <1>3, <2>1, <2>2
<1>8. Funn!UnsubscribedShows'
  <2> SUFFICES ASSUME NEW a \in unsubscribed' PROVE leads'[a] = "unsubscribed"
    BY DEF Funn!UnsubscribedShows
  <2>1. a \in Email
    BY <1>4
  <2>2. a \in unsubscribed => leads[a] = "unsubscribed"
    BY DEF FunnelInv, Funn!UnsubscribedShows
  <2> QED
    BY <1>1, <2>1, <2>2 DEF Funn!AddLead, Funn!UpdateByHuman, Funn!Suppress, Funn!SuppressLead
<1>9. OneDraw' /\ (config # {})' /\ (forward \in [Forwarding -> InTransit])'
  BY <1>2 DEF FunnelInv, OneDraw
<1> QED
  BY <1>5, <1>6, <1>7, <1>8, <1>9 DEF FunnelInv

LEMMA ReconfigureStep ==
  ASSUME FunnelInv, NEW c \in (SUBSET Variants) \ {{}}, Funn!Reconfigure(c)
  PROVE  FunnelInv'
<1>1. /\ config' = c /\ configs' = configs + 1 /\ configs < MaxConfigs
      /\ UNCHANGED <<signups, funnelStored, leads, suppressed, unsubscribing, unsubscribed,
                     tracked, forward>>
  BY DEF Funn!Reconfigure, Funn!leadVars
<1>2. configs' \in 1..MaxConfigs /\ configs' # 1
  BY <1>1, FunnelAssumption DEF FunnelInv, Funn!TypeOK
<1>3. Funn!TypeOK' /\ OneDraw'
  BY <1>1, <1>2 DEF FunnelInv, Funn!TypeOK, OneDraw
<1>4. ASSUME NEW f \in Forwarding PROVE IsOfAVisitor(f)'
  BY <1>1 DEF FunnelInv, IsOfAVisitor
<1> QED
  BY <1>1, <1>3, <1>4 DEF FunnelInv, Funn!CountedSignupHasLead, Funn!UnsubscribedShows

LEMMA FunnelStep ==
  ASSUME FunnelInv, [Funn!Next]_(Funn!funnelVars)
  PROVE  FunnelInv'
<1>1. CASE UNCHANGED Funn!funnelVars
  <2>1. UNCHANGED <<signups, config, funnelStored, configs, leads, suppressed, unsubscribing,
                    unsubscribed, tracked, forward>>
    BY <1>1 DEF Funn!funnelVars, Funn!siteVars, Funn!leadVars
  <2> QED
    BY <2>1 DEF FunnelInv, Funn!TypeOK, IsOfAVisitor, OneDraw, Funn!CountedSignupHasLead,
       Funn!UnsubscribedShows
<1>2. ASSUME NEW f \in Forwarding, NEW v \in Visitor, Funn!View(f, v)
      PROVE  FunnelInv'
  <2>1. /\ forward[f].at = "idle" /\ Funn!Draw(v) /\ Funn!Send(f, "page_view", v, NoOne)
        /\ UNCHANGED <<signups, config, configs, leads, suppressed, unsubscribing, unsubscribed,
                       tracked>>
    BY <1>2 DEF Funn!View, Funn!leadVars
  <2> QED
    BY <2>1, VisitStep DEF Funn!TrackingEvents
<1>3. ASSUME NEW f \in Forwarding, NEW v \in Visitor, NEW e \in Email, Funn!Signup(f, v, e)
      PROVE  FunnelInv'
  <2>1. /\ forward[f].at = "idle" /\ Funn!Draw(v) /\ Funn!Send(f, "signup", v, e)
        /\ signups' = signups \cup {e}
        /\ UNCHANGED <<config, configs, leads, suppressed, unsubscribing, unsubscribed, tracked>>
    BY <1>3 DEF Funn!Signup, Funn!leadVars
  <2> QED
    BY <2>1, VisitStep DEF Funn!TrackingEvents
<1> QED
  BY <1>1, <1>2, <1>3, TransitStep, ReconfigureStep, LeadStep DEF Funn!Next

LEMMA FunnelSafe ==
  ASSUME FunnelInv
  PROVE  /\ Funn!TypeOK /\ Funn!CountedSignupHasLead
         /\ Funn!OneVariantPerVisitor /\ Funn!UnsubscribedShows
BY DEF FunnelInv, OneDraw, Funn!OneVariantPerVisitor

-----------------------------------------------------------------------------
(* The score of one lead *)

LeadRow == [profile : Profile, mail : {"none", "free", "company"},
            consent : {"unknown", "inbound"}, known : BOOLEAN]
Seen == [views : Views, did : {did \in SUBSET Intent : IsFiniteSet(did)}]
DataRead == [lead : LeadRow, events : Seen, fit : Matches, referred : BOOLEAN]
PartlyRead == [lead : LeadRow \cup {Funn!Nobody}, events : Seen, fit : Matches, referred : BOOLEAN]
Stages == {"idle", "lead", "events", "keywords", "referrals", "write"}

\* The second of two readings shows as much of a lead's person as the first.
AtMost(d, e) ==
  /\ d.lead.profile = e.lead.profile /\ d.lead.mail = e.lead.mail
  /\ d.events.views <= e.events.views /\ d.events.did \subseteq e.events.did
  /\ d.fit <= e.fit /\ (d.referred => e.referred)

\* What a rescoring will have read if nothing changes until it writes.
ToWrite(r) ==
  LET x == run[r]
      l == IF x.at = "lead" THEN lead ELSE x.read.lead
  IN [lead |-> l,
      events |-> IF x.at \in {"lead", "events"}
                   THEN IF l.known THEN events ELSE Funn!NoEvents
                   ELSE x.read.events,
      fit |-> IF x.at \in {"referrals", "write"} THEN x.read.fit ELSE fit,
      referred |-> IF x.at = "write" THEN x.read.referred ELSE referrals]

\* A rescoring reads no more than there is.
ReadsWhatThereIs(r) ==
  run[r].at # "idle" =>
    /\ ~dropped => AtMost(ToWrite(r), Funn!Data)
    /\ run[r].at # "lead" => /\ run[r].read.lead \in LeadRow
                             /\ run[r].read.lead.known => lead.known

\* The score is behind the data and behind what the one rescoring there is
\* will write; it is level with them when nothing has changed.
OneAtATime ==
  ~leadOverlapped =>
    /\ \A q, r \in Run : run[q].at # "idle" /\ run[r].at # "idle" => q = r
    /\ ~dropped => leadScore.score <= Funn!ScoreLead(Funn!Data).score
    /\ \A r \in Run : run[r].at # "idle" =>
         /\ ~dropped => leadScore.score <= Funn!ScoreLead(ToWrite(r)).score
         /\ ~changed => ToWrite(r) = Funn!Data

LeadInv ==
  /\ lead \in LeadRow /\ events \in Seen /\ fit \in Matches /\ referrals \in BOOLEAN
  /\ leadScore \in [score : 0..100, contactable : BOOLEAN]
  /\ run \in [Run -> [at : Stages, read : PartlyRead]]
  /\ runs \in 0..MaxRuns /\ changes \in 0..MaxChanges /\ owed \subseteq Run
  /\ changed \in BOOLEAN /\ leadOverlapped \in BOOLEAN /\ dropped \in BOOLEAN
  /\ \A r \in Run : ReadsWhatThereIs(r)
  /\ OneAtATime /\ Funn!ScoreIsCurrent

Points == [x \in Intent |-> Funn!PointsFor(x)]

LEMMA FoldOfPoints ==
  ASSUME NEW S \in SUBSET Intent, IsFiniteSet(S)
  PROVE  Funn!MapThenSumSet(Funn!PointsFor, S) = SumOf(Points, S)
<1> DEFINE g == CHOOSE h : h = [s \in SUBSET S |->
                  IF s = {} THEN 0 ELSE Funn!PointsFor(OneOf(s)) + h[s \ {OneOf(s)}]]
<1>1. Funn!MapThenSumSet(Funn!PointsFor, S) = g[S]
  BY DEF Funn!MapThenSumSet, Funn!MapThenFoldSet, OneOf
<1>2. ASSUME NEW h
      PROVE  [s \in SUBSET S |-> IF s = {} THEN 0 ELSE Points[OneOf(s)] + h[s \ {OneOf(s)}]]
             = [s \in SUBSET S |-> IF s = {} THEN 0 ELSE Funn!PointsFor(OneOf(s)) + h[s \ {OneOf(s)}]]
  <2>1. ASSUME NEW s \in SUBSET S, s # {} PROVE Points[OneOf(s)] = Funn!PointsFor(OneOf(s))
    BY <2>1, OneIsIn DEF Points
  <2> QED
    BY <2>1
<1>3. PICK h : Sums(Points, h, S)
  BY SumsExist
<1>4. h = [s \in SUBSET S |-> IF s = {} THEN 0 ELSE Funn!PointsFor(OneOf(s)) + h[s \ {OneOf(s)}]]
  BY <1>2, <1>3 DEF Sums
<1>5. g = [s \in SUBSET S |-> IF s = {} THEN 0 ELSE Funn!PointsFor(OneOf(s)) + g[s \ {OneOf(s)}]]
  BY <1>4
<1> HIDE DEF g
<1>6. Sums(Points, g, S)
  BY <1>2, <1>5 DEF Sums
<1>7. g[S] = SumOf(Points, S)
  BY <1>6, SumIs
<1> QED
  BY <1>1, <1>7

\* Every part of the sum grows with what it is about, and so does the score.
LEMMA ScoreGrows ==
  ASSUME NEW d \in DataRead, NEW e \in DataRead, AtMost(d, e)
  PROVE  /\ Funn!ScoreLead(d) \in [score : 0..100, contactable : BOOLEAN]
         /\ Funn!ScoreLead(d).score <= Funn!ScoreLead(e).score
<1> DEFINE points(x) == Funn!MapThenSumSet(Funn!PointsFor, x.events.did)
<1>1. /\ IsFiniteSet(d.events.did) /\ IsFiniteSet(e.events.did)
      /\ d.events.did \subseteq Intent /\ e.events.did \subseteq Intent
      /\ d.events.did \subseteq e.events.did
  BY DEF DataRead, Seen, AtMost
<1>2. \A x \in Intent : Points[x] \in Int /\ Points[x] >= 0
  BY DEF Points, Funn!PointsFor
<1>3. points(d) \in Int /\ points(e) \in Int /\ points(d) <= points(e)
  <2>1. /\ SumOf(Points, d.events.did) \in Int
        /\ SumOf(Points, e.events.did) \in Int
    BY <1>1, <1>2, SumInt
  <2>2. SumOf(Points, d.events.did) <= SumOf(Points, e.events.did)
    <3>1. \A x \in e.events.did : Points[x] \in Int /\ Points[x] >= 0
      BY <1>1, <1>2
    <3> QED
      BY <1>1, <3>1, SumOfPart
  <2> QED
    BY <1>1, <2>1, <2>2, FoldOfPoints
<1> HIDE DEF points
<1>4. /\ d.lead.profile \in Int /\ e.lead.profile = d.lead.profile /\ e.lead.mail = d.lead.mail
      /\ d.events.views \in Nat /\ e.events.views \in Nat /\ d.events.views <= e.events.views
      /\ d.fit \in Int /\ e.fit \in Int /\ d.fit <= e.fit
      /\ d.referred => e.referred
      /\ d.referred \in BOOLEAN /\ e.referred \in BOOLEAN
  BY LeadAssumption DEF DataRead, LeadRow, Seen, AtMost
<1>5. Funn!MailPoints(d.lead.mail) \in Int /\ Funn!MailPoints(e.lead.mail) = Funn!MailPoints(d.lead.mail)
  BY <1>4 DEF Funn!MailPoints
<1>6. /\ Funn!Engagement(d.events.views) \in Int /\ Funn!Engagement(e.events.views) \in Int
      /\ Funn!Engagement(d.events.views) <= Funn!Engagement(e.events.views)
  BY <1>4 DEF Funn!Engagement, Funn!Lower
<1>7. Funn!Sum(d) \in Int /\ Funn!Sum(e) \in Int /\ Funn!Sum(d) <= Funn!Sum(e)
  <2>1. /\ Funn!Sum(d) = d.lead.profile + d.fit + Funn!MailPoints(d.lead.mail) + points(d)
                         + Funn!Engagement(d.events.views) + (IF d.referred THEN 5 ELSE 0)
        /\ Funn!Sum(e) = e.lead.profile + e.fit + Funn!MailPoints(e.lead.mail) + points(e)
                         + Funn!Engagement(e.events.views) + (IF e.referred THEN 5 ELSE 0)
    BY DEF Funn!Sum, points
  <2> QED
    BY <1>3, <1>4, <1>5, <1>6, <2>1
<1>8. /\ Funn!ScoreLead(d).score = IF Funn!Sum(d) < 0 THEN 0 ELSE Funn!Lower(100, Funn!Sum(d))
      /\ Funn!ScoreLead(e).score = IF Funn!Sum(e) < 0 THEN 0 ELSE Funn!Lower(100, Funn!Sum(e))
  BY DEF Funn!ScoreLead
<1>9. Funn!ScoreLead(d).score \in 0..100 /\ Funn!ScoreLead(d).score <= Funn!ScoreLead(e).score
  BY <1>7, <1>8 DEF Funn!Lower
<1>10. Funn!ScoreLead(d) \in [score : 0..100, contactable : BOOLEAN]
  BY <1>9 DEF Funn!ScoreLead
<1> QED
  BY <1>9, <1>10

LEMMA AtMostItself ==
  ASSUME NEW d \in DataRead
  PROVE  AtMost(d, d)
<1>1. d.events.views \in Nat /\ d.fit \in Int
  BY LeadAssumption DEF DataRead, Seen
<1>2. d.events.views <= d.events.views /\ d.fit <= d.fit
  BY <1>1
<1> QED
  BY <1>2 DEF AtMost

LEMMA ReadingsAre ==
  ASSUME LeadInv
  PROVE  /\ Funn!Data \in DataRead /\ AtMost(Funn!Data, Funn!Data)
         /\ \A r \in Run : run[r].at # "idle" => ToWrite(r) \in DataRead
<1>1. Funn!NoEvents \in Seen
  BY LeadAssumption, FS_EmptySet DEF Funn!NoEvents, Seen
<1>2. Funn!Data \in DataRead
  BY <1>1 DEF LeadInv, Funn!Data, DataRead
<1>3. AtMost(Funn!Data, Funn!Data)
  BY <1>2, AtMostItself
<1>4. ASSUME NEW r \in Run, run[r].at # "idle" PROVE ToWrite(r) \in DataRead
  <2> DEFINE l == IF run[r].at = "lead" THEN lead ELSE run[r].read.lead
             s == IF run[r].at \in {"lead", "events"}
                    THEN IF l.known THEN events ELSE Funn!NoEvents
                    ELSE run[r].read.events
             f == IF run[r].at \in {"referrals", "write"} THEN run[r].read.fit ELSE fit
             q == IF run[r].at = "write" THEN run[r].read.referred ELSE referrals
  <2>1. ReadsWhatThereIs(r) /\ run[r].read \in PartlyRead
    BY DEF LeadInv
  <2>2. l \in LeadRow
    BY <1>4, <2>1 DEF LeadInv, ReadsWhatThereIs
  <2>3. s \in Seen
    BY <1>1, <2>1 DEF LeadInv, PartlyRead
  <2>4. q \in BOOLEAN /\ f \in Matches
    BY <2>1 DEF LeadInv, PartlyRead
  <2>5. ToWrite(r) = [lead |-> l, events |-> s, fit |-> f, referred |-> q]
    BY DEF ToWrite
  <2> HIDE DEF l, s, f, q
  <2> QED
    BY <2>2, <2>3, <2>4, <2>5 DEF DataRead
<1> QED
  BY <1>2, <1>3, <1>4

LEMMA ScoreFollows ==
  ASSUME NEW n \in 0..100, NEW d \in DataRead, NEW e \in DataRead, AtMost(d, e),
         n <= Funn!ScoreLead(d).score
  PROVE  n <= Funn!ScoreLead(e).score
<1>1. Funn!ScoreLead(d).score \in 0..100 /\ Funn!ScoreLead(d).score <= Funn!ScoreLead(e).score
  BY ScoreGrows
<1>2. Funn!ScoreLead(e).score \in 0..100
  <2>1. AtMost(e, e)
    BY AtMostItself
  <2> QED
    BY <2>1, ScoreGrows
<1> QED
  BY <1>1, <1>2

LEMMA LeadStarts == ASSUME Funn!LeadInit PROVE LeadInv
<1>1. /\ lead \in LeadRow /\ fit \in Matches /\ referrals = FALSE /\ owed \subseteq Run
      /\ events = Funn!NoEvents
  BY LeadAssumption DEF Funn!LeadInit, LeadRow
<1>2. Funn!NoEvents \in Seen
  BY LeadAssumption, FS_EmptySet DEF Funn!NoEvents, Seen
<1>3. Funn!Data \in DataRead
  BY <1>1, <1>2 DEF Funn!Data, DataRead
<1>4. AtMost(Funn!Data, Funn!Data)
  BY <1>3, AtMostItself
<1>5. leadScore = Funn!ScoreLead(Funn!Data)
  BY DEF Funn!LeadInit
<1>6. leadScore \in [score : 0..100, contactable : BOOLEAN] /\ leadScore.score <= leadScore.score
  BY <1>3, <1>4, <1>5, ScoreGrows
<1>7. \A r \in Run : run[r] = Funn!NotRunning /\ run[r].at = "idle"
  BY DEF Funn!LeadInit, Funn!NotRunning
<1>8. Funn!NotRunning \in [at : Stages, read : PartlyRead]
  BY <1>2, LeadAssumption DEF Funn!NotRunning, PartlyRead, Stages
<1>9. run \in [Run -> [at : Stages, read : PartlyRead]]
  BY <1>8 DEF Funn!LeadInit
<1>10. OneAtATime /\ Funn!ScoreIsCurrent
  BY <1>5, <1>6, <1>7 DEF OneAtATime, Funn!ScoreIsCurrent
<1>11. /\ runs \in 0..MaxRuns /\ changes \in 0..MaxChanges
       /\ changed \in BOOLEAN /\ leadOverlapped \in BOOLEAN /\ dropped \in BOOLEAN
  <2>1. runs \in 0..MaxRuns /\ changes \in 0..MaxChanges
    BY LeadAssumption DEF Funn!LeadInit
  <2>2. changed \in BOOLEAN /\ leadOverlapped \in BOOLEAN /\ dropped \in BOOLEAN
    BY DEF Funn!LeadInit
  <2> QED
    BY <2>1, <2>2
<1> QED
  BY <1>1, <1>2, <1>6, <1>7, <1>9, <1>10, <1>11 DEF LeadInv, ReadsWhatThereIs

\* The data have grown, or a scan has replaced the keywords, and nobody has
\* been told.
LEMMA DataGrow ==
  ASSUME LeadInv,
         lead' \in LeadRow, events' \in Seen, fit' \in Matches, referrals' \in BOOLEAN,
         changes' \in 0..MaxChanges, owed' \subseteq Run, dropped' \in BOOLEAN,
         dropped => dropped', ~dropped' => fit <= fit',
         lead'.profile = lead.profile, lead'.mail = lead.mail, lead'.known = lead.known,
         events.views <= events'.views, events.did \subseteq events'.did,
         referrals => referrals',
         changed' = TRUE, UNCHANGED <<leadScore, run, runs, leadOverlapped>>
  PROVE  LeadInv'
<1>1. /\ Funn!Data \in DataRead
      /\ \A r \in Run : run[r].at # "idle" => ToWrite(r) \in DataRead
  BY ReadingsAre
<1>2. Funn!NoEvents \in Seen
  BY LeadAssumption, FS_EmptySet DEF Funn!NoEvents, Seen
<1>3. Funn!Data' \in DataRead
  BY <1>2 DEF Funn!Data, DataRead
<1>4. /\ events \in Seen /\ lead \in LeadRow /\ referrals \in BOOLEAN
      /\ fit \in Int /\ fit' \in Int
      /\ \A s \in Seen : s.views \in Nat
      /\ \A n \in Matches : n \in Int
  BY LeadAssumption DEF LeadInv, Seen
<1>5. ~dropped' => AtMost(Funn!Data, Funn!Data')
  BY <1>2, <1>4 DEF AtMost, Funn!Data
<1>6. ASSUME NEW r \in Run, run[r].at # "idle", ~dropped'
      PROVE  /\ ToWrite(r)' \in DataRead /\ AtMost(ToWrite(r), ToWrite(r)')
             /\ AtMost(ToWrite(r)', Funn!Data')
  <2> DEFINE l == IF run[r].at = "lead" THEN lead ELSE run[r].read.lead
             k == IF run[r].at = "lead" THEN lead' ELSE run[r].read.lead
  <2>1. ReadsWhatThereIs(r) /\ run[r].read \in PartlyRead
    BY DEF LeadInv
  <2>2. /\ l \in LeadRow /\ k \in LeadRow /\ l.known = k.known /\ (l.known => lead.known)
        /\ l.profile = k.profile /\ l.mail = k.mail
    BY <1>4, <1>6, <2>1 DEF ReadsWhatThereIs
  <2>3. /\ ToWrite(r) =
             [lead |-> l,
              events |-> IF run[r].at \in {"lead", "events"}
                           THEN IF l.known THEN events ELSE Funn!NoEvents
                           ELSE run[r].read.events,
              fit |-> IF run[r].at \in {"referrals", "write"} THEN run[r].read.fit ELSE fit,
              referred |-> IF run[r].at = "write" THEN run[r].read.referred ELSE referrals]
        /\ ToWrite(r)' =
             [lead |-> k,
              events |-> IF run[r].at \in {"lead", "events"}
                           THEN IF k.known THEN events' ELSE Funn!NoEvents
                           ELSE run[r].read.events,
              fit |-> IF run[r].at \in {"referrals", "write"} THEN run[r].read.fit ELSE fit',
              referred |-> IF run[r].at = "write" THEN run[r].read.referred ELSE referrals']
    BY DEF ToWrite
  <2> HIDE DEF l, k
  <2>4. run[r].read.events \in Seen /\ run[r].read.referred \in BOOLEAN /\ run[r].read.fit \in Matches
    BY <2>1 DEF PartlyRead
  <2>5. ToWrite(r)' \in DataRead
    <3>1. (IF run[r].at \in {"lead", "events"}
                           THEN IF k.known THEN events' ELSE Funn!NoEvents
                           ELSE run[r].read.events) \in Seen
      BY <1>2, <2>4
    <3>2. /\ (IF run[r].at = "write" THEN run[r].read.referred ELSE referrals') \in BOOLEAN
          /\ (IF run[r].at \in {"referrals", "write"} THEN run[r].read.fit ELSE fit') \in Matches
      BY <2>4
    <3> QED
      BY <2>2, <2>3, <3>1, <3>2 DEF DataRead
  <2>6. AtMost(ToWrite(r), ToWrite(r)')
    <3>1. /\ ToWrite(r).events.views <= ToWrite(r)'.events.views
          /\ ToWrite(r).events.did \subseteq ToWrite(r)'.events.did
      BY <1>2, <1>4, <2>2, <2>3, <2>4
    <3>2. ToWrite(r).fit <= ToWrite(r)'.fit
      <4>1. run[r].read.fit \in Int /\ fit <= fit'
        BY <1>6, <2>4, LeadAssumption
      <4>2. run[r].read.fit <= run[r].read.fit
        BY <4>1
      <4> QED
        BY <2>3, <4>1, <4>2
    <3>3. ToWrite(r).referred => ToWrite(r)'.referred
      BY <2>3
    <3> QED
      BY <2>2, <2>3, <3>1, <3>2, <3>3 DEF AtMost
  <2>7. AtMost(ToWrite(r), Funn!Data)
    BY <1>6, <2>1 DEF ReadsWhatThereIs
  <2>8. AtMost(ToWrite(r)', Funn!Data')
    <3>1. CASE run[r].at \in {"lead", "events"}
      <4>1. ToWrite(r)'.events = (IF k.known THEN events' ELSE Funn!NoEvents)
            /\ (Funn!Data').events = (IF lead.known THEN events' ELSE Funn!NoEvents)
        BY <2>3, <3>1 DEF Funn!Data
      <4>2. Funn!NoEvents.views = 0 /\ Funn!NoEvents.did = {}
        BY DEF Funn!NoEvents
      <4>3. /\ ToWrite(r)'.events.views <= (Funn!Data').events.views
            /\ ToWrite(r)'.events.did \subseteq (Funn!Data').events.did
        BY <1>2, <1>4, <2>2, <4>1, <4>2
      <4>4. /\ ToWrite(r)'.lead = k /\ ToWrite(r).lead = l
            /\ ToWrite(r)'.referred = referrals' /\ ToWrite(r)'.fit = fit'
            /\ (Funn!Data').lead = lead' /\ (Funn!Data').referred = referrals'
            /\ Funn!Data.lead = lead /\ (Funn!Data').fit = fit' /\ fit' \in Int
        BY <1>4, <2>3, <3>1 DEF Funn!Data
      <4>5. fit' <= fit'
        BY <4>4
      <4> QED
        BY <2>2, <2>7, <4>3, <4>4, <4>5 DEF AtMost
    <3>2. CASE run[r].at \notin {"lead", "events"}
      <4>1. ToWrite(r)'.events = ToWrite(r).events
        BY <2>3, <3>2
      <4>2. /\ ToWrite(r)'.lead.profile = ToWrite(r).lead.profile
            /\ ToWrite(r)'.lead.mail = ToWrite(r).lead.mail
            /\ ToWrite(r)'.referred => ToWrite(r).referred \/ referrals'
            /\ (Funn!Data').referred = referrals' /\ Funn!Data.referred = referrals
            /\ ToWrite(r)'.fit = ToWrite(r).fit \/ ToWrite(r)'.fit = fit'
            /\ (Funn!Data').fit = fit' /\ Funn!Data.fit = fit
        BY <2>2, <2>3 DEF Funn!Data
      <4>3. /\ ToWrite(r).events \in Seen /\ Funn!Data.events \in Seen
            /\ (Funn!Data').events \in Seen
        BY <1>1, <1>3, <1>6 DEF DataRead
      <4>4. /\ ToWrite(r).fit \in Int /\ fit \in Int /\ fit' \in Int
            /\ ToWrite(r).fit <= fit /\ fit <= fit'
        BY <1>1, <1>4, <1>6, <2>7, <4>2 DEF AtMost, DataRead, LeadInv
      <4>5. ToWrite(r)'.fit <= (Funn!Data').fit
        BY <4>2, <4>4
      <4> QED
        BY <1>4, <1>5, <1>6, <2>7, <4>1, <4>2, <4>3, <4>5 DEF AtMost
    <3> QED
      BY <3>1, <3>2
  <2> QED
    BY <2>5, <2>6, <2>8
<1>7. \A r \in Run : ReadsWhatThereIs(r)'
  <2> SUFFICES ASSUME NEW r \in Run PROVE ReadsWhatThereIs(r)'
    OBVIOUS
  <2>1. ReadsWhatThereIs(r)
    BY DEF LeadInv
  <2> QED
    BY <1>6, <2>1 DEF ReadsWhatThereIs
<1>8. OneAtATime'
  <2> SUFFICES ASSUME ~leadOverlapped PROVE OneAtATime'
    BY DEF OneAtATime
  <2>1. OneAtATime
    BY DEF LeadInv
  <2>2. leadScore.score \in 0..100
    BY DEF LeadInv
  <2>3. ASSUME ~dropped' PROVE leadScore.score <= Funn!ScoreLead(Funn!Data').score
    <3>1. leadScore.score <= Funn!ScoreLead(Funn!Data).score /\ AtMost(Funn!Data, Funn!Data')
      BY <1>5, <2>1, <2>3 DEF OneAtATime
    <3> QED
      BY <1>1, <1>3, <1>5, <2>2, <3>1, ScoreFollows
  <2>4. ASSUME NEW r \in Run, run[r].at # "idle", ~dropped'
        PROVE  leadScore.score <= Funn!ScoreLead(ToWrite(r)').score
    <3>1. leadScore.score <= Funn!ScoreLead(ToWrite(r)).score
      BY <2>1, <2>4 DEF OneAtATime
    <3> QED
      BY <1>1, <1>6, <2>2, <2>4, <3>1, ScoreFollows
  <2>5. /\ Funn!ScoreLead(Funn!Data)' = Funn!ScoreLead(Funn!Data')
        /\ \A r \in Run : Funn!ScoreLead(ToWrite(r))' = Funn!ScoreLead(ToWrite(r)')
    BY Zenon DEF Funn!ScoreLead, Funn!Sum, Funn!MailPoints, Funn!Engagement, Funn!Lower,
       Funn!PointsFor, Funn!MapThenSumSet, Funn!MapThenFoldSet
  <2> QED
    BY <2>1, <2>3, <2>4, <2>5 DEF OneAtATime
<1>9. Funn!ScoreIsCurrent'
  BY DEF Funn!ScoreIsCurrent
<1> QED
  BY <1>7, <1>8, <1>9 DEF LeadInv

\* A rescoring begins; a signup may have made the visitor known.
LEMMA BeginsScoring ==
  ASSUME LeadInv, NEW r \in Run, Funn!Begin(r),
         lead' \in LeadRow, owed' \subseteq Run,
         lead'.profile = lead.profile, lead'.mail = lead.mail, lead.known => lead'.known
  PROVE  LeadInv'
<1> DEFINE stages == Stages
<1>1. /\ UNCHANGED <<events, fit, referrals, leadScore, changes, dropped>>
      /\ fit \in Matches /\ changes \in 0..MaxChanges /\ dropped \in BOOLEAN
      /\ run[r].at = "idle" /\ runs < MaxRuns /\ runs' = runs + 1 /\ changed' = FALSE
      /\ leadOverlapped' = (leadOverlapped \/ \E q \in Run : run[q].at # "idle")
      /\ run' = [run EXCEPT ![r].at = "lead"]
      /\ run \in [Run -> [at : stages, read : PartlyRead]]
      /\ runs \in 0..MaxRuns /\ leadOverlapped \in BOOLEAN
      /\ lead \in LeadRow /\ events \in Seen /\ referrals \in BOOLEAN
  BY DEF Funn!Begin, LeadInv
<1>2. /\ run'[r].at = "lead" /\ \A q \in Run \ {r} : run'[q] = run[q]
      /\ run' \in [Run -> [at : stages, read : PartlyRead]]
  <2>1. run[r] \in [at : stages, read : PartlyRead]
    BY <1>1
  <2>2. run'[r] = [run[r] EXCEPT !.at = "lead"]
    BY <1>1
  <2>3. run'[r] \in [at : stages, read : PartlyRead] /\ run'[r].at = "lead"
    BY <2>1, <2>2 DEF Stages
  <2> QED
    BY <1>1, <2>3
<1>3. runs' \in 0..MaxRuns /\ changed' \in BOOLEAN /\ leadOverlapped' \in BOOLEAN
  <2>1. runs < MaxRuns /\ runs' = runs + 1 /\ runs \in 0..MaxRuns
    BY DEF Funn!Begin, LeadInv
  <2>2. runs' \in 0..MaxRuns
    BY <2>1, LeadAssumption
  <2> QED
    BY <1>1, <2>2, Zenon
<1>4. Funn!NoEvents \in Seen /\ \A s \in Seen : s.views \in Nat
  BY LeadAssumption, FS_EmptySet DEF Funn!NoEvents, Seen
<1>5. /\ Funn!Data' \in DataRead /\ Funn!Data \in DataRead
      /\ AtMost(Funn!Data, Funn!Data')
  <2>1. Funn!Data' \in DataRead /\ Funn!Data \in DataRead
    BY <1>1, <1>4 DEF Funn!Data, DataRead
  <2>2. Funn!NoEvents.views = 0 /\ Funn!NoEvents.did = {}
    BY DEF Funn!NoEvents
  <2>3. events.views \in Nat /\ fit \in Int
    BY <1>1, <1>4, LeadAssumption
  <2> QED
    BY <1>1, <2>1, <2>2, <2>3 DEF AtMost, Funn!Data
<1>6. ToWrite(r)' = Funn!Data'
  BY <1>2 DEF ToWrite, Funn!Data
<1>7. ASSUME NEW q \in Run, q # r, run[q].at # "idle", ~dropped
      PROVE  AtMost(ToWrite(q)', Funn!Data')
  <2>1. run'[q] = run[q]
    BY <1>2, <1>7
  <2>2. ReadsWhatThereIs(q) /\ run[q].read \in PartlyRead
    BY <1>1 DEF LeadInv
  <2> DEFINE l == IF run[q].at = "lead" THEN lead ELSE run[q].read.lead
             k == IF run[q].at = "lead" THEN lead' ELSE run[q].read.lead
  <2>3. /\ l \in LeadRow /\ k \in LeadRow /\ (k.known => lead'.known)
        /\ l.profile = k.profile /\ l.mail = k.mail
    BY <1>1, <1>7, <2>2 DEF ReadsWhatThereIs
  <2>4. /\ ToWrite(q) =
             [lead |-> l,
              events |-> IF run[q].at \in {"lead", "events"}
                           THEN IF l.known THEN events ELSE Funn!NoEvents
                           ELSE run[q].read.events,
              fit |-> IF run[q].at \in {"referrals", "write"} THEN run[q].read.fit ELSE fit,
              referred |-> IF run[q].at = "write" THEN run[q].read.referred ELSE referrals]
        /\ ToWrite(q)' =
             [lead |-> k,
              events |-> IF run[q].at \in {"lead", "events"}
                           THEN IF k.known THEN events' ELSE Funn!NoEvents
                           ELSE run[q].read.events,
              fit |-> IF run[q].at \in {"referrals", "write"} THEN run[q].read.fit ELSE fit,
              referred |-> IF run[q].at = "write" THEN run[q].read.referred ELSE referrals]
    BY <1>1, <2>1 DEF ToWrite
  <2> HIDE DEF l, k
  <2>5. AtMost(ToWrite(q), Funn!Data)
    BY <1>7, <2>2 DEF ReadsWhatThereIs
  <2>6. Funn!NoEvents.views = 0 /\ Funn!NoEvents.did = {}
    BY DEF Funn!NoEvents
  <2>7. /\ Funn!Data = [lead |-> lead, events |-> IF lead.known THEN events ELSE Funn!NoEvents,
                        fit |-> fit, referred |-> referrals]
        /\ Funn!Data' = [lead |-> lead', events |-> IF lead'.known THEN events' ELSE Funn!NoEvents,
                         fit |-> fit, referred |-> referrals]
    BY <1>1 DEF Funn!Data
  <2>8. CASE run[q].at \in {"lead", "events"}
    <3>1. ToWrite(q)'.events = (IF k.known THEN events' ELSE Funn!NoEvents)
          /\ (Funn!Data').events = (IF lead'.known THEN events' ELSE Funn!NoEvents)
      BY <2>4, <2>7, <2>8
    <3>2. /\ ToWrite(q)'.events.views <= (Funn!Data').events.views
          /\ ToWrite(q)'.events.did \subseteq (Funn!Data').events.did
      <4>1. events'.views \in Nat
        BY <1>1, LeadAssumption DEF Seen
      <4>2. events'.views <= events'.views /\ 0 <= events'.views /\ 0 <= 0
        BY <4>1
      <4> QED
        BY <2>3, <2>6, <3>1, <4>2
    <3>3. /\ ToWrite(q)'.lead = k /\ ToWrite(q).lead = l
          /\ (Funn!Data').lead = lead' /\ (Funn!Data').referred = referrals
          /\ Funn!Data.lead = lead /\ ToWrite(q)'.referred = referrals
          /\ ToWrite(q)'.fit = ToWrite(q).fit /\ (Funn!Data').fit = Funn!Data.fit
      BY <2>4, <2>7, <2>8
    <3> QED
      BY <2>3, <2>5, <3>2, <3>3 DEF AtMost
  <2>9. CASE run[q].at \notin {"lead", "events"}
    <3>1. /\ ToWrite(q)'.events = ToWrite(q).events /\ ToWrite(q).events = run[q].read.events
          /\ ToWrite(q)'.referred = ToWrite(q).referred
          /\ ToWrite(q)'.fit = ToWrite(q).fit /\ (Funn!Data').fit = Funn!Data.fit
          /\ ToWrite(q)'.lead = k /\ ToWrite(q).lead = l
      BY <2>4, <2>7, <2>9
    <3>2. run[q].read.events \in Seen /\ Funn!Data.events \in Seen /\ (Funn!Data').events \in Seen
      BY <1>5, <2>2 DEF DataRead, PartlyRead
    <3>3. /\ run[q].read.events.views \in Nat /\ Funn!Data.events.views \in Nat
          /\ (Funn!Data').events.views \in Nat
      BY <1>4, <3>2
    <3> QED
      BY <1>5, <2>3, <2>5, <3>1, <3>3 DEF AtMost
  <2> QED
    BY <2>8, <2>9
<1>8. ASSUME NEW q \in Run PROVE ReadsWhatThereIs(q)'
  <2>1. CASE q = r
    <3>1. AtMost(Funn!Data', Funn!Data')
      BY <1>5, AtMostItself
    <3> QED
      BY <1>2, <1>6, <2>1, <3>1 DEF ReadsWhatThereIs
  <2>2. CASE q # r
    <3>1. run'[q] = run[q] /\ ReadsWhatThereIs(q)
      BY <1>2, <2>2 DEF LeadInv
    <3> QED
      BY <1>1, <1>7, <2>2, <3>1 DEF ReadsWhatThereIs
  <2> QED
    BY <2>1, <2>2
<1>9. OneAtATime'
  <2> SUFFICES ASSUME ~leadOverlapped' PROVE OneAtATime'
    BY DEF OneAtATime
  <2>1. ~leadOverlapped /\ \A q \in Run : run[q].at = "idle"
    BY <1>1
  <2>2. \A q \in Run : run'[q].at # "idle" => q = r
    BY <1>2, <2>1
  <2>3. (~dropped => leadScore.score <= Funn!ScoreLead(Funn!Data).score) /\ leadScore.score \in 0..100
    BY <2>1 DEF LeadInv, OneAtATime
  <2>4. ~dropped => leadScore.score <= Funn!ScoreLead(Funn!Data').score
    BY <1>5, <2>3, ScoreFollows
  <2>5. /\ Funn!ScoreLead(Funn!Data)' = Funn!ScoreLead(Funn!Data')
        /\ \A q \in Run : Funn!ScoreLead(ToWrite(q))' = Funn!ScoreLead(ToWrite(q)')
    BY Zenon DEF Funn!ScoreLead, Funn!Sum, Funn!MailPoints, Funn!Engagement, Funn!Lower,
       Funn!PointsFor, Funn!MapThenSumSet, Funn!MapThenFoldSet
  <2> QED
    BY <1>1, <1>6, <2>2, <2>4, <2>5 DEF OneAtATime
<1>10. Funn!ScoreIsCurrent'
  BY <1>2 DEF Funn!ScoreIsCurrent
<1> QED
  BY <1>1, <1>2, <1>3, <1>8, <1>9, <1>10 DEF LeadInv

\* One more of the four readings: what the rescoring will write is the same.
LEMMA ReadingStep ==
  ASSUME LeadInv, NEW r \in Run,
         \/ Funn!ReadLead(r) \/ Funn!ReadEvents(r) \/ Funn!ReadKeywords(r)
         \/ Funn!ReadReferrals(r)
  PROVE  LeadInv'
<1> DEFINE stages == Stages
           was == run[r]
<1>1. /\ UNCHANGED <<lead, events, fit, referrals, leadScore, runs, changes, owed, changed,
                     leadOverlapped, dropped>>
      /\ run \in [Run -> [at : stages, read : PartlyRead]]
      /\ was.at # "idle" /\ was.at \in stages /\ was.read \in PartlyRead
      /\ ReadsWhatThereIs(r)
  BY DEF Funn!ReadLead, Funn!ReadEvents, Funn!ReadKeywords, Funn!ReadReferrals, Funn!Reads,
         Funn!data, LeadInv
<1>2. /\ Funn!NoEvents \in Seen /\ lead \in LeadRow /\ events \in Seen /\ referrals \in BOOLEAN
      /\ fit \in Matches /\ {"events", "keywords", "referrals", "write"} \subseteq Stages
  BY LeadAssumption, FS_EmptySet DEF Funn!NoEvents, Seen, LeadInv, Stages
<1>3. \A q \in Run \ {r} : run'[q] = run[q]
  BY <1>1 DEF Funn!ReadLead, Funn!ReadEvents, Funn!ReadKeywords, Funn!ReadReferrals, Funn!Reads
<1>4. /\ run' \in [Run -> [at : stages, read : PartlyRead]]
      /\ run'[r].at \notin {"idle", "lead"} /\ run'[r].read.lead \in LeadRow
      /\ run'[r].read.lead.known => lead.known
      /\ ToWrite(r)' = ToWrite(r)
  <2>1. CASE Funn!ReadLead(r)
    <3>1. /\ was.at = "lead"
          /\ run' = [run EXCEPT ![r].at = "events", ![r].read["lead"] = lead]
      BY <2>1 DEF Funn!ReadLead, Funn!Reads
    <3>2. run'[r] = [at |-> "events", read |-> [lead |-> lead, events |-> was.read.events,
                                                fit |-> was.read.fit,
                                                referred |-> was.read.referred]]
      BY <1>1, <3>1 DEF PartlyRead
    <3>3. run'[r] \in [at : stages, read : PartlyRead]
      BY <1>1, <1>2, <3>2 DEF PartlyRead
    <3>4. run' \in [Run -> [at : stages, read : PartlyRead]]
      BY <1>1, <3>1, <3>3
    <3>5. ToWrite(r)' = ToWrite(r)
      <4>1. ToWrite(r) = [lead |-> lead, events |-> IF lead.known THEN events ELSE Funn!NoEvents,
                          fit |-> fit, referred |-> referrals]
        BY <3>1 DEF ToWrite
      <4>2. /\ run'[r].at = "events" /\ run'[r].read.lead = lead
            /\ events' = events /\ fit' = fit /\ referrals' = referrals
        BY <1>1, <3>2
      <4> QED
        BY <4>1, <4>2 DEF ToWrite
    <3> QED
      BY <1>2, <3>2, <3>4, <3>5
  <2>2. CASE Funn!ReadEvents(r)
    <3>1. /\ was.at = "events"
          /\ run' = [run EXCEPT ![r].at = "keywords",
                       ![r].read["events"] = IF was.read.lead.known THEN events ELSE Funn!NoEvents]
      BY <2>2 DEF Funn!ReadEvents, Funn!Reads
    <3>2. run'[r] = [at |-> "keywords",
                     read |-> [lead |-> was.read.lead,
                               events |-> IF was.read.lead.known THEN events ELSE Funn!NoEvents,
                               fit |-> was.read.fit, referred |-> was.read.referred]]
      BY <1>1, <3>1 DEF PartlyRead
    <3>3. run'[r] \in [at : stages, read : PartlyRead]
      BY <1>1, <1>2, <3>2 DEF PartlyRead
    <3>4. run' \in [Run -> [at : stages, read : PartlyRead]]
      BY <1>1, <3>1, <3>3
    <3>5. ToWrite(r)' = ToWrite(r)
      <4>1. ToWrite(r) = [lead |-> was.read.lead,
                          events |-> IF was.read.lead.known THEN events ELSE Funn!NoEvents,
                          fit |-> fit, referred |-> referrals]
        BY <3>1 DEF ToWrite
      <4>2. /\ run'[r].at = "keywords" /\ run'[r].read.lead = was.read.lead
            /\ run'[r].read.events = IF was.read.lead.known THEN events ELSE Funn!NoEvents
            /\ fit' = fit /\ referrals' = referrals
        BY <1>1, <3>2
      <4> QED
        BY <4>1, <4>2 DEF ToWrite
    <3>6. was.read.lead \in LeadRow /\ (was.read.lead.known => lead.known)
      BY <1>1, <3>1 DEF ReadsWhatThereIs
    <3> QED
      BY <3>2, <3>4, <3>5, <3>6
  <2>3. CASE Funn!ReadKeywords(r)
    <3>1. /\ was.at = "keywords"
          /\ run' = [run EXCEPT ![r].at = "referrals", ![r].read["fit"] = fit]
      BY <2>3 DEF Funn!ReadKeywords, Funn!Reads
    <3>2. run'[r] = [at |-> "referrals", read |-> [lead |-> was.read.lead, events |-> was.read.events,
                                                   fit |-> fit, referred |-> was.read.referred]]
      BY <1>1, <3>1 DEF PartlyRead
    <3>3. run'[r] \in [at : stages, read : PartlyRead]
      BY <1>1, <1>2, <3>2 DEF PartlyRead
    <3>4. run' \in [Run -> [at : stages, read : PartlyRead]]
      BY <1>1, <3>1, <3>3
    <3>5. ToWrite(r)' = ToWrite(r)
      <4>1. ToWrite(r) = [lead |-> was.read.lead, events |-> was.read.events,
                          fit |-> fit, referred |-> referrals]
        BY <3>1 DEF ToWrite
      <4>2. /\ run'[r].at = "referrals" /\ run'[r].read.lead = was.read.lead
            /\ run'[r].read.events = was.read.events /\ run'[r].read.fit = fit
            /\ referrals' = referrals
        BY <1>1, <3>2
      <4> QED
        BY <4>1, <4>2 DEF ToWrite
    <3>6. was.read.lead \in LeadRow /\ (was.read.lead.known => lead.known)
      BY <1>1, <3>1 DEF ReadsWhatThereIs
    <3> QED
      BY <3>2, <3>4, <3>5, <3>6
  <2>4. CASE Funn!ReadReferrals(r)
    <3>1. /\ was.at = "referrals"
          /\ run' = [run EXCEPT ![r].at = "write", ![r].read["referred"] = referrals]
      BY <2>4 DEF Funn!ReadReferrals, Funn!Reads
    <3>2. run'[r] = [at |-> "write", read |-> [lead |-> was.read.lead, events |-> was.read.events,
                                               fit |-> was.read.fit, referred |-> referrals]]
      BY <1>1, <3>1 DEF PartlyRead
    <3>3. run'[r] \in [at : stages, read : PartlyRead]
      BY <1>1, <1>2, <3>2 DEF PartlyRead
    <3>4. run' \in [Run -> [at : stages, read : PartlyRead]]
      BY <1>1, <3>1, <3>3
    <3>5. ToWrite(r)' = ToWrite(r)
      <4>1. ToWrite(r) = [lead |-> was.read.lead, events |-> was.read.events,
                          fit |-> was.read.fit, referred |-> referrals]
        BY <3>1 DEF ToWrite
      <4>2. /\ run'[r].at = "write" /\ run'[r].read.lead = was.read.lead
            /\ run'[r].read.events = was.read.events /\ run'[r].read.fit = was.read.fit
            /\ run'[r].read.referred = referrals
        BY <3>2
      <4> QED
        BY <4>1, <4>2 DEF ToWrite
    <3>6. was.read.lead \in LeadRow /\ (was.read.lead.known => lead.known)
      BY <1>1, <3>1 DEF ReadsWhatThereIs
    <3> QED
      BY <3>2, <3>4, <3>5, <3>6
  <2> QED
    BY <2>1, <2>2, <2>3, <2>4
<1>5. Funn!Data' = Funn!Data
  BY <1>1 DEF Funn!Data
<1>6. \A q \in Run \ {r} : ToWrite(q)' = ToWrite(q)
  BY <1>1, <1>3 DEF ToWrite
<1>7. ASSUME NEW q \in Run PROVE ReadsWhatThereIs(q)'
  <2>1. ReadsWhatThereIs(q)
    BY DEF LeadInv
  <2>2. CASE q = r
    BY <1>1, <1>4, <1>5, <2>1, <2>2 DEF ReadsWhatThereIs
  <2>3. CASE q # r
    <3>1. run'[q] = run[q] /\ ToWrite(q)' = ToWrite(q)
      BY <1>3, <1>6, <2>3
    <3> QED
      BY <1>1, <1>5, <2>1, <3>1 DEF ReadsWhatThereIs
  <2> QED
    BY <2>2, <2>3
<1>8. \A q \in Run : ToWrite(q)' = ToWrite(q) /\ (run'[q].at # "idle" <=> run[q].at # "idle")
  BY <1>1, <1>3, <1>4, <1>6
<1>9. OneAtATime'
  <2>1. /\ Funn!ScoreLead(Funn!Data)' = Funn!ScoreLead(Funn!Data')
        /\ \A q \in Run : Funn!ScoreLead(ToWrite(q))' = Funn!ScoreLead(ToWrite(q)')
    BY Zenon DEF Funn!ScoreLead, Funn!Sum, Funn!MailPoints, Funn!Engagement, Funn!Lower,
       Funn!PointsFor, Funn!MapThenSumSet, Funn!MapThenFoldSet
  <2>2. OneAtATime
    BY DEF LeadInv
  <2> QED
    BY <1>1, <1>5, <1>8, <2>1, <2>2 DEF OneAtATime
<1>10. Funn!ScoreIsCurrent'
  BY <1>4 DEF Funn!ScoreIsCurrent
<1> QED
  BY <1>1, <1>2, <1>4, <1>7, <1>9, <1>10 DEF LeadInv

\* The only step that changes a score: it writes what was read.
LEMMA ScoringWrites ==
  ASSUME LeadInv, NEW r \in Run, Funn!WriteScore(r)
  PROVE  /\ LeadInv'
         /\ ~leadOverlapped /\ ~dropped => leadScore.score <= leadScore'.score
<1> DEFINE stages == Stages
<1>1. /\ run[r].at = "write" /\ leadScore' = Funn!ScoreLead(run[r].read)
      /\ run' = [run EXCEPT ![r] = Funn!NotRunning]
      /\ UNCHANGED <<lead, events, fit, referrals, runs, changes, owed, changed, leadOverlapped,
                     dropped>>
      /\ run \in [Run -> [at : stages, read : PartlyRead]]
  BY DEF Funn!WriteScore, Funn!data, LeadInv
<1>2. /\ run' \in [Run -> [at : stages, read : PartlyRead]]
      /\ run'[r].at = "idle" /\ \A q \in Run \ {r} : run'[q] = run[q]
  <2>1. Funn!NotRunning \in [at : stages, read : PartlyRead] /\ Funn!NotRunning.at = "idle"
    BY LeadAssumption, FS_EmptySet DEF Funn!NotRunning, Funn!NoEvents, PartlyRead, Seen, Stages
  <2> QED
    BY <1>1, <2>1
<1>3. ToWrite(r) = run[r].read
  <2>1. ToWrite(r) = [lead |-> run[r].read.lead, events |-> run[r].read.events,
                      fit |-> run[r].read.fit, referred |-> run[r].read.referred]
    BY <1>1 DEF ToWrite
  <2>2. run[r].read \in PartlyRead
    BY <1>1
  <2> QED
    BY <2>1, <2>2 DEF PartlyRead
<1>4. /\ ToWrite(r) \in DataRead /\ Funn!Data \in DataRead
      /\ ~dropped => AtMost(ToWrite(r), Funn!Data)
  BY <1>1, ReadingsAre DEF LeadInv, ReadsWhatThereIs
<1>5. /\ leadScore' \in [score : 0..100, contactable : BOOLEAN]
      /\ ~dropped => leadScore'.score <= Funn!ScoreLead(Funn!Data).score
  <2>1. AtMost(ToWrite(r), ToWrite(r))
    BY <1>4, AtMostItself
  <2> QED
    BY <1>1, <1>3, <1>4, <2>1, ScoreGrows
<1>6. Funn!Data' = Funn!Data /\ \A q \in Run \ {r} : ToWrite(q)' = ToWrite(q)
  BY <1>1, <1>2 DEF Funn!Data, ToWrite
<1>7. ASSUME NEW q \in Run PROVE ReadsWhatThereIs(q)'
  <2>1. CASE q = r
    BY <1>2, <2>1 DEF ReadsWhatThereIs
  <2>2. CASE q # r
    <3>1. run'[q] = run[q] /\ ToWrite(q)' = ToWrite(q) /\ ReadsWhatThereIs(q) /\ lead' = lead
      BY <1>1, <1>2, <1>6, <2>2 DEF LeadInv
    <3> QED
      BY <1>1, <1>6, <3>1 DEF ReadsWhatThereIs
  <2> QED
    BY <2>1, <2>2
<1>8. Funn!ScoreLead(Funn!Data)' = Funn!ScoreLead(Funn!Data')
  BY Zenon DEF Funn!ScoreLead, Funn!Sum, Funn!MailPoints, Funn!Engagement, Funn!Lower,
     Funn!PointsFor, Funn!MapThenSumSet, Funn!MapThenFoldSet
<1>9. ASSUME ~leadOverlapped
      PROVE  /\ \A q \in Run : run'[q].at = "idle"
             /\ ~dropped => leadScore.score <= leadScore'.score
             /\ ~changed => leadScore' = Funn!ScoreLead(Funn!Data)
  <2>1. OneAtATime
    BY DEF LeadInv
  <2>2. \A q \in Run \ {r} : run[q].at = "idle"
    BY <1>1, <1>9, <2>1 DEF OneAtATime
  <2>3. run[r].at # "idle"
    BY <1>1
  <2> QED
    BY <1>1, <1>2, <1>3, <1>9, <2>1, <2>2, <2>3 DEF OneAtATime
<1>10. OneAtATime'
  <2> SUFFICES ASSUME ~leadOverlapped' PROVE OneAtATime'
    BY DEF OneAtATime
  <2>1. ~leadOverlapped
    BY <1>1
  <2>2. \A q \in Run : run'[q].at = "idle"
    BY <1>9, <2>1
  <2> QED
    BY <1>1, <1>5, <1>6, <1>8, <2>2 DEF OneAtATime
<1>11. Funn!ScoreIsCurrent'
  <2> SUFFICES ASSUME ~changed', ~leadOverlapped'
               PROVE  leadScore' = Funn!ScoreLead(Funn!Data)'
    BY DEF Funn!ScoreIsCurrent
  <2> QED
    BY <1>1, <1>6, <1>8, <1>9
<1> QED
  BY <1>1, <1>2, <1>5, <1>7, <1>9, <1>10, <1>11 DEF LeadInv

\* A rescoring is cut off: what the others will write is the same.
LEMMA BreakingStep ==
  ASSUME LeadInv, NEW r \in Run, Funn!Breaks(r)
  PROVE  LeadInv'
<1>1. /\ UNCHANGED <<lead, events, fit, referrals, leadScore, runs, changes, leadOverlapped, dropped>>
      /\ run' = [run EXCEPT ![r] = Funn!NotRunning] /\ owed' = owed \ {r} /\ changed' = TRUE
      /\ run \in [Run -> [at : Stages, read : PartlyRead]] /\ owed \subseteq Run
  BY DEF Funn!Breaks, Funn!data, LeadInv
<1>2. /\ run' \in [Run -> [at : Stages, read : PartlyRead]]
      /\ run'[r].at = "idle" /\ \A q \in Run \ {r} : run'[q] = run[q]
  <2>1. Funn!NotRunning \in [at : Stages, read : PartlyRead] /\ Funn!NotRunning.at = "idle"
    BY LeadAssumption, FS_EmptySet DEF Funn!NotRunning, Funn!NoEvents, PartlyRead, Seen, Stages
  <2> QED
    BY <1>1, <2>1
<1>3. Funn!Data' = Funn!Data /\ \A q \in Run \ {r} : ToWrite(q)' = ToWrite(q)
  BY <1>1, <1>2 DEF Funn!Data, ToWrite
<1>4. ASSUME NEW q \in Run PROVE ReadsWhatThereIs(q)'
  <2>1. CASE q = r
    BY <1>2, <2>1 DEF ReadsWhatThereIs
  <2>2. CASE q # r
    <3>1. run'[q] = run[q] /\ ToWrite(q)' = ToWrite(q) /\ ReadsWhatThereIs(q) /\ lead' = lead
      BY <1>1, <1>2, <1>3, <2>2 DEF LeadInv
    <3> QED
      BY <1>1, <1>3, <3>1 DEF ReadsWhatThereIs
  <2> QED
    BY <2>1, <2>2
<1>5. OneAtATime'
  <2>1. /\ Funn!ScoreLead(Funn!Data)' = Funn!ScoreLead(Funn!Data')
        /\ \A q \in Run : Funn!ScoreLead(ToWrite(q))' = Funn!ScoreLead(ToWrite(q)')
    BY Zenon DEF Funn!ScoreLead, Funn!Sum, Funn!MailPoints, Funn!Engagement, Funn!Lower,
       Funn!PointsFor, Funn!MapThenSumSet, Funn!MapThenFoldSet
  <2>2. OneAtATime
    BY DEF LeadInv
  <2> QED
    BY <1>1, <1>2, <1>3, <2>1, <2>2 DEF OneAtATime
<1>6. Funn!ScoreIsCurrent'
  BY <1>1 DEF Funn!ScoreIsCurrent
<1> QED
  BY <1>1, <1>2, <1>4, <1>5, <1>6 DEF LeadInv

LEMMA ScoringStep ==
  ASSUME LeadInv, [Funn!LeadNext]_(Funn!leadScoreVars)
  PROVE  /\ LeadInv'
         /\ ~leadOverlapped /\ ~dropped => leadScore.score <= leadScore'.score
<1> DEFINE others == <<leadScore, run, runs, leadOverlapped>>
<1>1. /\ lead \in LeadRow /\ events \in Seen /\ fit \in Matches /\ referrals \in BOOLEAN
      /\ changes \in 0..MaxChanges /\ owed \subseteq Run /\ dropped \in BOOLEAN
      /\ leadScore.score \in 0..100
  BY DEF LeadInv
<1>2. /\ events.views \in Nat /\ events.did \subseteq Intent /\ IsFiniteSet(events.did)
      /\ events.views <= events.views /\ fit \in Int /\ fit <= fit
  <2>1. events.views \in Nat /\ fit \in Int
    BY <1>1, LeadAssumption DEF Seen
  <2> QED
    BY <1>1, <2>1 DEF Seen
<1>3. leadScore' = leadScore => leadScore.score <= leadScore'.score
  BY <1>1
<1>4. CASE UNCHANGED Funn!leadScoreVars
  <2>1. UNCHANGED <<lead, events, fit, referrals, leadScore, run, runs, changes, owed, changed,
                    leadOverlapped, dropped>>
    BY <1>4 DEF Funn!leadScoreVars, Funn!data
  <2>2. Funn!Data' = Funn!Data /\ \A r \in Run : ToWrite(r)' = ToWrite(r)
    BY <2>1 DEF Funn!Data, ToWrite
  <2>3. /\ Funn!ScoreLead(Funn!Data)' = Funn!ScoreLead(Funn!Data')
        /\ \A r \in Run : Funn!ScoreLead(ToWrite(r))' = Funn!ScoreLead(ToWrite(r)')
    BY Zenon DEF Funn!ScoreLead, Funn!Sum, Funn!MailPoints, Funn!Engagement, Funn!Lower,
       Funn!PointsFor, Funn!MapThenSumSet, Funn!MapThenFoldSet
  <2>4. OneAtATime' /\ Funn!ScoreIsCurrent' /\ \A r \in Run : ReadsWhatThereIs(r)'
    BY <2>1, <2>2, <2>3 DEF LeadInv, OneAtATime, Funn!ScoreIsCurrent, ReadsWhatThereIs
  <2> QED
    BY <1>3, <2>1, <2>4 DEF LeadInv
<1>5. ASSUME Funn!Changes PROVE changed' = TRUE /\ UNCHANGED others /\ changes' \in 0..MaxChanges
  <2>1. changes' \in 0..MaxChanges
    BY <1>1, <1>5, LeadAssumption DEF Funn!Changes
  <2> QED
    BY <1>5, <2>1 DEF Funn!Changes, Funn!Unscored
<1>6. ASSUME NEW S \in SUBSET Intent, IsFiniteSet(S), NEW i \in Intent
      PROVE  IsFiniteSet(S \cup {i})
  BY <1>6, FS_AddElement
<1>7. CASE Funn!Track
  <2>1. /\ UNCHANGED <<lead, fit, referrals, owed, dropped>> /\ Funn!Changes
    BY <1>7 DEF Funn!Track
  <2>2. events' \in Seen /\ events.views <= events'.views /\ events.did \subseteq events'.did
    <3>1. ASSUME NEW n \in Views, n > events.views, events' = [events EXCEPT !.views = n]
          PROVE  events' \in Seen /\ events.views <= events'.views
                   /\ events.did \subseteq events'.did
      <4>1. n \in Nat /\ events'.views = n /\ events'.did = events.did
        BY <1>1, <3>1, LeadAssumption DEF Seen
      <4>2. events.views <= events'.views
        BY <1>2, <3>1, <4>1
      <4>3. events' \in Seen
        BY <1>1, <3>1 DEF Seen
      <4> QED
        BY <4>1, <4>2, <4>3
    <3>2. ASSUME NEW i \in Intent, events' = [events EXCEPT !.did = @ \cup {i}]
          PROVE  events' \in Seen /\ events.views <= events'.views
                   /\ events.did \subseteq events'.did
      <4>1. IsFiniteSet(events.did \cup {i})
        BY <1>2, <1>6
      <4>2. events'.views = events.views /\ events'.did = events.did \cup {i}
        BY <1>1, <3>2 DEF Seen
      <4>3. events' \in Seen
        BY <1>1, <1>2, <3>2, <4>1 DEF Seen
      <4> QED
        BY <1>2, <4>2, <4>3
    <3> QED
      BY <1>7, <3>1, <3>2 DEF Funn!Track
  <2>3. LeadInv'
    BY <1>1, <1>2, <1>5, <2>1, <2>2, DataGrow
  <2> QED
    BY <1>3, <1>5, <2>1, <2>3
<1>8. CASE Funn!Refer
  <2>1. /\ UNCHANGED <<lead, events, fit, owed, dropped>> /\ referrals' = TRUE /\ Funn!Changes
    BY <1>8 DEF Funn!Refer
  <2>2. events.views <= events'.views /\ referrals' \in BOOLEAN
    BY <1>2, <2>1
  <2>3. LeadInv'
    BY <1>1, <1>2, <1>5, <2>1, <2>2, DataGrow
  <2> QED
    BY <1>3, <1>5, <2>1, <2>3
<1>9. ASSUME NEW n \in Matches, Funn!ReplaceKeywords(n)
      PROVE  LeadInv' /\ leadScore' = leadScore
  <2>1. /\ UNCHANGED <<lead, events, referrals, owed>> /\ fit' = n
        /\ dropped' = (dropped \/ n < fit) /\ Funn!Changes
    BY <1>9 DEF Funn!ReplaceKeywords
  <2>2. /\ events.views <= events'.views /\ fit' \in Matches /\ n \in Int
        /\ dropped' \in BOOLEAN /\ (dropped => dropped')
    BY <1>1, <1>2, <2>1, LeadAssumption
  <2>3. ~dropped' => ~(n < fit)
    BY <2>1
  <2>4. ~dropped' => fit <= fit'
    BY <1>2, <2>1, <2>2, <2>3
  <2> QED
    BY <1>1, <1>5, <2>1, <2>2, <2>4, DataGrow
<1>10. ASSUME NEW consent \in {"unknown", "inbound"}, Funn!UpdateConsent(consent)
       PROVE  LeadInv' /\ leadScore' = leadScore
  <2>1. /\ lead' = [lead EXCEPT !.consent = consent]
        /\ UNCHANGED <<events, fit, referrals, owed, dropped>> /\ Funn!Changes
    BY <1>10 DEF Funn!UpdateConsent
  <2>2. /\ lead' \in LeadRow /\ lead'.profile = lead.profile /\ lead'.mail = lead.mail
        /\ lead'.known = lead.known
    BY <1>1, <2>1 DEF LeadRow
  <2>3. events.views <= events'.views
    BY <1>2, <2>1
  <2> QED
    BY <1>1, <1>2, <1>5, <2>1, <2>2, <2>3, DataGrow
<1>11. ASSUME NEW r \in Run, Funn!RecordSignup(r)
       PROVE  LeadInv' /\ leadScore' = leadScore
  <2>1. /\ UNCHANGED <<lead, fit, referrals, changes, dropped>> /\ owed' = owed \ {r}
        /\ events' = [events EXCEPT !.did = @ \cup {"signup"}]
        /\ changed' = TRUE /\ UNCHANGED others
    BY <1>11 DEF Funn!RecordSignup, Funn!Unscored
  <2>2. IsFiniteSet(events.did \cup {"signup"})
    BY <1>2, <1>6, LeadAssumption
  <2>3. events'.views = events.views /\ events'.did = events.did \cup {"signup"}
    BY <1>1, <2>1 DEF Seen
  <2>4. /\ events' \in Seen /\ events.views <= events'.views
        /\ events.did \subseteq events'.did /\ owed' \subseteq Run
    BY <1>1, <1>2, <2>1, <2>2, <2>3, LeadAssumption DEF Seen
  <2> QED
    BY <1>1, <1>2, <2>1, <2>4, DataGrow
<1>12. ASSUME NEW r \in Run, Funn!Rescore(r)
      PROVE  LeadInv' /\ leadScore' = leadScore
  <2>1. Funn!Begin(r) /\ UNCHANGED <<lead, owed>>
    BY <1>12 DEF Funn!Rescore
  <2>2. leadScore' = leadScore
    BY <2>1 DEF Funn!Begin
  <2> QED
    BY <1>1, <2>1, <2>2, BeginsScoring
<1>13. ASSUME NEW r \in Run, Funn!SignsUp(r)
      PROVE  LeadInv' /\ leadScore' = leadScore
  <2>1. Funn!Begin(r) /\ lead' = [lead EXCEPT !.known = TRUE] /\ owed' = owed \cup {r}
    BY <1>13 DEF Funn!SignsUp
  <2>2. /\ lead' \in LeadRow /\ lead'.profile = lead.profile /\ lead'.mail = lead.mail
        /\ (lead.known => lead'.known) /\ owed' \subseteq Run
    BY <1>1, <2>1 DEF LeadRow
  <2>3. leadScore' = leadScore
    BY <2>1 DEF Funn!Begin
  <2> QED
    BY <2>1, <2>2, <2>3, BeginsScoring
<1>14. ASSUME NEW r \in Run,
              \/ Funn!ReadLead(r) \/ Funn!ReadEvents(r) \/ Funn!ReadKeywords(r)
              \/ Funn!ReadReferrals(r)
       PROVE  LeadInv' /\ leadScore' = leadScore
  <2>1. leadScore' = leadScore
    BY <1>14 DEF Funn!ReadLead, Funn!ReadEvents, Funn!ReadKeywords, Funn!ReadReferrals, Funn!Reads
  <2> QED
    BY <1>14, <2>1, ReadingStep
<1>15. ASSUME NEW r \in Run, Funn!Breaks(r)
       PROVE  LeadInv' /\ leadScore' = leadScore
  <2>1. leadScore' = leadScore
    BY <1>15 DEF Funn!Breaks
  <2> QED
    BY <1>15, <2>1, BreakingStep
<1> QED
  BY <1>3, <1>4, <1>7, <1>8, <1>9, <1>10, <1>11, <1>12, <1>13, <1>14, <1>15, ScoringWrites
     DEF Funn!LeadNext

LEMMA LeadSafe ==
  ASSUME LeadInv
  PROVE  Funn!LeadTypeOK /\ Funn!ScoreIsCurrent
<1>1. /\ lead.profile \in Profile /\ lead.known \in BOOLEAN /\ fit \in Matches
      /\ events.views \in Views /\ events.did \subseteq Intent
      /\ leadScore.score \in 0..100 /\ leadScore.contactable \in BOOLEAN
      /\ \A r \in Run : run[r].at \in {"idle", "lead", "events", "keywords", "referrals", "write"}
      /\ runs \in 0..MaxRuns /\ changes \in 0..MaxChanges /\ owed \subseteq Run
  BY DEF LeadInv, LeadRow, Seen, Stages
<1>2. {referrals, changed, leadOverlapped, dropped} \subseteq BOOLEAN
  BY DEF LeadInv
<1> QED
  BY <1>1, <1>2 DEF LeadInv, Funn!LeadTypeOK

-----------------------------------------------------------------------------

LEMMA FunnelAlways == ServicesSpec => []FunnelInv
<1>1. ServicesInit => FunnelInv
  BY FunnelStarts DEF ServicesInit
<1>2. ASSUME FunnelInv, [ServicesNext]_all PROVE FunnelInv'
  <2>1. [Funn!Next]_(Funn!funnelVars)
    BY <1>2 DEF ServicesNext, Rest, all, funnelState, Funn!funnelVars, Funn!siteVars, Funn!leadVars
  <2> QED
    BY <1>2, <2>1, FunnelStep
<1> QED
  BY <1>1, <1>2, PTL DEF ServicesSpec

LEMMA ScoringServed ==
  ASSUME [ServicesNext]_all
  PROVE  [Funn!LeadNext]_(Funn!leadScoreVars)
BY DEF ServicesNext, Rest, all, leadsState, Funn!leadScoreVars, Funn!data

LEMMA LeadAlways == ServicesSpec => []LeadInv
<1>1. ServicesInit => LeadInv
  BY LeadStarts DEF ServicesInit
<1>2. LeadInv /\ [ServicesNext]_all => LeadInv'
  BY ScoringServed, ScoringStep
<1> QED
  BY <1>1, <1>2, PTL DEF ServicesSpec

\* For any number of visitors, addresses, variants and events on their way: a
\* signup that the ingestion has counted has its lead and its address in the
\* site's store, an unsubscribed lead shows it whatever is ingested later, and
\* a visitor is of one variant as long as the page keeps its variants; and the
\* score of a lead is that of its data, when nothing has changed since the last
\* rescoring began, none has overlapped another and none is going on.
THEOREM CountsAreOfVisitors == ServicesSpec => []VisitorsAreCounted
<1>1. FunnelInv /\ LeadInv => VisitorsAreCounted
  BY FunnelSafe, LeadSafe DEF VisitorsAreCounted
<1> QED
  BY <1>1, FunnelAlways, LeadAlways, PTL

\* No rescoring lowers the score of a lead for what its person does, as long
\* as no two of them have overlapped and no scan has left the opportunity with
\* keywords that fit the lead less, however many rescorings there were.
THEOREM ActivityNeverCosts == ServicesSpec => MoreIsNeverLess
<1>1. ASSUME LeadInv, [ServicesNext]_all
      PROVE  [leadScore'.score < leadScore.score => leadOverlapped \/ dropped]_(Funn!leadScoreVars)
  <2>1. ~leadOverlapped /\ ~dropped => leadScore.score <= leadScore'.score
    BY <1>1, ScoringServed, ScoringStep
  <2>2. LeadInv'
    BY <1>1, ScoringServed, ScoringStep
  <2>3. leadScore.score \in 0..100 /\ leadScore'.score \in 0..100
    BY <1>1, <2>2 DEF LeadInv
  <2>4. leadScore'.score < leadScore.score => ~ (leadScore.score <= leadScore'.score)
    BY <2>3
  <2> QED
    BY <2>1, <2>4
<1> QED
  BY <1>1, LeadAlways, PTL DEF ServicesSpec, MoreIsNeverLess, Funn!MoreIsNeverLess

-----------------------------------------------------------------------------
(* Payments *)

RowSet == [id : {"ch", "in", "re"} \X Payment \X Nat, amount : Int]
Brought == [r \in RowSet |-> r.amount]
Returned == [r \in RowSet |-> 0 - r.amount]

\* The row that a payment is to have, if it is not of nothing, and those of the
\* refunds that Stripe has told of.
PaidRow(p) == Bill!Row(IF paid[p].invoiced THEN "in" ELSE "ch", p, 0, paid[p].amount)
RefundsOf(p) == {e \in told : e.of = p /\ e.type = "charge.refunded"}
ReturnRows(p) == {Bill!Row("re", p, e.amount, e.before - e.amount) : e \in RefundsOf(p)}
RowsToHave(p) == (IF paid[p].amount > 0 THEN {PaidRow(p)} ELSE {}) \cup ReturnRows(p)

InvoiceEvents == {"invoice.paid", "invoice.payment_succeeded"}
PaidRecord == [amount : -1..MaxAmount, invoiced : BOOLEAN, refunded : 0..MaxAmount]

\* An event tells of a payment as it is, or of a refund of a part of it.
TellsOf(e) ==
  /\ e.of \in Payment /\ paid[e.of] # Bill!NotPaid
  /\ e.type \in {"charge.succeeded", "charge.refunded"} \cup InvoiceEvents
  /\ e.type # "charge.refunded" => e.amount = paid[e.of].amount
  /\ e.type \in InvoiceEvents => paid[e.of].invoiced
  /\ e.type = "charge.succeeded" => e.amount > 0
  /\ e.type = "charge.refunded" => /\ e.before \in Nat /\ e.amount \in Nat
                                   /\ e.before < e.amount /\ e.amount <= paid[e.of].refunded

\* Stripe tells of every payment, and its refunds come to what it has returned.
IsTold(p) ==
  /\ paid[p] # Bill!NotPaid =>
       /\ paid[p].amount >= 0
       /\ paid[p].amount > 0 => Bill!StripeEvent("charge.succeeded", p, paid[p].amount, 0) \in told
       /\ paid[p].invoiced => Bill!StripeEvent("invoice.paid", p, paid[p].amount, 0) \in told
  /\ \A e, f \in RefundsOf(p) : e.amount = f.amount => e.before = f.before
  /\ IsFiniteSet(ReturnRows(p)) /\ SumOf(Returned, ReturnRows(p)) = paid[p].refunded

BillingInv ==
  /\ paid \in [Payment -> PaidRecord]
  /\ key \in [theirs : 1..MaxKeys, ours : 0..MaxKeys]
  /\ taken \subseteq told /\ sync \subseteq Payment /\ synced \subseteq Payment
  /\ \A e \in told : TellsOf(e)
  /\ \A p \in Payment : IsTold(p)
  /\ \A r \in billingLedger : \E p \in Payment : r \in RowsToHave(p)
  /\ \A e \in taken : Bill!RowsOf(e) \subseteq billingLedger
  /\ \A p \in sync \cup synced : paid[p].invoiced
  /\ \A p \in synced : paid[p].amount > 0 => PaidRow(p) \in billingLedger

LEMMA RowsAre ==
  ASSUME BillingInv, NEW p \in Payment
  PROVE  /\ \A r \in ReturnRows(p) : r \in RowSet /\ r.id[1] = "re" /\ r.id[2] = p /\ r.amount < 0
         /\ \A r \in RowsToHave(p) : r \in RowSet /\ r.id[2] = p
         /\ paid[p].amount > 0 => /\ PaidRow(p) \in RowSet /\ PaidRow(p).id[1] # "re"
                                  /\ PaidRow(p).amount = paid[p].amount /\ PaidRow(p).id[2] = p
         /\ paid[p] = Bill!NotPaid => RowsToHave(p) = {}
<1>1. ASSUME NEW r \in ReturnRows(p)
      PROVE  /\ r \in RowSet /\ r.id[1] = "re" /\ r.id[2] = p /\ r.amount < 0
             /\ paid[p] # Bill!NotPaid
  <2>1. PICK e \in RefundsOf(p) : r = Bill!Row("re", p, e.amount, e.before - e.amount)
    BY DEF ReturnRows
  <2>2. e.before \in Nat /\ e.amount \in Nat /\ e.before < e.amount /\ paid[p] # Bill!NotPaid
    BY DEF RefundsOf, BillingInv, TellsOf
  <2>3. e.before - e.amount \in Int /\ e.before - e.amount < 0
    BY <2>2
  <2>4. r.id = <<"re", p, e.amount>> /\ r.amount = e.before - e.amount
    BY <2>1 DEF Bill!Row
  <2>5. r \in RowSet
    BY <2>1, <2>2, <2>3 DEF Bill!Row, RowSet
  <2> QED
    BY <2>2, <2>3, <2>4, <2>5
<1>2. paid[p].amount > 0 => /\ PaidRow(p) \in RowSet /\ PaidRow(p).id[1] # "re"
                            /\ PaidRow(p).amount = paid[p].amount /\ PaidRow(p).id[2] = p
  <2>1. paid[p].amount \in Int
    BY BillingAssumption DEF BillingInv, PaidRecord
  <2> DEFINE kind == IF paid[p].invoiced THEN "in" ELSE "ch"
  <2>2. kind \in {"ch", "in"}
    OBVIOUS
  <2>3. PaidRow(p) = [id |-> <<kind, p, 0>>, amount |-> paid[p].amount]
    BY DEF PaidRow, Bill!Row
  <2> HIDE DEF kind
  <2> QED
    BY <2>1, <2>2, <2>3 DEF RowSet
<1>3. paid[p] = Bill!NotPaid => ~(paid[p].amount > 0)
  BY DEF Bill!NotPaid
<1> QED
  BY <1>1, <1>2, <1>3 DEF RowsToHave

\* A name is of one row, so that ON CONFLICT never keeps another row.
LEMMA OneRowPerName ==
  ASSUME BillingInv, NEW p \in Payment, NEW r \in RowsToHave(p), NEW q \in Payment,
         NEW s \in RowsToHave(q), r.id = s.id
  PROVE  r = s
<1>1. p = q
  BY RowsAre
<1>2. CASE r \in ReturnRows(p) /\ s \in ReturnRows(p)
  <2>1. PICK e \in RefundsOf(p) : r = Bill!Row("re", p, e.amount, e.before - e.amount)
    BY <1>2 DEF ReturnRows
  <2>2. PICK f \in RefundsOf(p) : s = Bill!Row("re", p, f.amount, f.before - f.amount)
    BY <1>2 DEF ReturnRows
  <2>3. e.amount = f.amount
    BY <2>1, <2>2 DEF Bill!Row
  <2>4. e.before = f.before
    BY <2>3 DEF BillingInv, IsTold
  <2> QED
    BY <2>1, <2>2, <2>3, <2>4
<1>3. CASE r \notin ReturnRows(p) /\ s \notin ReturnRows(p)
  BY <1>1, <1>3 DEF RowsToHave
<1>4. CASE r \in ReturnRows(p) /\ s \notin ReturnRows(p)
  BY <1>1, <1>4, RowsAre DEF RowsToHave
<1>5. CASE r \notin ReturnRows(p) /\ s \in ReturnRows(p)
  BY <1>1, <1>5, RowsAre DEF RowsToHave
<1> QED
  BY <1>1, <1>2, <1>3, <1>4, <1>5

\* What an event asks for is among the rows that its payment is to have.
LEMMA EventAsksFor ==
  ASSUME BillingInv, NEW e, TellsOf(e), e.type = "charge.refunded" => e \in told
  PROVE  Bill!RowsOf(e) \subseteq RowsToHave(e.of)
<1>1. e.of \in Payment /\ paid[e.of].amount \in Int
  BY BillingAssumption DEF TellsOf, BillingInv, PaidRecord
<1>2. CASE e.type = "charge.succeeded"
  BY <1>2 DEF TellsOf, Bill!RowsOf, Bill!ChargeRows, RowsToHave, PaidRow
<1>3. CASE e.type = "charge.refunded"
  <2>1. e \in RefundsOf(e.of)
    BY <1>3 DEF RefundsOf
  <2>2. Bill!RowsOf(e) = {Bill!Row("re", e.of, e.amount, e.before - e.amount)}
    BY <1>3 DEF Bill!RowsOf, Bill!RefundRows
  <2> QED
    BY <2>1, <2>2 DEF RowsToHave, ReturnRows
<1>4. CASE e.type \in InvoiceEvents
  <2>1. Bill!RowsOf(e) = IF e.amount = 0 THEN {} ELSE {Bill!Row("in", e.of, 0, e.amount)}
    BY <1>4 DEF Bill!RowsOf, Bill!InvoiceRows, InvoiceEvents
  <2>2. e.amount = paid[e.of].amount /\ paid[e.of].invoiced /\ paid[e.of].amount >= 0
    BY <1>1, <1>4 DEF TellsOf, BillingInv, IsTold, InvoiceEvents
  <2>3. e.amount # 0 => paid[e.of].amount > 0
    BY <1>1, <2>2
  <2> QED
    BY <2>1, <2>2, <2>3 DEF RowsToHave, PaidRow
<1> QED
  BY <1>2, <1>3, <1>4 DEF TellsOf, InvoiceEvents

LEMMA BillingStarts == ASSUME Bill!Init PROVE BillingInv
<1>1. Bill!NotPaid \in PaidRecord
  BY BillingAssumption DEF Bill!NotPaid, PaidRecord
<1>2. \A p \in Payment : RefundsOf(p) = {} /\ ReturnRows(p) = {}
  BY DEF Bill!Init, RefundsOf, ReturnRows
<1>3. \A p \in Payment : IsTold(p)
  <2>1. SumOf(Returned, {}) = 0 /\ IsFiniteSet({})
    BY SumEmpty, FS_EmptySet
  <2>2. \A p \in Payment : paid[p] = Bill!NotPaid /\ paid[p].refunded = 0
    BY DEF Bill!Init, Bill!NotPaid
  <2> QED
    BY <1>2, <2>1, <2>2 DEF IsTold
<1>4. key \in [theirs : 1..MaxKeys, ours : 0..MaxKeys]
  BY BillingAssumption DEF Bill!Init
<1>5. paid \in [Payment -> PaidRecord]
  BY <1>1 DEF Bill!Init
<1> QED
  BY <1>3, <1>4, <1>5 DEF Bill!Init, BillingInv

\* Rows that are not there yet are added, of those that are to be had.
LEMMA Recording ==
  ASSUME BillingInv, NEW e, TellsOf(e), e.type = "charge.refunded" => e \in told,
         billingLedger' = Bill!Recorded(e), UNCHANGED <<paid, told, key>>,
         taken' \subseteq taken \cup {e}, taken' \subseteq told, sync' \subseteq sync,
         synced' \subseteq synced \cup {e.of},
         e.of \notin synced /\ e.of \in synced' => e.type \in InvoiceEvents
  PROVE  BillingInv'
<1>1. /\ Bill!RowsOf(e) \subseteq RowsToHave(e.of) /\ e.of \in Payment
  BY EventAsksFor DEF TellsOf
<1>2. billingLedger' = billingLedger \cup
        {r \in Bill!RowsOf(e) : \A old \in billingLedger : old.id # r.id}
  BY DEF Bill!Recorded
<1>3. Bill!RowsOf(e) \subseteq billingLedger'
  <2> SUFFICES ASSUME NEW r \in Bill!RowsOf(e), NEW old \in billingLedger, old.id = r.id
               PROVE  r \in billingLedger'
    BY <1>2
  <2>1. PICK q \in Payment : old \in RowsToHave(q)
    BY DEF BillingInv
  <2>2. r = old
    BY <1>1, <2>1, OneRowPerName
  <2> QED
    BY <1>2, <2>2
<1>4. /\ \A p : RowsToHave(p)' = RowsToHave(p) /\ PaidRow(p)' = PaidRow(p)
      /\ \A p : RefundsOf(p)' = RefundsOf(p) /\ ReturnRows(p)' = ReturnRows(p)
  BY DEF RowsToHave, PaidRow, ReturnRows, RefundsOf, Bill!Row
<1>6. \A p \in Payment : IsTold(p)'
  BY <1>4 DEF BillingInv, IsTold, Bill!StripeEvent, Bill!NotPaid
<1>7. \A f \in told' : TellsOf(f)'
  BY DEF BillingInv, TellsOf, Bill!NotPaid
<1>8. \A r \in billingLedger' : \E p \in Payment : r \in RowsToHave(p)'
  BY <1>1, <1>2, <1>4 DEF BillingInv
<1>9. \A f \in taken' : (Bill!RowsOf(f) \subseteq billingLedger)'
  <2> SUFFICES ASSUME NEW f \in taken' PROVE Bill!RowsOf(f)' \subseteq billingLedger'
    OBVIOUS
  <2>1. Bill!RowsOf(f)' = Bill!RowsOf(f)
    BY DEF Bill!RowsOf, Bill!ChargeRows, Bill!RefundRows, Bill!InvoiceRows, Bill!Row
  <2>2. f \in taken \/ f = e
    OBVIOUS
  <2> QED
    BY <1>2, <1>3, <2>1, <2>2 DEF BillingInv
<1>10. \A p \in (sync \cup synced)' : paid'[p].invoiced
  <2>1. e.of \in synced' => e.of \in synced \/ paid[e.of].invoiced
    BY DEF TellsOf
  <2> QED
    BY <2>1 DEF BillingInv
<1>11. \A p \in synced' : paid'[p].amount > 0 => PaidRow(p)' \in billingLedger'
  <2> SUFFICES ASSUME NEW p \in synced', paid[p].amount > 0 PROVE PaidRow(p) \in billingLedger'
    BY <1>4
  <2>1. CASE p \in synced
    BY <1>2, <2>1 DEF BillingInv
  <2>2. CASE p \notin synced
    <3>1. p = e.of /\ e.type \in InvoiceEvents
      BY <2>2
    <3>2. e.amount = paid[p].amount /\ paid[p].invoiced
      BY <3>1 DEF TellsOf, InvoiceEvents
    <3>3. Bill!RowsOf(e) = {Bill!Row("in", p, 0, paid[p].amount)}
      <4>1. e.amount # 0
        BY <3>2
      <4> QED
        BY <3>1, <3>2, <4>1 DEF Bill!RowsOf, Bill!InvoiceRows, InvoiceEvents
    <3> QED
      BY <1>3, <3>2, <3>3 DEF PaidRow
  <2> QED
    BY <2>1, <2>2
<1>12. synced' \subseteq Payment /\ sync' \subseteq Payment
  BY <1>1 DEF BillingInv
<1> QED
  BY <1>6, <1>7, <1>8, <1>9, <1>10, <1>11, <1>12 DEF BillingInv

LEMMA PayStep ==
  ASSUME BillingInv, NEW p \in Payment, NEW n \in 0..MaxAmount, NEW i \in BOOLEAN,
         Bill!Pay(p, n, i)
  PROVE  BillingInv'
<1> DEFINE new == [amount |-> n, invoiced |-> i, refunded |-> 0]
           types == (IF n > 0 THEN {"charge.succeeded"} ELSE {})
                    \cup IF i THEN InvoiceEvents ELSE {}
           told1 == {Bill!StripeEvent(type, p, n, 0) : type \in types}
<1>1. /\ paid[p] = Bill!NotPaid /\ paid' = [paid EXCEPT ![p] = new]
      /\ told' = told \cup told1
      /\ UNCHANGED <<billingLedger, taken, key, sync, synced>>
  BY DEF Bill!Pay, Bill!Tells, InvoiceEvents
<1>2. new \in PaidRecord /\ paid \in [Payment -> PaidRecord] /\ new # Bill!NotPaid
  BY BillingAssumption DEF BillingInv, PaidRecord, Bill!NotPaid
<1>3. paid' \in [Payment -> PaidRecord] /\ paid'[p] = new
      /\ \A q \in Payment \ {p} : paid'[q] = paid[q]
  BY <1>1, <1>2
<1>4. /\ new.amount = n /\ new.invoiced = i /\ new.refunded = 0 /\ n \in Int /\ n >= 0
      /\ paid[p].invoiced = FALSE /\ paid[p].refunded = 0
  BY <1>1, BillingAssumption DEF Bill!NotPaid
<1>5. \A e \in told1 : /\ e.of = p /\ e.amount = n /\ e.type \in types
                       /\ e.type # "charge.refunded"
  BY DEF Bill!StripeEvent, InvoiceEvents
<1>6. \A e \in told : TellsOf(e) /\ e.of # p
  BY <1>1 DEF BillingInv, TellsOf
<1>7. \A q : RefundsOf(q)' = RefundsOf(q) /\ ReturnRows(q)' = ReturnRows(q)
  <2>1. \A q : RefundsOf(q)' = RefundsOf(q)
    BY <1>1, <1>5 DEF RefundsOf
  <2> QED
    BY <2>1 DEF ReturnRows, Bill!Row
<1>8. \A q \in Payment \ {p} : PaidRow(q)' = PaidRow(q) /\ RowsToHave(q)' = RowsToHave(q)
  <2>1. \A q \in Payment \ {p} : PaidRow(q)' = PaidRow(q)
    BY <1>3 DEF PaidRow, Bill!Row
  <2> QED
    BY <1>3, <1>7, <2>1 DEF RowsToHave
<1>9. RowsToHave(p) = {}
  BY <1>1, RowsAre
<1>10. \A e \in told' : TellsOf(e)'
  <2> SUFFICES ASSUME NEW e \in told' PROVE TellsOf(e)'
    OBVIOUS
  <2>1. CASE e \in told
    BY <1>3, <1>6, <2>1 DEF TellsOf, Bill!NotPaid
  <2>2. CASE e \in told1
    <3>1. /\ e.of = p /\ e.amount = n /\ e.type # "charge.refunded"
          /\ e.type = "charge.succeeded" => n > 0
          /\ e.type \in {"charge.succeeded"} \cup InvoiceEvents
          /\ e.type \in InvoiceEvents => i
      BY <1>5, <2>2 DEF InvoiceEvents
    <3>2. paid'[p].amount = n /\ paid'[p].invoiced = i /\ paid'[p] # Bill!NotPaid
      BY <1>2, <1>3
    <3> QED
      BY <3>1, <3>2 DEF TellsOf, Bill!NotPaid
  <2> QED
    BY <1>1, <2>1, <2>2
<1>11. \A q \in Payment : IsTold(q)'
  <2> SUFFICES ASSUME NEW q \in Payment PROVE IsTold(q)'
    OBVIOUS
  <2>1. IsTold(q)
    BY DEF BillingInv
  <2>2. CASE q # p
    BY <1>1, <1>3, <1>7, <2>1, <2>2 DEF IsTold, Bill!StripeEvent, Bill!NotPaid
  <2>3. CASE q = p
    <3>1. n > 0 => Bill!StripeEvent("charge.succeeded", p, n, 0) \in told'
      BY <1>1
    <3>2. i => Bill!StripeEvent("invoice.paid", p, n, 0) \in told'
      BY <1>1 DEF InvoiceEvents
    <3>3. paid'[p].amount = n /\ paid'[p].invoiced = i /\ paid'[p].refunded = paid[p].refunded
      BY <1>3, <1>4
    <3> HIDE DEF told1, new
    <3> QED
      BY <1>4, <1>7, <2>1, <2>3, <3>1, <3>2, <3>3 DEF IsTold, Bill!StripeEvent
  <2> QED
    BY <2>2, <2>3
<1>12. \A r \in billingLedger' : \E q \in Payment : r \in RowsToHave(q)'
  BY <1>1, <1>8, <1>9 DEF BillingInv
<1>13. \A e \in taken' : (Bill!RowsOf(e) \subseteq billingLedger)'
  <2> SUFFICES ASSUME NEW e \in taken PROVE Bill!RowsOf(e)' \subseteq billingLedger
    BY <1>1
  <2>1. e \in told /\ e.of \in Payment \ {p}
    BY <1>6 DEF BillingInv, TellsOf
  <2>2. Bill!RowsOf(e)' = Bill!RowsOf(e)
    BY <1>3, <2>1 DEF Bill!RowsOf, Bill!ChargeRows, Bill!RefundRows, Bill!InvoiceRows, Bill!Row
  <2> QED
    BY <2>2 DEF BillingInv
<1>14. \A q \in (sync \cup synced)' : paid'[q].invoiced
  BY <1>1, <1>3, <1>4 DEF BillingInv
<1>15. \A q \in synced' : paid'[q].amount > 0 => PaidRow(q)' \in billingLedger'
  <2>1. \A q \in synced : q # p /\ q \in Payment
    BY <1>4 DEF BillingInv
  <2> QED
    BY <1>1, <1>3, <1>8, <2>1 DEF BillingInv
<1>16. taken' \subseteq told' /\ sync' \subseteq Payment /\ synced' \subseteq Payment
       /\ key' \in [theirs : 1..MaxKeys, ours : 0..MaxKeys]
  BY <1>1 DEF BillingInv
<1> QED
  BY <1>3, <1>10, <1>11, <1>12, <1>13, <1>14, <1>15, <1>16 DEF BillingInv

LEMMA RefundStep ==
  ASSUME BillingInv, NEW p \in Payment, NEW n \in 1..MaxAmount, Bill!Refund(p, n)
  PROVE  BillingInv'
<1> DEFINE was == paid[p].refunded
           e0 == Bill!StripeEvent("charge.refunded", p, was + n, was)
           r0 == Bill!Row("re", p, was + n, was - (was + n))
<1>1. /\ was + n <= paid[p].amount
      /\ paid' = [paid EXCEPT ![p].refunded = was + n]
      /\ told' = told \cup {e0}
      /\ UNCHANGED <<billingLedger, taken, key, sync, synced>>
  BY DEF Bill!Refund, Bill!Tells
<1>2. /\ paid[p] \in PaidRecord /\ paid \in [Payment -> PaidRecord]
      /\ was \in Nat /\ n \in Nat /\ n > 0 /\ paid[p].amount \in Int
      /\ paid[p].amount <= MaxAmount
  BY BillingAssumption DEF BillingInv, PaidRecord
<1>3. /\ paid[p] # Bill!NotPaid /\ was + n \in 0..MaxAmount /\ was + n \in Nat
      /\ was - (was + n) = 0 - n
  BY <1>1, <1>2, BillingAssumption DEF Bill!NotPaid
<1>4. /\ paid' \in [Payment -> PaidRecord]
      /\ paid'[p] = [paid[p] EXCEPT !.refunded = was + n]
      /\ paid'[p].amount = paid[p].amount /\ paid'[p].invoiced = paid[p].invoiced
      /\ paid'[p].refunded = was + n
      /\ \A q \in Payment \ {p} : paid'[q] = paid[q]
  <2>1. paid'[p] = [paid[p] EXCEPT !.refunded = was + n]
    BY <1>1, <1>2
  <2>2. paid'[p] \in PaidRecord
    BY <1>2, <1>3, <2>1 DEF PaidRecord
  <2>3. /\ paid'[p].amount = paid[p].amount /\ paid'[p].invoiced = paid[p].invoiced
        /\ paid'[p].refunded = was + n
    BY <1>2, <2>1 DEF PaidRecord
  <2> HIDE DEF was
  <2>4. \A q \in Payment \ {p} : paid'[q] = paid[q]
    BY <1>1, <1>2
  <2>5. paid' \in [Payment -> PaidRecord]
    BY <1>1, <1>2, <2>2, <2>4
  <2> QED
    BY <2>1, <2>3, <2>4, <2>5
<1>5. /\ e0.type = "charge.refunded" /\ e0.of = p /\ e0.amount = was + n /\ e0.before = was
      /\ r0.id = <<"re", p, was + n>> /\ r0.amount = 0 - n
  BY <1>3 DEF Bill!StripeEvent, Bill!Row
<1>6. paid'[p] # Bill!NotPaid
  BY <1>2, <1>4 DEF Bill!NotPaid
<1> HIDE DEF e0, r0
<1>7. /\ RefundsOf(p)' = RefundsOf(p) \cup {e0}
      /\ \A q \in Payment \ {p} : RefundsOf(q)' = RefundsOf(q)
  BY <1>1, <1>5 DEF RefundsOf
<1>8. /\ ReturnRows(p)' = ReturnRows(p) \cup {r0}
      /\ \A q \in Payment \ {p} : ReturnRows(q)' = ReturnRows(q)
  <2>1. r0 = Bill!Row("re", p, e0.amount, e0.before - e0.amount)
    BY <1>5 DEF r0
  <2> QED
    BY <1>7, <2>1 DEF ReturnRows, Bill!Row
<1>9. \A q \in Payment : PaidRow(q)' = PaidRow(q) /\ paid'[q].amount = paid[q].amount
                         /\ paid'[q].invoiced = paid[q].invoiced
  BY <1>4 DEF PaidRow, Bill!Row
<1>10. \A q \in Payment : RowsToHave(q) \subseteq RowsToHave(q)'
  BY <1>8, <1>9 DEF RowsToHave
<1>11. \A e \in told' : TellsOf(e)'
  <2> SUFFICES ASSUME NEW e \in told' PROVE TellsOf(e)'
    OBVIOUS
  <2>1. CASE e = e0
    <3>1. was < was + n /\ was + n <= was + n
      BY <1>2
    <3> QED
      BY <1>2, <1>3, <1>4, <1>5, <1>6, <2>1, <3>1 DEF TellsOf, InvoiceEvents, Bill!NotPaid
  <2>2. CASE e \in told
    <3>1. TellsOf(e) /\ e.of \in Payment
      BY <2>2 DEF BillingInv, TellsOf
    <3>2. CASE e.of = p
      <4>1. e.type = "charge.refunded" => e.amount <= was + n
        <5>1. e.type = "charge.refunded" => e.amount \in Nat /\ e.amount <= was
          BY <3>1, <3>2 DEF TellsOf
        <5> QED
          BY <1>2, <5>1
      <4> QED
        BY <1>4, <1>6, <3>1, <3>2, <4>1 DEF TellsOf, Bill!NotPaid
    <3>3. CASE e.of # p
      BY <1>4, <3>1, <3>3 DEF TellsOf, Bill!NotPaid
    <3> QED
      BY <3>2, <3>3
  <2> QED
    BY <1>1, <2>1, <2>2
<1>12. \A e \in RefundsOf(p) : e.amount \in Nat /\ e.amount < was + n
  <2> SUFFICES ASSUME NEW e \in RefundsOf(p) PROVE e.amount \in Nat /\ e.amount < was + n
    OBVIOUS
  <2>1. e.amount \in Nat /\ e.amount <= was
    BY DEF RefundsOf, BillingInv, TellsOf
  <2> QED
    BY <1>2, <2>1
<1>13. IsTold(p)'
  <2>1. IsTold(p)
    BY DEF BillingInv
  <2>2. \A e, f \in RefundsOf(p)' : e.amount = f.amount => e.before = f.before
    BY <1>5, <1>7, <1>12, <2>1 DEF IsTold
  <2>3. r0 \notin ReturnRows(p)
    <3> SUFFICES ASSUME r0 \in ReturnRows(p) PROVE FALSE
      OBVIOUS
    <3>1. PICK e \in RefundsOf(p) : r0 = Bill!Row("re", p, e.amount, e.before - e.amount)
      BY DEF ReturnRows
    <3>2. r0.id = <<"re", p, e.amount>>
      BY <3>1 DEF Bill!Row
    <3>3. e.amount = was + n
      BY <1>5, <3>2
    <3>4. e.amount \in Nat /\ e.amount < was + n
      BY <1>12
    <3> HIDE DEF was
    <3> QED
      BY <3>3, <3>4
  <2>4. \A r \in ReturnRows(p) : Returned[r] \in Int
    <3>1. \A r \in ReturnRows(p) : r \in RowSet
      BY RowsAre
    <3> QED
      BY <3>1 DEF Returned, RowSet
  <2>5. r0 \in RowSet /\ Returned[r0] = n
    <3>1. r0 \in RowSet
      BY <1>3 DEF r0, Bill!Row, RowSet
    <3>2. 0 - (0 - n) = n
      BY <1>2
    <3> QED
      BY <1>5, <3>1, <3>2 DEF Returned
  <2>6. IsFiniteSet(ReturnRows(p)) /\ SumOf(Returned, ReturnRows(p)) = was
    BY <2>1 DEF IsTold
  <2>7. SumOf(Returned, ReturnRows(p) \cup {r0}) = was + n
    <3>1. Returned[r0] \in Int
      BY <1>2, <2>5
    <3>2. SumOf(Returned, ReturnRows(p) \cup {r0}) = SumOf(Returned, ReturnRows(p)) + Returned[r0]
      BY <2>3, <2>4, <2>6, <3>1, SumAdd
    <3> QED
      BY <2>5, <2>6, <3>2
  <2>8. IsFiniteSet(ReturnRows(p) \cup {r0})
    BY <2>6, FS_AddElement
  <2>9. SumOf(Returned, ReturnRows(p))' = SumOf(Returned, ReturnRows(p) \cup {r0})
    <3>1. ReturnRows(p)' = ReturnRows(p) \cup {r0}
      BY <1>8
    <3> QED
      BY <3>1, Zenon DEF SumOf, Sums, OneOf, Returned, RowSet
  <2>10. /\ paid[p].amount >= 0
         /\ paid[p].amount > 0 => Bill!StripeEvent("charge.succeeded", p, paid[p].amount, 0) \in told'
         /\ paid[p].invoiced => Bill!StripeEvent("invoice.paid", p, paid[p].amount, 0) \in told'
    BY <1>1, <1>3, <2>1 DEF IsTold
  <2> HIDE DEF was
  <2> QED
    BY <1>4, <1>8, <2>2, <2>7, <2>8, <2>9, <2>10 DEF IsTold, Bill!StripeEvent
<1>14. \A q \in Payment \ {p} : IsTold(q)'
  <2> SUFFICES ASSUME NEW q \in Payment \ {p} PROVE IsTold(q)'
    OBVIOUS
  <2>1. IsTold(q) /\ paid'[q] = paid[q] /\ RefundsOf(q)' = RefundsOf(q)
        /\ ReturnRows(q)' = ReturnRows(q)
    BY <1>4, <1>7, <1>8 DEF BillingInv
  <2>2. told \subseteq told'
    BY <1>1
  <2> QED
    BY <2>1, <2>2 DEF IsTold, Bill!StripeEvent, Bill!NotPaid
<1>15. \A r \in billingLedger' : \E q \in Payment : r \in RowsToHave(q)'
  BY <1>1, <1>10 DEF BillingInv
<1>16. \A e \in taken' : (Bill!RowsOf(e) \subseteq billingLedger)'
  <2> SUFFICES ASSUME NEW e \in taken PROVE Bill!RowsOf(e)' \subseteq billingLedger
    BY <1>1
  <2>1. e.of \in Payment
    BY DEF BillingInv, TellsOf
  <2>2. Bill!RowsOf(e)' = Bill!RowsOf(e)
    BY <1>9, <2>1 DEF Bill!RowsOf, Bill!ChargeRows, Bill!RefundRows, Bill!InvoiceRows, Bill!Row
  <2> QED
    BY <2>2 DEF BillingInv
<1>17. /\ \A q \in (sync \cup synced)' : paid'[q].invoiced
       /\ \A q \in synced' : paid'[q].amount > 0 => PaidRow(q)' \in billingLedger'
  BY <1>1, <1>9 DEF BillingInv
<1>18. taken' \subseteq told' /\ sync' \subseteq Payment /\ synced' \subseteq Payment
       /\ key' \in [theirs : 1..MaxKeys, ours : 0..MaxKeys]
  BY <1>1 DEF BillingInv
<1> QED
  BY <1>4, <1>11, <1>13, <1>14, <1>15, <1>16, <1>17, <1>18 DEF BillingInv

LEMMA BillingStep ==
  ASSUME BillingInv, [Bill!Next]_(Bill!billingVars)
  PROVE  BillingInv'
<1>1. ASSUME UNCHANGED <<paid, told, billingLedger, taken, synced>>,
             key' \in [theirs : 1..MaxKeys, ours : 0..MaxKeys],
             sync' \subseteq {p \in Payment : paid[p].invoiced}
      PROVE  BillingInv'
  <2>1. \A p : /\ RowsToHave(p)' = RowsToHave(p) /\ PaidRow(p)' = PaidRow(p)
               /\ RefundsOf(p)' = RefundsOf(p) /\ ReturnRows(p)' = ReturnRows(p)
    BY <1>1 DEF RowsToHave, PaidRow, ReturnRows, RefundsOf, Bill!Row
  <2>2. \A p \in Payment : IsTold(p)'
    BY <1>1, <2>1 DEF BillingInv, IsTold, Bill!StripeEvent, Bill!NotPaid
  <2>3. \A e \in told' : TellsOf(e)'
    BY <1>1 DEF BillingInv, TellsOf, Bill!NotPaid
  <2>4. \A e \in taken' : (Bill!RowsOf(e) \subseteq billingLedger)'
    <3>1. \A e : Bill!RowsOf(e)' = Bill!RowsOf(e)
      BY <1>1 DEF Bill!RowsOf, Bill!ChargeRows, Bill!RefundRows, Bill!InvoiceRows, Bill!Row
    <3> QED
      BY <1>1, <3>1 DEF BillingInv
  <2> QED
    BY <1>1, <2>1, <2>2, <2>3, <2>4 DEF BillingInv
<1>2. sync \subseteq {p \in Payment : paid[p].invoiced}
      /\ key \in [theirs : 1..MaxKeys, ours : 0..MaxKeys]
  BY DEF BillingInv
<1>3. CASE UNCHANGED Bill!billingVars
  BY <1>1, <1>2, <1>3 DEF Bill!billingVars
<1>4. CASE Bill!RollKey \/ Bill!EnterKey
  <2>1. key' \in [theirs : 1..MaxKeys, ours : 0..MaxKeys]
    <3>1. CASE Bill!RollKey
      <4>1. key' = [key EXCEPT !.theirs = key.theirs + 1] /\ key.theirs < MaxKeys
        BY <3>1 DEF Bill!RollKey
      <4>2. key.theirs \in 1..MaxKeys
        BY <1>2
      <4>3. key.theirs + 1 \in 1..MaxKeys
        BY <4>1, <4>2, BillingAssumption
      <4> QED
        BY <1>2, <4>1, <4>3
    <3>2. CASE Bill!EnterKey
      <4>1. key' = [key EXCEPT !.ours = key.theirs]
        BY <3>2 DEF Bill!EnterKey
      <4>2. key.theirs \in 0..MaxKeys
        BY <1>2, BillingAssumption
      <4> QED
        BY <1>2, <4>1, <4>2
    <3> QED
      BY <1>4, <3>1, <3>2
  <2>2. UNCHANGED <<paid, told, billingLedger, taken, sync, synced>>
    BY <1>4 DEF Bill!RollKey, Bill!EnterKey
  <2> QED
    BY <1>1, <1>2, <2>1, <2>2
<1>5. CASE Bill!SyncBegins \/ Bill!SyncDies
  <2>1. /\ UNCHANGED <<paid, told, billingLedger, taken, key, synced>>
        /\ sync' \subseteq {p \in Payment : paid[p].invoiced}
    BY <1>5 DEF Bill!SyncBegins, Bill!SyncDies, Bill!Listed
  <2> QED
    BY <1>1, <1>2, <2>1
<1>6. ASSUME NEW e \in told, NEW late \in BOOLEAN, Bill!Webhook(e, late)
      PROVE  BillingInv'
  <2>1. /\ billingLedger' = Bill!Recorded(e) /\ taken' = taken \cup {e}
        /\ UNCHANGED <<paid, told, key, sync, synced>>
    BY <1>6 DEF Bill!Webhook
  <2>2. TellsOf(e) /\ taken' \subseteq told
    BY <2>1 DEF BillingInv
  <2> QED
    BY <2>1, <2>2, Recording
<1>7. ASSUME NEW p \in Payment, Bill!SyncApplies(p)
      PROVE  BillingInv'
  <2> DEFINE e == Bill!StripeEvent("invoice.paid", p, paid[p].amount, 0)
  <2>1. /\ p \in sync /\ billingLedger' = Bill!Recorded(e)
        /\ sync' = sync \ {p} /\ synced' = synced \cup {p}
        /\ UNCHANGED <<paid, told, taken, key>>
    BY <1>7 DEF Bill!SyncApplies
  <2>2. e.of = p /\ e.type = "invoice.paid" /\ e.amount = paid[p].amount
    BY DEF Bill!StripeEvent
  <2>3. paid[p].invoiced /\ paid[p] # Bill!NotPaid
    BY <2>1 DEF BillingInv, Bill!NotPaid
  <2>4. TellsOf(e)
    BY <2>2, <2>3 DEF TellsOf, InvoiceEvents
  <2>5. taken' \subseteq told
    BY <2>1 DEF BillingInv
  <2> HIDE DEF e
  <2> QED
    BY <2>1, <2>2, <2>4, <2>5, Recording DEF InvoiceEvents
<1> QED
  BY <1>3, <1>4, <1>5, <1>6, <1>7, PayStep, RefundStep DEF Bill!Next

LEMMA FoldOfRows ==
  ASSUME NEW rows \in SUBSET RowSet, IsFiniteSet(rows)
  PROVE  Bill!MapThenSumSet(LAMBDA r : r.amount, rows) = SumOf(Brought, rows)
<1> DEFINE g == CHOOSE h : h = [s \in SUBSET rows |->
                  IF s = {} THEN 0 ELSE OneOf(s).amount + h[s \ {OneOf(s)}]]
<1>1. Bill!MapThenSumSet(LAMBDA r : r.amount, rows) = g[rows]
  BY DEF Bill!MapThenSumSet, Bill!MapThenFoldSet, OneOf
<1>2. ASSUME NEW h
      PROVE  [s \in SUBSET rows |-> IF s = {} THEN 0 ELSE Brought[OneOf(s)] + h[s \ {OneOf(s)}]]
             = [s \in SUBSET rows |-> IF s = {} THEN 0 ELSE OneOf(s).amount + h[s \ {OneOf(s)}]]
  <2>1. ASSUME NEW s \in SUBSET rows, s # {} PROVE Brought[OneOf(s)] = OneOf(s).amount
    BY <2>1, OneIsIn DEF Brought
  <2> QED
    BY <2>1
<1>3. PICK h : Sums(Brought, h, rows)
  BY SumsExist
<1>4. h = [s \in SUBSET rows |-> IF s = {} THEN 0 ELSE OneOf(s).amount + h[s \ {OneOf(s)}]]
  BY <1>2, <1>3 DEF Sums
<1>5. g = [s \in SUBSET rows |-> IF s = {} THEN 0 ELSE OneOf(s).amount + g[s \ {OneOf(s)}]]
  BY <1>4
<1> HIDE DEF g
<1>6. Sums(Brought, g, rows)
  BY <1>2, <1>5 DEF Sums
<1>7. g[rows] = SumOf(Brought, rows)
  BY <1>6, SumIs
<1> QED
  BY <1>1, <1>7

\* What is booked of a payment: the row of it, if it is there, less the rows of
\* its refunds that are there.
LEMMA BookedIs ==
  ASSUME BillingInv, NEW p \in Payment
  PROVE  LET there == PaidRow(p) \in billingLedger /\ paid[p].amount > 0
             back == ReturnRows(p) \cap billingLedger
         IN /\ IsFiniteSet(back)
            /\ SumOf(Returned, back) \in Int
            /\ Bill!BookedPaid(p) = IF there THEN paid[p].amount ELSE 0
            /\ Bill!Booked(p) = Bill!BookedPaid(p) - SumOf(Returned, back)
<1> DEFINE there == PaidRow(p) \in billingLedger /\ paid[p].amount > 0
           back == ReturnRows(p) \cap billingLedger
           row == IF there THEN {PaidRow(p)} ELSE {}
<1>1. /\ IsFiniteSet(back) /\ IsFiniteSet(row)
      /\ back \subseteq RowSet /\ row \subseteq RowSet /\ row \cap back = {}
      /\ \A r \in back : r.amount < 0 /\ r.amount \in Int
      /\ \A r \in row : r.amount > 0 /\ r.amount \in Int /\ r.amount = paid[p].amount
  <2>1. IsFiniteSet(back) /\ back \subseteq RowSet
    <3>1. IsFiniteSet(ReturnRows(p))
      BY DEF BillingInv, IsTold
    <3>2. back \subseteq ReturnRows(p)
      OBVIOUS
    <3>3. \A r \in ReturnRows(p) : r \in RowSet
      BY RowsAre
    <3> HIDE DEF back
    <3> QED
      BY <3>1, <3>2, <3>3, FS_Subset
  <2>2. \A r \in back : r.amount < 0 /\ r.amount \in Int /\ r.id[1] = "re"
    <3>1. \A r \in ReturnRows(p) : r \in RowSet /\ r.id[1] = "re" /\ r.amount < 0
      BY RowsAre
    <3> QED
      BY <3>1 DEF RowSet
  <2>3. row \subseteq RowSet
        /\ \A r \in row : r.amount > 0 /\ r.amount \in Int /\ r.amount = paid[p].amount
                          /\ r.id[1] # "re"
    BY RowsAre DEF RowSet
  <2>4. IsFiniteSet(row)
    BY FS_EmptySet, FS_Singleton
  <2> HIDE DEF row, back
  <2> QED
    BY <2>1, <2>2, <2>3, <2>4
<1>2. {r \in billingLedger : r.id[2] = p} = row \cup back
  <2>1. \A r \in billingLedger : r.id[2] = p <=> r \in RowsToHave(p)
    <3> SUFFICES ASSUME NEW r \in billingLedger PROVE r.id[2] = p <=> r \in RowsToHave(p)
      OBVIOUS
    <3>1. PICK q \in Payment : r \in RowsToHave(q)
      BY DEF BillingInv
    <3> QED
      BY <3>1, RowsAre
  <2>2. RowsToHave(p) = (IF paid[p].amount > 0 THEN {PaidRow(p)} ELSE {}) \cup ReturnRows(p)
    BY DEF RowsToHave
  <2> QED
    BY <2>1, <2>2
<1>3. {r \in billingLedger : r.id[2] = p /\ r.amount > 0} = row
  <2>1. \A r \in back : ~(r.amount > 0)
    <3> HIDE DEF back
    <3> QED BY <1>1
  <2>2. \A r : r \in billingLedger /\ r.id[2] = p <=> r \in row \cup back
    BY <1>2
  <2>3. \A r \in row : r.amount > 0
    <3> HIDE DEF row
    <3> QED BY <1>1
  <2> HIDE DEF row, back
  <2> QED
    BY <2>1, <2>2, <2>3
<1> HIDE DEF back
<1>4. Bill!BookedPaid(p) = SumOf(Brought, row)
  <2>1. Bill!BookedPaid(p) = Bill!MapThenSumSet(LAMBDA r : r.amount, row)
    <3> HIDE DEF row
    <3> QED
      BY <1>3, Zenon DEF Bill!BookedPaid
  <2> HIDE DEF row
  <2> QED
    BY <1>1, <2>1, FoldOfRows
<1>5. SumOf(Brought, row) = IF there THEN paid[p].amount ELSE 0
  <2>1. CASE there
    <3>1. PaidRow(p) \in RowSet /\ Brought[PaidRow(p)] = paid[p].amount /\ paid[p].amount \in Int
      BY <2>1, RowsAre DEF Brought, RowSet
    <3>2. row = {PaidRow(p)}
      BY <2>1
    <3>3. SumOf(Brought, {PaidRow(p)}) = paid[p].amount
      BY <3>1, SumOfOne
    <3> HIDE DEF row
    <3>4. SumOf(Brought, row) = paid[p].amount
      BY <3>2, <3>3, Zenon
    <3> QED
      BY <2>1, <3>4
  <2>2. CASE ~there
    <3>1. row = {}
      BY <2>2
    <3> HIDE DEF row
    <3>2. SumOf(Brought, row) = SumOf(Brought, {})
      BY <3>1, Zenon
    <3> HIDE DEF there
    <3> QED
      BY <2>2, <3>2, SumEmpty
  <2> QED
    BY <2>1, <2>2
<1> HIDE DEF row, there
<1>6. \A r \in row \cup back : r \in RowSet /\ Brought[r] \in Int /\ Returned[r] \in Int
                               /\ Brought[r] + Returned[r] = 0
  <2>1. \A r \in RowSet : Brought[r] = r.amount /\ Returned[r] = 0 - r.amount /\ r.amount \in Int
    BY DEF Brought, Returned, RowSet
  <2> QED
    BY <1>1, <2>1
<1>7. Bill!Booked(p) = SumOf(Brought, row) + SumOf(Brought, back)
  <2>1. IsFiniteSet(row \cup back) /\ row \cup back \in SUBSET RowSet
    BY <1>1, FS_Union
  <2>2. Bill!Booked(p) = Bill!MapThenSumSet(LAMBDA r : r.amount, row \cup back)
    BY <1>2, Zenon DEF Bill!Booked
  <2>3. Bill!Booked(p) = SumOf(Brought, row \cup back)
    BY <2>1, <2>2, FoldOfRows
  <2> QED
    BY <1>1, <1>6, <2>3, SumUnion
<1>8. SumOf(Brought, back) + SumOf(Returned, back) = 0
      /\ SumOf(Brought, back) \in Int /\ SumOf(Returned, back) \in Int
  <2> DEFINE zero == [r \in back |-> 0]
  <2>1. \A r \in back : Brought[r] \in Int /\ Returned[r] \in Int
                        /\ zero[r] = Brought[r] + Returned[r]
    BY <1>6
  <2>2. SumOf(zero, back) = 0
    BY <1>1, SumZero
  <2> HIDE DEF zero
  <2>3. SumOf(zero, back) = SumOf(Brought, back) + SumOf(Returned, back)
    BY <1>1, <2>1, SumPlus
  <2> QED
    BY <1>1, <2>1, <2>2, <2>3, SumInt
<1>9. SumOf(Brought, row) \in Int
  BY <1>1, <1>6, SumInt
<1>10. Bill!Booked(p) = Bill!BookedPaid(p) - SumOf(Returned, back)
  BY <1>4, <1>7, <1>8, <1>9
<1> QED
  BY <1>1, <1>4, <1>5, <1>8, <1>10 DEF there, back

LEMMA BillingSafe ==
  ASSUME BillingInv
  PROVE  Bill!TypeOK /\ Bill!MoneyIsCountedOnce
<1>1. Bill!TypeOK
  <2>1. \A p \in Payment : /\ paid[p].amount \in -1..MaxAmount /\ paid[p].invoiced \in BOOLEAN
                           /\ paid[p].refunded \in 0..MaxAmount
    BY DEF BillingInv, PaidRecord
  <2>2. {r.id[2] : r \in billingLedger} \subseteq Payment
    BY RowsAre DEF BillingInv
  <2> QED
    BY <2>1, <2>2 DEF BillingInv, Bill!TypeOK
<1>2. ASSUME NEW p \in Payment, paid[p] # Bill!NotPaid
      PROVE  /\ Bill!BookedPaid(p) \in {0, paid[p].amount}
             /\ Bill!BookedPaid(p) - Bill!Booked(p) <= paid[p].refunded
             /\ Bill!EventsOf(p) \subseteq taken => Bill!Booked(p) = paid[p].amount - paid[p].refunded
             /\ p \in synced => Bill!BookedPaid(p) = paid[p].amount
  <2> DEFINE there == PaidRow(p) \in billingLedger /\ paid[p].amount > 0
             back == ReturnRows(p) \cap billingLedger
             returned == SumOf(Returned, back)
  <2>1. /\ returned \in Int
        /\ Bill!BookedPaid(p) = IF there THEN paid[p].amount ELSE 0
        /\ Bill!Booked(p) = Bill!BookedPaid(p) - returned
    BY BookedIs
  <2>2. /\ paid[p].amount \in Int /\ paid[p].amount >= 0
        /\ paid[p].amount > 0 => Bill!StripeEvent("charge.succeeded", p, paid[p].amount, 0) \in told
        /\ paid[p].invoiced => Bill!StripeEvent("invoice.paid", p, paid[p].amount, 0) \in told
        /\ IsFiniteSet(ReturnRows(p)) /\ SumOf(Returned, ReturnRows(p)) = paid[p].refunded
        /\ paid[p].refunded \in Int
    BY <1>2, BillingAssumption DEF BillingInv, IsTold, PaidRecord
  <2>3. \A r \in ReturnRows(p) : Returned[r] \in Int /\ Returned[r] >= 0
    <3>1. \A r \in ReturnRows(p) : r \in RowSet /\ r.amount < 0
      BY RowsAre
    <3> QED
      BY <3>1 DEF Returned, RowSet
  <2>4. returned <= paid[p].refunded
    BY <2>2, <2>3, SumOfPart
  <2>5. Bill!BookedPaid(p) \in Int /\ Bill!BookedPaid(p) \in {0, paid[p].amount}
    <3> HIDE DEF there, returned
    <3> QED
      BY <2>1, <2>2
  <2>6. Bill!BookedPaid(p) - Bill!Booked(p) <= paid[p].refunded
    <3> HIDE DEF returned
    <3> QED
      BY <2>1, <2>2, <2>4, <2>5
  <2>7. ASSUME Bill!EventsOf(p) \subseteq taken
        PROVE  Bill!Booked(p) = paid[p].amount - paid[p].refunded
    <3>1. \A e \in told : e.of = p => Bill!RowsOf(e) \subseteq billingLedger
      BY <2>7 DEF Bill!EventsOf, BillingInv
    <3>2. ReturnRows(p) \subseteq billingLedger
      <4> SUFFICES ASSUME NEW e \in RefundsOf(p)
                   PROVE  Bill!Row("re", p, e.amount, e.before - e.amount) \in billingLedger
        BY DEF ReturnRows
      <4>1. Bill!RowsOf(e) = {Bill!Row("re", p, e.amount, e.before - e.amount)}
        BY DEF RefundsOf, Bill!RowsOf, Bill!RefundRows
      <4> QED
        BY <3>1, <4>1 DEF RefundsOf
    <3>3. returned = paid[p].refunded
      <4>1. back = ReturnRows(p)
        BY <3>2
      <4> HIDE DEF back
      <4>2. SumOf(Returned, back) = SumOf(Returned, ReturnRows(p))
        BY <4>1, Zenon
      <4> QED
        BY <2>2, <4>2
    <3>4. paid[p].amount > 0 => PaidRow(p) \in billingLedger
      <4> SUFFICES ASSUME paid[p].amount > 0 PROVE PaidRow(p) \in billingLedger
        OBVIOUS
      <4>1. CASE paid[p].invoiced
        <5> DEFINE e == Bill!StripeEvent("invoice.paid", p, paid[p].amount, 0)
        <5>1. e \in told /\ e.of = p /\ e.type = "invoice.paid" /\ e.amount = paid[p].amount
          BY <2>2, <4>1 DEF Bill!StripeEvent
        <5> HIDE DEF e
        <5>2. e.amount # 0
          BY <2>2, <5>1
        <5>3. Bill!RowsOf(e) = {Bill!Row("in", p, 0, paid[p].amount)}
          BY <5>1, <5>2 DEF Bill!RowsOf, Bill!InvoiceRows
        <5> QED
          BY <3>1, <4>1, <5>1, <5>3 DEF PaidRow
      <4>2. CASE ~paid[p].invoiced
        <5> DEFINE e == Bill!StripeEvent("charge.succeeded", p, paid[p].amount, 0)
        <5>1. e \in told /\ e.of = p /\ e.type = "charge.succeeded" /\ e.amount = paid[p].amount
          BY <2>2 DEF Bill!StripeEvent
        <5> HIDE DEF e
        <5>2. Bill!RowsOf(e) = {Bill!Row("ch", p, 0, paid[p].amount)}
          BY <4>2, <5>1 DEF Bill!RowsOf, Bill!ChargeRows
        <5> QED
          BY <3>1, <4>2, <5>1, <5>2 DEF PaidRow
      <4> QED
        BY <4>1, <4>2
    <3>5. Bill!BookedPaid(p) = paid[p].amount
      <4> HIDE DEF returned
      <4> QED
        BY <2>1, <2>2, <3>4
    <3> HIDE DEF returned, there
    <3> QED
      BY <2>1, <3>3, <3>5
  <2>8. ASSUME p \in synced PROVE Bill!BookedPaid(p) = paid[p].amount
    <3>1. paid[p].amount > 0 => PaidRow(p) \in billingLedger
      BY <2>8 DEF BillingInv
    <3> HIDE DEF returned
    <3> QED
      BY <2>1, <2>2, <3>1
  <2> QED
    BY <2>5, <2>6, <2>7, <2>8
<1> QED
  BY <1>1, <1>2 DEF Bill!MoneyIsCountedOnce

-----------------------------------------------------------------------------
(* Rows in the order they were recorded *)

DeltasIn(l) == [i \in DOMAIN l |-> l[i].delta]
AmountsIn(l) == [i \in DOMAIN l |-> l[i].amount]

\* What a fold of the library over rows comes to.
DeltaFold(l, S) ==
  (CHOOSE h : h = [s \in SUBSET S |->
                     IF s = {} THEN 0 ELSE l[OneOf(s)].delta + h[s \ {OneOf(s)}]])[S]
AmountFold(l, S) ==
  (CHOOSE h : h = [s \in SUBSET S |->
                     IF s = {} THEN 0 ELSE l[OneOf(s)].amount + h[s \ {OneOf(s)}]])[S]

LEMMA FoldOfRecorded ==
  ASSUME NEW l, NEW S \in SUBSET DOMAIN l, IsFiniteSet(S)
  PROVE  /\ DeltaFold(l, S) = SumOf(DeltasIn(l), S)
         /\ AmountFold(l, S) = SumOf(AmountsIn(l), S)
<1> DEFINE d == CHOOSE h : h = [s \in SUBSET S |->
                  IF s = {} THEN 0 ELSE l[OneOf(s)].delta + h[s \ {OneOf(s)}]]
           a == CHOOSE h : h = [s \in SUBSET S |->
                  IF s = {} THEN 0 ELSE l[OneOf(s)].amount + h[s \ {OneOf(s)}]]
<1>1. DeltaFold(l, S) = d[S] /\ AmountFold(l, S) = a[S]
  BY DEF DeltaFold, AmountFold
<1>2. d[S] = SumOf(DeltasIn(l), S)
  <2>1. ASSUME NEW h
        PROVE  [s \in SUBSET S |-> IF s = {} THEN 0 ELSE DeltasIn(l)[OneOf(s)] + h[s \ {OneOf(s)}]]
               = [s \in SUBSET S |-> IF s = {} THEN 0 ELSE l[OneOf(s)].delta + h[s \ {OneOf(s)}]]
    <3>1. ASSUME NEW s \in SUBSET S, s # {} PROVE DeltasIn(l)[OneOf(s)] = l[OneOf(s)].delta
      BY <3>1, OneIsIn DEF DeltasIn
    <3> QED
      BY <3>1
  <2>2. PICK h : Sums(DeltasIn(l), h, S)
    BY SumsExist
  <2>3. h = [s \in SUBSET S |-> IF s = {} THEN 0 ELSE l[OneOf(s)].delta + h[s \ {OneOf(s)}]]
    BY <2>1, <2>2 DEF Sums
  <2>4. d = [s \in SUBSET S |-> IF s = {} THEN 0 ELSE l[OneOf(s)].delta + d[s \ {OneOf(s)}]]
    BY <2>3
  <2> HIDE DEF d
  <2>5. Sums(DeltasIn(l), d, S)
    BY <2>1, <2>4 DEF Sums
  <2> QED
    BY <2>5, SumIs
<1>3. a[S] = SumOf(AmountsIn(l), S)
  <2>1. ASSUME NEW h
        PROVE  [s \in SUBSET S |-> IF s = {} THEN 0 ELSE AmountsIn(l)[OneOf(s)] + h[s \ {OneOf(s)}]]
               = [s \in SUBSET S |-> IF s = {} THEN 0 ELSE l[OneOf(s)].amount + h[s \ {OneOf(s)}]]
    <3>1. ASSUME NEW s \in SUBSET S, s # {} PROVE AmountsIn(l)[OneOf(s)] = l[OneOf(s)].amount
      BY <3>1, OneIsIn DEF AmountsIn
    <3> QED
      BY <3>1
  <2>2. PICK h : Sums(AmountsIn(l), h, S)
    BY SumsExist
  <2>3. h = [s \in SUBSET S |-> IF s = {} THEN 0 ELSE l[OneOf(s)].amount + h[s \ {OneOf(s)}]]
    BY <2>1, <2>2 DEF Sums
  <2>4. a = [s \in SUBSET S |-> IF s = {} THEN 0 ELSE l[OneOf(s)].amount + a[s \ {OneOf(s)}]]
    BY <2>3
  <2> HIDE DEF a
  <2>5. Sums(AmountsIn(l), a, S)
    BY <2>1, <2>4 DEF Sums
  <2> QED
    BY <2>5, SumIs
<1> QED
  BY <1>1, <1>2, <1>3

LEMMA RowsRecorded ==
  ASSUME NEW R, NEW l \in Seq(R), \A r \in R : r.delta \in Int, NEW S \in SUBSET DOMAIN l
  PROVE  /\ DOMAIN l = 1..Len(l) /\ Len(l) \in Nat /\ IsFiniteSet(S)
         /\ \A i \in S : DeltasIn(l)[i] \in Int /\ DeltasIn(l)[i] = l[i].delta
         /\ SumOf(DeltasIn(l), S) \in Int
<1>1. DOMAIN l = 1..Len(l) /\ Len(l) \in Nat /\ \A i \in DOMAIN l : l[i] \in R
  OBVIOUS
<1>2. IsFiniteSet(1..Len(l))
  BY <1>1, FS_Interval
<1>3. IsFiniteSet(S)
  BY <1>1, <1>2, FS_Subset
<1>4. \A i \in S : DeltasIn(l)[i] \in Int /\ DeltasIn(l)[i] = l[i].delta
  BY <1>1 DEF DeltasIn
<1> QED
  BY <1>1, <1>3, <1>4, SumInt

LEMMA RowRecorded ==
  ASSUME NEW R, NEW l \in Seq(R), \A r \in R : r.delta \in Int, NEW row \in R,
         NEW S \in SUBSET DOMAIN l
  PROVE  LET m == Append(l, row)
             n == Len(l) + 1
         IN /\ m \in Seq(R) /\ DOMAIN m = (DOMAIN l) \cup {n} /\ n \notin DOMAIN l
            /\ Len(m) = n /\ m[n] = row
            /\ \A i \in DOMAIN l : m[i] = l[i]
            /\ SumOf(DeltasIn(m), S) = SumOf(DeltasIn(l), S)
            /\ SumOf(DeltasIn(m), S \cup {n}) = SumOf(DeltasIn(l), S) + row.delta
<1> DEFINE m == Append(l, row)
           n == Len(l) + 1
<1>1. /\ m \in Seq(R) /\ Len(l) \in Nat /\ DOMAIN l = 1..Len(l) /\ DOMAIN m = 1..n
      /\ Len(m) = n /\ m[n] = row /\ \A i \in 1..Len(l) : m[i] = l[i]
  OBVIOUS
<1> HIDE DEF m
<1>2. DOMAIN m = (DOMAIN l) \cup {n} /\ n \notin DOMAIN l
  BY <1>1
<1>3. IsFiniteSet(S) /\ \A i \in S : DeltasIn(l)[i] \in Int
  BY RowsRecorded
<1>4. \A i \in S : DeltasIn(m)[i] = DeltasIn(l)[i] /\ DeltasIn(m)[i] \in Int
  BY <1>1, <1>2, <1>3 DEF DeltasIn
<1>5. DeltasIn(m)[n] = row.delta /\ row.delta \in Int
  BY <1>1, <1>2 DEF DeltasIn
<1>6. SumOf(DeltasIn(m), S) = SumOf(DeltasIn(l), S)
  BY <1>3, <1>4, SumSame
<1>7. n \notin S
  BY <1>2
<1> HIDE DEF n
<1>8. SumOf(DeltasIn(m), S \cup {n}) = SumOf(DeltasIn(m), S) + DeltasIn(m)[n]
  BY <1>3, <1>4, <1>5, <1>7, SumAdd
<1> QED
  BY <1>1, <1>2, <1>5, <1>6, <1>8 DEF m, n

-----------------------------------------------------------------------------
(* Metrics: the dashboard's series *)

\* A row of the ledger: only a subscription's row moves the recurring amount.
RecordedRow(C) ==
  {r \in [type : Metr!Types, customer : C, delta : Int, amount : Int, at : Int,
          verified : BOOLEAN] : r.type \in {"charge", "refund"} => r.delta = 0}
Known(C) ==
  [C -> [status : {"none", "active", "churned"}, started : Int, churned : Int]]

\* What the rows of a customer come to.
RowsFor(l, c) == {i \in DOMAIN l : l[i].customer = c}
MrrIn(l, c) == SumOf(DeltasIn(l), RowsFor(l, c))

MetricsInv ==
  /\ metricsNow \in Metr!First .. Metr!First + MetricsMaxTime
  /\ metricsLedger \in Seq(RecordedRow(MetricsCustomer))
  /\ metricsCustomers \in Known(MetricsCustomer)
  /\ \A c \in MetricsCustomer : MrrIn(metricsLedger, c) > 0 /\ metricsCustomers[c] # Metr!Unknown =>
       metricsCustomers[c].status = "active" /\ metricsCustomers[c].churned = Metr!NotChurned

LEMMA RowsOfMetrics ==
  ASSUME NEW l \in Seq(RecordedRow(MetricsCustomer)), l = metricsLedger, NEW S \in SUBSET DOMAIN l
  PROVE  /\ Metr!Total(S, Metr!Delta) = SumOf(DeltasIn(l), S)
         /\ Metr!Total(S, Metr!Amount) = SumOf(AmountsIn(l), S)
         /\ SumOf(DeltasIn(l), S) \in Int /\ SumOf(AmountsIn(l), S) \in Int
         /\ IsFiniteSet(S)
<1>1. \A r \in RecordedRow(MetricsCustomer) : r.delta \in Int /\ r.amount \in Int
  BY DEF RecordedRow
<1>2. IsFiniteSet(S) /\ SumOf(DeltasIn(l), S) \in Int
  BY <1>1, RowsRecorded
<1>3. \A i \in S : AmountsIn(l)[i] \in Int
  BY <1>1 DEF AmountsIn
<1>4. SumOf(AmountsIn(l), S) \in Int
  BY <1>2, <1>3, SumInt
<1>5. /\ Metr!Total(S, Metr!Delta) = DeltaFold(l, S)
      /\ Metr!Total(S, Metr!Amount) = AmountFold(l, S)
  BY DEF Metr!Total, Metr!Delta, Metr!Amount, Metr!MapThenSumSet, Metr!MapThenFoldSet,
         DeltaFold, AmountFold, OneOf
<1>6. /\ DeltaFold(l, S) = SumOf(DeltasIn(l), S)
      /\ AmountFold(l, S) = SumOf(AmountsIn(l), S)
  BY <1>2, FoldOfRecorded
<1> QED
  BY <1>2, <1>4, <1>5, <1>6

LEMMA MetricsStarts == Metr!Init => MetricsInv
<1> SUFFICES ASSUME Metr!Init PROVE MetricsInv
  OBVIOUS
<1>1. metricsNow \in Metr!First .. Metr!First + MetricsMaxTime
  BY MetricsAssumption DEF Metr!Init, Metr!First
<1>2. metricsLedger \in Seq(RecordedRow(MetricsCustomer)) /\ DOMAIN metricsLedger = {}
  BY DEF Metr!Init
<1>3. metricsCustomers \in Known(MetricsCustomer) /\ \A c \in MetricsCustomer : metricsCustomers[c] = Metr!Unknown
  BY DEF Metr!Init, Metr!Unknown, Known
<1> QED
  BY <1>1, <1>2, <1>3 DEF MetricsInv

\* A row that is added counts for its customer, and for nobody else.
LEMMA MrrMoves ==
  ASSUME NEW C, NEW l \in Seq(RecordedRow(C)), NEW row \in RecordedRow(C), NEW c \in C
  PROVE  /\ Append(l, row) \in Seq(RecordedRow(C))
         /\ MrrIn(l, c) \in Int
         /\ MrrIn(Append(l, row), c) =
              IF row.customer = c THEN MrrIn(l, c) + row.delta ELSE MrrIn(l, c)
<1> DEFINE m == Append(l, row)
           n == Len(l) + 1
           S == RowsFor(l, c)
<1>1. (\A r \in RecordedRow(C) : r.delta \in Int) /\ S \in SUBSET DOMAIN l
  BY DEF RecordedRow, RowsFor
<1> HIDE DEF S
<1>2. /\ m \in Seq(RecordedRow(C)) /\ DOMAIN m = (DOMAIN l) \cup {n} /\ n \notin DOMAIN l
      /\ m[n] = row /\ \A i \in DOMAIN l : m[i] = l[i]
      /\ SumOf(DeltasIn(m), S) = SumOf(DeltasIn(l), S)
      /\ SumOf(DeltasIn(m), S \cup {n}) = SumOf(DeltasIn(l), S) + row.delta
      /\ SumOf(DeltasIn(l), S) \in Int
  BY <1>1, RowRecorded, RowsRecorded
<1> HIDE DEF m, n
<1>3. RowsFor(m, c) = IF row.customer = c THEN S \cup {n} ELSE S
  BY <1>2 DEF RowsFor, S
<1>4. MrrIn(l, c) = SumOf(DeltasIn(l), S) /\ MrrIn(m, c) = SumOf(DeltasIn(m), RowsFor(m, c))
  BY DEF MrrIn, S
<1>5. CASE row.customer = c
  <2>1. RowsFor(m, c) = S \cup {n}
    BY <1>3, <1>5
  <2>2. MrrIn(m, c) = SumOf(DeltasIn(m), S \cup {n})
    BY <1>4, <2>1, Zenon
  <2> QED
    BY <1>2, <1>4, <1>5, <2>2 DEF m
<1>6. CASE row.customer # c
  <2>1. RowsFor(m, c) = S
    BY <1>3, <1>6
  <2>2. MrrIn(m, c) = SumOf(DeltasIn(m), S)
    BY <1>4, <2>1, Zenon
  <2> QED
    BY <1>2, <1>4, <1>6, <2>2 DEF m
<1> QED
  BY <1>5, <1>6

LEMMA MetricsMrr ==
  ASSUME MetricsInv, NEW c \in MetricsCustomer
  PROVE  Metr!CustomerMrr(c) = MrrIn(metricsLedger, c)
<1>1. RowsFor(metricsLedger, c) \in SUBSET DOMAIN metricsLedger
  BY DEF RowsFor
<1>2. Metr!Total(RowsFor(metricsLedger, c), Metr!Delta) = SumOf(DeltasIn(metricsLedger), RowsFor(metricsLedger, c))
  BY <1>1, RowsOfMetrics DEF MetricsInv
<1>3. Metr!CustomerMrr(c) = Metr!Total(RowsFor(metricsLedger, c), Metr!Delta)
  BY DEF Metr!CustomerMrr, Metr!Rows, RowsFor
<1> QED
  BY <1>2, <1>3 DEF MrrIn

LEMMA MetricsRecords ==
  ASSUME MetricsInv, NEW type \in Metr!Types, NEW c \in MetricsCustomer, NEW a \in MetricsAmounts,
         NEW verified \in BOOLEAN, NEW at \in {metricsNow - 1, metricsNow, metricsNow + 1},
         Metr!Record(type, c, a, at, verified)
  PROVE  MetricsInv'
<1> DEFINE row == [type |-> type, customer |-> c, delta |-> Metr!DeltaOf(type, c, a),
                   amount |-> IF type \in {"charge", "refund"} THEN a ELSE 0,
                   at |-> at, verified |-> verified]
<1>1. MrrIn(metricsLedger, c) \in Int /\ Metr!CustomerMrr(c) = MrrIn(metricsLedger, c)
  <2>1. RowsFor(metricsLedger, c) \in SUBSET DOMAIN metricsLedger
    BY DEF RowsFor
  <2>2. SumOf(DeltasIn(metricsLedger), RowsFor(metricsLedger, c)) \in Int
    BY <2>1, RowsOfMetrics DEF MetricsInv
  <2> QED
    BY <2>2, MetricsMrr DEF MrrIn
<1>2. Metr!DeltaOf(type, c, a) \in Int /\ (type \in {"charge", "refund"} => Metr!DeltaOf(type, c, a) = 0)
  BY <1>1, MetricsAssumption DEF Metr!DeltaOf
<1>3. metricsNow \in Int
  BY MetricsAssumption DEF MetricsInv, Metr!First
<1>4. row \in RecordedRow(MetricsCustomer)
  BY <1>2, <1>3, MetricsAssumption DEF RecordedRow
<1>5. row.customer = c /\ row.delta = Metr!DeltaOf(type, c, a)
  OBVIOUS
<1>6. metricsLedger' = Append(metricsLedger, row) /\ metricsNow' = metricsNow
  BY DEF Metr!Record
<1> DEFINE was == IF metricsCustomers[c] = Metr!Unknown
                    THEN [status |-> "active", started |-> metricsNow, churned |-> Metr!NotChurned]
                    ELSE metricsCustomers[c]
           canceled == type = "subscription_canceled" \/
                       \E i \in Metr!Rows : metricsLedger[i].customer = c
                                       /\ metricsLedger[i].type = "subscription_canceled"
           now == Metr!Refreshed(c, was, Metr!CustomerMrr(c) + row.delta, canceled)
<1>7. metricsCustomers' = [metricsCustomers EXCEPT ![c] = now]
  BY DEF Metr!Record
<1> HIDE DEF row, canceled
<1>8. \A d \in MetricsCustomer : MrrIn(metricsLedger', d) =
         IF d = c THEN MrrIn(metricsLedger, c) + row.delta ELSE MrrIn(metricsLedger, d)
  BY <1>4, <1>5, <1>6, MrrMoves DEF MetricsInv
<1>9. metricsLedger' \in Seq(RecordedRow(MetricsCustomer))
  BY <1>4, <1>6 DEF MetricsInv
<1>10. /\ now \in [status : {"none", "active", "churned"}, started : Int, churned : Int]
       /\ Metr!CustomerMrr(c) + row.delta > 0 => now.status = "active" /\ now.churned = Metr!NotChurned
  <2>1. was \in [status : {"none", "active", "churned"}, started : Int, churned : Int]
    BY <1>3 DEF MetricsInv, Known, Metr!NotChurned
  <2> DEFINE active == [was EXCEPT !.status = "active", !.churned = Metr!NotChurned]
             gone == [was EXCEPT !.status = "churned",
                        !.churned = IF @ = Metr!NotChurned THEN metricsNow ELSE @]
             kept == [was EXCEPT !.churned = Metr!NotChurned]
             more == Metr!CustomerMrr(c) + row.delta > 0
  <2> HIDE DEF was
  <2>2. now = IF more THEN active ELSE IF canceled THEN gone ELSE kept
    BY Zenon DEF Metr!Refreshed
  <2>3. /\ active \in [status : {"none", "active", "churned"}, started : Int, churned : Int]
        /\ active.status = "active" /\ active.churned = Metr!NotChurned
    <3> DEFINE half == [was EXCEPT !.status = "active"]
    <3>1. /\ half \in [status : {"none", "active", "churned"}, started : Int, churned : Int]
          /\ half.status = "active"
      BY <2>1
    <3>2. active = [half EXCEPT !.churned = Metr!NotChurned]
      BY <2>1
    <3> HIDE DEF half, active
    <3> QED
      BY <3>1, <3>2 DEF Metr!NotChurned
  <2>4. gone \in [status : {"none", "active", "churned"}, started : Int, churned : Int]
    BY <2>1, <1>3 DEF Metr!NotChurned
  <2>5. kept \in [status : {"none", "active", "churned"}, started : Int, churned : Int]
    BY <2>1 DEF Metr!NotChurned
  <2> HIDE DEF now, active, gone, kept, more
  <2>6. more => now = active
    BY <2>2
  <2>7. ~more => now \in {gone, kept}
    BY <2>2
  <2> QED
    BY <2>3, <2>4, <2>5, <2>6, <2>7 DEF more
<1> HIDE DEF now
<1>11. metricsCustomers' \in Known(MetricsCustomer) /\ metricsCustomers'[c] = now
       /\ \A d \in MetricsCustomer \ {c} : metricsCustomers'[d] = metricsCustomers[d]
  BY <1>7, <1>10 DEF MetricsInv, Known
<1>12. \A d \in MetricsCustomer : MrrIn(metricsLedger', d) > 0 /\ metricsCustomers'[d] # Metr!Unknown =>
         metricsCustomers'[d].status = "active" /\ metricsCustomers'[d].churned = Metr!NotChurned
  <2> SUFFICES ASSUME NEW d \in MetricsCustomer, MrrIn(metricsLedger', d) > 0, metricsCustomers'[d] # Metr!Unknown
               PROVE  metricsCustomers'[d].status = "active" /\ metricsCustomers'[d].churned = Metr!NotChurned
    OBVIOUS
  <2>1. CASE d = c
    BY <1>1, <1>8, <1>10, <1>11, <2>1
  <2>2. CASE d # c
    BY <1>8, <1>11, <2>2 DEF MetricsInv
  <2> QED
    BY <2>1, <2>2
<1>13. Metr!Unknown' = Metr!Unknown /\ Metr!NotChurned' = Metr!NotChurned /\ Metr!First' = Metr!First
  BY DEF Metr!Unknown, Metr!NotChurned, Metr!First
<1>14. \A d \in MetricsCustomer : MrrIn(metricsLedger, d)' = MrrIn(metricsLedger', d)
  BY Zenon DEF MrrIn
<1> QED
  BY <1>6, <1>9, <1>11, <1>12, <1>13 DEF MetricsInv

LEMMA MetricsStep == MetricsInv /\ (Metr!Next \/ UNCHANGED metricsState) => MetricsInv'
<1>1. ASSUME MetricsInv, Metr!Tick PROVE MetricsInv'
  <2>1. metricsNow' \in Metr!First .. Metr!First + MetricsMaxTime
    BY <1>1, MetricsAssumption DEF MetricsInv, Metr!Tick, Metr!First
  <2> QED
    BY <1>1, <2>1 DEF MetricsInv, Metr!Tick, Metr!First, Metr!Unknown, Metr!NotChurned
<1>2. ASSUME MetricsInv, UNCHANGED metricsState PROVE MetricsInv'
  BY <1>2 DEF MetricsInv, metricsState, Metr!First, Metr!Unknown, Metr!NotChurned
<1> QED
  BY <1>1, <1>2, MetricsRecords DEF Metr!Next

-----------------------------------------------------------------------------
(* Metrics: what is shown of the rows *)

RevenueFold(l, S) ==
  (CHOOSE h : h = [s \in SUBSET S |->
                     IF s = {} THEN 0 ELSE l[OneOf(s)].revenue + h[s \ {OneOf(s)}]])[S]
RevenuesIn(l) == [i \in DOMAIN l |-> l[i].revenue]

LEMMA FoldOfSeries ==
  ASSUME NEW l, NEW S \in SUBSET DOMAIN l, IsFiniteSet(S)
  PROVE  RevenueFold(l, S) = SumOf(RevenuesIn(l), S)
<1> DEFINE d == CHOOSE h : h = [s \in SUBSET S |->
                  IF s = {} THEN 0 ELSE l[OneOf(s)].revenue + h[s \ {OneOf(s)}]]
<1>1. RevenueFold(l, S) = d[S]
  BY DEF RevenueFold
<1>2. ASSUME NEW h
      PROVE  [s \in SUBSET S |-> IF s = {} THEN 0 ELSE RevenuesIn(l)[OneOf(s)] + h[s \ {OneOf(s)}]]
             = [s \in SUBSET S |-> IF s = {} THEN 0 ELSE l[OneOf(s)].revenue + h[s \ {OneOf(s)}]]
  <2>1. ASSUME NEW s \in SUBSET S, s # {} PROVE RevenuesIn(l)[OneOf(s)] = l[OneOf(s)].revenue
    BY <2>1, OneIsIn DEF RevenuesIn
  <2> QED
    BY <2>1
<1>3. PICK h : Sums(RevenuesIn(l), h, S)
  BY SumsExist
<1>4. h = [s \in SUBSET S |-> IF s = {} THEN 0 ELSE l[OneOf(s)].revenue + h[s \ {OneOf(s)}]]
  BY <1>2, <1>3 DEF Sums
<1>5. d = [s \in SUBSET S |-> IF s = {} THEN 0 ELSE l[OneOf(s)].revenue + d[s \ {OneOf(s)}]]
  BY <1>4
<1> HIDE DEF d
<1>6. Sums(RevenuesIn(l), d, S)
  BY <1>2, <1>5 DEF Sums
<1> QED
  BY <1>1, <1>6, SumIs

\* What a row brings in: a charge its amount, a refund the opposite.
BroughtIn(l) ==
  [i \in DOMAIN l |-> IF l[i].type = "charge" THEN l[i].amount
                      ELSE IF l[i].type = "refund" THEN 0 - l[i].amount ELSE 0]

LEMMA ChargesLessRefunds ==
  ASSUME NEW C, NEW l \in Seq(RecordedRow(C)), NEW S \in SUBSET DOMAIN l
  PROVE  /\ SumOf(BroughtIn(l), S) =
              SumOf(AmountsIn(l), {i \in S : l[i].type = "charge"})
              - SumOf(AmountsIn(l), {i \in S : l[i].type = "refund"})
         /\ IsFiniteSet(S) /\ \A i \in S : BroughtIn(l)[i] \in Int
<1> DEFINE Ch == {i \in S : l[i].type = "charge"}
           Re == {i \in S : l[i].type = "refund"}
           Ot == S \ (Ch \cup Re)
           f == BroughtIn(l)
           e == AmountsIn(l)
           zero == [i \in S |-> 0]
<1>1. \A r \in RecordedRow(C) : r.delta \in Int /\ r.amount \in Int
  BY DEF RecordedRow
<1>2. IsFiniteSet(S)
  BY <1>1, RowsRecorded
<1>3. IsFiniteSet(Ch) /\ IsFiniteSet(Re) /\ IsFiniteSet(Ot)
  BY <1>2, FS_Subset
<1>4. \A i \in S : /\ f[i] \in Int /\ e[i] \in Int /\ e[i] = l[i].amount
                   /\ f[i] = IF l[i].type = "charge" THEN l[i].amount
                             ELSE IF l[i].type = "refund" THEN 0 - l[i].amount ELSE 0
  BY <1>1 DEF BroughtIn, AmountsIn
<1> HIDE DEF f, e
<1>5. /\ Ch \cap Re = {} /\ (Ch \cup Re) \cap Ot = {} /\ S = (Ch \cup Re) \cup Ot
      /\ Ch \subseteq S /\ Re \subseteq S /\ Ot \subseteq S
  OBVIOUS
<1>6. \A i \in Ch : f[i] = e[i]
  BY <1>4
<1>7. \A i \in Re : f[i] \in Int /\ e[i] \in Int /\ zero[i] = f[i] + e[i] /\ zero[i] = 0
  BY <1>4
<1>8. \A i \in Ot : f[i] = 0
  BY <1>4
<1> HIDE DEF Ch, Re, Ot, zero
<1>9. SumOf(f, Ch) = SumOf(e, Ch)
  BY <1>3, <1>6, SumSame
<1>10. SumOf(zero, Re) = SumOf(f, Re) + SumOf(e, Re) /\ SumOf(zero, Re) = 0
  BY <1>3, <1>7, SumPlus, SumZero
<1>11. SumOf(f, Ot) = 0
  BY <1>3, <1>8, SumZero
<1>12. SumOf(f, Ch \cup Re) = SumOf(f, Ch) + SumOf(f, Re)
  BY <1>3, <1>4, <1>5, SumUnion
<1>13. SumOf(f, (Ch \cup Re) \cup Ot) = SumOf(f, Ch \cup Re) + SumOf(f, Ot)
  <2>1. IsFiniteSet(Ch \cup Re)
    BY <1>3, FS_Union
  <2>2. \A i \in Ch \cup Re : f[i] \in Int
    BY <1>4, <1>5
  <2>3. \A i \in Ot : f[i] \in Int
    BY <1>4, <1>5
  <2> QED
    BY <1>3, <1>5, <2>1, <2>2, <2>3, SumUnion
<1>14. SumOf(f, S) = SumOf(f, (Ch \cup Re) \cup Ot)
  BY <1>5, Zenon
<1>15. SumOf(e, Ch) \in Int /\ SumOf(e, Re) \in Int /\ SumOf(f, Re) \in Int
  BY <1>3, <1>4, <1>5, SumInt
<1>16. SumOf(f, S) = SumOf(e, Ch) - SumOf(e, Re)
  BY <1>9, <1>10, <1>11, <1>12, <1>13, <1>14, <1>15
<1> QED
  BY <1>2, <1>4, <1>16 DEF f, e, Ch, Re

LEMMA MonthsFollow ==
  ASSUME MetricsInv
  PROVE  /\ MetricsMonthsBack \in Nat \ {0} /\ metricsNow \in Int
         /\ metricsNow < Metr!MonthEnd(MetricsMonthsBack)
         /\ \A m \in 1..MetricsMonthsBack :
              /\ Metr!MonthStart(m) \in Int /\ Metr!MonthStart(m) >= 0
              /\ Metr!MonthEnd(m) = Metr!MonthStart(m) + 2
              /\ m > 1 => Metr!MonthEnd(m - 1) = Metr!MonthStart(m)
         /\ \A m, n \in 1..MetricsMonthsBack :
              m < n => Metr!MonthEnd(m) <= Metr!MonthStart(n)
<1> DEFINE k == metricsNow \div 2
<1>1. MetricsMonthsBack \in Nat \ {0} /\ metricsNow \in Int /\ metricsNow >= 2 * MetricsMonthsBack
  BY MetricsAssumption DEF MetricsInv, Metr!First
<1>2. k \in Int /\ k >= MetricsMonthsBack /\ 2 * k <= metricsNow /\ metricsNow < 2 * k + 2
  BY <1>1
<1>3. \A m : Metr!MonthStart(m) = 2 * (k - (MetricsMonthsBack - m))
  BY DEF Metr!MonthStart
<1>4. \A m : Metr!MonthEnd(m) = Metr!MonthStart(m) + 2
  BY DEF Metr!MonthEnd
<1> HIDE DEF k
<1> QED
  BY <1>1, <1>2, <1>3, <1>4

\* The balance moves from month to month by what was won, expanded and lost.
LEMMA BalanceMoves ==
  ASSUME MetricsInv, NEW rows \in SUBSET Metr!Rows, NEW m \in 2..MetricsMonthsBack
  PROVE  /\ Metr!Balance(m, rows) =
              Metr!Balance(m - 1, rows) + Metr!Moved(m, rows, "subscription_started")
              + Metr!Moved(m, rows, "subscription_changed")
              + Metr!Moved(m, rows, "subscription_canceled")
         /\ Metr!Balance(m, rows) \in Int /\ Metr!Balance(m - 1, rows) \in Int
         /\ Metr!Moved(m, rows, "subscription_started") \in Int
         /\ Metr!Moved(m, rows, "subscription_changed") \in Int
         /\ Metr!Moved(m, rows, "subscription_canceled") \in Int
<1> DEFINE l == metricsLedger
           f == DeltasIn(l)
           Of(t) == {i \in Metr!OfType(rows, t) : Metr!InMonth(m, l[i].at)}
           Old == {i \in rows : l[i].at < Metr!MonthEnd(m - 1)}
           Now == {i \in rows : l[i].at < Metr!MonthEnd(m)}
           St == Of("subscription_started")
           Ex == Of("subscription_changed")
           Ca == Of("subscription_canceled")
           Ot == {i \in rows : Metr!InMonth(m, l[i].at) /\ l[i].type \in {"charge", "refund"}}
<1>1. l \in Seq(RecordedRow(MetricsCustomer)) /\ rows \in SUBSET DOMAIN l
  BY DEF MetricsInv, Metr!Rows
<1>2. \A i \in rows : /\ l[i].delta \in Int /\ f[i] = l[i].delta /\ f[i] \in Int /\ l[i].at \in Int
                      /\ l[i].type \in Metr!Types /\ (l[i].type \in {"charge", "refund"} => f[i] = 0)
  BY <1>1 DEF RecordedRow, DeltasIn
<1>3. \A S \in SUBSET rows : /\ Metr!Total(S, Metr!Delta) = SumOf(f, S) /\ SumOf(f, S) \in Int
                             /\ IsFiniteSet(S)
  BY <1>1, RowsOfMetrics
<1>4. /\ Metr!Balance(m, rows) = Metr!Total(Now, Metr!Delta)
      /\ Metr!Balance(m - 1, rows) = Metr!Total(Old, Metr!Delta)
      /\ Metr!Moved(m, rows, "subscription_started") = Metr!Total(St, Metr!Delta)
      /\ Metr!Moved(m, rows, "subscription_changed") = Metr!Total(Ex, Metr!Delta)
      /\ Metr!Moved(m, rows, "subscription_canceled") = Metr!Total(Ca, Metr!Delta)
  BY DEF Metr!Balance, Metr!Moved
<1>5. /\ Metr!MonthEnd(m - 1) = Metr!MonthStart(m) /\ Metr!MonthEnd(m) = Metr!MonthStart(m) + 2
      /\ Metr!MonthStart(m) \in Int
  BY MonthsFollow
<1>6. /\ Now = (Old \cup Ot) \cup (St \cup (Ex \cup Ca))
      /\ Old \cap Ot = {} /\ (Old \cup Ot) \cap (St \cup (Ex \cup Ca)) = {}
      /\ St \cap (Ex \cup Ca) = {} /\ Ex \cap Ca = {}
  <2>1. ASSUME NEW i \in rows
        PROVE  l[i].at < Metr!MonthEnd(m) <=>
                 l[i].at < Metr!MonthEnd(m - 1) \/ Metr!InMonth(m, l[i].at)
    BY <1>2, <1>5 DEF Metr!InMonth
  <2>2. ASSUME NEW i \in rows
        PROVE  ~(l[i].at < Metr!MonthEnd(m - 1) /\ Metr!InMonth(m, l[i].at))
    BY <1>2, <1>5 DEF Metr!InMonth
  <2> QED
    BY <1>2, <2>1, <2>2 DEF Metr!OfType, Metr!Types
<1>7. {Now, Old, Ot, St, Ex, Ca, Ex \cup Ca, Old \cup Ot, St \cup (Ex \cup Ca)} \subseteq SUBSET rows
  BY DEF Metr!OfType
<1>8. \A i \in Ot : f[i] = 0
  BY <1>2
<1> HIDE DEF f, Now, Old, Ot, St, Ex, Ca
<1>9. SumOf(f, Ot) = 0
  BY <1>3, <1>7, <1>8, SumZero
<1>10. ASSUME NEW S \in SUBSET rows, NEW T \in SUBSET rows, S \cap T = {}
       PROVE  SumOf(f, S \cup T) = SumOf(f, S) + SumOf(f, T)
  <2>1. IsFiniteSet(S) /\ IsFiniteSet(T) /\ (\A i \in S : f[i] \in Int) /\ (\A i \in T : f[i] \in Int)
    BY <1>2, <1>3
  <2> QED
    BY <1>10, <2>1, SumUnion
<1>11. /\ SumOf(f, Ex \cup Ca) = SumOf(f, Ex) + SumOf(f, Ca)
       /\ SumOf(f, St \cup (Ex \cup Ca)) = SumOf(f, St) + SumOf(f, Ex \cup Ca)
       /\ SumOf(f, Old \cup Ot) = SumOf(f, Old) + SumOf(f, Ot)
       /\ SumOf(f, (Old \cup Ot) \cup (St \cup (Ex \cup Ca)))
            = SumOf(f, Old \cup Ot) + SumOf(f, St \cup (Ex \cup Ca))
  BY <1>6, <1>7, <1>10
<1>12. SumOf(f, Now) = SumOf(f, (Old \cup Ot) \cup (St \cup (Ex \cup Ca)))
  BY <1>6, Zenon
<1>13. /\ SumOf(f, Now) \in Int /\ SumOf(f, Old) \in Int /\ SumOf(f, St) \in Int
       /\ SumOf(f, Ex) \in Int /\ SumOf(f, Ca) \in Int
  BY <1>3, <1>7
<1>14. SumOf(f, Now) = SumOf(f, Old) + SumOf(f, St) + SumOf(f, Ex) + SumOf(f, Ca)
  BY <1>9, <1>11, <1>12, <1>13
<1>15. /\ Metr!Balance(m, rows) = SumOf(f, Now) /\ Metr!Balance(m - 1, rows) = SumOf(f, Old)
       /\ Metr!Moved(m, rows, "subscription_started") = SumOf(f, St)
       /\ Metr!Moved(m, rows, "subscription_changed") = SumOf(f, Ex)
       /\ Metr!Moved(m, rows, "subscription_canceled") = SumOf(f, Ca)
  BY <1>3, <1>4, <1>7
<1> QED
  BY <1>13, <1>14, <1>15

\* No row is dated ahead: the last month ends with today's figure.
LEMMA LastMonthIsToday ==
  ASSUME MetricsInv, NEW rows \in SUBSET Metr!Rows,
         \A i \in rows : metricsLedger[i].at <= metricsNow
  PROVE  Metr!AtLeast0(Metr!Balance(MetricsMonthsBack, rows)) = Metr!Mrr(rows)
<1> DEFINE l == metricsLedger
<1>1. l \in Seq(RecordedRow(MetricsCustomer)) /\ rows \in SUBSET DOMAIN l
  BY DEF MetricsInv, Metr!Rows
<1>2. \A i \in rows : l[i].at \in Int
  BY <1>1 DEF RecordedRow
<1>3. {i \in rows : l[i].at < Metr!MonthEnd(MetricsMonthsBack)} = rows
      /\ {i \in rows : l[i].at <= metricsNow} = rows
  <2>1. /\ metricsNow \in Int /\ metricsNow < Metr!MonthEnd(MetricsMonthsBack)
        /\ Metr!MonthEnd(MetricsMonthsBack) \in Int
    BY MonthsFollow
  <2> QED
    BY <1>2, <2>1
<1>4. Metr!Balance(MetricsMonthsBack, rows) = Metr!Total(rows, Metr!Delta)
  BY <1>3, Zenon DEF Metr!Balance
<1>5. Metr!Mrr(rows) = Metr!AtLeast0(Metr!Total(rows, Metr!Delta))
  BY <1>3, Zenon DEF Metr!Mrr, Metr!MrrAt
<1> QED
  BY <1>4, <1>5

\* What the months bring in is what the rows within them bring in.
LEMMA MonthsBringInAll ==
  ASSUME MetricsInv, NEW rows \in SUBSET Metr!Rows,
         \A i \in rows : \E m \in 1..MetricsMonthsBack : Metr!InMonth(m, metricsLedger[i].at)
  PROVE  RevenueFold(Metr!Series(rows), 1..MetricsMonthsBack) = Metr!RevenueTotal(rows)
<1> DEFINE l == metricsLedger
           f == BroughtIn(l)
           M == 1..MetricsMonthsBack
           P == [m \in M |-> {i \in rows : Metr!InMonth(m, l[i].at)}]
           s == Metr!Series(rows)
           g == RevenuesIn(s)
<1>1. l \in Seq(RecordedRow(MetricsCustomer)) /\ rows \in SUBSET DOMAIN l
  BY DEF MetricsInv, Metr!Rows
<1>2. \A i \in rows : l[i].at \in Int
  BY <1>1 DEF RecordedRow
<1>3. IsFiniteSet(rows) /\ \A i \in rows : f[i] \in Int
  BY <1>1, ChargesLessRefunds
<1>4. IsFiniteSet(M)
  BY MonthsFollow, FS_Interval
<1>5. \A S \in SUBSET rows :
         /\ Metr!Total(S, Metr!Amount) = SumOf(AmountsIn(l), S)
         /\ SumOf(f, S) = SumOf(AmountsIn(l), {i \in S : l[i].type = "charge"})
                          - SumOf(AmountsIn(l), {i \in S : l[i].type = "refund"})
  <2> SUFFICES ASSUME NEW S \in SUBSET rows
               PROVE  /\ Metr!Total(S, Metr!Amount) = SumOf(AmountsIn(l), S)
                      /\ SumOf(f, S) = SumOf(AmountsIn(l), {i \in S : l[i].type = "charge"})
                                       - SumOf(AmountsIn(l), {i \in S : l[i].type = "refund"})
    OBVIOUS
  <2>1. S \in SUBSET DOMAIN l
    BY <1>1
  <2> HIDE DEF l
  <2>2. Metr!Total(S, Metr!Amount) = SumOf(AmountsIn(l), S)
    BY <1>1, <2>1, RowsOfMetrics DEF l
  <2>3. SumOf(f, S) = SumOf(AmountsIn(l), {i \in S : l[i].type = "charge"})
                      - SumOf(AmountsIn(l), {i \in S : l[i].type = "refund"})
    BY <1>1, <2>1, ChargesLessRefunds DEF l
  <2> QED
    BY <2>2, <2>3
<1>6. ASSUME NEW m \in M PROVE P[m] \in SUBSET rows /\ g[m] = SumOf(f, P[m])
  <2> DEFINE Ch == {i \in Metr!OfType(rows, "charge") : Metr!InMonth(m, l[i].at)}
             Re == {i \in Metr!OfType(rows, "refund") : Metr!InMonth(m, l[i].at)}
             Pm == {i \in rows : Metr!InMonth(m, l[i].at)}
  <2>1. P[m] = Pm /\ Pm \in SUBSET rows
    OBVIOUS
  <2>2. Ch = {i \in Pm : l[i].type = "charge"} /\ Re = {i \in Pm : l[i].type = "refund"}
        /\ Ch \in SUBSET rows /\ Re \in SUBSET rows
    BY DEF Metr!OfType
  <2>3. g[m] = Metr!Total(Ch, Metr!Amount) - Metr!Total(Re, Metr!Amount)
    <3>1. DOMAIN s = M /\ s[m] = Metr!Point(m, rows)
      BY DEF Metr!Series
    <3>2. g[m] = Metr!Point(m, rows).revenue
      BY <3>1 DEF RevenuesIn
    <3>3. Metr!Point(m, rows).revenue = Metr!Total(Ch, Metr!Amount) - Metr!Total(Re, Metr!Amount)
      BY DEF Metr!Point
    <3> QED
      BY <3>2, <3>3
  <2> HIDE DEF f, g, P
  <2>4. g[m] = SumOf(AmountsIn(l), Ch) - SumOf(AmountsIn(l), Re)
    <3> HIDE DEF Ch, Re
    <3> QED
      BY <1>5, <2>2, <2>3
  <2>5. SumOf(f, Pm) = SumOf(AmountsIn(l), {i \in Pm : l[i].type = "charge"})
                       - SumOf(AmountsIn(l), {i \in Pm : l[i].type = "refund"})
    <3> HIDE DEF Pm
    <3> QED
      BY <1>5, <2>1
  <2>6. SumOf(AmountsIn(l), Ch) = SumOf(AmountsIn(l), {i \in Pm : l[i].type = "charge"})
        /\ SumOf(AmountsIn(l), Re) = SumOf(AmountsIn(l), {i \in Pm : l[i].type = "refund"})
    BY <2>2, Zenon
  <2>7. SumOf(f, P[m]) = SumOf(f, Pm)
    BY <2>1, Zenon
  <2> HIDE DEF Pm, Ch, Re
  <2> QED
    BY <2>1, <2>4, <2>5, <2>6, <2>7
<1>7. \A m, n \in M : m # n => P[m] \cap P[n] = {}
  <2>1. ASSUME NEW m \in M, NEW n \in M, m < n PROVE P[m] \cap P[n] = {}
    <3>1. /\ Metr!MonthEnd(m) <= Metr!MonthStart(n)
          /\ Metr!MonthEnd(m) \in Int /\ Metr!MonthStart(n) \in Int
      BY <2>1, MonthsFollow
    <3>2. ASSUME NEW i \in rows PROVE ~(Metr!InMonth(m, l[i].at) /\ Metr!InMonth(n, l[i].at))
      BY <1>2, <3>1 DEF Metr!InMonth
    <3> QED
      BY <3>2
  <2>2. ASSUME NEW m \in M, NEW n \in M, m # n PROVE m < n \/ n < m
    BY <2>2, MonthsFollow
  <2> HIDE DEF P, M
  <2> QED
    BY <2>1, <2>2
<1>8. UNION {P[m] : m \in M} = rows
  OBVIOUS
<1>9. SumOf(g, M) = SumOf(f, UNION {P[m] : m \in M})
  <2> HIDE DEF f, g, P, M
  <2> QED
    BY <1>3, <1>4, <1>6, <1>7, SumByParts
<1>10. RevenueFold(s, M) = SumOf(g, M)
  <2>1. M \in SUBSET DOMAIN s
    BY DEF Metr!Series
  <2> HIDE DEF s, M
  <2> QED
    BY <1>4, <2>1, FoldOfSeries
<1>11. SumOf(f, rows) = SumOf(f, UNION {P[m] : m \in M})
  BY <1>8, Zenon
<1>12. Metr!RevenueTotal(rows) = SumOf(f, rows)
  <2> DEFINE Ch == {i \in Metr!OfType(rows, "charge") : l[i].at >= 0}
             Re == {i \in Metr!OfType(rows, "refund") : l[i].at >= 0}
  <2>1. \A i \in rows : l[i].at >= 0
    <3> SUFFICES ASSUME NEW i \in rows PROVE l[i].at >= 0
      OBVIOUS
    <3>1. PICK m \in M : Metr!InMonth(m, l[i].at)
      OBVIOUS
    <3>2. Metr!MonthStart(m) \in Int /\ Metr!MonthStart(m) >= 0
      BY MonthsFollow
    <3> QED
      BY <1>2, <3>1, <3>2 DEF Metr!InMonth
  <2>2. Ch = {i \in rows : l[i].type = "charge"} /\ Re = {i \in rows : l[i].type = "refund"}
        /\ Ch \in SUBSET rows /\ Re \in SUBSET rows
    BY <2>1 DEF Metr!OfType
  <2>3. Metr!RevenueTotal(rows) = Metr!Total(Ch, Metr!Amount) - Metr!Total(Re, Metr!Amount)
    BY DEF Metr!RevenueTotal, Metr!RevenueSince
  <2>4. Metr!RevenueTotal(rows) = SumOf(AmountsIn(l), Ch) - SumOf(AmountsIn(l), Re)
    <3> HIDE DEF Ch, Re
    <3> QED
      BY <1>5, <2>2, <2>3
  <2>5. SumOf(AmountsIn(l), Ch) = SumOf(AmountsIn(l), {i \in rows : l[i].type = "charge"})
        /\ SumOf(AmountsIn(l), Re) = SumOf(AmountsIn(l), {i \in rows : l[i].type = "refund"})
    BY <2>2, Zenon
  <2>6. SumOf(f, rows) = SumOf(AmountsIn(l), {i \in rows : l[i].type = "charge"})
                         - SumOf(AmountsIn(l), {i \in rows : l[i].type = "refund"})
    BY <1>5
  <2> HIDE DEF f, Ch, Re
  <2> QED
    BY <2>4, <2>5, <2>6
<1> HIDE DEF f, g, P, M, s
<1>13. RevenueFold(s, M) = Metr!RevenueTotal(rows)
  BY <1>9, <1>10, <1>11, <1>12
<1> QED
  BY <1>13 DEF s, M

LEMMA MetricsSafe ==
  MetricsInv => Metr!TypeOK /\ Metr!SeriesAddsUp /\ Metr!LeaversWereThere
<1> SUFFICES ASSUME MetricsInv PROVE Metr!TypeOK /\ Metr!SeriesAddsUp /\ Metr!LeaversWereThere
  OBVIOUS
<1>1. /\ metricsLedger \in Seq(RecordedRow(MetricsCustomer))
      /\ metricsCustomers \in Known(MetricsCustomer)
      /\ metricsNow \in Metr!First .. Metr!First + MetricsMaxTime /\ metricsNow \in Int
  BY MonthsFollow DEF MetricsInv
<1>2. \A i \in Metr!Rows : metricsLedger[i] \in RecordedRow(MetricsCustomer)
  BY <1>1 DEF Metr!Rows
<1>3. Metr!TypeOK
  BY <1>1, <1>2 DEF Metr!TypeOK, RecordedRow, Known
<1>4. Metr!LeaversWereThere
  <2>1. Metr!ChurnedLast30 \subseteq Metr!ActiveAtStart \cup Metr!NewLast30
    <3> SUFFICES ASSUME NEW c \in Metr!ChurnedLast30
                 PROVE  c \in Metr!ActiveAtStart \/ c \in Metr!NewLast30
      OBVIOUS
    <3>1. c \in Metr!Known /\ c \in MetricsCustomer /\ metricsCustomers[c].churned >= Metr!Last30
      BY DEF Metr!ChurnedLast30, Metr!Known
    <3>2. metricsCustomers[c].started \in Int /\ Metr!Last30 \in Int
      BY <1>1, <3>1 DEF Known, Metr!Last30
    <3>3. metricsCustomers[c].started < Metr!Last30 \/ metricsCustomers[c].started >= Metr!Last30
      BY <3>2
    <3> QED
      BY <3>1, <3>3 DEF Metr!ActiveAtStart, Metr!NewLast30
  <2>2. ASSUME NEW c \in Metr!Known, Metr!CustomerMrr(c) > 0
        PROVE  c \in Metr!Active /\ c \notin Metr!ChurnedLast30
    <3>1. c \in MetricsCustomer /\ metricsCustomers[c] # Metr!Unknown
      BY DEF Metr!Known
    <3>2. MrrIn(metricsLedger, c) > 0
      BY <2>2, <3>1, MetricsMrr
    <3>3. metricsCustomers[c].status = "active" /\ metricsCustomers[c].churned = Metr!NotChurned
      BY <3>1, <3>2 DEF MetricsInv
    <3> QED
      BY <3>3 DEF Metr!Active, Metr!ChurnedLast30
  <2> QED
    BY <2>1, <2>2 DEF Metr!LeaversWereThere
<1>5. Metr!SeriesAddsUp
  <2> SUFFICES ASSUME NEW verifiedOnly \in BOOLEAN
               PROVE
        LET rows == Metr!Events(verifiedOnly)
            series == Metr!Series(rows)
        IN /\ \A m \in 2 .. MetricsMonthsBack :
                (\A k \in {m - 1, m} : Metr!Balance(k, rows) >= 0) =>
                   series[m].mrr = series[m - 1].mrr + series[m].new + series[m].expansion
                                     - series[m].churned
           /\ (\A i \in rows : metricsLedger[i].at <= metricsNow) =>
                series[MetricsMonthsBack].mrr = Metr!Mrr(rows)
           /\ (\A i \in rows : \E m \in 1 .. MetricsMonthsBack : Metr!InMonth(m, metricsLedger[i].at)) =>
                Metr!MapThenSumSet(LAMBDA m : series[m].revenue, 1 .. MetricsMonthsBack)
                  = Metr!RevenueTotal(rows)
    BY Zenon DEF Metr!SeriesAddsUp
  <2> DEFINE rows == Metr!Events(verifiedOnly)
             series == Metr!Series(rows)
  <2>1. rows \in SUBSET Metr!Rows
    BY DEF Metr!Events
  <2>2. \A m \in 1..MetricsMonthsBack : series[m] = Metr!Point(m, rows)
    BY DEF Metr!Series
  <2>3. MetricsMonthsBack \in 1..MetricsMonthsBack
        /\ \A m \in 2..MetricsMonthsBack : m \in 1..MetricsMonthsBack /\ m - 1 \in 1..MetricsMonthsBack
    BY MonthsFollow
  <2> HIDE DEF rows, series
  <2>4. ASSUME NEW m \in 2 .. MetricsMonthsBack, \A k \in {m - 1, m} : Metr!Balance(k, rows) >= 0
        PROVE  series[m].mrr = series[m - 1].mrr + series[m].new + series[m].expansion
                                 - series[m].churned
    <3>1. series[m] = Metr!Point(m, rows) /\ series[m - 1] = Metr!Point(m - 1, rows)
      BY <2>2, <2>3
    <3>2. /\ Metr!Point(m, rows).mrr = Metr!AtLeast0(Metr!Balance(m, rows))
          /\ Metr!Point(m, rows).new = Metr!Moved(m, rows, "subscription_started")
          /\ Metr!Point(m, rows).expansion = Metr!Moved(m, rows, "subscription_changed")
          /\ Metr!Point(m, rows).churned = 0 - Metr!Moved(m, rows, "subscription_canceled")
          /\ Metr!Point(m - 1, rows).mrr = Metr!AtLeast0(Metr!Balance(m - 1, rows))
      BY DEF Metr!Point
    <3>3. Metr!Balance(m, rows) >= 0 /\ Metr!Balance(m - 1, rows) >= 0
      BY <2>4
    <3>4. /\ Metr!Balance(m, rows) =
               Metr!Balance(m - 1, rows) + Metr!Moved(m, rows, "subscription_started")
               + Metr!Moved(m, rows, "subscription_changed")
               + Metr!Moved(m, rows, "subscription_canceled")
          /\ Metr!Balance(m, rows) \in Int /\ Metr!Balance(m - 1, rows) \in Int
          /\ Metr!Moved(m, rows, "subscription_started") \in Int
          /\ Metr!Moved(m, rows, "subscription_changed") \in Int
          /\ Metr!Moved(m, rows, "subscription_canceled") \in Int
      BY <2>1, BalanceMoves
    <3>5. /\ Metr!AtLeast0(Metr!Balance(m, rows)) = Metr!Balance(m, rows)
          /\ Metr!AtLeast0(Metr!Balance(m - 1, rows)) = Metr!Balance(m - 1, rows)
      BY <3>3, <3>4 DEF Metr!AtLeast0
    <3> QED
      BY <3>1, <3>2, <3>4, <3>5
  <2>5. ASSUME \A i \in rows : metricsLedger[i].at <= metricsNow
        PROVE  series[MetricsMonthsBack].mrr = Metr!Mrr(rows)
    <3>1. series[MetricsMonthsBack] = Metr!Point(MetricsMonthsBack, rows)
      BY <2>2, <2>3
    <3>2. Metr!Point(MetricsMonthsBack, rows).mrr = Metr!AtLeast0(Metr!Balance(MetricsMonthsBack, rows))
      BY DEF Metr!Point
    <3> QED
      BY <2>1, <2>5, <3>1, <3>2, LastMonthIsToday
  <2>6. ASSUME \A i \in rows : \E m \in 1 .. MetricsMonthsBack : Metr!InMonth(m, metricsLedger[i].at)
        PROVE  Metr!MapThenSumSet(LAMBDA m : series[m].revenue, 1 .. MetricsMonthsBack)
                 = Metr!RevenueTotal(rows)
    <3>1. RevenueFold(series, 1..MetricsMonthsBack) = Metr!RevenueTotal(rows)
      BY <2>1, <2>6, MonthsBringInAll DEF series
    <3>2. Metr!MapThenSumSet(LAMBDA m : series[m].revenue, 1 .. MetricsMonthsBack)
            = RevenueFold(series, 1..MetricsMonthsBack)
      BY DEF Metr!MapThenSumSet, Metr!MapThenFoldSet, RevenueFold, OneOf
    <3> QED
      BY <3>1, <3>2
  <2> QED
    BY <2>4, <2>5, <2>6 DEF rows, series
<1> QED
  BY <1>3, <1>4, <1>5

-----------------------------------------------------------------------------
(* Reports: what two loads of the ledger have seen *)

\* The verified rows among the first n that are dated by t, and their sum.
DatedBy(l, n, t) == {i \in 1 .. n : l[i].verified /\ l[i].at <= t}
UpTo(l, n, t) == SumOf(DeltasIn(l), DatedBy(l, n, t))

Loads == {Rep!NotLoaded} \cup 0 .. Len(reportLedger)
StoredReport ==
  [start : Int, end : Int, atEnd : Nat, atStart : Nat, mrrNow : Int, mrrBefore : Int,
   revenue : Int, newCustomers : SUBSET ReportCustomer, churned : SUBSET ReportCustomer]

ReportsInv ==
  /\ reportNow \in Rep!First .. Rep!First + ReportMaxTime
  /\ reportLedger \in Seq(RecordedRow(ReportCustomer)) /\ Len(reportLedger) <= ReportMaxRows
  /\ reportCustomers \in Known(ReportCustomer)
  /\ draft \in [end : Int, atEnd : Loads, atStart : Loads]
  /\ reports \in Seq(StoredReport)
  /\ \A k \in DOMAIN reports :
       LET r == reports[k]
       IN /\ r.start = r.end - 1
          /\ r.atEnd \in 0 .. Len(reportLedger) /\ r.atStart \in 0 .. Len(reportLedger)
          /\ r.mrrNow = Rep!AtLeast0(UpTo(reportLedger, r.atEnd, r.end))
          /\ r.mrrBefore = Rep!AtLeast0(UpTo(reportLedger, r.atStart, r.start))

LEMMA RowsOfReports ==
  ASSUME NEW l \in Seq(RecordedRow(ReportCustomer)), l = reportLedger, NEW S \in SUBSET DOMAIN l
  PROVE  /\ Rep!Total(S, Rep!Delta) = SumOf(DeltasIn(l), S)
         /\ Rep!Total(S, Rep!Amount) = SumOf(AmountsIn(l), S)
         /\ SumOf(DeltasIn(l), S) \in Int /\ SumOf(AmountsIn(l), S) \in Int
         /\ IsFiniteSet(S)
<1>1. \A r \in RecordedRow(ReportCustomer) : r.delta \in Int /\ r.amount \in Int
  BY DEF RecordedRow
<1>2. IsFiniteSet(S) /\ SumOf(DeltasIn(l), S) \in Int
  BY <1>1, RowsRecorded
<1>3. \A i \in S : AmountsIn(l)[i] \in Int
  BY <1>1 DEF AmountsIn
<1>4. SumOf(AmountsIn(l), S) \in Int
  BY <1>2, <1>3, SumInt
<1>5. /\ Rep!Total(S, Rep!Delta) = DeltaFold(l, S)
      /\ Rep!Total(S, Rep!Amount) = AmountFold(l, S)
  BY DEF Rep!Total, Rep!Delta, Rep!Amount, Rep!MapThenSumSet, Rep!MapThenFoldSet,
         DeltaFold, AmountFold, OneOf
<1>6. /\ DeltaFold(l, S) = SumOf(DeltasIn(l), S)
      /\ AmountFold(l, S) = SumOf(AmountsIn(l), S)
  BY <1>2, FoldOfRecorded
<1> QED
  BY <1>2, <1>4, <1>5, <1>6

LEMMA LaterRow ==
  ASSUME NEW R, NEW l \in Seq(R), \A r \in R : r.delta \in Int, NEW row \in R,
         NEW S \in SUBSET DOMAIN l
  PROVE  SumOf(DeltasIn(Append(l, row)), S) = SumOf(DeltasIn(l), S)
<1> DEFINE m == Append(l, row)
<1>1. DOMAIN l = 1 .. Len(l) /\ Len(l) \in Nat /\ DOMAIN m = 1 .. Len(l) + 1
      /\ \A i \in 1 .. Len(l) : m[i] = l[i]
  OBVIOUS
<1> HIDE DEF m
<1>2. IsFiniteSet(S) /\ \A i \in S : DeltasIn(l)[i] \in Int
  BY RowsRecorded
<1>3. \A i \in S : DeltasIn(m)[i] = DeltasIn(l)[i]
  BY <1>1 DEF DeltasIn
<1> QED
  BY <1>2, <1>3, SumSame DEF m

\* Rows that are recorded later change nothing of what has been seen.
LEMMA SeenStays ==
  ASSUME NEW C, NEW l \in Seq(RecordedRow(C)), NEW row \in RecordedRow(C),
         NEW n \in 0 .. Len(l), NEW t
  PROVE  /\ UpTo(Append(l, row), n, t) = UpTo(l, n, t)
         /\ UpTo(l, n, t) \in Int
<1> DEFINE m == Append(l, row)
           S == DatedBy(l, n, t)
<1>1. (\A r \in RecordedRow(C) : r.delta \in Int) /\ S \in SUBSET DOMAIN l
  BY DEF RecordedRow, DatedBy
<1> HIDE DEF S
<1>2. /\ SumOf(DeltasIn(m), S) = SumOf(DeltasIn(l), S) /\ \A i \in DOMAIN l : m[i] = l[i]
      /\ SumOf(DeltasIn(l), S) \in Int /\ DOMAIN l = 1 .. Len(l) /\ Len(l) \in Nat
  <2>1. SumOf(DeltasIn(l), S) \in Int /\ DOMAIN l = 1 .. Len(l) /\ Len(l) \in Nat
    BY <1>1, RowsRecorded
  <2>2. \A i \in DOMAIN l : m[i] = l[i]
    OBVIOUS
  <2>3. SumOf(DeltasIn(m), S) = SumOf(DeltasIn(l), S)
    BY <1>1, LaterRow
  <2> QED
    BY <2>1, <2>2, <2>3
<1> HIDE DEF m
<1>3. DatedBy(m, n, t) = S
  BY <1>2 DEF DatedBy, S
<1>4. UpTo(m, n, t) = SumOf(DeltasIn(m), S)
  BY <1>3, Zenon DEF UpTo
<1>5. UpTo(l, n, t) = SumOf(DeltasIn(l), S)
  BY Zenon DEF UpTo, S
<1> QED
  BY <1>2, <1>4, <1>5 DEF m

LEMMA SeenBalance ==
  ASSUME ReportsInv, NEW n \in 0 .. Len(reportLedger), NEW t
  PROVE  /\ UpTo(reportLedger, n, t) \in Int
         /\ Rep!BalanceAt(t, n) = Rep!AtLeast0(UpTo(reportLedger, n, t))
         /\ Rep!Sum(n, t) = UpTo(reportLedger, n, t)
         /\ Rep!Verified(n) \in SUBSET DOMAIN reportLedger
<1> DEFINE l == reportLedger
           S == {i \in Rep!Verified(n) : l[i].at <= t}
<1>1. l \in Seq(RecordedRow(ReportCustomer)) /\ DOMAIN l = 1 .. Len(l) /\ Len(l) \in Nat
  BY DEF ReportsInv
<1>2. S = DatedBy(l, n, t) /\ S \in SUBSET DOMAIN l /\ Rep!Verified(n) \in SUBSET DOMAIN reportLedger
  BY <1>1 DEF DatedBy, Rep!Verified
<1>3. Rep!BalanceAt(t, n) = Rep!AtLeast0(Rep!Total(S, Rep!Delta)) /\ Rep!Sum(n, t) = Rep!Total(S, Rep!Delta)
  BY DEF Rep!BalanceAt, Rep!MrrAt, Rep!Sum
<1> HIDE DEF S
<1>4. Rep!Total(S, Rep!Delta) = SumOf(DeltasIn(l), S) /\ SumOf(DeltasIn(l), S) \in Int
  BY <1>1, <1>2, RowsOfReports
<1>5. UpTo(l, n, t) = SumOf(DeltasIn(l), S)
  BY <1>2, Zenon DEF UpTo
<1> QED
  BY <1>2, <1>3, <1>4, <1>5

LEMMA ReportsStarts == Rep!ReportsInit => ReportsInv
<1> SUFFICES ASSUME Rep!ReportsInit PROVE ReportsInv
  OBVIOUS
<1>1. reportNow \in Rep!First .. Rep!First + ReportMaxTime
  BY MetricsAssumption DEF Rep!ReportsInit, Rep!Init, Rep!First
<1>2. /\ reportLedger \in Seq(RecordedRow(ReportCustomer)) /\ Len(reportLedger) = 0
      /\ reports \in Seq(StoredReport) /\ DOMAIN reports = {}
  BY DEF Rep!ReportsInit, Rep!Init
<1>3. reportCustomers \in Known(ReportCustomer)
  BY DEF Rep!ReportsInit, Rep!Init, Rep!Unknown, Known
<1>4. draft \in [end : Int, atEnd : Loads, atStart : Loads]
  BY DEF Rep!ReportsInit, Rep!NoDraft, Loads, Rep!NotLoaded
<1>5. Len(reportLedger) <= ReportMaxRows
  BY <1>2, MetricsAssumption
<1> QED
  BY <1>1, <1>2, <1>3, <1>4, <1>5 DEF ReportsInv

\* A draft's loads stay within a ledger that only grows.
LEMMA LoadsGrow ==
  ASSUME NEW k \in Nat, NEW n \in Nat, n <= k
  PROVE  {Rep!NotLoaded} \cup 0 .. n \subseteq {Rep!NotLoaded} \cup 0 .. k
OBVIOUS

LEMMA ReportRecords ==
  ASSUME ReportsInv, NEW type \in Metr!Types, NEW c \in ReportCustomer, NEW a \in ReportAmounts,
         NEW verified \in BOOLEAN, NEW at \in {reportNow - 1, reportNow, reportNow + 1},
         Rep!Record(type, c, a, at, verified), UNCHANGED <<draft, reports>>
  PROVE  ReportsInv'
<1> DEFINE l == reportLedger
           row == [type |-> type, customer |-> c, delta |-> Rep!DeltaOf(type, c, a),
                   amount |-> IF type \in {"charge", "refund"} THEN a ELSE 0,
                   at |-> at, verified |-> verified]
<1>1. Rep!CustomerMrr(c) \in Int
  <2>1. RowsFor(l, c) \in SUBSET DOMAIN l
    BY DEF RowsFor
  <2>2. Rep!Total(RowsFor(l, c), Rep!Delta) \in Int
    <3>1. l \in Seq(RecordedRow(ReportCustomer))
      BY DEF ReportsInv
    <3> QED
      BY <2>1, <3>1, RowsOfReports
  <2> QED
    BY <2>2 DEF Rep!CustomerMrr, Rep!Rows, RowsFor
<1>2. Rep!DeltaOf(type, c, a) \in Int /\ (type \in {"charge", "refund"} => Rep!DeltaOf(type, c, a) = 0)
  BY <1>1, MetricsAssumption DEF Rep!DeltaOf
<1>3. reportNow \in Int
  BY MetricsAssumption DEF ReportsInv, Rep!First
<1>4. row \in RecordedRow(ReportCustomer)
  BY <1>2, <1>3, MetricsAssumption DEF RecordedRow
<1>5. reportLedger' = Append(l, row) /\ reportNow' = reportNow /\ Len(l) < ReportMaxRows
      /\ draft' = draft /\ reports' = reports
  BY DEF Rep!Record
<1> DEFINE was == IF reportCustomers[c] = Rep!Unknown
                    THEN [status |-> "active", started |-> reportNow, churned |-> Rep!NotChurned]
                    ELSE reportCustomers[c]
           canceled == type = "subscription_canceled" \/
                       \E i \in Rep!Rows : reportLedger[i].customer = c
                                       /\ reportLedger[i].type = "subscription_canceled"
           more == Rep!CustomerMrr(c) + row.delta
           now == Rep!Refreshed(c, was, more, canceled)
<1>6. reportCustomers' = [reportCustomers EXCEPT ![c] = now]
  BY DEF Rep!Record
<1> HIDE DEF row, canceled, more
<1>7. now \in [status : {"none", "active", "churned"}, started : Int, churned : Int]
  <2> DEFINE K == [status : {"none", "active", "churned"}, started : Int, churned : Int]
             half == [was EXCEPT !.status = "active"]
             active == [was EXCEPT !.status = "active", !.churned = Rep!NotChurned]
             gone == [was EXCEPT !.status = "churned",
                        !.churned = IF @ = Rep!NotChurned THEN reportNow ELSE @]
             kept == [was EXCEPT !.churned = Rep!NotChurned]
  <2>1. was \in K
    BY <1>3 DEF ReportsInv, Known, Rep!NotChurned
  <2> HIDE DEF was
  <2>2. now = IF more > 0 THEN active ELSE IF canceled THEN gone ELSE kept
    BY Zenon DEF Rep!Refreshed
  <2>3. active \in K
    <3>1. half \in K
      BY <2>1
    <3>2. active = [half EXCEPT !.churned = Rep!NotChurned]
      BY <2>1
    <3> HIDE DEF half, active
    <3> QED
      BY <3>1, <3>2 DEF Rep!NotChurned
  <2>4. gone \in K
    BY <2>1, <1>3 DEF Rep!NotChurned
  <2>5. kept \in K
    BY <2>1 DEF Rep!NotChurned
  <2> HIDE DEF now, active, gone, kept, K
  <2>6. now \in {active, gone, kept}
    BY <2>2
  <2> QED
    BY <2>3, <2>4, <2>5, <2>6 DEF K
<1> HIDE DEF now
<1>8. reportCustomers' \in Known(ReportCustomer)
  BY <1>6, <1>7 DEF ReportsInv, Known
<1>9. l \in Seq(RecordedRow(ReportCustomer)) /\ Len(l) \in Nat
  BY DEF ReportsInv
<1>10. reportLedger' \in Seq(RecordedRow(ReportCustomer)) /\ Len(reportLedger') = Len(l) + 1
  BY <1>4, <1>5, <1>9
<1>11. Len(reportLedger') <= ReportMaxRows
  BY <1>5, <1>9, <1>10, MetricsAssumption
<1>12. draft \in [end : Int, atEnd : {Rep!NotLoaded} \cup 0 .. Len(reportLedger'),
                  atStart : {Rep!NotLoaded} \cup 0 .. Len(reportLedger')]
  <2>1. {Rep!NotLoaded} \cup 0 .. Len(l) \subseteq {Rep!NotLoaded} \cup 0 .. Len(reportLedger')
    BY <1>9, <1>10, LoadsGrow
  <2>2. draft \in [end : Int, atEnd : {Rep!NotLoaded} \cup 0 .. Len(l),
                   atStart : {Rep!NotLoaded} \cup 0 .. Len(l)]
    BY DEF ReportsInv, Loads
  <2> QED
    BY <2>1, <2>2
<1>13. ASSUME NEW k \in DOMAIN reports
       PROVE  LET r == reports[k]
              IN /\ r.start = r.end - 1
                 /\ r.atEnd \in 0 .. Len(reportLedger') /\ r.atStart \in 0 .. Len(reportLedger')
                 /\ r.mrrNow = Rep!AtLeast0(UpTo(reportLedger', r.atEnd, r.end))
                 /\ r.mrrBefore = Rep!AtLeast0(UpTo(reportLedger', r.atStart, r.start))
  <2> DEFINE r == reports[k]
  <2>1. /\ r.start = r.end - 1
        /\ r.atEnd \in 0 .. Len(l) /\ r.atStart \in 0 .. Len(l)
        /\ r.mrrNow = Rep!AtLeast0(UpTo(l, r.atEnd, r.end))
        /\ r.mrrBefore = Rep!AtLeast0(UpTo(l, r.atStart, r.start))
    BY DEF ReportsInv
  <2> HIDE DEF r
  <2>2. /\ UpTo(Append(l, row), r.atEnd, r.end) = UpTo(l, r.atEnd, r.end)
        /\ UpTo(Append(l, row), r.atStart, r.start) = UpTo(l, r.atStart, r.start)
    BY <1>4, <1>9, <2>1, SeenStays
  <2>3. r.atEnd \in 0 .. Len(reportLedger') /\ r.atStart \in 0 .. Len(reportLedger')
    BY <1>9, <1>10, <2>1
  <2> QED
    BY <1>5, <2>1, <2>2, <2>3 DEF r
<1>14. Rep!First' = Rep!First /\ StoredReport' = StoredReport
       /\ Loads' = {Rep!NotLoaded} \cup 0 .. Len(reportLedger')
       /\ \A n, t : UpTo(reportLedger, n, t)' = UpTo(reportLedger', n, t)
  BY Zenon DEF Rep!First, StoredReport, Loads, Rep!NotLoaded, UpTo, DatedBy
<1> QED
  BY <1>5, <1>8, <1>10, <1>11, <1>12, <1>13, <1>14 DEF ReportsInv, Rep!AtLeast0

LEMMA ReportStores ==
  ASSUME ReportsInv, Rep!Store
  PROVE  ReportsInv'
<1> DEFINE l == reportLedger
           r == [start |-> Rep!StartOf(draft.end), end |-> draft.end, atEnd |-> draft.atEnd,
                 atStart |-> draft.atStart,
                 mrrNow |-> Rep!BalanceAt(draft.end, draft.atEnd),
                 mrrBefore |-> Rep!BalanceAt(Rep!StartOf(draft.end), draft.atStart),
                 revenue |-> Rep!RevenueSince(0, Rep!Verified(draft.atEnd))
                             - Rep!RevenueSince(0, Rep!Verified(draft.atStart)),
                 newCustomers |-> {c \in ReportCustomer :
                    reportCustomers[c] # Rep!Unknown
                    /\ Rep!Between(Rep!StartOf(draft.end), draft.end, reportCustomers[c].started)},
                 churned |-> {c \in ReportCustomer :
                    reportCustomers[c].churned # Rep!NotChurned
                    /\ Rep!Between(Rep!StartOf(draft.end), draft.end, reportCustomers[c].churned)}]
<1>1. reports' = Append(reports, r) /\ draft' = Rep!NoDraft
      /\ reportLedger' = reportLedger /\ reportNow' = reportNow /\ reportCustomers' = reportCustomers
  BY DEF Rep!Store, Rep!metricVars
<1>2. /\ draft.end \in Int /\ draft.atEnd \in 0 .. Len(l) /\ draft.atStart \in 0 .. Len(l)
      /\ Len(l) \in Nat /\ l \in Seq(RecordedRow(ReportCustomer))
  BY DEF Rep!Store, ReportsInv, Loads
<1>3. Rep!StartOf(draft.end) = draft.end - 1
  BY DEF Rep!StartOf
<1>4. /\ r.start = Rep!StartOf(draft.end) /\ r.end = draft.end
      /\ r.atEnd = draft.atEnd /\ r.atStart = draft.atStart
      /\ r.mrrNow = Rep!BalanceAt(draft.end, draft.atEnd)
      /\ r.mrrBefore = Rep!BalanceAt(Rep!StartOf(draft.end), draft.atStart)
  OBVIOUS
<1>5. /\ UpTo(l, r.atEnd, r.end) \in Int /\ r.mrrNow = Rep!AtLeast0(UpTo(l, r.atEnd, r.end))
      /\ Rep!Verified(r.atEnd) \in SUBSET DOMAIN l
  <2> HIDE DEF r
  <2> QED
    BY <1>2, <1>4, SeenBalance
<1>6. /\ UpTo(l, r.atStart, r.start) \in Int
      /\ r.mrrBefore = Rep!AtLeast0(UpTo(l, r.atStart, r.start))
      /\ Rep!Verified(r.atStart) \in SUBSET DOMAIN l
  <2> HIDE DEF r
  <2> QED
    BY <1>2, <1>4, SeenBalance
<1>7. ASSUME NEW S \in SUBSET DOMAIN l PROVE Rep!RevenueSince(0, S) \in Int
  <2> DEFINE Ch == {i \in Rep!OfType(S, "charge") : l[i].at >= 0}
             Re == {i \in Rep!OfType(S, "refund") : l[i].at >= 0}
  <2>1. Ch \in SUBSET DOMAIN l /\ Re \in SUBSET DOMAIN l
    BY DEF Rep!OfType
  <2>2. Rep!RevenueSince(0, S) = Rep!Total(Ch, Rep!Amount) - Rep!Total(Re, Rep!Amount)
    BY DEF Rep!RevenueSince
  <2> HIDE DEF Ch, Re
  <2>3. Rep!Total(Ch, Rep!Amount) \in Int /\ Rep!Total(Re, Rep!Amount) \in Int
    BY <1>2, <2>1, RowsOfReports
  <2> QED
    BY <2>2, <2>3
<1>8. r \in StoredReport
  <2>1. r.mrrNow \in Int /\ r.mrrBefore \in Int
    <3> HIDE DEF r
    <3> QED
      BY <1>5, <1>6 DEF Rep!AtLeast0
  <2>2. /\ Rep!RevenueSince(0, Rep!Verified(draft.atEnd)) \in Int
        /\ Rep!RevenueSince(0, Rep!Verified(draft.atStart)) \in Int
    BY <1>4, <1>5, <1>6, <1>7
  <2>3. /\ r.revenue \in Int /\ r.newCustomers \in SUBSET ReportCustomer
        /\ r.churned \in SUBSET ReportCustomer
    BY <2>2
  <2>4. r.start \in Int /\ r.end \in Int /\ r.atEnd \in Nat /\ r.atStart \in Nat
    <3> HIDE DEF r
    <3> QED
      BY <1>2, <1>3, <1>4
  <2>5. r = [start |-> r.start, end |-> r.end, atEnd |-> r.atEnd, atStart |-> r.atStart,
             mrrNow |-> r.mrrNow, mrrBefore |-> r.mrrBefore, revenue |-> r.revenue,
             newCustomers |-> r.newCustomers, churned |-> r.churned]
    OBVIOUS
  <2> HIDE DEF r
  <2> QED
    BY <2>1, <2>3, <2>4, <2>5 DEF StoredReport
<1> HIDE DEF r
<1>9. reports \in Seq(StoredReport) /\ Len(reports) \in Nat /\ DOMAIN reports = 1 .. Len(reports)
  BY DEF ReportsInv
<1>10. /\ reports' \in Seq(StoredReport) /\ DOMAIN reports' = 1 .. Len(reports) + 1
       /\ \A k \in 1 .. Len(reports) : reports'[k] = reports[k]
       /\ reports'[Len(reports) + 1] = r
  BY <1>1, <1>8, <1>9
<1>11. ASSUME NEW k \in DOMAIN reports'
       PROVE  /\ reports'[k].start = reports'[k].end - 1
              /\ reports'[k].atEnd \in 0 .. Len(l) /\ reports'[k].atStart \in 0 .. Len(l)
              /\ reports'[k].mrrNow = Rep!AtLeast0(UpTo(l, reports'[k].atEnd, reports'[k].end))
              /\ reports'[k].mrrBefore = Rep!AtLeast0(UpTo(l, reports'[k].atStart, reports'[k].start))
  <2>1. CASE k = Len(reports) + 1
    <3>1. reports'[k] = r
      BY <1>10, <2>1
    <3> QED
      BY <1>2, <1>3, <1>4, <1>5, <1>6, <3>1
  <2>2. CASE k # Len(reports) + 1
    <3>1. k \in DOMAIN reports /\ reports'[k] = reports[k]
      BY <1>9, <1>10, <2>2
    <3> QED
      BY <3>1 DEF ReportsInv
  <2> QED
    BY <2>1, <2>2
<1>12. draft' \in [end : Int, atEnd : Loads, atStart : Loads]
  BY <1>1 DEF Rep!NoDraft, Loads
<1>13. Rep!First' = Rep!First /\ StoredReport' = StoredReport /\ Loads' = Loads
       /\ \A n, t : UpTo(reportLedger, n, t)' = UpTo(reportLedger', n, t)
  BY <1>1, Zenon DEF Rep!First, StoredReport, Loads, Rep!NotLoaded, UpTo, DatedBy
<1> QED
  BY <1>1, <1>10, <1>11, <1>12, <1>13 DEF ReportsInv, Rep!AtLeast0

LEMMA ReportsStep == ReportsInv /\ (Rep!ReportsNext \/ UNCHANGED reportsState) => ReportsInv'
<1>1. ASSUME ReportsInv, UNCHANGED <<reports, reportNow, reportLedger, reportCustomers>>,
             draft' \in [end : Int, atEnd : Loads, atStart : Loads]
      PROVE  ReportsInv'
  <2>1. Rep!First' = Rep!First /\ StoredReport' = StoredReport /\ Loads' = Loads
         /\ \A n, t : UpTo(reportLedger, n, t)' = UpTo(reportLedger', n, t)
    BY <1>1, Zenon DEF Rep!First, StoredReport, Loads, Rep!NotLoaded, UpTo, DatedBy
  <2> QED
    BY <1>1, <2>1 DEF ReportsInv, Rep!AtLeast0
<1>2. ASSUME ReportsInv
      PROVE  /\ draft \in [end : Int, atEnd : Loads, atStart : Loads]
             /\ Len(reportLedger) \in Loads /\ Rep!NotLoaded \in Loads /\ reportNow \in Int
  BY <1>2, MetricsAssumption DEF ReportsInv, Loads, Rep!First
<1>3. ASSUME ReportsInv, Rep!Begin PROVE ReportsInv'
  <2>1. draft' \in [end : Int, atEnd : Loads, atStart : Loads]
    BY <1>2, <1>3 DEF Rep!Begin, Rep!NoDraft
  <2> QED
    BY <1>1, <1>3, <2>1 DEF Rep!Begin, Rep!metricVars
<1>4. ASSUME ReportsInv, Rep!LoadAtEnd PROVE ReportsInv'
  <2>1. draft' \in [end : Int, atEnd : Loads, atStart : Loads]
    BY <1>2, <1>4 DEF Rep!LoadAtEnd
  <2> QED
    BY <1>1, <1>4, <2>1 DEF Rep!LoadAtEnd, Rep!metricVars
<1>5. ASSUME ReportsInv, Rep!LoadAtStart PROVE ReportsInv'
  <2>1. draft' \in [end : Int, atEnd : Loads, atStart : Loads]
    BY <1>2, <1>5 DEF Rep!LoadAtStart
  <2> QED
    BY <1>1, <1>5, <2>1 DEF Rep!LoadAtStart, Rep!metricVars
<1>6. ASSUME ReportsInv, Rep!Tick, UNCHANGED <<draft, reports>> PROVE ReportsInv'
  <2>1. reportNow' \in Rep!First .. Rep!First + ReportMaxTime
    BY <1>6, MetricsAssumption DEF ReportsInv, Rep!Tick, Rep!First
  <2>2. UNCHANGED <<draft, reports, reportLedger, reportCustomers>>
    BY <1>6 DEF Rep!Tick
  <2>3. Rep!First' = Rep!First /\ StoredReport' = StoredReport /\ Loads' = Loads
         /\ \A n, t : UpTo(reportLedger, n, t)' = UpTo(reportLedger', n, t)
    BY <2>2, Zenon DEF Rep!First, StoredReport, Loads, Rep!NotLoaded, UpTo, DatedBy
  <2> QED
    BY <1>6, <2>1, <2>2, <2>3 DEF ReportsInv, Rep!AtLeast0
<1>7. ASSUME ReportsInv, Rep!Record_ PROVE ReportsInv'
  <2>1. Rep!Types = Metr!Types
    BY DEF Rep!Types, Metr!Types
  <2>2. Rep!Tick \/ \E type \in Metr!Types, c \in ReportCustomer, a \in ReportAmounts, verified \in BOOLEAN,
          at \in {reportNow - 1, reportNow, reportNow + 1} : Rep!Record(type, c, a, at, verified)
    BY <1>7, <2>1 DEF Rep!Record_, Rep!Next
  <2>3. UNCHANGED <<draft, reports>>
    BY <1>7 DEF Rep!Record_
  <2> QED
    BY <1>6, <1>7, <2>2, <2>3, ReportRecords
<1>8. ASSUME ReportsInv, UNCHANGED reportsState PROVE ReportsInv'
  BY <1>1, <1>2, <1>8 DEF reportsState
<1> QED
  BY <1>3, <1>4, <1>5, <1>7, <1>8, ReportStores DEF Rep!ReportsNext

LEMMA ReportsSafe == ReportsInv => Rep!ReportsTypeOK /\ Rep!ReportsAddUp
<1> SUFFICES ASSUME ReportsInv PROVE Rep!ReportsTypeOK /\ Rep!ReportsAddUp
  OBVIOUS
<1> DEFINE l == reportLedger
<1>1. /\ l \in Seq(RecordedRow(ReportCustomer)) /\ Len(l) \in Nat /\ Len(l) <= ReportMaxRows
      /\ DOMAIN l = 1 .. Len(l) /\ ReportMaxRows \in Nat
      /\ reportNow \in Rep!First .. Rep!First + ReportMaxTime
      /\ reportCustomers \in Known(ReportCustomer)
  BY MetricsAssumption DEF ReportsInv
<1>2. \A i \in DOMAIN l : l[i] \in RecordedRow(ReportCustomer)
  BY <1>1
<1>3. ASSUME NEW k \in DOMAIN reports
      PROVE  LET r == reports[k]
             IN /\ r.start = r.end - 1 /\ r.start \in Int /\ r.end \in Int
                /\ r.atEnd \in 0 .. Len(l) /\ r.atStart \in 0 .. Len(l)
                /\ UpTo(l, r.atEnd, r.end) \in Int /\ UpTo(l, r.atStart, r.start) \in Int
                /\ r.mrrNow = Rep!AtLeast0(UpTo(l, r.atEnd, r.end))
                /\ r.mrrBefore = Rep!AtLeast0(UpTo(l, r.atStart, r.start))
                /\ r.mrrNow \in Nat /\ r.mrrBefore \in Nat
  <2> DEFINE r == reports[k]
  <2>1. reports[k] \in StoredReport
    BY DEF ReportsInv
  <2>2. /\ r.start = r.end - 1
        /\ r.atEnd \in 0 .. Len(l) /\ r.atStart \in 0 .. Len(l)
        /\ r.mrrNow = Rep!AtLeast0(UpTo(l, r.atEnd, r.end))
        /\ r.mrrBefore = Rep!AtLeast0(UpTo(l, r.atStart, r.start))
    BY DEF ReportsInv
  <2>3. r.start \in Int /\ r.end \in Int
    BY <2>1 DEF StoredReport
  <2> HIDE DEF r
  <2>4. UpTo(l, r.atEnd, r.end) \in Int /\ UpTo(l, r.atStart, r.start) \in Int
    BY <2>2, SeenBalance
  <2>5. r.mrrNow \in Nat /\ r.mrrBefore \in Nat
    BY <2>2, <2>4 DEF Rep!AtLeast0
  <2> QED
    BY <2>2, <2>3, <2>4, <2>5 DEF r
<1>4. Rep!ReportsTypeOK
  <2>1. Rep!TypeOK
    <3>1. \A i \in Rep!Rows : /\ l[i].type \in Rep!Types /\ l[i].customer \in ReportCustomer
                              /\ l[i].delta \in Int /\ l[i].verified \in BOOLEAN
      BY <1>2 DEF Rep!Rows, RecordedRow, Rep!Types, Metr!Types
    <3> QED
      BY <1>1, <3>1 DEF Rep!TypeOK, Known
  <2>2. draft.atEnd \in {Rep!NotLoaded} \cup 0 .. ReportMaxRows
        /\ draft.atStart \in {Rep!NotLoaded} \cup 0 .. ReportMaxRows
    <3>1. Loads \subseteq {Rep!NotLoaded} \cup 0 .. ReportMaxRows
      BY <1>1, LoadsGrow DEF Loads
    <3>2. draft.atEnd \in Loads /\ draft.atStart \in Loads
      BY DEF ReportsInv
    <3> QED
      BY <3>1, <3>2
  <2> QED
    BY <1>3, <2>1, <2>2 DEF Rep!ReportsTypeOK
<1>5. ASSUME NEW S \in SUBSET DOMAIN l, NEW T \in SUBSET DOMAIN l, S \cap T = {}
      PROVE  /\ SumOf(DeltasIn(l), S \cup T) = SumOf(DeltasIn(l), S) + SumOf(DeltasIn(l), T)
             /\ SumOf(DeltasIn(l), S) \in Int /\ SumOf(DeltasIn(l), T) \in Int
             /\ Rep!Total(T, Rep!Delta) = SumOf(DeltasIn(l), T)
  <2>1. \A r \in RecordedRow(ReportCustomer) : r.delta \in Int
    BY DEF RecordedRow
  <2>2. /\ IsFiniteSet(S) /\ IsFiniteSet(T)
        /\ (\A i \in S : DeltasIn(l)[i] \in Int) /\ (\A i \in T : DeltasIn(l)[i] \in Int)
        /\ SumOf(DeltasIn(l), S) \in Int /\ SumOf(DeltasIn(l), T) \in Int
    BY <1>1, <2>1, RowsRecorded
  <2>3. SumOf(DeltasIn(l), S \cup T) = SumOf(DeltasIn(l), S) + SumOf(DeltasIn(l), T)
    BY <1>5, <2>2, SumUnion
  <2>4. Rep!Total(T, Rep!Delta) = SumOf(DeltasIn(l), T)
    BY <1>1, RowsOfReports
  <2> QED
    BY <2>2, <2>3, <2>4
<1>6. \A n \in 0 .. Len(l) : \A t : Rep!Sum(n, t) = UpTo(l, n, t)
  BY SeenBalance
<1>7. ASSUME NEW k \in DOMAIN reports, reports[k].atEnd = reports[k].atStart,
             Rep!Sum(reports[k].atEnd, reports[k].end) >= 0,
             Rep!Sum(reports[k].atEnd, reports[k].start) >= 0
      PROVE  reports[k].mrrNow - reports[k].mrrBefore
               = Rep!Total(Rep!Dated(reports[k].start, reports[k].end, Rep!Verified(reports[k].atEnd)), Rep!Delta)
  <2> DEFINE r == reports[k]
             n == r.atEnd
             S == DatedBy(l, n, r.start)
             T == Rep!Dated(r.start, r.end, Rep!Verified(n))
  <2>1. /\ r.start = r.end - 1 /\ r.start \in Int /\ r.end \in Int
        /\ n \in 0 .. Len(l) /\ r.atStart = n
        /\ UpTo(l, n, r.end) \in Int /\ UpTo(l, n, r.start) \in Int
        /\ r.mrrNow = Rep!AtLeast0(UpTo(l, n, r.end))
        /\ r.mrrBefore = Rep!AtLeast0(UpTo(l, n, r.start))
    BY <1>3, <1>7
  <2>2. UpTo(l, n, r.end) >= 0 /\ UpTo(l, n, r.start) >= 0
    BY <1>6, <1>7, <2>1
  <2>3. r.mrrNow = UpTo(l, n, r.end) /\ r.mrrBefore = UpTo(l, n, r.start)
    BY <2>1, <2>2 DEF Rep!AtLeast0
  <2> HIDE DEF r, n
  <2>4. \A i \in 1 .. n : i \in DOMAIN l /\ l[i].at \in Int
    <3>1. 1 .. n \subseteq DOMAIN l
      BY <1>1, <2>1
    <3>2. \A i \in DOMAIN l : l[i].at \in Int
      BY <1>2 DEF RecordedRow
    <3> QED
      BY <3>1, <3>2
  <2>5. /\ S \in SUBSET DOMAIN l /\ T \in SUBSET DOMAIN l /\ S \cap T = {}
        /\ DatedBy(l, n, r.end) = S \cup T
    BY <2>1, <2>4 DEF DatedBy, Rep!Dated, Rep!Verified
  <2>6. UpTo(l, n, r.end) = SumOf(DeltasIn(l), S \cup T)
    BY <2>5, Zenon DEF UpTo
  <2>7. UpTo(l, n, r.start) = SumOf(DeltasIn(l), S)
    BY Zenon DEF UpTo
  <2> HIDE DEF S, T
  <2>8. r.mrrNow - r.mrrBefore = Rep!Total(T, Rep!Delta)
    BY <1>5, <2>3, <2>5, <2>6, <2>7
  <2> QED
    BY <2>8 DEF r, n, T
<1>8. ASSUME NEW k \in DOMAIN reports, NEW j \in DOMAIN reports,
             reports[j].end = reports[k].start, reports[j].atEnd <= reports[k].atStart,
             Rep!Sum(reports[j].atEnd, reports[j].end) >= 0,
             Rep!Sum(reports[k].atStart, reports[k].start) >= 0
      PROVE  reports[k].mrrBefore - reports[j].mrrNow
               = Rep!Total({i \in Rep!Verified(reports[k].atStart) \ Rep!Verified(reports[j].atEnd) :
                              l[i].at <= reports[j].end}, Rep!Delta)
  <2> DEFINE r == reports[k]
             q == reports[j]
             t == q.end
             n == r.atStart
             o == q.atEnd
             S == DatedBy(l, o, t)
             T == {i \in Rep!Verified(n) \ Rep!Verified(o) : l[i].at <= t}
  <2>1. /\ r.start = t /\ n \in 0 .. Len(l) /\ o \in 0 .. Len(l) /\ o <= n
        /\ UpTo(l, n, t) \in Int /\ UpTo(l, o, t) \in Int
        /\ r.mrrBefore = Rep!AtLeast0(UpTo(l, n, t))
        /\ q.mrrNow = Rep!AtLeast0(UpTo(l, o, t))
    BY <1>3, <1>8
  <2>2. UpTo(l, n, t) >= 0 /\ UpTo(l, o, t) >= 0
    BY <1>6, <1>8, <2>1
  <2>3. q.mrrNow = UpTo(l, o, t) /\ r.mrrBefore = UpTo(l, n, t)
    BY <2>1, <2>2 DEF Rep!AtLeast0
  <2> HIDE DEF r, q, t, n, o
  <2>4. /\ S \in SUBSET DOMAIN l /\ T \in SUBSET DOMAIN l /\ S \cap T = {}
        /\ DatedBy(l, n, t) = S \cup T
    <3>1. 1 .. o \subseteq 1 .. n /\ 1 .. n \subseteq DOMAIN l
      BY <1>1, <2>1
    <3> QED
      BY <3>1 DEF DatedBy, Rep!Verified
  <2>5. UpTo(l, n, t) = SumOf(DeltasIn(l), S \cup T)
    BY <2>4, Zenon DEF UpTo
  <2>6. UpTo(l, o, t) = SumOf(DeltasIn(l), S)
    BY Zenon DEF UpTo
  <2> HIDE DEF S, T
  <2>7. r.mrrBefore - q.mrrNow = Rep!Total(T, Rep!Delta)
    BY <1>5, <2>3, <2>4, <2>5, <2>6
  <2> QED
    BY <2>7 DEF r, q, t, n, o, T
<1>9. Rep!ReportsAddUp
  BY <1>7, <1>8 DEF Rep!ReportsAddUp
<1> QED
  BY <1>4, <1>9

-----------------------------------------------------------------------------
(* Every behaviour of the services: the figures *)

LEMMA MetricsAlways == ServicesSpec => []MetricsInv
<1>1. ServicesInit => MetricsInv
  BY MetricsStarts DEF ServicesInit
<1>2. ASSUME MetricsInv, [ServicesNext]_all PROVE MetricsInv'
  <2>1. Metr!Next \/ UNCHANGED metricsState
    BY <1>2 DEF ServicesNext, Rest, all
  <2> QED
    BY <1>2, <2>1, MetricsStep
<1> QED
  BY <1>1, <1>2, PTL DEF ServicesSpec

LEMMA ReportsAlways == ServicesSpec => []ReportsInv
<1>1. ServicesInit => ReportsInv
  BY ReportsStarts DEF ServicesInit
<1>2. ASSUME ReportsInv, [ServicesNext]_all PROVE ReportsInv'
  <2>1. Rep!ReportsNext \/ UNCHANGED reportsState
    BY <1>2 DEF ServicesNext, Rest, all
  <2> QED
    BY <1>2, <2>1, ReportsStep
<1> QED
  BY <1>1, <1>2, PTL DEF ServicesSpec

LEMMA BillingAlways == ServicesSpec => []BillingInv
<1>1. ServicesInit => BillingInv
  BY BillingStarts DEF ServicesInit
<1>2. ASSUME BillingInv, [ServicesNext]_all PROVE BillingInv'
  <2>1. [Bill!Next]_(Bill!billingVars)
    BY <1>2 DEF ServicesNext, Rest, all, billingState, Bill!billingVars
  <2> QED
    BY <1>2, <2>1, BillingStep
<1> QED
  BY <1>1, <1>2, PTL DEF ServicesSpec

\* However many rows, customers, months and payments there are, and whatever
\* dates the rows carry: the months of the dashboard add up to each other and
\* to today's figure, and a leaver was a customer; a report's figures are those
\* of the rows its two loads have seen, and one report starts where the one
\* before it ended; and what Stripe tells twice is booked once.
THEOREM FiguresOfTheLedgerAddUp ==
  ServicesSpec => [](service # "allocation" => FiguresAddUp)
<1>1. ASSUME MetricsInv, ReportsInv, BillingInv, RevenueInv, service # "allocation"
      PROVE  FiguresAddUp
  <2>1. TypeOK
    BY <1>1 DEF RevenueInv
  <2> QED
    BY <1>1, <2>1, MetricsSafe, ReportsSafe, BillingSafe DEF FiguresAddUp
<1> QED
  BY <1>1, MetricsAlways, ReportsAlways, BillingAlways, RevenueAlways, PTL

-----------------------------------------------------------------------------
(***************************************************************************)
(* The allocation of a budget.  What follows is about shares s of a whole  *)
(* w, whatever they are, under a cap of p in a hundred.                    *)
(***************************************************************************)
SharesOf(s, w, p) == s \in [Candidate -> Nat] /\ w \in Nat \ {0} /\ p \in 1 .. 100

CappedIn(s, w, p) == {c \in Candidate : 100 * s[c] >= p * w}
OverIn(s, w, p) == {c \in Candidate : 100 * s[c] > p * w}
Above(s, w, p) == [c \in Candidate |-> 100 * s[c] - p * w]
ExcessOf(s, w, p) == SumOf(Above(s, w, p), OverIn(s, w, p))
UnderSum(s, w, p) == SumOf(s, Candidate \ CappedIn(s, w, p))

NextOf(s, w, p) ==
  [c \in Candidate |->
     IF UnderSum(s, w, p) = 0
     THEN IF c \in CappedIn(s, w, p) THEN p * w ELSE 100 * s[c]
     ELSE IF c \in CappedIn(s, w, p) THEN p * w * UnderSum(s, w, p)
          ELSE s[c] * (100 * UnderSum(s, w, p) + ExcessOf(s, w, p))]
WholeOf(s, w, p) ==
  100 * w * (IF UnderSum(s, w, p) = 0 THEN 1 ELSE UnderSum(s, w, p))

\* Multiplying keeps the order.
LEMMA TimesOrder ==
  ASSUME NEW g \in Nat \ {0}, NEW a \in Int, NEW b \in Int
  PROVE  /\ g * a \in Int /\ g * b \in Int
         /\ a <= b <=> g * a <= g * b
         /\ a = b <=> g * a = g * b
<1>1. ASSUME NEW x \in Int, NEW y \in Int, x < y PROVE g * x < g * y
  <2>1. PICK d \in Nat \ {0} : y = x + d
    <3>1. y - x \in Nat \ {0} /\ y = x + (y - x)
      BY <1>1, SMT
    <3> QED
      BY <3>1
  <2>2. g * y = g * x + g * d
    BY <2>1, SMT
  <2>3. g * d > 0
    BY SMT
  <2> QED
    BY <2>2, <2>3, SMT
<1>2. g * a \in Int /\ g * b \in Int
  BY SMT
<1> QED
  BY <1>1, <1>2, SMT

LEMMA TimesPositive ==
  ASSUME NEW a \in Nat \ {0}, NEW b \in Nat \ {0}
  PROVE  a * b \in Nat \ {0}
BY SMT

\* A sum of what is a times as much, and b more.
IsLinear(f, e, S, a, b) == \A x \in S : e[x] \in Int /\ f[x] = a * e[x] + b

LEMMA SumLinear ==
  ASSUME NEW f, NEW e, NEW S, IsFiniteSet(S), NEW a \in Int, NEW b \in Int,
         IsLinear(f, e, S, a, b)
  PROVE  SumOf(f, S) = a * SumOf(e, S) + b * Cardinality(S)
<1> DEFINE B == {s \in SUBSET S : SumOf(f, s) # a * SumOf(e, s) + b * Cardinality(s)}
<1>1. CASE S \notin B
  BY <1>1
<1>2. CASE S \in B
  <2>1. PICK s \in B : \A t \in B : t \subseteq s => t = s
    <3>1. B \in SUBSET SUBSET S /\ B # {}
      BY <1>2
    <3> HIDE DEF B
    <3> QED
      BY <3>1, Smallest
  <2>2. s # {}
    <3>1. SumOf(f, {}) = 0 /\ SumOf(e, {}) = 0 /\ Cardinality({}) = 0
      BY SumEmpty, FS_EmptySet
    <3>2. a * 0 + b * 0 = 0
      BY SMT
    <3>3. SumOf(f, {}) = a * SumOf(e, {}) + b * Cardinality({})
      BY <3>1, <3>2
    <3>4. SumOf(f, s) # a * SumOf(e, s) + b * Cardinality(s)
      OBVIOUS
    <3> HIDE DEF B
    <3> QED
      BY <3>3, <3>4
  <2>3. PICK x : x \in s
    BY <2>2
  <2> DEFINE u == s \ {x}
  <2>4. IsFiniteSet(u) /\ IsFiniteSet(s)
    BY FS_Subset
  <2>5. SumOf(f, u) = a * SumOf(e, u) + b * Cardinality(u)
    <3>1. u \notin B
      <4> HIDE DEF B
      <4> QED BY <2>1, <2>3
    <3> QED BY <3>1
  <2>6. \A y \in s : e[y] \in Int /\ f[y] \in Int
    <3>1. \A y \in s : e[y] \in Int /\ f[y] = a * e[y] + b
      BY DEF IsLinear
    <3> HIDE DEF B
    <3> QED
      BY <3>1, SMT
  <2>7. SumOf(f, s) = f[x] + SumOf(f, u) /\ SumOf(e, s) = e[x] + SumOf(e, u)
    BY <2>3, <2>4, <2>6, SumTake
  <2>8. SumOf(f, u) \in Int /\ SumOf(e, u) \in Int
    BY <2>4, <2>6, SumInt
  <2>9. Cardinality(u) \in Nat /\ Cardinality(s) = Cardinality(u) + 1
    <3>1. Cardinality(u) = Cardinality(s) - 1 /\ Cardinality(s) \in Nat /\ Cardinality(u) \in Nat
      BY <2>3, <2>4, FS_RemoveElement, FS_CardinalityType
    <3> HIDE DEF u
    <3> QED
      BY <3>1, SMT
  <2>10. e[x] \in Int /\ f[x] = a * e[x] + b
    BY <2>3 DEF IsLinear
  <2>11. SumOf(f, s) # a * SumOf(e, s) + b * Cardinality(s)
    OBVIOUS
  <2> HIDE DEF u, B
  <2>12. a * SumOf(e, s) = a * e[x] + a * SumOf(e, u)
    BY <2>7, <2>8, <2>10, SMT
  <2>13. b * Cardinality(s) = b * Cardinality(u) + b
    BY <2>9, SMT
  <2>14. /\ a * SumOf(e, u) \in Int /\ b * Cardinality(u) \in Int /\ a * e[x] \in Int
    BY <2>8, <2>9, <2>10, SMT
  <2> QED
    BY <2>5, <2>7, <2>8, <2>10, <2>11, <2>12, <2>13, <2>14, SMT
<1> QED
  BY <1>1, <1>2

\* What lies above the cap: the sum of those at the cap, less the cap of each.
LEMMA ExcessIs ==
  ASSUME NEW s, NEW w, NEW p, SharesOf(s, w, p)
  PROVE  LET U == UnderSum(s, w, p)
             n == Cardinality(CappedIn(s, w, p))
         IN /\ U \in Nat /\ n \in Nat /\ ExcessOf(s, w, p) \in Nat
            /\ SumOf(s, Candidate) \in Nat /\ p * w \in Nat \ {0}
            /\ SumOf(s, CappedIn(s, w, p)) = SumOf(s, Candidate) - U
            /\ ExcessOf(s, w, p) = 100 * (SumOf(s, Candidate) - U) - n * (p * w)
            /\ ExcessOf(s, w, p) = 0 <=> OverIn(s, w, p) = {}
            /\ OverIn(s, w, p) \subseteq CappedIn(s, w, p)
<1> DEFINE A == CappedIn(s, w, p)
           O == OverIn(s, w, p)
           D == Candidate \ A
           h == Above(s, w, p)
           q == p * w
<1>1. /\ s \in [Candidate -> Nat] /\ w \in Nat \ {0} /\ p \in Nat \ {0} /\ q \in Nat \ {0}
      /\ IsFiniteSet(Candidate)
  BY AllocationAssumption, SMT DEF SharesOf
<1>2. \A c \in Candidate : s[c] \in Nat /\ s[c] \in Int /\ h[c] = 100 * s[c] + (0 - q)
                           /\ h[c] \in Int
  <2>1. \A c \in Candidate : s[c] \in Nat /\ h[c] = 100 * s[c] - q
    BY <1>1 DEF Above
  <2> HIDE DEF h, q
  <2> QED
    BY <1>1, <2>1, SMT
<1>3. /\ A \in SUBSET Candidate /\ D \in SUBSET Candidate /\ O \in SUBSET A
      /\ A \cap D = {} /\ A \cup D = Candidate
  <2>1. \A c \in Candidate : 100 * s[c] > q => 100 * s[c] >= q
    <3> HIDE DEF q
    <3> QED BY <1>1, <1>2, SMT
  <2> QED
    BY <2>1 DEF CappedIn, OverIn
<1>4. /\ IsFiniteSet(A) /\ IsFiniteSet(D) /\ IsFiniteSet(O) /\ IsFiniteSet(A \ O)
      /\ O \in SUBSET Candidate /\ A \ O \in SUBSET Candidate
  BY <1>1, <1>3, FS_Subset
<1>5. /\ \A c \in O : h[c] > 0
      /\ \A c \in A \ O : h[c] = 0
      /\ \A c \in A : h[c] >= 0
  <2>1. /\ \A c \in O : 100 * s[c] > q
        /\ \A c \in A : 100 * s[c] >= q
        /\ \A c \in A \ O : ~(100 * s[c] > q)
    BY <1>3 DEF OverIn, CappedIn
  <2> HIDE DEF h, q, O, A
  <2> QED
    BY <1>1, <1>2, <1>3, <2>1, SMT
<1>6. SumOf(s, A) \in Nat /\ SumOf(s, D) \in Nat /\ SumOf(s, Candidate) \in Nat
  <2>1. \A c \in Candidate : s[c] \in Int /\ s[c] >= 0
    BY <1>2
  <2>2. ASSUME NEW T \in SUBSET Candidate PROVE SumOf(s, T) \in Nat
    <3>1. SumOf(s, T) >= 0
      BY <1>1, <2>1, SumOfPart
    <3>2. SumOf(s, T) \in Int
      BY <1>1, <2>1, SumInt, FS_Subset
    <3> QED
      BY <3>1, <3>2
  <2> HIDE DEF A, D
  <2> QED
    BY <1>3, <2>2
<1>7. SumOf(s, Candidate) = SumOf(s, A) + SumOf(s, D)
  <2> HIDE DEF A, D
  <2>1. SumOf(s, A \cup D) = SumOf(s, A) + SumOf(s, D)
    BY <1>2, <1>3, <1>4, SumUnion
  <2> QED
    BY <1>3, <2>1, Zenon
<1>8. SumOf(h, A) = SumOf(h, O) /\ SumOf(h, O) \in Int
  <2> HIDE DEF A, O, h
  <2>1. SumOf(h, O \cup (A \ O)) = SumOf(h, O) + SumOf(h, A \ O)
    BY <1>2, <1>4, SumUnion
  <2>2. O \cup (A \ O) = A
    BY <1>3
  <2>3. SumOf(h, A) = SumOf(h, O) + SumOf(h, A \ O)
    BY <2>1, <2>2, Zenon
  <2>4. SumOf(h, A \ O) = 0
    BY <1>4, <1>5, SumZero
  <2>5. SumOf(h, O) \in Int
    BY <1>2, <1>4, SumInt
  <2> QED
    BY <2>3, <2>4, <2>5
<1>9. SumOf(h, A) = 100 * SumOf(s, A) + (0 - q) * Cardinality(A) /\ Cardinality(A) \in Nat
  <2>1. 0 - q \in Int /\ 100 \in Int
    <3> HIDE DEF q
    <3> QED BY <1>1
  <2>2. \A c \in A : s[c] \in Int /\ h[c] = 100 * s[c] + (0 - q)
    BY <1>2, <1>3
  <2> DEFINE m == 0 - q
  <2>3. SumOf(h, A) = 100 * SumOf(s, A) + m * Cardinality(A)
    <3>1. m \in Int /\ 100 \in Int /\ IsFiniteSet(A)
      BY <1>4, <2>1
    <3>2. IsLinear(h, s, A, 100, m)
      BY <2>2 DEF IsLinear
    <3> HIDE DEF A, h, q, m
    <3> QED
      BY <3>1, <3>2, SumLinear
  <2> HIDE DEF A, h, q
  <2> QED
    BY <1>4, <2>3, FS_CardinalityType
<1>10. SumOf(h, O) = 0 <=> O = {}
  <2>1. O = {} => SumOf(h, O) = 0
    BY SumEmpty, Zenon
  <2>2. ASSUME NEW c \in O PROVE SumOf(h, O) > 0
    <3> HIDE DEF O, h, A
    <3>1. SumOf(h, {c}) <= SumOf(h, O)
      <4>1. \A x \in O : h[x] \in Int /\ h[x] >= 0
        BY <1>2, <1>4, <1>5
      <4>2. {c} \in SUBSET O
        OBVIOUS
      <4> QED
        BY <1>4, <4>1, <4>2, SumOfPart
    <3>2. SumOf(h, {c}) = h[c] /\ h[c] \in Int /\ h[c] > 0
      BY <1>2, <1>4, <1>5, <2>2, SumOfOne
    <3> QED
      BY <1>8, <3>1, <3>2
  <2> HIDE DEF O, h
  <2> QED
    BY <2>1, <2>2
<1>11. SumOf(h, O) >= 0
  <2>1. \A x \in O : h[x] \in Int /\ h[x] >= 0
    BY <1>2, <1>3, <1>5
  <2>2. O \in SUBSET O
    OBVIOUS
  <2> HIDE DEF O, h
  <2> QED
    BY <1>4, <2>1, <2>2, SumOfPart
<1>12. /\ ExcessOf(s, w, p) = SumOf(h, O) /\ UnderSum(s, w, p) = SumOf(s, D)
  BY Zenon DEF ExcessOf, UnderSum
<1>13. (0 - q) * Cardinality(A) = 0 - Cardinality(A) * q
  <2> HIDE DEF A, q
  <2> QED BY <1>1, <1>9, SMT
<1>14. Cardinality(A) * q \in Int
  <2> HIDE DEF A, q
  <2> QED BY <1>1, <1>9, SMT
<1>15. SumOf(h, O) = 100 * (SumOf(s, Candidate) - SumOf(s, D)) - Cardinality(A) * q
  <2> HIDE DEF A, q, D, h, O
  <2> QED
    BY <1>6, <1>7, <1>8, <1>9, <1>13, <1>14
<1>16. SumOf(h, O) \in Nat /\ SumOf(s, A) = SumOf(s, Candidate) - SumOf(s, D)
  <2> HIDE DEF A, q, D, h, O
  <2> QED
    BY <1>6, <1>7, <1>8, <1>11
<1> QED
  BY <1>1, <1>3, <1>6, <1>9, <1>10, <1>12, <1>15, <1>16, Zenon

\* A round: those at the cap keep a cap's worth, the others grow by one factor,
\* and what was handed out of the whole is handed out again, unless nobody is
\* left to take the excess.
LEMMA NextAdds ==
  ASSUME NEW s, NEW w, NEW p, SharesOf(s, w, p)
  PROVE  LET x == NextOf(s, w, p)
             N == WholeOf(s, w, p)
         IN /\ x \in [Candidate -> Nat] /\ N \in Nat \ {0}
            /\ SumOf(s, Candidate) <= w => SumOf(x, Candidate) <= N
            /\ UnderSum(s, w, p) > 0 /\ SumOf(s, Candidate) = w => SumOf(x, Candidate) = N
            /\ (\A c \in Candidate : s[c] > 0) => \A c \in Candidate : x[c] > 0
            /\ \A c \in CappedIn(s, w, p) : 100 * x[c] = p * N
            /\ \E r \in Nat \ {0} : \A c \in Candidate \ CappedIn(s, w, p) : x[c] = r * s[c]
<1> DEFINE A == CappedIn(s, w, p)
           D == Candidate \ A
           U == UnderSum(s, w, p)
           X == ExcessOf(s, w, p)
           S == SumOf(s, Candidate)
           n == Cardinality(A)
           q == p * w
           u == IF U = 0 THEN 1 ELSE U
           r == IF U = 0 THEN 100 ELSE 100 * U + X
           x == NextOf(s, w, p)
           N == WholeOf(s, w, p)
<1>1. /\ s \in [Candidate -> Nat] /\ w \in Nat \ {0} /\ p \in Nat \ {0}
      /\ IsFiniteSet(Candidate)
  BY AllocationAssumption, SMT DEF SharesOf
<1>2. /\ U \in Nat /\ n \in Nat /\ X \in Nat /\ S \in Nat /\ q \in Nat \ {0}
      /\ X = 100 * (S - U) - n * q
  BY ExcessIs
<1>3. u \in Nat \ {0} /\ r \in Nat \ {0}
  <2> HIDE DEF U, X
  <2> QED BY <1>2, SMT
<1>4. q * u \in Nat \ {0} /\ q * u \in Int
  <2> HIDE DEF q, u
  <2> QED BY <1>2, <1>3, TimesPositive
<1>5. \A c \in Candidate : x[c] = IF c \in A THEN q * u ELSE r * s[c]
  <2>1. \A c \in Candidate :
          x[c] = IF U = 0
                 THEN IF c \in A THEN q ELSE 100 * s[c]
                 ELSE IF c \in A THEN q * U ELSE s[c] * (100 * U + X)
    BY DEF NextOf
  <2> HIDE DEF A, U, X, q, x
  <2>2. \A c \in Candidate : s[c] \in Nat
    BY <1>1
  <2>3. q * 1 = q
    BY <1>2, SMT
  <2>4. \A c \in Candidate : s[c] * (100 * U + X) = (100 * U + X) * s[c]
    BY <1>2, <2>2, SMT
  <2> QED
    BY <2>1, <2>3, <2>4
<1>6. N = 100 * (w * u)
  <2>1. N = 100 * w * u
    BY DEF WholeOf
  <2> HIDE DEF N, u
  <2> QED
    BY <1>1, <1>3, <2>1, SMT
<1>7. N \in Nat \ {0}
  <2> HIDE DEF N, u
  <2>1. w * u \in Nat \ {0}
    BY <1>1, <1>3, TimesPositive
  <2> QED
    BY <1>6, <2>1, SMT
<1>8. \A c \in Candidate : r * s[c] \in Nat /\ (s[c] > 0 => r * s[c] > 0)
  <2>1. \A c \in Candidate : s[c] \in Nat
    BY <1>1
  <2> HIDE DEF r
  <2> QED
    BY <1>3, <2>1, SMT
<1>9. x \in [Candidate -> Nat]
  <2>1. x = [c \in Candidate |-> x[c]]
    BY DEF NextOf
  <2> HIDE DEF x, q, u, r, A
  <2> QED
    BY <1>4, <1>5, <1>8, <2>1
<1>10. (\A c \in Candidate : s[c] > 0) => \A c \in Candidate : x[c] > 0
  <2> HIDE DEF x, r, A
  <2>1. q * u > 0
    <3> HIDE DEF q, u
    <3> QED BY <1>4
  <2> HIDE DEF q, u
  <2> QED
    BY <1>5, <1>8, <2>1
<1>11. \A c \in A : 100 * x[c] = p * N
  <2>1. A \subseteq Candidate
    BY DEF CappedIn
  <2>2. \A c \in A : x[c] = q * u
    <3> HIDE DEF x, q, u, r, A
    <3> QED BY <1>5, <2>1
  <2>3. 100 * (p * w * u) = p * (100 * (w * u))
    <3> HIDE DEF u
    <3> QED BY <1>1, <1>3, SMT
  <2>4. 100 * (q * u) = p * N
    <3> HIDE DEF N, u
    <3> QED BY <1>6, <2>3
  <2> HIDE DEF x, q, u, A, N
  <2> QED
    BY <2>2, <2>4
<1>12. \A c \in Candidate \ A : x[c] = r * s[c]
  <2> HIDE DEF x, r, q, u, A
  <2> QED
    BY <1>5
<1>13. SumOf(x, Candidate) = (q * u) * n + r * U
  <2>1. /\ A \in SUBSET Candidate /\ D \in SUBSET Candidate
        /\ A \cap D = {} /\ A \cup D = Candidate
    BY DEF CappedIn
  <2>2. IsFiniteSet(A) /\ IsFiniteSet(D)
    BY <1>1, <2>1, FS_Subset
  <2>3. \A c \in Candidate : x[c] \in Int /\ s[c] \in Int
    BY <1>1, <1>9
  <2> DEFINE k == q * u
  <2>4. k \in Int /\ k \in Nat
    BY <1>4
  <2> DEFINE z == 0
  <2>5. SumOf(x, A) = z * SumOf(s, A) + k * Cardinality(A)
    <3>1. IsLinear(x, s, A, z, k)
      <4>1. \A c \in A : x[c] = k /\ s[c] \in Int
        <5> HIDE DEF x, r, q, u, A
        <5> QED BY <1>5, <2>1, <2>3
      <4> HIDE DEF x, A, k
      <4> QED
        BY <2>4, <4>1, SMT DEF IsLinear
    <3>2. z \in Int
      OBVIOUS
    <3> HIDE DEF x, A, k, z
    <3> QED
      BY <2>2, <2>4, <3>1, <3>2, SumLinear
  <2>6. SumOf(x, D) = r * SumOf(s, D) + z * Cardinality(D)
    <3>1. IsLinear(x, s, D, r, z)
      <4>1. \A c \in D : s[c] \in Int /\ x[c] = r * s[c] /\ r * s[c] \in Int
        <5> HIDE DEF x, r, A
        <5> QED BY <1>8, <1>12, <2>3
      <4> HIDE DEF x, D, r
      <4> QED
        BY <4>1 DEF IsLinear
    <3>2. r \in Int /\ z \in Int
      <4> HIDE DEF r
      <4> QED BY <1>3
    <3> HIDE DEF x, D, r, z
    <3> QED
      BY <2>2, <3>1, <3>2, SumLinear
  <2>7. SumOf(x, A \cup D) = SumOf(x, A) + SumOf(x, D)
    <3>1. (\A c \in A : x[c] \in Int) /\ (\A c \in D : x[c] \in Int)
      <4> HIDE DEF x, A, D
      <4> QED BY <2>1, <2>3
    <3> HIDE DEF x, A, D
    <3> QED
      BY <2>1, <2>2, <3>1, SumUnion
  <2>8. SumOf(x, Candidate) = SumOf(x, A) + SumOf(x, D)
    <3> HIDE DEF x, A, D
    <3> QED BY <2>1, <2>7, Zenon
  <2>9. SumOf(s, D) = U
    BY Zenon DEF UnderSum
  <2>10. SumOf(s, A) \in Int /\ Cardinality(D) \in Int
    <3>1. \A c \in A : s[c] \in Int
      <4> HIDE DEF A
      <4> QED BY <2>1, <2>3
    <3>2. Cardinality(D) \in Nat
      <4> HIDE DEF D
      <4> QED BY <2>2, FS_CardinalityType
    <3> HIDE DEF A, D
    <3> QED
      BY <2>2, <3>1, <3>2, SumInt
  <2>11. 0 * SumOf(s, A) = 0 /\ 0 * Cardinality(D) = 0
    <3> HIDE DEF A, D
    <3> QED BY <2>10, SMT
  <2>12. SumOf(x, A) = k * n /\ SumOf(x, D) = r * U
    <3>1. k * n \in Int /\ r * U \in Int
      <4> HIDE DEF k, n, r, U
      <4> QED BY <1>2, <1>3, <2>4, SMT
    <3>2. SumOf(x, A) = 0 + k * n /\ SumOf(x, D) = r * U + 0
      BY <2>5, <2>6, <2>9, <2>11, Zenon
    <3> HIDE DEF k, n, r, U, x, A, D
    <3> QED
      BY <3>1, <3>2
  <2> HIDE DEF x, A, D, n, r, U, k
  <2>13. SumOf(x, Candidate) = k * n + r * U
    BY <2>8, <2>12
  <2> QED
    BY <2>13 DEF k
<1>14. CASE U > 0
  <2>1. u = U /\ r = 100 * U + X
    <3> HIDE DEF U, X
    <3> QED BY <1>2, <1>14
  <2> HIDE DEF U, X, n, q, x, S, u, r, A, D, N
  <2>2. SumOf(x, Candidate) = (q * U) * n + (100 * U + X) * U
    BY <1>13, <2>1
  <2>3. (q * U) * n + (100 * U + X) * U = U * (n * q + 100 * U + X)
    BY <1>2, SMT
  <2>4. n * q + 100 * U + X = 100 * S
    <3>1. n * q \in Int
      BY <1>2, SMT
    <3> QED
      BY <1>2, <3>1, SMT
  <2>5. SumOf(x, Candidate) = U * (100 * S)
    BY <2>2, <2>3, <2>4
  <2>6. N = U * (100 * w)
    <3>1. N = 100 * (w * U)
      BY <1>6, <2>1
    <3> QED
      BY <1>1, <1>2, <3>1, SMT
  <2>7. 100 * S <= 100 * w <=> S <= w
    BY <1>1, <1>2
  <2>8. U * (100 * S) <= U * (100 * w) <=> 100 * S <= 100 * w
    <3>1. U \in Nat \ {0} /\ 100 * S \in Int /\ 100 * w \in Int
      BY <1>1, <1>2, <1>14
    <3> QED
      BY <3>1, TimesOrder
  <2>9. S = w => SumOf(x, Candidate) = N
    BY <2>5, <2>6
  <2>10. S <= w => SumOf(x, Candidate) <= N
    BY <2>5, <2>6, <2>7, <2>8
  <2>11. \E y \in Nat \ {0} : \A c \in Candidate \ A : x[c] = y * s[c]
    BY <1>3, <1>12
  <2> QED
    BY <1>7, <1>9, <1>10, <1>11, <2>9, <2>10, <2>11 DEF U, S, A, x, N
<1>15. CASE U = 0
  <2>1. u = 1 /\ r = 100
    BY <1>15
  <2> HIDE DEF U, X, n, q, x, S, u, r, A, D, N
  <2>2. SumOf(x, Candidate) = (q * 1) * n + 100 * 0
    BY <1>13, <1>15, <2>1
  <2>3. (q * 1) * n + 100 * 0 = n * q /\ n * q \in Int
    BY <1>2, SMT
  <2>4. n * q <= 100 * S
    BY <1>2, <1>15, <2>3, SMT
  <2>5. N = 100 * w
    <3>1. N = 100 * (w * 1)
      BY <1>6, <2>1
    <3> QED
      BY <1>1, <3>1, SMT
  <2>6. S <= w => SumOf(x, Candidate) <= N
    BY <1>1, <1>2, <2>2, <2>3, <2>4, <2>5, SMT
  <2>7. \E y \in Nat \ {0} : \A c \in Candidate \ A : x[c] = y * s[c]
    BY <1>3, <1>12
  <2>8. ~(U > 0)
    BY <1>15
  <2> QED
    BY <1>7, <1>9, <1>10, <1>11, <2>6, <2>7, <2>8 DEF U, S, A, x, N
<1>16. U = 0 \/ U > 0
  <2> HIDE DEF U
  <2> QED BY <1>2
<1> QED
  BY <1>14, <1>15, <1>16

\* The same, counted in units of g: y of v is what a round makes of s of w.
Divided(s, w, p, g, y, v) ==
  /\ g \in Nat \ {0} /\ y \in [Candidate -> Nat] /\ v \in Nat
  /\ g * v = WholeOf(s, w, p)
  /\ \A c \in Candidate : g * y[c] = NextOf(s, w, p)[c]

LEMMA DividedAdds ==
  ASSUME NEW s, NEW w, NEW p, SharesOf(s, w, p),
         NEW g, NEW y, NEW v, Divided(s, w, p, g, y, v)
  PROVE  /\ SharesOf(y, v, p)
         /\ SumOf(s, Candidate) <= w => SumOf(y, Candidate) <= v
         /\ UnderSum(s, w, p) > 0 /\ SumOf(s, Candidate) = w => SumOf(y, Candidate) = v
         /\ (\A c \in Candidate : s[c] > 0) => \A c \in Candidate : y[c] > 0
         /\ \A c \in CappedIn(s, w, p) : 100 * y[c] = p * v
         /\ \E r \in Nat \ {0} : \A c \in Candidate \ CappedIn(s, w, p) : g * y[c] = r * s[c]
<1> DEFINE x == NextOf(s, w, p)
           N == WholeOf(s, w, p)
           A == CappedIn(s, w, p)
<1>1. /\ x \in [Candidate -> Nat] /\ N \in Nat \ {0}
      /\ SumOf(s, Candidate) <= w => SumOf(x, Candidate) <= N
      /\ UnderSum(s, w, p) > 0 /\ SumOf(s, Candidate) = w => SumOf(x, Candidate) = N
      /\ (\A c \in Candidate : s[c] > 0) => \A c \in Candidate : x[c] > 0
      /\ \A c \in A : 100 * x[c] = p * N
      /\ \E r \in Nat \ {0} : \A c \in Candidate \ A : x[c] = r * s[c]
  BY NextAdds
<1>2. /\ g * v = N /\ \A c \in Candidate : g * y[c] = x[c]
      /\ g \in Nat \ {0} /\ y \in [Candidate -> Nat] /\ v \in Nat
  BY DEF Divided
<1>3. A \subseteq Candidate /\ p \in Nat \ {0} /\ p \in 1 .. 100
  BY SMT DEF CappedIn, SharesOf
<1> HIDE DEF x, N, A
<1>4. v \in Nat \ {0}
  BY <1>1, <1>2, SMT
<1>5. \A c \in Candidate : y[c] \in Nat
  BY <1>2
<1>6. SumOf(y, Candidate) \in Int /\ SumOf(x, Candidate) = g * SumOf(y, Candidate)
  <2>1. IsFiniteSet(Candidate) /\ g \in Int
    BY <1>2, AllocationAssumption
  <2> DEFINE z == 0
  <2>2. IsLinear(x, y, Candidate, g, z) /\ z \in Int
    BY <1>2, <1>5, SMT DEF IsLinear
  <2>3. SumOf(x, Candidate) = g * SumOf(y, Candidate) + z * Cardinality(Candidate)
    <3> HIDE DEF z
    <3> QED
      BY <2>1, <2>2, SumLinear
  <2>4. SumOf(y, Candidate) \in Int /\ Cardinality(Candidate) \in Nat
    BY <1>5, <2>1, SumInt, FS_CardinalityType
  <2>5. z * Cardinality(Candidate) = 0 /\ g * SumOf(y, Candidate) \in Int
    BY <1>2, <2>4, SMT
  <2> HIDE DEF z
  <2> QED
    BY <2>3, <2>4, <2>5
<1>7. /\ SumOf(y, Candidate) <= v <=> SumOf(x, Candidate) <= N
      /\ SumOf(y, Candidate) = v <=> SumOf(x, Candidate) = N
  BY <1>2, <1>6, TimesOrder
<1>8. \A c \in Candidate : x[c] > 0 => y[c] > 0
  BY <1>2, <1>5, SMT
<1>9. ASSUME NEW c \in A PROVE 100 * y[c] = p * v
  <2>1. c \in Candidate /\ y[c] \in Nat /\ 100 * x[c] = p * N /\ g * y[c] = x[c]
    BY <1>1, <1>2, <1>3, <1>5
  <2>2. g * (100 * y[c]) = 100 * (g * y[c]) /\ g * (p * v) = p * (g * v)
    BY <1>2, <1>3, <1>4, <2>1, SMT
  <2>3. g * (100 * y[c]) = g * (p * v)
    BY <1>2, <2>1, <2>2
  <2>4. 100 * y[c] \in Int /\ p * v \in Int
    BY <1>3, <1>4, <2>1, SMT
  <2> QED
    BY <1>2, <2>3, <2>4, TimesOrder
<1>10. \E r \in Nat \ {0} : \A c \in Candidate \ A : g * y[c] = r * s[c]
  BY <1>1, <1>2
<1>11. SharesOf(y, v, p)
  BY <1>2, <1>3, <1>4 DEF SharesOf
<1> QED
  BY <1>1, <1>7, <1>8, <1>9, <1>10, <1>11 DEF A

\* What is at the cap stays there, and nobody comes to be below it that was not.
LEMMA CappedStay ==
  ASSUME NEW s, NEW w, NEW p, SharesOf(s, w, p), NEW y, NEW v, SharesOf(y, v, p),
         \A c \in CappedIn(s, w, p) : 100 * y[c] = p * v
  PROVE  /\ CappedIn(s, w, p) \subseteq CappedIn(y, v, p)
         /\ OverIn(y, v, p) \cap CappedIn(s, w, p) = {}
         /\ OverIn(y, v, p) # {} =>
              Cardinality(CappedIn(y, v, p)) >= Cardinality(CappedIn(s, w, p)) + 1
<1> DEFINE A == CappedIn(s, w, p)
           B == CappedIn(y, v, p)
           O == OverIn(y, v, p)
<1>1. p * v \in Int /\ A \in SUBSET Candidate /\ B \in SUBSET Candidate
  BY SMT DEF CappedIn, SharesOf
<1>2. A \subseteq B /\ O \cap A = {} /\ O \subseteq B
  <2>1. \A c \in Candidate : 100 * y[c] \in Int
    BY SMT DEF SharesOf
  <2>2. \A c \in A : 100 * y[c] >= p * v /\ ~(100 * y[c] > p * v)
    <3> DEFINE q == p * v
    <3>1. \A c \in A : 100 * y[c] = q /\ 100 * y[c] \in Int
      BY <1>1, <2>1
    <3>2. q \in Int
      BY <1>1
    <3> HIDE DEF q
    <3>3. \A c \in A : 100 * y[c] >= q /\ ~(100 * y[c] > q)
      BY <3>1, <3>2
    <3> QED
      BY <3>3 DEF q
  <2>3. \A c \in Candidate : 100 * y[c] > p * v => 100 * y[c] >= p * v
    <3> DEFINE q == p * v
    <3>1. q \in Int
      BY <1>1
    <3> HIDE DEF q
    <3>2. \A c \in Candidate : 100 * y[c] > q => 100 * y[c] >= q
      BY <2>1, <3>1
    <3> QED
      BY <3>2 DEF q
  <2> HIDE DEF A
  <2> QED
    BY <1>1, <2>2, <2>3 DEF CappedIn, OverIn
<1>3. ASSUME NEW c \in O PROVE Cardinality(B) >= Cardinality(A) + 1
  <2>1. IsFiniteSet(A) /\ IsFiniteSet(B) /\ IsFiniteSet(A \cup {c})
    <3>1. IsFiniteSet(A) /\ IsFiniteSet(B)
      BY <1>1, AllocationAssumption, FS_Subset
    <3> QED
      BY <3>1, FS_AddElement
  <2> HIDE DEF A, B, O
  <2>2. c \notin A /\ A \cup {c} \subseteq B
    BY <1>2, <1>3
  <2>3. Cardinality(A \cup {c}) = Cardinality(A) + 1
    BY <2>1, <2>2, FS_AddElement
  <2>4. Cardinality(A \cup {c}) <= Cardinality(B)
    BY <2>1, <2>2, FS_Subset
  <2>5. Cardinality(A) \in Nat /\ Cardinality(B) \in Nat /\ Cardinality(A \cup {c}) \in Nat
    BY <2>1, FS_CardinalityType
  <2> QED
    BY <2>3, <2>4, <2>5
<1> QED
  BY <1>2, <1>3 DEF A, B, O

-----------------------------------------------------------------------------
(* The allocation: its invariant *)

\* What the shares s of a whole w are like, before and after each round: they
\* are no more than the whole, and all of it as long as somebody with a share is
\* below the cap; who won more has no less, and those below the cap stand to
\* each other as they did at first.
SplitOf(s, w) ==
  /\ SumOf(s, Candidate) <= w
  /\ floor > 0 => \A c \in Candidate : s[c] > 0
  /\ floor > 0 /\ CappedIn(s, w, cap) # Candidate => SumOf(s, Candidate) = w
  /\ \A c, d \in Candidate :
       wins[c] >= wins[d] /\ c \notin CappedIn(s, w, cap) =>
         d \notin CappedIn(s, w, cap) /\ s[c] >= s[d]
  /\ \A c, d \in Candidate \ CappedIn(s, w, cap) :
       s[c] * Alloc!FirstShare(d) = s[d] * Alloc!FirstShare(c)

Given ==
  /\ wins \in [Candidate -> 0 .. Draws] /\ floor \in 0 .. 100
  /\ cap \in 1 .. 100 /\ cap \in Percents /\ ticket \in Nat

\* Each round brings one more to the cap, so that the loop has come to its end
\* when all are there.
AllocInv ==
  /\ Given /\ SharesOf(share, whole, cap) /\ SplitOf(share, whole)
  /\ round \in 0 .. MaxRounds /\ step \in {"cap", "amount", "done"}
  /\ notes \subseteq {"capped", "dropped"} /\ amount \in [Candidate -> Nat]
  /\ step = "cap" =>
       /\ Cardinality(CappedIn(share, whole, cap)) >= round
       /\ OverIn(share, whole, cap) # {} =>
            Cardinality(CappedIn(share, whole, cap)) >= round + 1
  /\ step # "cap" =>
       /\ OverIn(share, whole, cap) # {} =>
            Cardinality(CappedIn(share, whole, cap)) >= MaxRounds + 1
       /\ CappedIn(share, whole, cap) = Candidate /\ cap * Alloc!K < 100 => "capped" \in notes
  /\ step = "done" => amount = [c \in Candidate |-> Alloc!AmountOf(c)]

\* The folds of the module are the sums of these lemmas.
LEMMA FoldOfShares ==
  ASSUME NEW f, NEW S
  PROVE  Alloc!Sum(f, S) = SumOf(f, S)
BY DEF Alloc!Sum, Alloc!MapThenSumSet, Alloc!MapThenFoldSet, SumOf, Sums, OneOf

LEMMA FoldOfExcess ==
  ASSUME NEW S \in SUBSET Candidate, IsFiniteSet(S)
  PROVE  Alloc!MapThenSumSet(LAMBDA c : 100 * share[c] - cap * whole, S)
           = SumOf(Above(share, whole, cap), S)
<1> DEFINE e == Above(share, whole, cap)
           g == CHOOSE h : h = [s \in SUBSET S |->
                  IF s = {} THEN 0
                  ELSE (100 * share[OneOf(s)] - cap * whole) + h[s \ {OneOf(s)}]]
<1>1. Alloc!MapThenSumSet(LAMBDA c : 100 * share[c] - cap * whole, S) = g[S]
  BY DEF Alloc!MapThenSumSet, Alloc!MapThenFoldSet, OneOf
<1>2. ASSUME NEW h
      PROVE  [s \in SUBSET S |-> IF s = {} THEN 0 ELSE e[OneOf(s)] + h[s \ {OneOf(s)}]]
             = [s \in SUBSET S |->
                  IF s = {} THEN 0
                  ELSE (100 * share[OneOf(s)] - cap * whole) + h[s \ {OneOf(s)}]]
  <2>1. ASSUME NEW s \in SUBSET S, s # {}
        PROVE  e[OneOf(s)] = 100 * share[OneOf(s)] - cap * whole
    BY <2>1, OneIsIn DEF Above
  <2> HIDE DEF e
  <2> QED
    BY <2>1
<1> HIDE DEF e
<1>3. PICK h : Sums(e, h, S)
  BY SumsExist
<1>4. h = [s \in SUBSET S |->
             IF s = {} THEN 0
             ELSE (100 * share[OneOf(s)] - cap * whole) + h[s \ {OneOf(s)}]]
  BY <1>2, <1>3 DEF Sums
<1>5. g = [s \in SUBSET S |->
             IF s = {} THEN 0
             ELSE (100 * share[OneOf(s)] - cap * whole) + g[s \ {OneOf(s)}]]
  BY <1>4
<1> HIDE DEF g
<1>6. Sums(e, g, S)
  BY <1>2, <1>5 DEF Sums
<1>7. g[S] = SumOf(e, S)
  BY <1>6, SumIs
<1> QED
  BY <1>1, <1>7 DEF e

\* What the module calls by its own names.
LEMMA AllocNames ==
  /\ Alloc!Under = Candidate \ CappedIn(share, whole, cap)
  /\ \A c \in Candidate : Alloc!AtCap(c) <=> c \in CappedIn(share, whole, cap)
  /\ Alloc!UnderTotal = UnderSum(share, whole, cap)
  /\ Alloc!Excess = ExcessOf(share, whole, cap)
  /\ Alloc!K = Cardinality(Candidate) /\ Alloc!K \in Nat
<1>1. \A c \in Candidate : Alloc!AtCap(c) <=> c \in CappedIn(share, whole, cap)
  BY DEF Alloc!AtCap, CappedIn
<1>2. Alloc!Under = Candidate \ CappedIn(share, whole, cap)
  BY <1>1 DEF Alloc!Under
<1>3. Alloc!UnderTotal = UnderSum(share, whole, cap)
  BY <1>2, FoldOfShares, Zenon DEF Alloc!UnderTotal, UnderSum
<1>4. Alloc!Excess = ExcessOf(share, whole, cap)
  <2>1. {c \in Candidate : Alloc!Over(c)} = OverIn(share, whole, cap)
    BY DEF Alloc!Over, OverIn
  <2>2. OverIn(share, whole, cap) \in SUBSET Candidate /\ IsFiniteSet(OverIn(share, whole, cap))
    BY AllocationAssumption, FS_Subset DEF OverIn
  <2>3. Alloc!Excess = Alloc!MapThenSumSet(LAMBDA c : 100 * share[c] - cap * whole,
                                           OverIn(share, whole, cap))
    BY <2>1, Zenon DEF Alloc!Excess
  <2> QED
    BY <2>2, <2>3, FoldOfExcess, Zenon DEF ExcessOf
<1>5. Alloc!K = Cardinality(Candidate) /\ Cardinality(Candidate) \in Nat
  BY AllocationAssumption, FS_CardinalityType DEF Alloc!K, Alloc!Cardinality, Cardinality
<1> QED
  BY <1>1, <1>2, <1>3, <1>4, <1>5

LEMMA FirstSharesAre ==
  ASSUME Given
  PROVE  \A c \in Candidate :
           /\ Alloc!FirstShare(c) \in Nat
           /\ floor > 0 => Alloc!FirstShare(c) > 0
           /\ Alloc!FirstShare(c) = ((100 - floor) * Alloc!K) * wins[c] + floor * Draws
           /\ \A d \in Candidate : wins[c] >= wins[d] =>
                Alloc!FirstShare(c) >= Alloc!FirstShare(d)
<1> DEFINE a == (100 - floor) * Alloc!K
           b == floor * Draws
<1>1. /\ floor \in 0 .. 100 /\ Draws \in Nat \ {0} /\ Alloc!K \in Nat
      /\ \A c \in Candidate : wins[c] \in Nat
  BY AllocNames, AllocationAssumption DEF Given
<1>2. a \in Nat /\ b \in Nat /\ (floor > 0 => b > 0)
  <2>1. 100 - floor \in Nat
    BY <1>1
  <2>2. (100 - floor) * Alloc!K \in Nat
    BY <1>1, <2>1, SMT
  <2>3. floor * Draws \in Nat /\ (floor > 0 => floor * Draws > 0)
    BY <1>1, SMT
  <2> QED
    BY <2>2, <2>3
<1>3. \A c \in Candidate : Alloc!FirstShare(c) = b + a * wins[c]
  BY DEF Alloc!FirstShare
<1>4. (100 - floor) * Alloc!K = a /\ floor * Draws = b
  OBVIOUS
<1> HIDE DEF a, b
<1>5. ASSUME NEW c \in Candidate, NEW d \in Candidate, wins[c] >= wins[d]
      PROVE  a * wins[c] >= a * wins[d]
  <2>1. PICK e \in Nat : wins[c] = wins[d] + e
    <3>1. wins[c] - wins[d] \in Nat /\ wins[c] = wins[d] + (wins[c] - wins[d])
      BY <1>1, <1>5
    <3> QED
      BY <3>1
  <2>2. a * wins[c] = a * wins[d] + a * e /\ a * e \in Nat /\ a * wins[d] \in Nat
    BY <1>1, <1>2, <2>1, SMT
  <2> QED
    BY <2>2
<1>6. \A c \in Candidate : a * wins[c] \in Nat
  BY <1>1, <1>2, SMT
<1> QED
  BY <1>1, <1>2, <1>3, <1>4, <1>5, <1>6

\* The first shares, of 100 * K * Draws parts.
LEMMA AllocStarts == ASSUME Alloc!Init PROVE AllocInv
<1> DEFINE A == CappedIn(share, whole, cap)
           O == OverIn(share, whole, cap)
           a == (100 - floor) * Alloc!K
           b == floor * Draws
<1>1. /\ wins \in [Candidate -> 0 .. Draws] /\ Alloc!Sum(wins, Candidate) = Draws
      /\ floor \in Percents /\ cap \in Percents \ {0} /\ ticket \in Tickets
      /\ share = [c \in Candidate |-> Alloc!FirstShare(c)] /\ whole = Alloc!FirstWhole
      /\ round = 0 /\ step = "cap"
      /\ amount = [c \in Candidate |-> 0] /\ notes = {}
  BY DEF Alloc!Init
<1>2. Given
  BY <1>1, AllocationAssumption DEF Given
<1>3. /\ floor \in 0 .. 100 /\ Draws \in Nat \ {0} /\ Alloc!K \in Nat
      /\ \A c \in Candidate : wins[c] \in Nat
      /\ IsFiniteSet(Candidate) /\ Cardinality(Candidate) = Alloc!K
  BY <1>2, AllocNames, AllocationAssumption DEF Given
<1>4. SumOf(wins, Candidate) = Draws
  BY <1>1, FoldOfShares
<1>5. Alloc!K \in Nat \ {0}
  <2>1. SUFFICES ASSUME Alloc!K = 0 PROVE FALSE
    BY <1>3
  <2>2. Candidate = {}
    BY <1>3, <2>1, FS_EmptySet
  <2>3. SumOf(wins, Candidate) = 0
    BY <2>2, SumEmpty, Zenon
  <2> QED
    BY <1>3, <1>4, <2>3
<1>6. /\ \A c \in Candidate : share[c] = Alloc!FirstShare(c) /\ share[c] \in Nat
      /\ share \in [Candidate -> Nat]
  BY <1>1, <1>2, FirstSharesAre
<1>7. whole = 100 * Alloc!K * Draws /\ whole \in Nat \ {0}
  <2>1. whole = 100 * Alloc!K * Draws
    BY <1>1 DEF Alloc!FirstWhole
  <2> QED
    BY <1>3, <1>5, <2>1, SMT
<1>8. SharesOf(share, whole, cap)
  BY <1>2, <1>6, <1>7 DEF SharesOf, Given
<1>9. SumOf(share, Candidate) = whole
  <2>1. a \in Int /\ b \in Int /\ IsLinear(share, wins, Candidate, a, b)
    <3>1. a \in Int /\ b \in Int
      BY <1>3, SMT
    <3>2. \A c \in Candidate : wins[c] \in Int /\ share[c] = a * wins[c] + b
      BY <1>2, <1>3, <1>6, FirstSharesAre
    <3> QED
      BY <3>1, <3>2 DEF IsLinear
  <2>2. SumOf(share, Candidate) = a * SumOf(wins, Candidate) + b * Cardinality(Candidate)
    <3> HIDE DEF a, b
    <3> QED BY <1>3, <2>1, SumLinear
  <2>3. SumOf(share, Candidate) = a * Draws + b * Alloc!K
    <3> HIDE DEF a, b
    <3> QED BY <1>3, <1>4, <2>2
  <2>4. a * Draws + b * Alloc!K = 100 * Alloc!K * Draws
    <3> DEFINE k == Alloc!K
               f == 100 - floor
    <3>1. k \in Nat /\ f \in Nat /\ floor \in Nat /\ Draws \in Nat /\ f + floor = 100
      BY <1>3
    <3>2. a * Draws + b * k = (f * k) * Draws + (floor * Draws) * k
      OBVIOUS
    <3> HIDE DEF f, k, a, b
    <3>3. (f * k) * Draws + (floor * Draws) * k = (f + floor) * (k * Draws)
      BY <3>1, SMT
    <3>4. 100 * (k * Draws) = 100 * k * Draws
      BY <3>1, SMT
    <3>5. a * Draws + b * k = 100 * k * Draws
      BY <3>1, <3>2, <3>3, <3>4
    <3> QED
      BY <3>5 DEF k
  <2> HIDE DEF a, b
  <2> QED
    BY <1>7, <2>3, <2>4
<1>10. SumOf(share, Candidate) <= whole
  BY <1>7, <1>9
<1>11. ASSUME floor > 0 PROVE \A c \in Candidate : share[c] > 0
  BY <1>2, <1>6, <1>11, FirstSharesAre
<1>12. ASSUME NEW c \in Candidate, NEW d \in Candidate, wins[c] >= wins[d], c \notin A
       PROVE  d \notin A /\ share[c] >= share[d]
  <2>1. share[c] >= share[d]
    BY <1>2, <1>6, <1>12, FirstSharesAre
  <2> DEFINE q == cap * whole
  <2>2. ~(100 * share[c] >= q) /\ q \in Int
    BY <1>7, <1>8, <1>12, SMT DEF CappedIn, SharesOf
  <2>3. ~(100 * share[d] >= q)
    <3> HIDE DEF q
    <3> QED BY <1>6, <2>1, <2>2
  <2> QED
    BY <2>1, <2>3 DEF CappedIn
<1>13. \A c, d \in Candidate : share[c] * Alloc!FirstShare(d) = share[d] * Alloc!FirstShare(c)
  <2>1. \A c, d \in Candidate : share[c] * share[d] = share[d] * share[c]
    BY <1>6, SMT
  <2> QED
    BY <1>6, <2>1
<1>14. SplitOf(share, whole)
  BY <1>9, <1>10, <1>11, <1>12, <1>13 DEF SplitOf
<1>15. Cardinality(A) \in Nat /\ IsFiniteSet(A)
  <2>1. A \in SUBSET Candidate
    BY DEF CappedIn
  <2> HIDE DEF A
  <2> QED
    BY <1>3, <2>1, FS_Subset, FS_CardinalityType
<1>16. O # {} => Cardinality(A) >= 1
  <2>1. O \subseteq A
    BY <1>8, ExcessIs
  <2> HIDE DEF A, O
  <2>2. A # {} => Cardinality(A) # 0
    BY <1>15, FS_EmptySet
  <2> QED
    BY <1>15, <2>1, <2>2
<1>17. amount \in [Candidate -> Nat] /\ round \in 0 .. MaxRounds
  BY <1>1, AllocationAssumption
<1> QED
  BY <1>1, <1>2, <1>8, <1>14, <1>15, <1>16, <1>17 DEF AllocInv

\* A round keeps what the shares are like.
LEMMA RoundSplits ==
  ASSUME Given, NEW s, NEW w, SharesOf(s, w, cap), SplitOf(s, w),
         NEW g, NEW y, NEW v, Divided(s, w, cap, g, y, v)
  PROVE  /\ SharesOf(y, v, cap) /\ SplitOf(y, v)
         /\ Cardinality(CappedIn(y, v, cap)) >= Cardinality(CappedIn(s, w, cap))
         /\ OverIn(y, v, cap) # {} =>
              Cardinality(CappedIn(y, v, cap)) >= Cardinality(CappedIn(s, w, cap)) + 1
<1> DEFINE A == CappedIn(s, w, cap)
           B == CappedIn(y, v, cap)
           F(c) == Alloc!FirstShare(c)
<1>1. /\ SharesOf(y, v, cap)
      /\ SumOf(s, Candidate) <= w => SumOf(y, Candidate) <= v
      /\ UnderSum(s, w, cap) > 0 /\ SumOf(s, Candidate) = w => SumOf(y, Candidate) = v
      /\ (\A c \in Candidate : s[c] > 0) => \A c \in Candidate : y[c] > 0
      /\ \A c \in CappedIn(s, w, cap) : 100 * y[c] = cap * v
      /\ \E r \in Nat \ {0} : \A c \in Candidate \ CappedIn(s, w, cap) : g * y[c] = r * s[c]
      /\ g \in Nat \ {0}
  <2>1. g \in Nat \ {0}
    BY DEF Divided
  <2> DEFINE p == cap
  <2>2. SharesOf(s, w, p) /\ Divided(s, w, p, g, y, v)
    OBVIOUS
  <2> HIDE DEF p
  <2>3. /\ SharesOf(y, v, p)
        /\ SumOf(s, Candidate) <= w => SumOf(y, Candidate) <= v
        /\ UnderSum(s, w, p) > 0 /\ SumOf(s, Candidate) = w => SumOf(y, Candidate) = v
        /\ (\A c \in Candidate : s[c] > 0) => \A c \in Candidate : y[c] > 0
        /\ \A c \in CappedIn(s, w, p) : 100 * y[c] = p * v
        /\ \E r \in Nat \ {0} : \A c \in Candidate \ CappedIn(s, w, p) : g * y[c] = r * s[c]
    BY <2>2, DividedAdds
  <2> QED
    BY <2>1, <2>3 DEF p
<1>2. /\ A \subseteq B
      /\ OverIn(y, v, cap) # {} => Cardinality(B) >= Cardinality(A) + 1
  BY <1>1, CappedStay
<1>3. A \in SUBSET Candidate /\ B \in SUBSET Candidate /\ IsFiniteSet(Candidate)
      /\ \A c \in Candidate : s[c] \in Nat /\ y[c] \in Nat
  BY <1>1, AllocationAssumption DEF CappedIn, SharesOf
<1>4. PICK r \in Nat \ {0} : \A c \in Candidate \ A : g * y[c] = r * s[c]
  BY <1>1
<1>5. Cardinality(B) >= Cardinality(A)
  <2>1. IsFiniteSet(B)
    <3> HIDE DEF B
    <3> QED BY <1>3, FS_Subset
  <2> HIDE DEF A, B
  <2> QED
    BY <1>2, <2>1, FS_Subset
<1>6. ASSUME floor > 0, B # Candidate PROVE SumOf(y, Candidate) = v
  <2>1. PICK c \in Candidate : c \notin B
    <3> HIDE DEF B
    <3> QED BY <1>3, <1>6
  <2>2. c \in Candidate \ A
    BY <1>2, <2>1
  <2>3. s[c] > 0 /\ SumOf(s, Candidate) = w
    <3>1. A # Candidate
      BY <2>2
    <3> QED
      BY <1>6, <3>1 DEF SplitOf
  <2>4. UnderSum(s, w, cap) > 0
    <3> DEFINE D == Candidate \ A
    <3>1. UnderSum(s, w, cap) = SumOf(s, D)
      BY Zenon DEF UnderSum
    <3>2. IsFiniteSet(D) /\ \A x \in D : s[x] \in Int /\ s[x] >= 0
      <4>1. D \in SUBSET Candidate
        OBVIOUS
      <4> HIDE DEF D
      <4> QED BY <1>3, <4>1, FS_Subset
    <3>3. {c} \in SUBSET D
      BY <2>2
    <3> HIDE DEF D
    <3>4. SumOf(s, {c}) <= SumOf(s, D)
      BY <3>2, <3>3, SumOfPart
    <3>5. SumOf(s, {c}) = s[c] /\ s[c] \in Int
      <4>1. s[c] \in Int
        BY <1>3
      <4> QED
        BY <4>1, SumOfOne, Zenon
    <3>6. SumOf(s, D) \in Int
      BY <3>2, SumInt
    <3> QED
      BY <2>3, <3>1, <3>4, <3>5, <3>6
  <2> QED
    BY <1>1, <2>3, <2>4
<1>7. ASSUME NEW c \in Candidate, NEW d \in Candidate, wins[c] >= wins[d], c \notin B
      PROVE  d \notin B /\ y[c] >= y[d]
  <2>1. c \notin A
    BY <1>2, <1>7
  <2>2. d \notin A /\ s[c] >= s[d]
    BY <1>7, <2>1 DEF SplitOf
  <2>3. g * y[c] = r * s[c] /\ g * y[d] = r * s[d]
    BY <1>4, <2>1, <2>2
  <2>4. r * s[d] <= r * s[c]
    BY <1>3, <2>2, TimesOrder
  <2>5. y[d] <= y[c]
    <3>1. g * y[d] <= g * y[c]
      BY <2>3, <2>4
    <3> QED
      BY <1>1, <1>3, <3>1, TimesOrder
  <2> DEFINE q == cap * v
  <2>6. ~(100 * y[c] >= q) /\ q \in Int
    BY <1>1, <1>7, SMT DEF CappedIn, SharesOf
  <2>7. ~(100 * y[d] >= q)
    <3> HIDE DEF q
    <3> QED BY <1>3, <2>5, <2>6
  <2> QED
    BY <1>3, <2>5, <2>7 DEF CappedIn
<1>8. ASSUME NEW c \in Candidate \ B, NEW d \in Candidate \ B
      PROVE  y[c] * F(d) = y[d] * F(c)
  <2>1. c \in Candidate \ A /\ d \in Candidate \ A
    BY <1>2
  <2>2. s[c] * F(d) = s[d] * F(c)
    BY <2>1 DEF SplitOf
  <2>3. F(c) \in Nat /\ F(d) \in Nat
    BY FirstSharesAre
  <2>4. g * y[c] = r * s[c] /\ g * y[d] = r * s[d]
    BY <1>4, <2>1
  <2>5. s[c] \in Nat /\ s[d] \in Nat /\ y[c] \in Nat /\ y[d] \in Nat
    BY <1>3
  <2> HIDE DEF A, B, F
  <2>6. g * (y[c] * F(d)) = (g * y[c]) * F(d) /\ g * (y[d] * F(c)) = (g * y[d]) * F(c)
    BY <1>1, <2>3, <2>5, SMT
  <2>7. (r * s[c]) * F(d) = r * (s[c] * F(d)) /\ (r * s[d]) * F(c) = r * (s[d] * F(c))
    BY <2>3, <2>5, SMT
  <2>8. g * (y[c] * F(d)) = g * (y[d] * F(c))
    BY <2>2, <2>4, <2>6, <2>7
  <2>9. y[c] * F(d) \in Int /\ y[d] * F(c) \in Int
    BY <2>3, <2>5, SMT
  <2> DEFINE l == y[c] * F(d)
             m == y[d] * F(c)
  <2>10. g * l = g * m /\ l \in Int /\ m \in Int
    BY <2>8, <2>9
  <2> HIDE DEF l, m
  <2>11. l = m
    BY <1>1, <2>10, TimesOrder
  <2> QED
    BY <2>11 DEF l, m
<1>9. SumOf(y, Candidate) <= v /\ (floor > 0 => \A c \in Candidate : y[c] > 0)
  BY <1>1 DEF SplitOf
<1>10. SplitOf(y, v)
  BY <1>6, <1>7, <1>8, <1>9 DEF SplitOf
<1> QED
  BY <1>1, <1>2, <1>5, <1>10 DEF A, B

\* Counting in units of g and back again.
LEMMA UnitDivides ==
  ASSUME NEW g, NEW n \in Nat, g = 1 \/ Alloc!Divides(g, n)
  PROVE  g \in Nat \ {0} /\ n \div g \in Nat /\ g * (n \div g) = n
<1>1. CASE g = 1
  <2>1. n \div 1 = n
    BY SMT
  <2> QED
    BY <1>1, <2>1
<1>2. CASE Alloc!Divides(g, n)
  <2>1. g \in Nat \ {0} /\ g * (n \div g) = n
    BY <1>2 DEF Alloc!Divides
  <2>2. n \div g \in Nat
    BY <2>1, SMT
  <2> QED
    BY <2>1, <2>2
<1> QED
  BY <1>1, <1>2

\* A round of the loop is a round in the sense of these lemmas.
LEMMA RoundDivides ==
  ASSUME AllocInv, Alloc!CapRound
  PROVE  \E g : Divided(share, whole, cap, g, share', whole')
<1> DEFINE next == [c \in Candidate |-> Alloc!NextShare(c)]
           N == Alloc!NextWhole
           g == Alloc!Unit(next, N)
<1>1. SharesOf(share, whole, cap)
  BY DEF AllocInv
<1>2. share' = [c \in Candidate |-> next[c] \div g] /\ whole' = N \div g
  BY DEF Alloc!CapRound
<1>3. N = WholeOf(share, whole, cap)
  BY AllocNames, Zenon DEF Alloc!NextWhole, WholeOf
<1>4. \A c \in Candidate : next[c] = NextOf(share, whole, cap)[c]
  <2>1. \A c \in Candidate : next[c] = Alloc!NextShare(c)
    OBVIOUS
  <2>2. \A c \in Candidate : Alloc!NextShare(c) = NextOf(share, whole, cap)[c]
    BY AllocNames, Zenon DEF Alloc!NextShare, Alloc!Raised, NextOf
  <2> QED
    BY <2>1, <2>2
<1>5. g = 1 \/ (Alloc!Divides(g, N) /\ \A c \in Candidate : Alloc!Divides(g, next[c]))
  BY Zenon DEF Alloc!Unit
<1>6. N \in Nat /\ \A c \in Candidate : next[c] \in Nat
  BY <1>1, <1>3, <1>4, NextAdds
<1> HIDE DEF next, N, g
<1>7. g \in Nat \ {0} /\ N \div g \in Nat /\ g * (N \div g) = N
  BY <1>5, <1>6, UnitDivides
<1>8. \A c \in Candidate : next[c] \div g \in Nat /\ g * (next[c] \div g) = next[c]
  BY <1>5, <1>6, UnitDivides
<1>9. share' \in [Candidate -> Nat] /\ \A c \in Candidate : share'[c] = next[c] \div g
  BY <1>2, <1>8
<1>10. \A c \in Candidate : g * share'[c] = NextOf(share, whole, cap)[c]
  BY <1>4, <1>8, <1>9
<1> QED
  BY <1>2, <1>3, <1>7, <1>9, <1>10 DEF Divided

LEMMA SettledIs ==
  ASSUME AllocInv
  PROVE  /\ Alloc!Settled <=> OverIn(share, whole, cap) = {}
         /\ Cardinality(CappedIn(share, whole, cap)) \in Nat
<1>1. SharesOf(share, whole, cap)
  BY DEF AllocInv
<1>2. ExcessOf(share, whole, cap) = 0 <=> OverIn(share, whole, cap) = {}
  BY <1>1, ExcessIs
<1>3. Cardinality(CappedIn(share, whole, cap)) \in Nat
  BY <1>1, ExcessIs
<1> QED
  BY <1>2, <1>3, AllocNames, Zenon DEF Alloc!Settled

\* What was given stays, and so does what is said of shares.
LEMMA SplitStays ==
  ASSUME UNCHANGED <<wins, floor, cap>>
  PROVE  SplitOf(share, whole)' <=> SplitOf(share', whole')
BY DEF SplitOf, Alloc!FirstShare, CappedIn, SumOf, Sums

LEMMA RoundsKeep ==
  ASSUME AllocInv, Alloc!CapRound
  PROVE  AllocInv'
<1> DEFINE a == Cardinality(CappedIn(share, whole, cap))
           b == Cardinality(CappedIn(share', whole', cap))
<1>1. /\ Given /\ SharesOf(share, whole, cap) /\ SplitOf(share, whole)
      /\ round \in 0 .. MaxRounds /\ notes \subseteq {"capped", "dropped"}
      /\ amount \in [Candidate -> Nat]
      /\ step = "cap" /\ round < MaxRounds /\ ~Alloc!Settled /\ round' = round + 1
      /\ UNCHANGED <<wins, floor, cap, ticket, step, amount, notes>>
      /\ MaxRounds \in Nat
  BY AllocationAssumption DEF AllocInv, Alloc!CapRound
<1>2. PICK g : Divided(share, whole, cap, g, share', whole')
  BY RoundDivides
<1>3. /\ SharesOf(share', whole', cap) /\ SplitOf(share', whole')
      /\ b >= a
      /\ OverIn(share', whole', cap) # {} => b >= a + 1
  BY <1>1, <1>2, RoundSplits
<1>4. a \in Nat /\ a >= round + 1
  <2>1. OverIn(share, whole, cap) # {} /\ a \in Nat
    BY <1>1, SettledIs
  <2> QED
    BY <1>1, <2>1 DEF AllocInv
<1>5. b \in Nat
  BY <1>3, ExcessIs
<1>6. b >= round + 1 /\ (OverIn(share', whole', cap) # {} => b >= round + 2)
  <2> HIDE DEF a, b
  <2>1. round \in Int /\ b >= a /\ b \in Int /\ a \in Int /\ a >= round + 1
    BY <1>1, <1>3, <1>4, <1>5
  <2>2. b >= round + 1
    BY <2>1
  <2>3. b >= a + 1 => b >= round + 2
    BY <2>1
  <2> QED
    BY <1>3, <2>2, <2>3
<1>7. /\ SharesOf(share, whole, cap)' <=> SharesOf(share', whole', cap)
      /\ CappedIn(share, whole, cap)' = CappedIn(share', whole', cap)
      /\ OverIn(share, whole, cap)' = OverIn(share', whole', cap)
      /\ Given'
  BY <1>1 DEF SharesOf, CappedIn, OverIn, Given
<1>8. SplitOf(share, whole)'
  BY <1>1, <1>3, SplitStays
<1>9. round' \in 0 .. MaxRounds
  BY <1>1
<1> QED
  BY <1>1, <1>3, <1>6, <1>7, <1>8, <1>9 DEF AllocInv

\* The rest of the steps leave the shares alone.
LEMMA SharesStay ==
  ASSUME AllocInv, UNCHANGED <<wins, floor, cap, ticket, share, whole>>
  PROVE  /\ Given' /\ SharesOf(share, whole, cap)' /\ SplitOf(share, whole)'
         /\ CappedIn(share, whole, cap)' = CappedIn(share, whole, cap)
         /\ OverIn(share, whole, cap)' = OverIn(share, whole, cap)
         /\ \A c \in Candidate : Alloc!AmountOf(c)' = Alloc!AmountOf(c)
<1>1. SplitOf(share', whole')
  BY DEF AllocInv
<1> QED
  BY <1>1, SplitStays DEF AllocInv, Given, SharesOf, CappedIn, OverIn, Alloc!AmountOf

LEMMA AmountsAre ==
  ASSUME AllocInv
  PROVE  \A c \in Candidate :
           Alloc!AmountOf(c) \in Nat /\ (share[c] * Budget) \div whole \in Nat
<1>1. \A c \in Candidate : share[c] \in Nat /\ whole \in Nat \ {0} /\ Budget \in Nat
  BY AllocationAssumption DEF AllocInv, SharesOf
<1>2. \A c \in Candidate : share[c] * Budget \in Nat
  BY <1>1, SMT
<1>3. \A m \in Nat : m \div whole \in Nat
  <2>1. TAKE m \in Nat
  <2>2. whole \in Nat \ {0}
    BY DEF AllocInv, SharesOf
  <2> QED
    BY <2>2, SMT
<1>4. \A c \in Candidate : (share[c] * Budget) \div whole \in Nat
  BY <1>2, <1>3
<1> QED
  BY <1>4 DEF Alloc!AmountOf

LEMMA AllocStep ==
  ASSUME AllocInv, Alloc!Next \/ UNCHANGED allocationState
  PROVE  AllocInv'
<1> DEFINE A == CappedIn(share, whole, cap)
           O == OverIn(share, whole, cap)
<1>1. CASE Alloc!CapRound
  BY <1>1, RoundsKeep
<1>2. CASE Alloc!CapEnds
  <2>1. /\ step = "cap" /\ (round = MaxRounds \/ Alloc!Settled) /\ step' = "amount"
        /\ notes' = IF Alloc!Under = {} /\ cap * Alloc!K < 100 THEN {"capped"} ELSE {}
        /\ UNCHANGED <<wins, floor, cap, ticket, share, whole, round, amount>>
    BY <1>2 DEF Alloc!CapEnds
  <2>2. O # {} => Cardinality(A) >= MaxRounds + 1
    BY <2>1, SettledIs DEF AllocInv
  <2>3. A = Candidate /\ cap * Alloc!K < 100 => "capped" \in notes'
    <3>1. A = Candidate => Alloc!Under = {}
      BY AllocNames
    <3> QED
      BY <2>1, <3>1
  <2>4. (cap * Alloc!K)' = cap * Alloc!K
    BY <2>1 DEF Alloc!K, Alloc!Cardinality, Cardinality
  <2> QED
    BY <2>1, <2>2, <2>3, <2>4, SharesStay DEF AllocInv
<1>3. CASE Alloc!Amounts
  <2>1. /\ step = "amount" /\ step' = "done" /\ notes \subseteq notes'
        /\ notes' \subseteq notes \cup {"dropped"}
        /\ amount' = [c \in Candidate |-> Alloc!AmountOf(c)]
        /\ UNCHANGED <<wins, floor, cap, ticket, share, whole, round>>
    BY <1>3 DEF Alloc!Amounts
  <2>2. amount' \in [Candidate -> Nat]
    BY <2>1, AmountsAre
  <2>3. amount' = [c \in Candidate |-> Alloc!AmountOf(c)']
    BY <2>1, SharesStay
  <2>4. (cap * Alloc!K)' = cap * Alloc!K
    BY <2>1 DEF Alloc!K, Alloc!Cardinality, Cardinality
  <2> QED
    BY <2>1, <2>2, <2>3, <2>4, SharesStay DEF AllocInv
<1>4. CASE UNCHANGED allocationState
  <2>1. UNCHANGED <<wins, floor, cap, ticket, share, whole, round, step, amount, notes>>
    BY <1>4 DEF allocationState
  <2>2. (cap * Alloc!K)' = cap * Alloc!K
    BY <2>1 DEF Alloc!K, Alloc!Cardinality, Cardinality
  <2> QED
    BY <2>1, <2>2, SharesStay DEF AllocInv
<1> QED
  BY <1>1, <1>2, <1>3, <1>4 DEF Alloc!Next

-----------------------------------------------------------------------------
(* What the invariant says at the end *)

\* The loop of the code has ten rounds.  They are enough for any number of
\* candidates when the cap is large, and for any cap when the candidates are few:
\* each round brings one more candidate to the cap, and p percent of the whole
\* goes into it no more than 100 / p times.
RoundsSuffice ==
  \/ Cardinality(Candidate) <= MaxRounds
  \/ \A p \in Percents \ {0} : p * (MaxRounds + 1) >= 100

\* Shares above the cap are of a whole that many candidates at the cap exceed.
LEMMA ManyAreTooMuch ==
  ASSUME NEW s, NEW w, NEW p, SharesOf(s, w, p), SumOf(s, Candidate) <= w,
         OverIn(s, w, p) # {}
  PROVE  Cardinality(CappedIn(s, w, p)) * p < 100
<1> DEFINE U == UnderSum(s, w, p)
           n == Cardinality(CappedIn(s, w, p))
           X == ExcessOf(s, w, p)
           S == SumOf(s, Candidate)
           q == p * w
<1>1. /\ U \in Nat /\ n \in Nat /\ X \in Nat /\ S \in Nat /\ q \in Nat \ {0}
      /\ X = 100 * (S - U) - n * q
      /\ X # 0 /\ S <= w
  BY ExcessIs
<1>2. w \in Nat \ {0} /\ p \in Nat
  BY DEF SharesOf
<1>3. n * q = (n * p) * w /\ n * p \in Nat /\ n * q \in Int
  BY <1>1, <1>2, SMT
<1> SUFFICES ASSUME n * p >= 100 PROVE FALSE
  BY <1>3
<1> HIDE DEF U, n, X, S, q
<1>4. n * q < 100 * w
  BY <1>1, <1>2, <1>3
<1>5. 100 * w <= (n * p) * w
  <2> DEFINE m == n * p
  <2>1. m \in Nat /\ m >= 100
    BY <1>3
  <2> HIDE DEF m
  <2>2. w * 100 <= w * m
    BY <1>2, <2>1, TimesOrder
  <2>3. w * 100 = 100 * w /\ w * m = m * w
    BY <1>2, <2>1, SMT
  <2> QED
    BY <2>2, <2>3 DEF m
<1> QED
  BY <1>2, <1>3, <1>4, <1>5

\* The loop does not stop before all is below the cap.
LEMMA NobodyIsOver ==
  ASSUME AllocInv, RoundsSuffice, step # "cap"
  PROVE  OverIn(share, whole, cap) = {}
<1> DEFINE A == CappedIn(share, whole, cap)
           n == Cardinality(A)
<1> SUFFICES ASSUME OverIn(share, whole, cap) # {} PROVE FALSE
  OBVIOUS
<1>1. /\ SharesOf(share, whole, cap) /\ SumOf(share, Candidate) <= whole
      /\ n >= MaxRounds + 1 /\ cap \in Percents \ {0} /\ cap \in Nat /\ MaxRounds \in Nat
  BY AllocationAssumption DEF AllocInv, SplitOf, Given
<1>2. n * cap < 100 /\ n \in Nat
  BY <1>1, ManyAreTooMuch, ExcessIs
<1>3. n <= Cardinality(Candidate) /\ Cardinality(Candidate) \in Nat
  <2>1. A \in SUBSET Candidate /\ IsFiniteSet(Candidate)
    BY AllocationAssumption DEF CappedIn
  <2> HIDE DEF A
  <2> QED
    BY <2>1, FS_Subset, FS_CardinalityType
<1> HIDE DEF A, n
<1>4. CASE Cardinality(Candidate) <= MaxRounds
  BY <1>1, <1>2, <1>3, <1>4
<1>5. CASE \A p \in Percents \ {0} : p * (MaxRounds + 1) >= 100
  <2> DEFINE m == MaxRounds + 1
  <2>1. cap * m >= 100 /\ m \in Nat /\ m <= n
    BY <1>1, <1>2, <1>5
  <2> HIDE DEF m
  <2>2. cap \in Nat \ {0}
    BY <1>1
  <2>3. cap * m <= cap * n
    BY <1>2, <2>1, <2>2, TimesOrder
  <2>4. cap * n = n * cap /\ cap * n \in Int /\ cap * m \in Int
    BY <1>2, <2>1, <2>2, SMT
  <2> QED
    BY <1>2, <2>1, <2>3, <2>4
<1> QED
  BY <1>4, <1>5 DEF RoundsSuffice

\* What a whole number of dollars is of a share of the budget.
LEMMA DollarsAre ==
  ASSUME NEW n \in Nat, NEW w \in Nat \ {0}
  PROVE  n \div w \in Nat /\ w * (n \div w) <= n /\ n < w * (n \div w) + w
BY SMT

LEMMA AmountsFit ==
  ASSUME AllocInv
  PROVE  \A c \in Candidate :
           /\ Alloc!AmountOf(c) \in Nat
           /\ whole * Alloc!AmountOf(c) <= Budget * share[c]
<1> SUFFICES ASSUME NEW c \in Candidate
             PROVE  /\ Alloc!AmountOf(c) \in Nat
                    /\ whole * Alloc!AmountOf(c) <= Budget * share[c]
  OBVIOUS
<1> DEFINE a == (share[c] * Budget) \div whole
<1>1. share[c] \in Nat /\ whole \in Nat \ {0} /\ Budget \in Nat /\ ticket \in Nat
  BY AllocationAssumption DEF AllocInv, SharesOf, Given
<1>2. share[c] * Budget \in Nat /\ share[c] * Budget = Budget * share[c]
  BY <1>1, SMT
<1>3. a \in Nat /\ whole * a <= Budget * share[c]
  BY <1>1, <1>2, DollarsAre
<1>4. Alloc!AmountOf(c) = IF a < ticket THEN 0 ELSE a
  BY DEF Alloc!AmountOf
<1> HIDE DEF a
<1>5. whole * 0 = 0
  BY <1>1
<1> QED
  BY <1>2, <1>3, <1>4, <1>5

LEMMA MoreForMore ==
  ASSUME AllocInv, NEW c \in Candidate, NEW d \in Candidate, share[c] >= share[d]
  PROVE  Alloc!AmountOf(c) >= Alloc!AmountOf(d)
<1> DEFINE a == (share[c] * Budget) \div whole
           b == (share[d] * Budget) \div whole
           m == share[c] * Budget
           n == share[d] * Budget
<1>1. /\ share[c] \in Nat /\ share[d] \in Nat /\ whole \in Nat \ {0} /\ Budget \in Nat
      /\ ticket \in Nat
  BY AllocationAssumption DEF AllocInv, SharesOf, Given
<1>2. m \in Nat /\ n \in Nat /\ n <= m
  <2>1. m \in Nat /\ n \in Nat
    BY <1>1, SMT
  <2>2. PICK e \in Nat : share[c] = share[d] + e
    <3>1. share[c] - share[d] \in Nat /\ share[c] = share[d] + (share[c] - share[d])
      BY <1>1
    <3> QED
      BY <3>1
  <2>3. (share[d] + e) * Budget = share[d] * Budget + e * Budget /\ e * Budget \in Nat
    BY <1>1, <2>2, SMT
  <2>4. m = n + e * Budget
    BY <2>2, <2>3
  <2> HIDE DEF m, n
  <2> QED
    BY <2>1, <2>3, <2>4
<1>3. a = m \div whole /\ b = n \div whole
  OBVIOUS
<1> HIDE DEF m, n
<1>4. /\ a \in Nat /\ b \in Nat /\ whole * b <= n /\ m < whole * a + whole
  BY <1>1, <1>2, <1>3, DollarsAre
<1> HIDE DEF a, b
<1>5. b <= a
  <2> SUFFICES ASSUME a + 1 <= b PROVE FALSE
    BY <1>4
  <2>1. whole * (a + 1) <= whole * b
    BY <1>1, <1>4, TimesOrder
  <2>2. whole * (a + 1) = whole * a + whole /\ whole * a \in Int /\ whole * b \in Int
    BY <1>1, <1>4, SMT
  <2> QED
    BY <1>1, <1>2, <1>4, <2>1, <2>2
<1>6. /\ Alloc!AmountOf(c) = IF a < ticket THEN 0 ELSE a
      /\ Alloc!AmountOf(d) = IF b < ticket THEN 0 ELSE b
  BY DEF Alloc!AmountOf, a, b
<1> QED
  BY <1>1, <1>4, <1>5, <1>6

\* All the amounts together, and each of them.
LEMMA BudgetHolds ==
  ASSUME AllocInv, RoundsSuffice, step = "done"
  PROVE  /\ SumOf(amount, Candidate) <= Budget
         /\ \A c \in Candidate : 100 * amount[c] <= cap * Budget
<1> DEFINE e == [c \in Candidate |-> whole * amount[c]]
           b == [c \in Candidate |-> Budget * share[c]]
           z == 0
           S == SumOf(share, Candidate)
           T == SumOf(amount, Candidate)
<1>1. /\ share \in [Candidate -> Nat] /\ whole \in Nat \ {0} /\ cap \in Nat
      /\ IsFiniteSet(Candidate) /\ Budget \in Nat /\ S <= whole
  BY AllocationAssumption DEF AllocInv, SharesOf, SplitOf, Given
<1>2. \A c \in Candidate : amount[c] \in Nat /\ whole * amount[c] <= Budget * share[c]
  <2>1. \A c \in Candidate : amount[c] = Alloc!AmountOf(c)
    BY DEF AllocInv
  <2> QED
    BY <2>1, AmountsFit
<1>3. S \in Int /\ T \in Int /\ Cardinality(Candidate) \in Nat
  BY <1>1, <1>2, SumInt, FS_CardinalityType
<1>4. /\ \A c \in Candidate : e[c] = whole * amount[c] /\ e[c] \in Int
      /\ \A c \in Candidate : b[c] = Budget * share[c] /\ b[c] \in Int
      /\ z \in Int /\ z * Cardinality(Candidate) = 0
  <2>1. \A c \in Candidate : whole * amount[c] \in Int /\ Budget * share[c] \in Int
    BY <1>1, <1>2, SMT
  <2> QED
    BY <1>3, <2>1
<1> HIDE DEF e, b
<1>5. SumOf(e, Candidate) = whole * T
  <2>1. \A c \in Candidate : amount[c] \in Int /\ e[c] = whole * amount[c] + z
    BY <1>2, <1>4
  <2>2. IsLinear(e, amount, Candidate, whole, z) /\ whole \in Int
    BY <1>1, <2>1 DEF IsLinear
  <2>3. SumOf(e, Candidate) = whole * SumOf(amount, Candidate) + z * Cardinality(Candidate)
    <3> HIDE DEF z
    <3> QED BY <1>1, <1>4, <2>2, SumLinear
  <2>4. whole * T \in Int
    BY <1>1, <1>3, SMT
  <2> HIDE DEF z
  <2> QED
    BY <1>4, <2>3, <2>4
<1>6. SumOf(b, Candidate) = Budget * S
  <2>1. \A c \in Candidate : share[c] \in Int /\ b[c] = Budget * share[c] + z
    BY <1>1, <1>4
  <2>2. IsLinear(b, share, Candidate, Budget, z) /\ Budget \in Int
    BY <1>1, <2>1 DEF IsLinear
  <2>3. SumOf(b, Candidate) = Budget * SumOf(share, Candidate) + z * Cardinality(Candidate)
    <3> HIDE DEF z
    <3> QED BY <1>1, <1>4, <2>2, SumLinear
  <2>4. Budget * S \in Int
    BY <1>1, <1>3, SMT
  <2> HIDE DEF z
  <2> QED
    BY <1>4, <2>3, <2>4
<1>7. SumOf(e, Candidate) <= SumOf(b, Candidate)
  BY <1>1, <1>2, <1>4, SumLeq
<1>8. T <= Budget
  <2> HIDE DEF S, T
  <2>1. whole * T <= Budget * S
    BY <1>5, <1>6, <1>7
  <2>2. Budget * S <= whole * Budget /\ Budget * S \in Int /\ whole * Budget \in Int
           /\ whole * T \in Int
    <3>1. CASE Budget = 0
      BY <1>1, <1>3, <3>1, SMT
    <3>2. CASE Budget \in Nat \ {0}
      <4>1. Budget * S <= Budget * whole
        BY <1>1, <1>3, <3>2, TimesOrder
      <4>2. Budget * whole = whole * Budget /\ whole * Budget \in Int
             /\ Budget * S \in Int /\ whole * T \in Int
        BY <1>1, <1>3, SMT
      <4> QED
        BY <4>1, <4>2
    <3> QED
      BY <1>1, <3>1, <3>2
  <2>3. whole * T <= whole * Budget
    BY <2>1, <2>2
  <2> QED
    BY <1>1, <1>3, <2>3, TimesOrder
<1>9. ASSUME NEW c \in Candidate PROVE 100 * amount[c] <= cap * Budget
  <2> DEFINE a == amount[c]
             s == share[c]
  <2>1. 100 * s <= cap * whole
    <3>1. OverIn(share, whole, cap) = {}
      BY NobodyIsOver
    <3>2. ~(100 * s > cap * whole)
      BY <3>1 DEF OverIn
    <3>3. cap * whole \in Int /\ s \in Nat
      BY <1>1, SMT
    <3> DEFINE q == cap * whole
    <3> HIDE DEF q, s
    <3>4. 100 * s <= q
      BY <3>2, <3>3 DEF q
    <3> QED
      BY <3>4 DEF q
  <2>2. a \in Nat /\ s \in Nat /\ whole * a <= Budget * s
    BY <1>1, <1>2
  <2> HIDE DEF a, s
  <2>3. Budget * (100 * s) <= Budget * (cap * whole)
    <3>1. CASE Budget = 0
      <4>1. 0 * (100 * s) = 0 /\ 0 * (cap * whole) = 0
        BY <1>1, <2>2, SMT
      <4> QED
        BY <3>1, <4>1
    <3>2. CASE Budget \in Nat \ {0}
      <4>1. 100 * s \in Int /\ cap * whole \in Int
        BY <1>1, <2>2, SMT
      <4> QED
        BY <2>1, <3>2, <4>1, TimesOrder
    <3> QED
      BY <1>1, <3>1, <3>2
  <2>4. /\ Budget * (100 * s) = 100 * (Budget * s)
        /\ Budget * (cap * whole) = whole * (cap * Budget)
        /\ whole * (100 * a) = 100 * (whole * a)
        /\ Budget * s \in Int /\ whole * a \in Int /\ whole * (cap * Budget) \in Int
        /\ 100 * a \in Int /\ cap * Budget \in Int
    <3>1. /\ Budget * (100 * s) = 100 * (Budget * s)
          /\ whole * (100 * a) = 100 * (whole * a)
          /\ Budget * s \in Int /\ whole * a \in Int /\ 100 * a \in Int
      BY <1>1, <2>2, SMT
    <3>2. cap * Budget \in Int /\ cap * whole \in Int
      BY <1>1, SMT
    <3>3. /\ Budget * (cap * whole) = whole * (cap * Budget)
          /\ whole * (cap * Budget) \in Int
      BY <1>1, <3>2, SMT
    <3> QED
      BY <3>1, <3>2, <3>3
  <2>5. whole * (100 * a) <= whole * (cap * Budget)
    BY <2>2, <2>3, <2>4
  <2>6. 100 * a <= cap * Budget
    BY <1>1, <2>4, <2>5, TimesOrder
  <2> QED
    BY <2>6 DEF a
<1> QED
  BY <1>8, <1>9

\* The shares of those who won more, whether below the cap or at it.
LEMMA WinnersHaveMore ==
  ASSUME AllocInv, RoundsSuffice, step = "done", NEW c \in Candidate, NEW d \in Candidate,
         wins[c] >= wins[d]
  PROVE  amount[c] >= amount[d]
<1> DEFINE A == CappedIn(share, whole, cap)
           q == cap * whole
<1>1. /\ share[c] \in Nat /\ share[d] \in Nat /\ q \in Int /\ SplitOf(share, whole)
      /\ amount[c] = Alloc!AmountOf(c) /\ amount[d] = Alloc!AmountOf(d)
  BY SMT DEF AllocInv, SharesOf
<1>2. share[c] >= share[d]
  <2>1. CASE c \notin A
    BY <2>1, <1>1 DEF SplitOf
  <2>2. CASE c \in A
    <3>1. 100 * share[c] >= q
      BY <2>2 DEF CappedIn
    <3>2. ~(100 * share[d] > q)
      <4>1. OverIn(share, whole, cap) = {}
        BY NobodyIsOver
      <4> QED
        BY <4>1 DEF OverIn
    <3> HIDE DEF q
    <3> QED
      BY <1>1, <3>1, <3>2
  <2> QED
    BY <2>1, <2>2
<1> QED
  BY <1>1, <1>2, MoreForMore

LEMMA LeftIsSaid ==
  ASSUME AllocInv, RoundsSuffice, step = "done", floor > 0, SumOf(share, Candidate) < whole
  PROVE  "capped" \in notes
<1> DEFINE A == CappedIn(share, whole, cap)
           n == Cardinality(A)
           S == SumOf(share, Candidate)
<1>1. /\ SharesOf(share, whole, cap) /\ SplitOf(share, whole)
      /\ whole \in Nat \ {0} /\ cap \in Nat \ {0}
  BY DEF AllocInv, SharesOf, Given
<1>2. A = Candidate /\ S \in Nat
  <2>1. S \in Nat
    BY <1>1, ExcessIs
  <2>2. S # whole
    BY <1>1, <2>1
  <2> QED
    BY <1>1, <2>1, <2>2 DEF SplitOf
<1>3. n = Alloc!K /\ n \in Nat
  BY <1>2, AllocNames, Zenon
<1>4. n * (cap * whole) <= 100 * S
  <2>1. /\ ExcessOf(share, whole, cap) = 100 * (S - UnderSum(share, whole, cap)) - n * (cap * whole)
        /\ ExcessOf(share, whole, cap) \in Nat /\ UnderSum(share, whole, cap) \in Nat
    BY <1>1, ExcessIs
  <2>2. n * (cap * whole) \in Int
    BY <1>1, <1>3, SMT
  <2> HIDE DEF n, S
  <2> QED
    BY <1>2, <2>1, <2>2
<1>5. cap * Alloc!K < 100
  <2>1. n * (cap * whole) = whole * (cap * n) /\ cap * n \in Nat /\ whole * (cap * n) \in Int
    <3> HIDE DEF n
    <3>1. cap * n \in Nat
      BY <1>1, <1>3, SMT
    <3>2. n * (cap * whole) = whole * (cap * n) /\ whole * (cap * n) \in Int
      BY <1>1, <1>3, <3>1, SMT
    <3> QED
      BY <3>1, <3>2
  <2> DEFINE m == cap * n
  <2>2. whole * m <= 100 * S /\ m \in Nat /\ whole * m \in Int
    BY <1>4, <2>1
  <2> HIDE DEF m, n, S
  <2>3. SUFFICES ASSUME m >= 100 PROVE FALSE
    BY <1>3, <2>2 DEF m
  <2>4. whole * 100 <= whole * m
    BY <1>1, <2>2, <2>3, TimesOrder
  <2>5. S < whole
    BY DEF S
  <2> QED
    BY <1>1, <1>2, <2>2, <2>4, <2>5
<1> QED
  BY <1>2, <1>5 DEF AllocInv

LEMMA AllocSafe ==
  ASSUME AllocInv, RoundsSuffice
  PROVE  Alloc!TypeOK /\ Alloc!BudgetIsSplit
<1> DEFINE A == CappedIn(share, whole, cap)
<1>1. Alloc!TypeOK
  <2>1. wins \in [Candidate -> Nat]
    BY AllocationAssumption DEF AllocInv, Given
  <2> QED
    BY <2>1 DEF Alloc!TypeOK, AllocInv, SharesOf
<1>2. /\ Alloc!Sum(share, Candidate) = SumOf(share, Candidate)
      /\ Alloc!Sum(amount, Candidate) = SumOf(amount, Candidate)
      /\ Alloc!Under = Candidate \ A
  BY FoldOfShares, AllocNames
<1>3. Alloc!Sum(share, Candidate) <= whole
  BY <1>2 DEF AllocInv, SplitOf
<1>4. floor > 0 /\ Alloc!Under # {} => Alloc!Sum(share, Candidate) = whole
  <2>1. Alloc!Under # {} => A # Candidate
    BY <1>2
  <2> QED
    BY <1>2, <2>1 DEF AllocInv, SplitOf
<1>5. ASSUME step = "done"
      PROVE  /\ Alloc!Sum(amount, Candidate) <= Budget
             /\ \A c, d \in Candidate :
                  /\ 100 * amount[c] <= cap * Budget
                  /\ wins[c] >= wins[d] => amount[c] >= amount[d]
                  /\ (c \in Alloc!Under /\ d \in Alloc!Under) =>
                       share[c] * Alloc!FirstShare(d) = share[d] * Alloc!FirstShare(c)
             /\ (floor > 0 /\ Alloc!Sum(share, Candidate) < whole) => "capped" \in notes
  <2>1. /\ Alloc!Sum(amount, Candidate) <= Budget
        /\ \A c \in Candidate : 100 * amount[c] <= cap * Budget
    BY <1>2, <1>5, BudgetHolds
  <2>2. \A c, d \in Candidate : wins[c] >= wins[d] => amount[c] >= amount[d]
    BY <1>5, WinnersHaveMore
  <2>3. \A c, d \in Candidate : (c \in Alloc!Under /\ d \in Alloc!Under) =>
          share[c] * Alloc!FirstShare(d) = share[d] * Alloc!FirstShare(c)
    <3>1. \A c, d \in Candidate \ A :
            share[c] * Alloc!FirstShare(d) = share[d] * Alloc!FirstShare(c)
      BY DEF AllocInv, SplitOf
    <3> QED
      BY <1>2, <3>1
  <2>4. (floor > 0 /\ Alloc!Sum(share, Candidate) < whole) => "capped" \in notes
    BY <1>2, <1>5, LeftIsSaid
  <2> QED
    BY <2>1, <2>2, <2>3, <2>4
<1> QED
  BY <1>1, <1>3, <1>4, <1>5 DEF Alloc!BudgetIsSplit

-----------------------------------------------------------------------------
(* Every behaviour of the services: the allocation *)

LEMMA AllocAlways == ServicesSpec => []AllocInv
<1>1. ServicesInit => AllocInv
  BY AllocStarts DEF ServicesInit
<1>2. ASSUME AllocInv, [ServicesNext]_all PROVE AllocInv'
  <2>1. Alloc!Next \/ UNCHANGED allocationState
    BY <1>2 DEF ServicesNext, Rest, all
  <2> QED
    BY <1>2, <2>1, AllocStep
<1> QED
  BY <1>1, <1>2, PTL DEF ServicesSpec

\* However many candidates, draws and dollars there are, and whatever the floor,
\* the cap and the minimum ticket: allocateBudget hands out no more than the
\* budget, nobody gets more than the cap, who won more draws gets no less, those
\* below the cap keep their proportions, and what nobody may take is said to be
\* left over; provided that the ten rounds suffice, which they do for a cap of a
\* tenth or more, or for ten candidates or fewer.  With the figures of the ledger,
\* this is all of FiguresAddUp.
THEOREM BudgetsAreSplit ==
  ASSUME RoundsSuffice PROVE ServicesSpec => []FiguresAddUp
<1>1. ASSUME MetricsInv, ReportsInv, BillingInv, RevenueInv, AllocInv PROVE FiguresAddUp
  <2>1. TypeOK
    BY <1>1 DEF RevenueInv
  <2> QED
    BY <1>1, <2>1, MetricsSafe, ReportsSafe, BillingSafe, AllocSafe DEF FiguresAddUp
<1> QED
  BY <1>1, MetricsAlways, ReportsAlways, BillingAlways, RevenueAlways, AllocAlways, PTL
=============================================================================
