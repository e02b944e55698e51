------------------------------- MODULE SumProofs -------------------------------
(***************************************************************************)
(* What the proofs about tables need of sums.  SumFunctionOnSet of the     *)
(* community modules folds a set in an order of its own choosing (Picked); *)
(* the lemmas show that the fold exists (AddsExists), that it does not     *)
(* depend on the order, and what it does when sets grow, join, are renamed *)
(* or a value changes.  Each is an induction on the size of a finite set,  *)
(* carried out on a smallest counterexample.                               *)
(***************************************************************************)
EXTENDS Functions, FiniteSetTheorems, TLAPS

(* A set of naturals has a least one.                                       *)
LEMMA LeastNat ==
    ASSUME NEW T, T \subseteq Nat, T # {}
    PROVE  \E x \in T : \A y \in T : x <= y
<1>1. PICK x \in T : \A y \in T : ~ (<<y, x>> \in OpToRel(<, Nat))
  BY NatLessThanWellFounded, WFMin
<1>2. \A y \in T : ~ (y < x)
  BY <1>1 DEF OpToRel
<1> QED BY <1>2

(* Induction, for a set of naturals.                                       *)
LEMMA AllNat ==
    ASSUME NEW T, 0 \in T, \A n \in Nat : n \in T => n + 1 \in T
    PROVE  \A n \in Nat : n \in T
<1> DEFINE C == {n \in Nat : n \notin T}
<1> SUFFICES ASSUME C # {} PROVE FALSE
  OBVIOUS
<1>1. PICK n \in C : \A m \in C : n <= m
  <2>1. C \subseteq Nat
    OBVIOUS
  <2> HIDE DEF C
  <2> QED BY <2>1, LeastNat
<1>2. n \in Nat /\ n \notin T /\ n # 0
  OBVIOUS
<1>3. n - 1 \in Nat /\ n - 1 < n /\ (n - 1) + 1 = n
  BY <1>2
<1>4. n - 1 \notin C
  <2> HIDE DEF C
  <2> QED BY <1>1, <1>2, <1>3
<1>5. n - 1 \in T
  BY <1>3, <1>4
<1> QED BY <1>2, <1>3, <1>5

(* Of the finite sets in a family, one includes no other.                  *)
LEMMA SmallestSet ==
    ASSUME NEW F, F # {}, \A s \in F : IsFiniteSet(s)
    PROVE  \E s \in F : \A t \in F : t \subseteq s => t = s
<1> DEFINE N == {Cardinality(s) : s \in F}
<1>1. N \subseteq Nat /\ N # {}
  BY FS_CardinalityType
<1>2. PICK n \in N : \A m \in N : n <= m
  BY <1>1, LeastNat
<1>3. PICK s \in F : n = Cardinality(s)
  OBVIOUS
<1>4. ASSUME NEW t \in F, t \subseteq s PROVE t = s
  <2>1. Cardinality(t) <= Cardinality(s) /\ (Cardinality(s) = Cardinality(t) => s = t)
    BY <1>4, FS_Subset
  <2>2. Cardinality(t) \in N
    OBVIOUS
  <2>3. n <= Cardinality(t) /\ n \in Nat /\ Cardinality(t) \in Nat
    BY <1>1, <1>2, <2>2
  <2> HIDE DEF N
  <2> QED BY <1>3, <2>1, <2>3
<1> QED BY <1>4

-----------------------------------------------------------------------------
(* The member a fold takes next, and what a fold over the subsets of S is.  *)
Picked(s) == CHOOSE x \in s : TRUE

Adds(g, f, S) == g = [s \in SUBSET S |-> IF s = {} THEN 0 ELSE f[Picked(s)] + g[s \ {Picked(s)}]]

LEMMA SumUnfold ==
    ASSUME NEW f, NEW S
    PROVE  SumFunctionOnSet(f, S) = (CHOOSE any : Adds(any, f, S))[S]
BY DEF SumFunctionOnSet, FoldFunctionOnSet, MapThenFoldSet, Adds, Picked

LEMMA AnyIn == \A s : s # {} => Picked(s) \in s
BY DEF Picked

(* Two folds agree wherever both are defined.                              *)
LEMMA AddsAgree ==
    ASSUME NEW f, NEW S, NEW T, NEW g, NEW h, Adds(g, f, S), Adds(h, f, T),
           NEW u, u \subseteq S, u \subseteq T, IsFiniteSet(u)
    PROVE  g[u] = h[u]
<1> DEFINE F == {s \in SUBSET u : g[s] # h[s]}
<1> SUFFICES ASSUME F # {} PROVE FALSE
  OBVIOUS
<1>1. \A s \in F : IsFiniteSet(s)
  BY FS_Subset
<1>2. PICK s \in F : \A t \in F : t \subseteq s => t = s
  <2> HIDE DEF F
  <2> QED BY <1>1, SmallestSet
<1>3. s \subseteq u /\ g[s] # h[s]
  OBVIOUS
<1>4. /\ g[s] = IF s = {} THEN 0 ELSE f[Picked(s)] + g[s \ {Picked(s)}]
      /\ h[s] = IF s = {} THEN 0 ELSE f[Picked(s)] + h[s \ {Picked(s)}]
  BY <1>3 DEF Adds
<1>5. s # {} /\ Picked(s) \in s
  BY <1>3, <1>4, AnyIn
<1>6. g[s \ {Picked(s)}] = h[s \ {Picked(s)}]
  BY <1>2, <1>3, <1>5
<1> QED BY <1>3, <1>4, <1>6

LEMMA AddsStep ==
    ASSUME NEW f, NEW S, S # {}, IsFiniteSet(S),
           \E g : Adds(g, f, S), \E g : Adds(g, f, S \ {Picked(S)})
    PROVE  SumFunctionOnSet(f, S) = f[Picked(S)] + SumFunctionOnSet(f, S \ {Picked(S)})
<1>1. PICK T : T = S \ {Picked(S)}
  OBVIOUS
<1>2. PICK g : g = (CHOOSE any : Adds(any, f, S)) /\ Adds(g, f, S)
  OBVIOUS
<1>3. PICK h : h = (CHOOSE any : Adds(any, f, T)) /\ Adds(h, f, T)
  BY <1>1
<1>4. SumFunctionOnSet(f, S) = g[S] /\ SumFunctionOnSet(f, T) = h[T]
  BY <1>2, <1>3, SumUnfold
<1>5. g[S] = f[Picked(S)] + g[T]
  BY <1>1, <1>2 DEF Adds
<1>6. g[T] = h[T]
  <2>1. IsFiniteSet(T) /\ T \subseteq S
    BY <1>1, FS_Subset
  <2> QED BY <1>2, <1>3, <2>1, AddsAgree
<1> QED BY <1>1, <1>4, <1>5, <1>6

LEMMA AddsExists ==
    ASSUME NEW f, NEW S, IsFiniteSet(S)
    PROVE  \E g : Adds(g, f, S)
<1> DEFINE F == {s \in SUBSET S : ~ \E g : Adds(g, f, s)}
<1> SUFFICES ASSUME F # {} PROVE FALSE
  OBVIOUS
<1>1. \A s \in F : IsFiniteSet(s)
  BY FS_Subset
<1>2. PICK s \in F : \A t \in F : t \subseteq s => t = s
  <2> HIDE DEF F
  <2> QED BY <1>1, SmallestSet
<1>3. s \subseteq S /\ IsFiniteSet(s) /\ ~ \E g : Adds(g, f, s)
  BY <1>1
<1>4. \A t \in SUBSET s : t # s => \E g : Adds(g, f, t)
  BY <1>2, <1>3
<1> DEFINE part(t) == IF t = {} THEN 0 ELSE f[Picked(t)] + SumFunctionOnSet(f, t \ {Picked(t)})
<1>5. ASSUME NEW t \in SUBSET s, t # s
      PROVE  SumFunctionOnSet(f, t) = part(t)
  <2>1. IsFiniteSet(t)
    BY <1>3, FS_Subset
  <2>2. CASE t = {}
    <3>1. PICK g : g = (CHOOSE any : Adds(any, f, t)) /\ Adds(g, f, t)
      BY <1>4, <1>5
    <3>2. g[t] = 0
      BY <2>2, <3>1 DEF Adds
    <3> QED BY <2>2, <3>1, <3>2, SumUnfold
  <2>3. CASE t # {}
    <3>1. Picked(t) \in t
      BY <2>3, AnyIn
    <3>2. \E g : Adds(g, f, t)
      BY <1>4, <1>5
    <3>3. \E g : Adds(g, f, t \ {Picked(t)})
      BY <1>4, <1>5, <3>1
    <3> QED BY <2>1, <2>3, <3>2, <3>3, AddsStep
  <2> QED BY <2>2, <2>3
<1> DEFINE g == [t \in SUBSET s |-> part(t)]
<1>6. Adds(g, f, s)
  <2>1. ASSUME NEW t \in SUBSET s, t # {}
        PROVE  g[t \ {Picked(t)}] = SumFunctionOnSet(f, t \ {Picked(t)})
    <3>1. Picked(t) \in t
      BY <2>1, AnyIn
    <3>2. t \ {Picked(t)} \in SUBSET s /\ t \ {Picked(t)} # s
      BY <3>1
    <3> QED BY <1>5, <3>2
  <2>2. \A t \in SUBSET s : part(t) = IF t = {} THEN 0 ELSE f[Picked(t)] + g[t \ {Picked(t)}]
    BY <2>1
  <2> QED BY <2>2 DEF Adds
<1> HIDE DEF g
<1> QED BY <1>3, <1>6

-----------------------------------------------------------------------------
LEMMA SumEmpty == ASSUME NEW f PROVE SumFunctionOnSet(f, {}) = 0
<1>1. \E g : Adds(g, f, {})
  BY FS_EmptySet, AddsExists
<1>2. PICK g : g = (CHOOSE any : Adds(any, f, {})) /\ Adds(g, f, {})
  BY <1>1
<1>3. g[{}] = 0
  BY <1>2 DEF Adds
<1> QED BY <1>2, <1>3, SumUnfold

LEMMA SumAny ==
    ASSUME NEW f, NEW S, S # {}, IsFiniteSet(S)
    PROVE  SumFunctionOnSet(f, S) = f[Picked(S)] + SumFunctionOnSet(f, S \ {Picked(S)})
<1>1. IsFiniteSet(S \ {Picked(S)})
  BY FS_RemoveElement
<1> QED BY <1>1, AddsExists, AddsStep

LEMMA SumType ==
    ASSUME NEW f, NEW S, IsFiniteSet(S), \A x \in S : f[x] \in Nat
    PROVE  SumFunctionOnSet(f, S) \in Nat
<1> DEFINE F == {s \in SUBSET S : SumFunctionOnSet(f, s) \notin Nat}
<1> SUFFICES ASSUME F # {} PROVE FALSE
  OBVIOUS
<1>1. \A s \in F : IsFiniteSet(s)
  BY FS_Subset
<1>2. PICK s \in F : \A t \in F : t \subseteq s => t = s
  <2> HIDE DEF F
  <2> QED BY <1>1, SmallestSet
<1>3. s # {}
  BY SumEmpty
<1>4. Picked(s) \in s
  BY <1>3, AnyIn
<1>5. SumFunctionOnSet(f, s \ {Picked(s)}) \in Nat
  BY <1>2, <1>4
<1>6. f[Picked(s)] \in Nat
  BY <1>4
<1>7. SumFunctionOnSet(f, s) = f[Picked(s)] + SumFunctionOnSet(f, s \ {Picked(s)})
  BY <1>1, <1>3, SumAny
<1> QED BY <1>5, <1>6, <1>7

(* The order of the summands does not matter.                              *)
LEMMA SumRemove ==
    ASSUME NEW f, NEW S, IsFiniteSet(S), \A x \in S : f[x] \in Nat, NEW x \in S
    PROVE  SumFunctionOnSet(f, S) = f[x] + SumFunctionOnSet(f, S \ {x})
<1> DEFINE P(s) == \A y \in s : SumFunctionOnSet(f, s) = f[y] + SumFunctionOnSet(f, s \ {y})
           F == {s \in SUBSET S : ~ P(s)}
<1> SUFFICES ASSUME F # {} PROVE FALSE
  OBVIOUS
<1>1. \A s \in F : IsFiniteSet(s)
  BY FS_Subset
<1>2. PICK s \in F : \A t \in F : t \subseteq s => t = s
  <2> HIDE DEF F
  <2> QED BY <1>1, SmallestSet
<1>3. PICK y \in s : SumFunctionOnSet(f, s) # f[y] + SumFunctionOnSet(f, s \ {y})
  OBVIOUS
<1>4. PICK a : a = Picked(s)
  OBVIOUS
<1>5. a \in s /\ SumFunctionOnSet(f, s) = f[a] + SumFunctionOnSet(f, s \ {a})
  BY <1>1, <1>4, SumAny, AnyIn
<1>6. y # a
  BY <1>3, <1>5
<1>7. P(s \ {a}) /\ P(s \ {y})
  <2>1. s \ {a} \in SUBSET S /\ s \ {y} \in SUBSET S /\ s \ {a} # s /\ s \ {y} # s
    BY <1>5
  <2> QED BY <1>2, <2>1
<1>8. SumFunctionOnSet(f, s \ {a}) = f[y] + SumFunctionOnSet(f, (s \ {a}) \ {y})
  BY <1>6, <1>7
<1>9. SumFunctionOnSet(f, s \ {y}) = f[a] + SumFunctionOnSet(f, (s \ {y}) \ {a})
  BY <1>5, <1>6, <1>7
<1>10. (s \ {y}) \ {a} = (s \ {a}) \ {y}
  OBVIOUS
<1>11. f[a] \in Nat /\ f[y] \in Nat /\ SumFunctionOnSet(f, (s \ {a}) \ {y}) \in Nat
  <2>1. (s \ {a}) \ {y} \in SUBSET S
    OBVIOUS
  <2>2. IsFiniteSet((s \ {a}) \ {y})
    BY <2>1, FS_Subset
  <2>3. \A z \in (s \ {a}) \ {y} : f[z] \in Nat
    BY <2>1
  <2> QED BY <1>3, <1>5, <2>2, <2>3, SumType
<1> HIDE DEF F
<1>12. SumFunctionOnSet(f, s) = f[y] + SumFunctionOnSet(f, s \ {y})
  BY <1>5, <1>8, <1>9, <1>10, <1>11
<1> QED BY <1>3, <1>12

LEMMA SumAdd ==
    ASSUME NEW f, NEW S, IsFiniteSet(S), \A y \in S : f[y] \in Nat,
           NEW x, x \notin S, f[x] \in Nat
    PROVE  SumFunctionOnSet(f, S \cup {x}) = SumFunctionOnSet(f, S) + f[x]
<1>1. IsFiniteSet(S \cup {x}) /\ (S \cup {x}) \ {x} = S
  BY FS_AddElement
<1>2. SumFunctionOnSet(f, S) \in Nat
  BY SumType
<1>3. SumFunctionOnSet(f, S \cup {x}) = f[x] + SumFunctionOnSet(f, (S \cup {x}) \ {x})
  <2>1. \A y \in S \cup {x} : f[y] \in Nat
    OBVIOUS
  <2> QED BY <1>1, <2>1, SumRemove
<1>4. SumFunctionOnSet(f, (S \cup {x}) \ {x}) = SumFunctionOnSet(f, S)
  BY <1>1
<1> QED BY <1>2, <1>3, <1>4

LEMMA SumUnion ==
    ASSUME NEW f, NEW S, NEW T, IsFiniteSet(S), IsFiniteSet(T), S \cap T = {},
           \A y \in S \cup T : f[y] \in Nat
    PROVE  SumFunctionOnSet(f, S \cup T) = SumFunctionOnSet(f, S) + SumFunctionOnSet(f, T)
<1> DEFINE Q(t) == SumFunctionOnSet(f, S \cup t) = SumFunctionOnSet(f, S) + SumFunctionOnSet(f, t)
           F == {t \in SUBSET T : ~ Q(t)}
<1> SUFFICES ASSUME F # {} PROVE FALSE
  OBVIOUS
<1>1. \A s \in F : IsFiniteSet(s)
  BY FS_Subset
<1>2. PICK s \in F : \A t \in F : t \subseteq s => t = s
  <2> HIDE DEF F
  <2> QED BY <1>1, SmallestSet
<1>3. SumFunctionOnSet(f, S) \in Nat
  BY SumType
<1>4. s # {}
  BY <1>3, SumEmpty
<1>5. PICK x \in s : TRUE
  BY <1>4
<1>6. PICK t : t = s \ {x}
  OBVIOUS
<1>7. Q(t) /\ t \subseteq T /\ IsFiniteSet(t) /\ x \in T /\ x \notin t
  BY <1>1, <1>2, <1>6, FS_Subset
<1>8. SumFunctionOnSet(f, t \cup {x}) = SumFunctionOnSet(f, t) + f[x]
  BY <1>7, SumAdd
<1>9. SumFunctionOnSet(f, (S \cup t) \cup {x}) = SumFunctionOnSet(f, S \cup t) + f[x]
  <2>1. IsFiniteSet(S \cup t)
    BY <1>7, FS_Union
  <2>2. x \notin S \cup t /\ \A y \in S \cup t : f[y] \in Nat
    BY <1>7
  <2> QED BY <1>7, <2>1, <2>2, SumAdd
<1>10. (S \cup t) \cup {x} = S \cup s /\ t \cup {x} = s
  BY <1>6
<1>11. SumFunctionOnSet(f, t) \in Nat /\ f[x] \in Nat
  BY <1>7, SumType
<1>12. ~ Q(s)
  OBVIOUS
<1>13. SumFunctionOnSet(f, S \cup s) = SumFunctionOnSet(f, S) + SumFunctionOnSet(f, s)
  BY <1>3, <1>7, <1>8, <1>9, <1>10, <1>11
<1> QED BY <1>12, <1>13

(* Summands may be renamed, one to one.                                    *)
LEMMA SumMove ==
    ASSUME NEW f, NEW g, NEW S, NEW T, IsFiniteSet(S), NEW h \in Bijection(S, T),
           \A x \in S : f[x] \in Nat /\ g[h[x]] = f[x]
    PROVE  SumFunctionOnSet(g, T) = SumFunctionOnSet(f, S)
<1> DEFINE Img(s) == {h[x] : x \in s}
           Q(s) == SumFunctionOnSet(g, Img(s)) = SumFunctionOnSet(f, s)
           F == {s \in SUBSET S : ~ Q(s)}
<1>i. /\ \A x, y \in S : h[x] = h[y] => x = y
      /\ T = Img(S)
  BY DEF Bijection, Injection, Surjection, IsInjective
<1> SUFFICES ASSUME F # {} PROVE FALSE
  BY <1>i
<1>1. \A s \in F : IsFiniteSet(s)
  BY FS_Subset
<1>2. PICK s \in F : \A t \in F : t \subseteq s => t = s
  <2> HIDE DEF F
  <2> QED BY <1>1, SmallestSet
<1>4. s # {}
  <2>1. Img({}) = {}
    OBVIOUS
  <2> QED BY <2>1, SumEmpty
<1>5. PICK x \in s : TRUE
  BY <1>4
<1>6. PICK t : t = s \ {x}
  OBVIOUS
<1>7. Q(t) /\ t \subseteq S /\ IsFiniteSet(t) /\ x \in S /\ x \notin t
  BY <1>1, <1>2, <1>6, FS_Subset
<1>8. SumFunctionOnSet(f, t \cup {x}) = SumFunctionOnSet(f, t) + f[x]
  BY <1>7, SumAdd
<1>9. SumFunctionOnSet(g, Img(t) \cup {h[x]}) = SumFunctionOnSet(g, Img(t)) + g[h[x]]
  <2>1. IsFiniteSet(Img(t))
    <3>1. [y \in t |-> h[y]] \in Surjection(t, Img(t))
      BY DEF Surjection
    <3> QED BY <1>7, <3>1, FS_Surjection
  <2>2. h[x] \notin Img(t)
    BY <1>i, <1>7
  <2>3. \A y \in Img(t) : g[y] \in Nat
    BY <1>7
  <2>4. g[h[x]] \in Nat
    BY <1>7
  <2> HIDE DEF Img
  <2> QED BY <2>1, <2>2, <2>3, <2>4, SumAdd
<1>10. Img(t) \cup {h[x]} = Img(s) /\ t \cup {x} = s
  BY <1>6
<1>11. g[h[x]] = f[x]
  BY <1>7
<1>12. ~ Q(s)
  OBVIOUS
<1> QED BY <1>7, <1>8, <1>9, <1>10, <1>11, <1>12

(* A sum of zeros.                                                          *)
LEMMA SumOfZeros ==
    ASSUME NEW f, NEW S, IsFiniteSet(S), \A x \in S : f[x] = 0
    PROVE  SumFunctionOnSet(f, S) = 0
<1> DEFINE F == {s \in SUBSET S : SumFunctionOnSet(f, s) # 0}
<1> SUFFICES ASSUME F # {} PROVE FALSE
  BY DEF F
<1>1. \A s \in F : IsFiniteSet(s)
  BY FS_Subset
<1>2. PICK s \in F : \A t \in F : t \subseteq s => t = s
  <2> HIDE DEF F
  <2> QED BY <1>1, SmallestSet
<1>3. CASE s = {}
  BY <1>3, SumEmpty
<1>4. CASE s # {}
  <2>1. Picked(s) \in s /\ SumFunctionOnSet(f, s) = f[Picked(s)] + SumFunctionOnSet(f, s \ {Picked(s)})
    BY <1>1, <1>4, AnyIn, SumAny
  <2>2. s \ {Picked(s)} \subseteq s /\ s \ {Picked(s)} # s /\ s \ {Picked(s)} \in SUBSET S
    BY <2>1
  <2>3. SumFunctionOnSet(f, s \ {Picked(s)}) = 0
    BY <1>2, <2>2
  <2>4. f[Picked(s)] = 0
    BY <2>1
  <2> QED BY <1>2, <2>1, <2>3, <2>4
<1> QED BY <1>3, <1>4

(* A sum only looks at the values on its set.                              *)
LEMMA SumSame ==
    ASSUME NEW f, NEW g, NEW S, IsFiniteSet(S), \A x \in S : f[x] \in Nat /\ g[x] = f[x]
    PROVE  SumFunctionOnSet(g, S) = SumFunctionOnSet(f, S)
<1> DEFINE h == [x \in S |-> x]
<1>1. h \in Bijection(S, S)
  BY DEF Bijection, Injection, Surjection, IsInjective
<1>2. \A x \in S : f[x] \in Nat /\ g[h[x]] = f[x]
  OBVIOUS
<1> QED BY <1>1, <1>2, SumMove

(* One value changes.                                                      *)
LEMMA SumChange ==
    ASSUME NEW f, NEW g, NEW S, IsFiniteSet(S), \A x \in S : f[x] \in Nat,
           NEW c \in S, g[c] \in Nat, \A x \in S \ {c} : g[x] = f[x]
    PROVE  /\ SumFunctionOnSet(f, S) \in Nat /\ SumFunctionOnSet(g, S) \in Nat
           /\ SumFunctionOnSet(g, S) + f[c] = SumFunctionOnSet(f, S) + g[c]
<1>r. PICK rest : rest = S \ {c}
  OBVIOUS
<1>1. IsFiniteSet(rest) /\ \A x \in rest : f[x] \in Nat /\ g[x] = f[x]
  BY <1>r, FS_RemoveElement
<1>2. SumFunctionOnSet(g, rest) = SumFunctionOnSet(f, rest)
  BY <1>1, SumSame
<1>3. SumFunctionOnSet(f, S) = f[c] + SumFunctionOnSet(f, rest)
  BY <1>r, SumRemove
<1>4. SumFunctionOnSet(g, S) = g[c] + SumFunctionOnSet(g, rest)
  <2>1. \A x \in S : g[x] \in Nat
    BY <1>1, <1>r
  <2> QED BY <1>r, <2>1, SumRemove
<1>5. SumFunctionOnSet(f, rest) \in Nat
  BY <1>1, SumType
<1> QED BY <1>2, <1>3, <1>4, <1>5

(* A sum of naturals is at least each of them.                             *)
LEMMA SumBounds ==
    ASSUME NEW f, NEW S, IsFiniteSet(S), \A x \in S : f[x] \in Nat, NEW c \in S
    PROVE  f[c] <= SumFunctionOnSet(f, S)
<1>1. IsFiniteSet(S \ {c}) /\ \A x \in S \ {c} : f[x] \in Nat
  BY FS_RemoveElement
<1>2. SumFunctionOnSet(f, S \ {c}) \in Nat
  BY <1>1, SumType
<1> QED BY <1>2, SumRemove

(* The sum of a sum.                                                        *)
LEMMA SumOfSums ==
    ASSUME NEW f, NEW g, NEW h, NEW S, IsFiniteSet(S),
           \A x \in S : f[x] \in Nat /\ g[x] \in Nat /\ h[x] = f[x] + g[x]
    PROVE  SumFunctionOnSet(h, S) = SumFunctionOnSet(f, S) + SumFunctionOnSet(g, S)
<1> DEFINE Holds(s) == SumFunctionOnSet(h, s) = SumFunctionOnSet(f, s) + SumFunctionOnSet(g, s)
           F == {s \in SUBSET S : ~ Holds(s)}
<1> SUFFICES ASSUME F # {} PROVE FALSE
  BY DEF F
<1>1. \A s \in F : IsFiniteSet(s)
  BY FS_Subset
<1>2. PICK s \in F : \A t \in F : t \subseteq s => t = s
  <2> HIDE DEF F
  <2> QED BY <1>1, SmallestSet
<1>3. CASE s = {}
  BY <1>3, SumEmpty
<1>4. CASE s # {}
  <2>x. PICK x \in s : x = Picked(s)
    BY <1>4, AnyIn
  <2>r. PICK r : r = s \ {x}
    OBVIOUS
  <2>1. /\ SumFunctionOnSet(f, s) = f[x] + SumFunctionOnSet(f, r)
        /\ SumFunctionOnSet(g, s) = g[x] + SumFunctionOnSet(g, r)
        /\ SumFunctionOnSet(h, s) = h[x] + SumFunctionOnSet(h, r)
    BY <1>1, <1>4, <2>x, <2>r, SumAny
  <2>2. Holds(r)
    BY <1>2, <2>r
  <2>3. IsFiniteSet(r) /\ r \subseteq S /\ x \in S
    BY <1>1, <2>r, FS_Subset
  <2>4. SumFunctionOnSet(f, r) \in Nat /\ SumFunctionOnSet(g, r) \in Nat
    BY <2>3, SumType
  <2>5. h[x] = f[x] + g[x] /\ f[x] \in Nat /\ g[x] \in Nat
    BY <2>3
  <2>6. Holds(s)
    BY <2>1, <2>2, <2>4, <2>5
  <2> QED BY <1>2, <2>6
<1> QED BY <1>3, <1>4
================================================================================
