--------------------------- MODULE EventLogProofs ---------------------------
(***************************************************************************)
(* Facts about the event log and the ring beneath it, for every capacity    *)
(* and every sequence of pushes, and about the folds that models of it use: *)
(* what a sum over a finite set and a fold of pushes compute.               *)
(*                                                                          *)
(* The community modules define a fold by the function that satisfies an    *)
(* equation.  Here the function is shown to exist, by a least number for    *)
(* which there would be none, and everything else follows from its          *)
(* equation.  Every induction below takes that form.                        *)
(***************************************************************************)
EXTENDS EventLog, FiniteSetsExt, SequencesExt, FiniteSetTheorems,
        SequenceTheorems, WellFoundedInduction, TLAPS
-----------------------------------------------------------------------------
(***************************************************************************)
(* A set of natural numbers that is not empty has a least one.              *)
(***************************************************************************)
Less == {ss \in Nat \X Nat : ss[1] < ss[2]}

LEMMA LessWF == IsWellFoundedOn(Less, Nat)
<1>1. OpToRel(<, Nat) = Less
    BY DEF OpToRel, Less
<1> QED BY <1>1, NatLessThanWellFounded

LEMMA LeastNumber ==
    ASSUME NEW T, T \subseteq Nat, T # {}
    PROVE  \E n \in T : \A m \in T : n <= m
<1>1. \E x \in T : \A y \in T : ~(<<y, x>> \in Less)
    BY LessWF, WFMin
<1>2. \A x, y \in Nat : <<y, x>> \notin Less => x <= y
    BY DEF Less
<1> QED BY <1>1, <1>2
-----------------------------------------------------------------------------
(***************************************************************************)
(* Sums.  SumFunctionOnSet(v, D) is g[D] for the g that takes away one      *)
(* element of a set after another.                                          *)
(***************************************************************************)
Some(s) == CHOOSE x \in s : TRUE
Adds(g, v, D) ==
    g = [s \in SUBSET D |-> IF s = {} THEN 0 ELSE v[Some(s)] + g[s \ {Some(s)}]]

LEMMA SumIsChosen ==
    ASSUME NEW v, NEW D
    PROVE  SumFunctionOnSet(v, D) = (CHOOSE g : Adds(g, v, D))[D]
BY DEF SumFunctionOnSet, FoldFunctionOnSet, MapThenFoldSet, Adds, Some

\* The equation on the subsets of at most n elements only.
AddsUpTo(g, v, D, n) ==
    \A s \in SUBSET D :
        Cardinality(s) <= n =>
            g[s] = IF s = {} THEN 0 ELSE v[Some(s)] + g[s \ {Some(s)}]

LEMMA SomeOf ==
    ASSUME NEW s, IsFiniteSet(s), s # {}
    PROVE  /\ Some(s) \in s
           /\ IsFiniteSet(s \ {Some(s)})
           /\ Cardinality(s) \in Nat /\ Cardinality(s) >= 1
           /\ Cardinality(s \ {Some(s)}) = Cardinality(s) - 1
<1>1. Some(s) \in s
    BY DEF Some
<1> HIDE DEF Some
<1>2. Cardinality(s) \in Nat /\ Cardinality(s) # 0
    BY FS_EmptySet, FS_CardinalityType
<1> QED BY <1>1, <1>2, FS_RemoveElement

LEMMA SumsUpTo ==
    ASSUME NEW v, NEW D, IsFiniteSet(D), NEW n \in Nat
    PROVE  \E g : DOMAIN g = SUBSET D /\ AddsUpTo(g, v, D, n)
<1> DEFINE None(k) == ~\E g : DOMAIN g = SUBSET D /\ AddsUpTo(g, v, D, k)
           T == {k \in Nat : None(k)}
<1> SUFFICES ASSUME T # {}
             PROVE  FALSE
    OBVIOUS
<1>1. PICK k \in T : \A m \in T : k <= m
    BY LeastNumber
<1>a. \A s \in SUBSET D : IsFiniteSet(s) /\ Cardinality(s) \in Nat
    BY FS_Subset, FS_CardinalityType
<1>2. CASE k = 0
    <2> DEFINE g == [s \in SUBSET D |-> 0]
    <2>1. \A s \in SUBSET D : Cardinality(s) <= 0 => s = {}
        BY <1>a, FS_EmptySet
    <2>2. AddsUpTo(g, v, D, 0)
        BY <2>1 DEF AddsUpTo
    <2> QED BY <1>2, <2>2
<1>3. CASE k # 0
    <2> HIDE DEF T
    <2>0. k \in Nat
        BY <1>1 DEF T
    <2>1. k - 1 \in Nat /\ k - 1 \notin T
        BY <1>1, <1>3, <2>0
    <2>2. PICK g : DOMAIN g = SUBSET D /\ AddsUpTo(g, v, D, k - 1)
        BY <2>1 DEF T
    <2> DEFINE h == [s \in SUBSET D |->
                        IF Cardinality(s) <= k - 1 THEN g[s]
                        ELSE v[Some(s)] + g[s \ {Some(s)}]]
    <2>3. ASSUME NEW s \in SUBSET D, Cardinality(s) <= k
          PROVE  h[s] = IF s = {} THEN 0 ELSE v[Some(s)] + h[s \ {Some(s)}]
        <3>1. CASE s = {}
            <4>1. Cardinality(s) <= k - 1
                BY <3>1, <2>1, FS_EmptySet
            <4> QED BY <4>1, <3>1, <2>2 DEF AddsUpTo
        <3>2. CASE s # {}
            <4>1. /\ Some(s) \in s /\ Cardinality(s) \in Nat
                  /\ Cardinality(s \ {Some(s)}) = Cardinality(s) - 1
                BY <3>2, <1>a, SomeOf
            <4> DEFINE r == s \ {Some(s)}
            <4>2. r \in SUBSET D
                OBVIOUS
            <4> HIDE DEF r
            <4>3. Cardinality(r) <= k - 1
                BY <4>1, <2>3, <2>0 DEF r
            <4>4. h[r] = g[r]
                BY <4>2, <4>3
            <4>5. CASE Cardinality(s) <= k - 1
                BY <4>5, <4>4, <3>2, <2>2 DEF AddsUpTo, r
            <4>6. CASE ~(Cardinality(s) <= k - 1)
                BY <4>6, <4>4, <3>2 DEF r
            <4> QED BY <4>5, <4>6
        <3> QED BY <3>1, <3>2
    <2> HIDE DEF h
    <2>4. AddsUpTo(h, v, D, k)
        BY <2>3 DEF AddsUpTo
    <2>5. DOMAIN h = SUBSET D
        BY DEF h
    <2> QED BY <1>1, <2>4, <2>5 DEF T
<1> QED BY <1>2, <1>3

LEMMA SumsExist ==
    ASSUME NEW v, NEW D, IsFiniteSet(D)
    PROVE  \E g : Adds(g, v, D)
<1>1. Cardinality(D) \in Nat
    BY FS_CardinalityType
<1>2. PICK g : DOMAIN g = SUBSET D /\ AddsUpTo(g, v, D, Cardinality(D))
    BY <1>1, SumsUpTo
<1>3. \A s \in SUBSET D : Cardinality(s) <= Cardinality(D)
    BY FS_Subset
<1> DEFINE h == [s \in SUBSET D |-> g[s]]
<1>4. \A s \in SUBSET D :
        h[s] = IF s = {} THEN 0 ELSE v[Some(s)] + h[s \ {Some(s)}]
    BY <1>2, <1>3 DEF AddsUpTo
<1>5. DOMAIN h = SUBSET D
    OBVIOUS
<1>6. h = [s \in SUBSET D |-> h[s]]
    BY <1>5
<1>7. Adds(h, v, D)
    BY <1>4 DEF Adds
<1> QED BY <1>7

(***************************************************************************)
(* The sum of v over a set is one of its summands plus the sum of the rest. *)
(***************************************************************************)
LEMMA SumRemoves ==
    ASSUME NEW v, NEW D, IsFiniteSet(D), NEW g, Adds(g, v, D),
           \A x \in D : v[x] \in Int, NEW n \in Nat
    PROVE  \A s \in SUBSET D : Cardinality(s) <= n =>
                /\ g[s] \in Int
                /\ \A x \in s : g[s] = v[x] + g[s \ {x}]
<1> DEFINE Good(k) == \A s \in SUBSET D : Cardinality(s) <= k =>
                        /\ g[s] \in Int
                        /\ \A x \in s : g[s] = v[x] + g[s \ {x}]
           T == {k \in Nat : ~Good(k)}
<1> SUFFICES ASSUME T # {}
             PROVE  FALSE
    OBVIOUS
<1>1. PICK k \in T : \A m \in T : k <= m
    BY LeastNumber
<1>a. \A s \in SUBSET D : IsFiniteSet(s) /\ Cardinality(s) \in Nat
    BY FS_Subset, FS_CardinalityType
<1>b. g[{}] = 0
    BY DEF Adds
<1>c. \A s \in SUBSET D : s # {} => g[s] = v[Some(s)] + g[s \ {Some(s)}]
    BY DEF Adds
<1>d. k \in Nat /\ ~Good(k)
    BY <1>1
<1>2. PICK s \in SUBSET D : /\ Cardinality(s) <= k
                            /\ ~ /\ g[s] \in Int
                                 /\ \A x \in s : g[s] = v[x] + g[s \ {x}]
    BY <1>d
<1>3. s # {}
    BY <1>2, <1>b
<1> DEFINE c == Some(s)
           r == s \ {c}
<1>4. /\ c \in s /\ r \in SUBSET D /\ Cardinality(s) \in Nat /\ Cardinality(s) >= 1
      /\ Cardinality(r) = Cardinality(s) - 1
    BY <1>a, <1>3, SomeOf
<1>5. g[s] = v[c] + g[r]
    BY <1>c, <1>3
<1>6. k - 1 \in Nat /\ Good(k - 1)
    <2>1. k - 1 \in Nat
        BY <1>d, <1>2, <1>4
    <2> HIDE DEF Good
    <2> QED BY <1>1, <1>d, <2>1
<1> HIDE DEF c, r
<1>7. g[r] \in Int /\ \A x \in r : g[r] = v[x] + g[r \ {x}]
    BY <1>2, <1>4, <1>6
<1>8. ASSUME NEW x \in s
      PROVE  g[s] = v[x] + g[s \ {x}]
    <2>1. CASE x = c
        BY <2>1, <1>5 DEF r
    <2>2. CASE x # c
        <3> DEFINE q == s \ {x}
        <3>1. /\ q \in SUBSET D /\ c \in q /\ x \in r /\ q \ {c} = r \ {x}
            BY <2>2, <1>4 DEF r
        <3>2. Cardinality(q) = Cardinality(s) - 1
            BY <1>a, FS_RemoveElement
        <3> HIDE DEF q
        <3>3. g[q] = v[c] + g[q \ {c}]
            BY <3>1, <3>2, <1>2, <1>4, <1>6
        <3>4. g[r] = v[x] + g[r \ {x}]
            BY <3>1, <1>7
        <3>5. r \ {x} \in SUBSET D /\ Cardinality(r \ {x}) <= k - 1
            <4>1. Cardinality(r \ {x}) = Cardinality(r) - 1
                BY <1>a, <1>4, <3>1, FS_RemoveElement
            <4>2. Cardinality(r) \in Nat /\ Cardinality(r) <= k - 1
                BY <1>4, <1>2, <1>a, <1>d
            <4> QED BY <4>1, <4>2, <1>4, <1>d
        <3>6. g[r \ {x}] \in Int /\ v[x] \in Int /\ v[c] \in Int
            BY <3>5, <1>6, <1>4
        <3>7. g[q] = v[c] + g[r \ {x}]
            BY <3>1, <3>3
        <3>8. g[s] = v[c] + (v[x] + g[r \ {x}])
            BY <3>4, <1>5
        <3>9. g[s] = v[x] + g[q]
            BY <3>6, <3>7, <3>8
        <3> QED BY <3>9 DEF q
    <2> QED BY <2>1, <2>2
<1>9. g[s] \in Int
    BY <1>4, <1>5, <1>7
<1> QED BY <1>2, <1>8, <1>9

LEMMA Sums ==
    ASSUME NEW v, NEW D, IsFiniteSet(D)
    PROVE  \E g : Adds(g, v, D) /\ SumFunctionOnSet(v, D) = g[D]
<1> DEFINE g == CHOOSE f : Adds(f, v, D)
<1>1. Adds(g, v, D)
    BY SumsExist
<1>2. SumFunctionOnSet(v, D) = g[D]
    BY SumIsChosen
<1> HIDE DEF g
<1> QED BY <1>1, <1>2

(***************************************************************************)
(* What is summed depends on the summands only.                             *)
(***************************************************************************)
LEMMA SumsAgree ==
    ASSUME NEW v, NEW D, IsFiniteSet(D), NEW g, Adds(g, v, D),
           NEW w, NEW E, NEW h, Adds(h, w, E), NEW n \in Nat
    PROVE  \A s \in SUBSET D :
             (/\ Cardinality(s) <= n /\ s \subseteq E
              /\ \A x \in s : v[x] = w[x]) => g[s] = h[s]
<1> DEFINE Good(k) == \A s \in SUBSET D :
             (/\ Cardinality(s) <= k /\ s \subseteq E
              /\ \A x \in s : v[x] = w[x]) => g[s] = h[s]
           T == {k \in Nat : ~Good(k)}
<1> SUFFICES ASSUME T # {}
             PROVE  FALSE
    OBVIOUS
<1>1. PICK k \in T : \A m \in T : k <= m
    BY LeastNumber
<1>d. k \in Nat /\ ~Good(k)
    BY <1>1
<1>a. \A s \in SUBSET D : IsFiniteSet(s) /\ Cardinality(s) \in Nat
    BY FS_Subset, FS_CardinalityType
<1>2. PICK s \in SUBSET D : /\ Cardinality(s) <= k /\ s \subseteq E
                            /\ \A x \in s : v[x] = w[x]
                            /\ g[s] # h[s]
    BY <1>d
<1> HIDE DEF T
<1>b. g[{}] = 0 /\ h[{}] = 0
    BY DEF Adds
<1>3. s # {}
    <2>1. g[s] # h[s]
        BY <1>2
    <2> QED BY <2>1, <1>b
<1> DEFINE c == Some(s)
           r == s \ {c}
<1>4. /\ c \in s /\ r \in SUBSET D /\ Cardinality(s) \in Nat /\ Cardinality(s) >= 1
      /\ Cardinality(r) = Cardinality(s) - 1
    BY <1>a, <1>3, SomeOf
<1>5. g[s] = v[c] + g[r]
    BY <1>3 DEF Adds
<1>6. h[s] = w[c] + h[r]
    BY <1>2, <1>3 DEF Adds
<1>7. k - 1 \in Nat /\ Good(k - 1)
    <2>1. k - 1 \in Nat
        BY <1>d, <1>2, <1>4
    <2> HIDE DEF Good
    <2> QED BY <1>1, <1>d, <2>1 DEF T
<1>8. r \subseteq s
    OBVIOUS
<1> HIDE DEF c, r
<1>9. Cardinality(r) <= k - 1
    BY <1>2, <1>4, <1>d
<1>10. g[r] = h[r]
    BY <1>2, <1>4, <1>7, <1>8, <1>9
<1> QED BY <1>2, <1>4, <1>5, <1>6, <1>10

LEMMA SumOfSame ==
    ASSUME NEW S, IsFiniteSet(S), NEW v, NEW w, \A x \in S : v[x] = w[x]
    PROVE  SumFunctionOnSet(v, S) = SumFunctionOnSet(w, S)
<1>1. PICK g : Adds(g, v, S) /\ SumFunctionOnSet(v, S) = g[S]
    BY Sums
<1>2. PICK h : Adds(h, w, S) /\ SumFunctionOnSet(w, S) = h[S]
    BY Sums
<1>3. Cardinality(S) \in Nat /\ S \in SUBSET S
    BY FS_CardinalityType
<1>4. g[S] = h[S]
    BY <1>1, <1>2, <1>3, SumsAgree
<1> QED BY <1>1, <1>2, <1>4

LEMMA SumOfNone ==
    ASSUME NEW v
    PROVE  SumFunctionOnSet(v, {}) = 0
<1>1. PICK g : Adds(g, v, {}) /\ SumFunctionOnSet(v, {}) = g[{}]
    BY Sums, FS_EmptySet
<1> QED BY <1>1 DEF Adds

LEMMA SumLessOne ==
    ASSUME NEW S, IsFiniteSet(S), NEW v, \A y \in S : v[y] \in Int, NEW x \in S
    PROVE  /\ SumFunctionOnSet(v, S) \in Int
           /\ SumFunctionOnSet(v, S) = v[x] + SumFunctionOnSet(v, S \ {x})
<1>1. PICK g : Adds(g, v, S) /\ SumFunctionOnSet(v, S) = g[S]
    BY Sums
<1>2. IsFiniteSet(S \ {x})
    BY FS_RemoveElement
<1>3. PICK h : Adds(h, v, S \ {x}) /\ SumFunctionOnSet(v, S \ {x}) = h[S \ {x}]
    BY <1>2, Sums
<1>4. Cardinality(S) \in Nat /\ S \in SUBSET S
    BY FS_CardinalityType
<1>5. g[S] \in Int /\ g[S] = v[x] + g[S \ {x}]
    BY <1>1, <1>4, SumRemoves
<1> DEFINE r == S \ {x}
<1>6. Cardinality(r) \in Nat /\ r \in SUBSET r /\ r \subseteq S /\ x \notin r
    BY <1>2, FS_CardinalityType
<1>7. g[r] = h[r]
    <2> DEFINE q == S \ {x}
    <2>1. \A y \in r : v[y] = v[y]
        OBVIOUS
    <2> HIDE DEF r
    <2>2. \A s \in SUBSET S :
             (/\ Cardinality(s) <= Cardinality(r) /\ s \subseteq r
              /\ \A y \in s : v[y] = v[y]) => g[s] = h[s]
        <3>1. Adds(h, v, r)
            BY <1>3 DEF r
        <3> QED BY <1>1, <3>1, <1>6, SumsAgree
    <2> QED BY <1>6, <2>2
<1> QED BY <1>1, <1>3, <1>5, <1>7

LEMMA SumIsInt ==
    ASSUME NEW S, IsFiniteSet(S), NEW v, \A y \in S : v[y] \in Int
    PROVE  SumFunctionOnSet(v, S) \in Int
<1>1. CASE S = {}
    BY <1>1, SumOfNone
<1>2. CASE S # {}
    BY <1>2, SumLessOne
<1> QED BY <1>1, <1>2

LEMMA SumOfNats ==
    ASSUME NEW S, IsFiniteSet(S), NEW v, \A y \in S : v[y] \in Nat
    PROVE  SumFunctionOnSet(v, S) \in Nat
<1> DEFINE Bad(U) == SumFunctionOnSet(v, U) \notin Nat
           T == {k \in Nat : \E U \in SUBSET S : Cardinality(U) = k /\ Bad(U)}
<1>1. Cardinality(S) \in Nat
    BY FS_CardinalityType
<1>2. T = {}
    <2> SUFFICES ASSUME T # {}
                 PROVE  FALSE
        OBVIOUS
    <2>1. PICK k \in T : \A j \in T : k <= j
        BY LeastNumber
    <2>2. PICK U \in SUBSET S : Cardinality(U) = k /\ Bad(U)
        BY <2>1
    <2>3. IsFiniteSet(U) /\ k \in Nat
        BY <2>1, FS_Subset
    <2>4. U # {}
        <3>1. 0 \in Nat
            OBVIOUS
        <3> QED BY <2>2, <3>1, SumOfNone
    <2>5. PICK x \in U : TRUE
        BY <2>4
    <2>6. SumFunctionOnSet(v, U) = v[x] + SumFunctionOnSet(v, U \ {x})
        <3>1. \A y \in U : v[y] \in Int
            OBVIOUS
        <3> QED BY <2>3, <3>1, SumLessOne
    <2>7. Cardinality(U \ {x}) = k - 1
        BY <2>2, <2>3, FS_RemoveElement
    <2>8. k - 1 \in Nat /\ k - 1 < k
        <3>1. k # 0
            BY <2>2, <2>3, <2>4, FS_EmptySet
        <3> QED BY <2>3, <3>1
    <2>9. SumFunctionOnSet(v, U \ {x}) \in Nat
        <3>1. k - 1 \notin T
            BY <2>1, <2>3, <2>8
        <3>2. U \ {x} \in SUBSET S
            OBVIOUS
        <3> QED BY <2>7, <2>8, <3>1, <3>2
    <2>10. v[x] \in Nat
        OBVIOUS
    <2> QED BY <2>2, <2>6, <2>9, <2>10
<1> QED BY <1>1, <1>2

LEMMA SumOneMore ==
    ASSUME NEW S, IsFiniteSet(S), NEW v, NEW x, x \notin S,
           \A y \in S \union {x} : v[y] \in Int
    PROVE  SumFunctionOnSet(v, S \union {x}) = v[x] + SumFunctionOnSet(v, S)
<1> DEFINE U == S \union {x}
<1>1. IsFiniteSet(U) /\ x \in U /\ U \ {x} = S
    BY FS_AddElement
<1> HIDE DEF U
<1>2. SumFunctionOnSet(v, U) = v[x] + SumFunctionOnSet(v, U \ {x})
    BY <1>1, SumLessOne DEF U
<1> QED BY <1>1, <1>2 DEF U
-----------------------------------------------------------------------------
(***************************************************************************)
(* Sums that change, and what the items of a sequence weigh together.       *)
(***************************************************************************)
LEMMA SumChangedAt ==
    ASSUME NEW S, IsFiniteSet(S), NEW v, NEW u, \A y \in S : v[y] \in Int /\ u[y] \in Int,
           NEW x \in S, \A y \in S \ {x} : v[y] = u[y]
    PROVE  /\ SumFunctionOnSet(v, S) \in Int
           /\ SumFunctionOnSet(u, S) = SumFunctionOnSet(v, S) + (u[x] - v[x])
<1>1. IsFiniteSet(S \ {x})
    BY FS_Subset
<1>2. SumFunctionOnSet(v, S \ {x}) = SumFunctionOnSet(u, S \ {x})
    BY <1>1, SumOfSame
<1>3. SumFunctionOnSet(v, S) = v[x] + SumFunctionOnSet(v, S \ {x})
    BY SumLessOne
<1>4. SumFunctionOnSet(u, S) = u[x] + SumFunctionOnSet(u, S \ {x})
    BY SumLessOne
<1>5. SumFunctionOnSet(v, S \ {x}) \in Int
    BY <1>1, SumIsInt
<1> DEFINE a == SumFunctionOnSet(v, S \ {x})
           b == SumFunctionOnSet(v, S)
           c == SumFunctionOnSet(u, S)
<1>6. b = v[x] + a /\ c = u[x] + a /\ a \in Int /\ v[x] \in Int /\ u[x] \in Int
    BY <1>2, <1>3, <1>4, <1>5
<1> HIDE DEF a, b, c
<1>7. b \in Int /\ c = b + (u[x] - v[x])
    BY <1>6
<1> QED BY <1>7 DEF b, c

LEMMA SumOfZeros ==
    ASSUME NEW S, IsFiniteSet(S), NEW v, \A y \in S : v[y] = 0
    PROVE  SumFunctionOnSet(v, S) = 0
<1> DEFINE T == {k \in Nat : \E U \in SUBSET S : Cardinality(U) = k
                                               /\ SumFunctionOnSet(v, U) # 0}
<1> SUFFICES ASSUME T # {}
             PROVE  FALSE
    <2>1. Cardinality(S) \in Nat
        BY FS_CardinalityType
    <2> QED BY <2>1
<1>1. PICK k \in T : \A m \in T : k <= m
    BY LeastNumber
<1>2. PICK U \in SUBSET S : Cardinality(U) = k /\ SumFunctionOnSet(v, U) # 0
    OBVIOUS
<1>3. IsFiniteSet(U)
    BY FS_Subset
<1>4. U # {}
    BY <1>2, SumOfNone
<1>5. PICK x \in U : TRUE
    BY <1>4
<1>6. /\ IsFiniteSet(U \ {x}) /\ Cardinality(U \ {x}) = Cardinality(U) - 1
      /\ Cardinality(U) \in Nat /\ Cardinality(U \ {x}) \in Nat
    BY <1>3, <1>5, FS_RemoveElement, FS_CardinalityType
<1>7. SumFunctionOnSet(v, U) = v[x] + SumFunctionOnSet(v, U \ {x})
      /\ SumFunctionOnSet(v, U \ {x}) \in Int
    <2>1. \A y \in U : v[y] \in Int
        OBVIOUS
    <2> QED BY <1>3, <1>6, <2>1, SumLessOne, SumIsInt
<1>8. v[x] = 0
    OBVIOUS
<1>9. SumFunctionOnSet(v, U \ {x}) # 0
    BY <1>2, <1>7, <1>8
<1>10. k - 1 \in T
    <2>1. Cardinality(U \ {x}) = k - 1 /\ k - 1 \in Nat
        BY <1>2, <1>6
    <2> QED BY <1>9, <2>1
<1>11. k \in Nat /\ k <= k - 1
    BY <1>1, <1>10
<1> QED BY <1>11

(* Each number of B is one more. *)
Raised(r, B) == [w \in DOMAIN r |-> IF w \in B THEN r[w] + 1 ELSE r[w]]

LEMMA SumRaised ==
    ASSUME NEW S, IsFiniteSet(S), NEW r \in [S -> Int], NEW B \in SUBSET S
    PROVE  /\ SumFunctionOnSet(r, S) \in Int /\ Cardinality(B) \in Nat
           /\ SumFunctionOnSet(Raised(r, B), S) = SumFunctionOnSet(r, S) + Cardinality(B)
<1> DEFINE total == SumFunctionOnSet(r, S)
           Wrong(U) == SumFunctionOnSet(Raised(r, U), S) # total + Cardinality(U)
           T == {k \in Nat : \E U \in SUBSET S : Cardinality(U) = k /\ Wrong(U)}
<1>a. total \in Int
    BY SumIsInt
<1>b. \A U \in SUBSET S : IsFiniteSet(U) /\ Cardinality(U) \in Nat
    BY FS_Subset, FS_CardinalityType
<1>c. \A U \in SUBSET S : /\ DOMAIN Raised(r, U) = S
                          /\ \A w \in S : Raised(r, U)[w] = IF w \in U THEN r[w] + 1 ELSE r[w]
                          /\ \A w \in S : Raised(r, U)[w] \in Int
    BY DEF Raised
<1> SUFFICES ASSUME T # {}
             PROVE  FALSE
    BY <1>a, <1>b
<1>1. PICK k \in T : \A m \in T : k <= m
    BY LeastNumber
<1>2. PICK U \in SUBSET S : Cardinality(U) = k /\ Wrong(U)
    OBVIOUS
<1>3. U # {}
    <2> SUFFICES ASSUME U = {}
                 PROVE  FALSE
        OBVIOUS
    <2>1. \A w \in S : Raised(r, U)[w] = r[w]
        BY <1>c
    <2>2. SumFunctionOnSet(Raised(r, U), S) = total
        BY <2>1, SumOfSame
    <2>3. Cardinality(U) = 0
        BY FS_EmptySet
    <2> HIDE DEF total
    <2> QED BY <1>2, <1>a, <2>2, <2>3
<1>4. PICK x \in U : TRUE
    BY <1>3
<1> DEFINE V == U \ {x}
<1>5. /\ V \in SUBSET S /\ Cardinality(V) = Cardinality(U) - 1
      /\ Cardinality(U) \in Nat /\ Cardinality(V) \in Nat /\ x \in S
    BY <1>4, <1>b, FS_RemoveElement
<1>6. /\ \A w \in S \ {x} : Raised(r, V)[w] = Raised(r, U)[w]
      /\ Raised(r, U)[x] - Raised(r, V)[x] = 1
    BY <1>4, <1>5, <1>c
<1>7. /\ SumFunctionOnSet(Raised(r, V), S) \in Int
      /\ SumFunctionOnSet(Raised(r, U), S)
           = SumFunctionOnSet(Raised(r, V), S) + (Raised(r, U)[x] - Raised(r, V)[x])
    <2> HIDE DEF V
    <2>1. \A w \in S : Raised(r, V)[w] \in Int /\ Raised(r, U)[w] \in Int
        BY <1>5, <1>c
    <2> QED BY <1>5, <1>6, <2>1, SumChangedAt
<1>8. Wrong(V)
    <2> DEFINE a == SumFunctionOnSet(Raised(r, V), S)
               b == SumFunctionOnSet(Raised(r, U), S)
               d == Raised(r, U)[x] - Raised(r, V)[x]
    <2>1. a \in Int /\ b = a + d /\ d = 1 /\ b # total + Cardinality(U)
          /\ Cardinality(V) = Cardinality(U) - 1 /\ Cardinality(U) \in Nat
        BY <1>2, <1>5, <1>6, <1>7
    <2> HIDE DEF a, b, d, total, V
    <2>2. a # total + Cardinality(V)
        BY <1>a, <2>1
    <2> QED BY <2>2 DEF a, total
<1>9. k - 1 \in T
    <2>1. Cardinality(V) = k - 1 /\ k - 1 \in Nat
        BY <1>2, <1>5
    <2> HIDE DEF V, Wrong
    <2> QED BY <1>5, <1>8, <2>1
<1>10. k \in Nat /\ k <= k - 1
    BY <1>1, <1>9
<1> QED BY <1>10

(* What the items of s weigh together. *)
Weights(s, wt) == [i \in DOMAIN s |-> wt[s[i]]]
Total(s, wt) == SumFunctionOnSet(Weights(s, wt), DOMAIN s)

LEMMA WeightsAt ==
    ASSUME NEW L, NEW wt \in [L -> Int], NEW s \in Seq(L)
    PROVE  /\ DOMAIN s = 1..Len(s) /\ Len(s) \in Nat /\ IsFiniteSet(1..Len(s))
           /\ \A i \in 1..Len(s) : Weights(s, wt)[i] = wt[s[i]] /\ Weights(s, wt)[i] \in Int
           /\ Total(s, wt) = SumFunctionOnSet(Weights(s, wt), 1..Len(s))
           /\ Total(s, wt) \in Int
<1>1. DOMAIN s = 1..Len(s) /\ Len(s) \in Nat /\ \A i \in 1..Len(s) : s[i] \in L
    BY LenProperties, ElementOfSeq
<1>2. IsFiniteSet(1..Len(s))
    BY <1>1, FS_Interval
<1>3. \A i \in 1..Len(s) : Weights(s, wt)[i] = wt[s[i]] /\ Weights(s, wt)[i] \in Int
    BY <1>1 DEF Weights
<1>4. Total(s, wt) = SumFunctionOnSet(Weights(s, wt), 1..Len(s))
    BY <1>1 DEF Total
<1>5. SumFunctionOnSet(Weights(s, wt), 1..Len(s)) \in Int
    BY <1>2, <1>3, SumIsInt
<1> QED BY <1>1, <1>2, <1>3, <1>4, <1>5

LEMMA TotalOfNone ==
    ASSUME NEW wt
    PROVE  Total(<<>>, wt) = 0
<1>1. DOMAIN <<>> = {}
    OBVIOUS
<1> QED BY <1>1, SumOfNone DEF Total

LEMMA TotalOfZeros ==
    ASSUME NEW L, NEW wt \in [L -> Int], NEW s \in Seq(L), \A i \in 1..Len(s) : wt[s[i]] = 0
    PROVE  Total(s, wt) = 0
<1>1. \A i \in 1..Len(s) : Weights(s, wt)[i] = 0
    BY WeightsAt
<1>2. IsFiniteSet(1..Len(s)) /\ Total(s, wt) = SumFunctionOnSet(Weights(s, wt), 1..Len(s))
    BY WeightsAt
<1> QED BY <1>1, <1>2, SumOfZeros

LEMMA TotalOfAppend ==
    ASSUME NEW L, NEW wt \in [L -> Int], NEW s \in Seq(L), NEW x \in L
    PROVE  Total(Append(s, x), wt) = Total(s, wt) + wt[x]
<1> DEFINE t == Append(s, x)
           n == Len(s)
           u == Weights(t, wt)
           v == Weights(s, wt)
<1>1. /\ t \in Seq(L) /\ Len(t) = n + 1 /\ n \in Nat
      /\ \A i \in 1..n : t[i] = s[i]
      /\ t[n + 1] = x
    BY AppendProperties, LenProperties
<1> HIDE DEF t
<1>2. /\ \A i \in 1..Len(t) : u[i] = wt[t[i]] /\ u[i] \in Int
      /\ Total(t, wt) = SumFunctionOnSet(u, 1..Len(t))
    BY <1>1, WeightsAt
<1>3. /\ \A i \in 1..n : v[i] = wt[s[i]] /\ v[i] \in Int
      /\ Total(s, wt) = SumFunctionOnSet(v, 1..n) /\ IsFiniteSet(1..n)
      /\ Total(s, wt) \in Int
    BY WeightsAt
<1> HIDE DEF u, v, n
<1>4. 1..Len(t) = (1..n) \union {n + 1} /\ n + 1 \notin 1..n
    BY <1>1
<1>5. SumFunctionOnSet(u, (1..n) \union {n + 1}) = u[n + 1] + SumFunctionOnSet(u, 1..n)
    <2>1. \A i \in (1..n) \union {n + 1} : u[i] \in Int
        BY <1>1, <1>2
    <2> QED BY <1>3, <1>4, <2>1, SumOneMore
<1>6. SumFunctionOnSet(u, 1..n) = SumFunctionOnSet(v, 1..n)
    <2>1. ASSUME NEW i \in 1..n
          PROVE  u[i] = v[i]
        <3>1. i \in 1..Len(t)
            BY <1>4
        <3>2. u[i] = wt[t[i]] /\ v[i] = wt[s[i]] /\ t[i] = s[i]
            BY <1>1, <1>2, <1>3, <3>1
        <3> QED BY <3>2
    <2> QED BY <1>3, <2>1, SumOfSame
<1>7. u[n + 1] = wt[x] /\ wt[x] \in Int
    BY <1>1, <1>2
<1>8. Total(t, wt) = wt[x] + Total(s, wt)
    BY <1>2, <1>3, <1>4, <1>5, <1>6, <1>7
<1>9. Total(t, wt) = Total(s, wt) + wt[x]
    BY <1>3, <1>7, <1>8
<1> QED BY <1>9 DEF t

LEMMA TotalOfReplaced ==
    ASSUME NEW L, NEW wt \in [L -> Int], NEW s \in Seq(L), NEW x \in L, s # <<>>
    PROVE  Total([s EXCEPT ![Len(s)] = x], wt) = Total(s, wt) + (wt[x] - wt[s[Len(s)]])
<1> DEFINE n == Len(s)
           t == [s EXCEPT ![n] = x]
           u == Weights(t, wt)
           v == Weights(s, wt)
<1>1. n \in Nat /\ n # 0 /\ n \in 1..n
    <2>1. n \in Nat /\ n # 0
        BY EmptySeq, LenProperties
    <2> QED BY <2>1
<1>2. /\ t \in Seq(L) /\ Len(t) = n
      /\ \A i \in 1..n : t[i] = IF i = n THEN x ELSE s[i]
    BY <1>1, ExceptSeq
<1> HIDE DEF t
<1>3. /\ \A i \in 1..n : u[i] = wt[t[i]] /\ u[i] \in Int
      /\ Total(t, wt) = SumFunctionOnSet(u, 1..n)
    BY <1>2, WeightsAt
<1>4. /\ \A i \in 1..n : v[i] = wt[s[i]] /\ v[i] \in Int
      /\ Total(s, wt) = SumFunctionOnSet(v, 1..n) /\ IsFiniteSet(1..n)
    BY WeightsAt
<1> HIDE DEF u, v, n
<1>5. \A i \in (1..n) \ {n} : v[i] = u[i]
    BY <1>2, <1>3, <1>4
<1>6. SumFunctionOnSet(u, 1..n) = SumFunctionOnSet(v, 1..n) + (u[n] - v[n])
    <2>1. IsFiniteSet(1..n) /\ n \in 1..n /\ \A i \in 1..n : v[i] \in Int /\ u[i] \in Int
        BY <1>1, <1>3, <1>4
    <2> DEFINE S == 1..n
    <2>2. IsFiniteSet(S) /\ n \in S /\ (\A i \in S : v[i] \in Int /\ u[i] \in Int)
          /\ \A i \in S \ {n} : v[i] = u[i]
        BY <1>5, <2>1
    <2> HIDE DEF S
    <2>3. SumFunctionOnSet(u, S) = SumFunctionOnSet(v, S) + (u[n] - v[n])
        BY <2>2, SumChangedAt
    <2> QED BY <2>3 DEF S
<1>7. u[n] = wt[x] /\ v[n] = wt[s[n]]
    BY <1>1, <1>2, <1>3, <1>4
<1> QED BY <1>3, <1>4, <1>6, <1>7 DEF t, n

LEMMA TotalOfConcat ==
    ASSUME NEW L, NEW wt \in [L -> Int], NEW s \in Seq(L), NEW t \in Seq(L)
    PROVE  Total(s \o t, wt) = Total(s, wt) + Total(t, wt)
<1> DEFINE m == Len(s)
           n == Len(t)
           w == s \o t
           a == Weights(s, wt)
           b == Weights(t, wt)
           c == Weights(w, wt)
<1>1. /\ w \in Seq(L) /\ Len(w) = m + n /\ m \in Nat /\ n \in Nat
      /\ \A i \in 1..m + n : w[i] = IF i <= m THEN s[i] ELSE t[i - m]
    BY ConcatProperties, LenProperties
<1> HIDE DEF w
<1>2. /\ \A i \in 1..m : a[i] = wt[s[i]] /\ a[i] \in Int
      /\ Total(s, wt) = SumFunctionOnSet(a, 1..m) /\ IsFiniteSet(1..m)
      /\ Total(s, wt) \in Int
    BY WeightsAt
<1>3. /\ \A i \in 1..n : b[i] = wt[t[i]] /\ b[i] \in Int
      /\ Total(t, wt) = SumFunctionOnSet(b, 1..n)
    BY WeightsAt
<1>4. /\ \A i \in 1..Len(w) : c[i] = wt[w[i]] /\ c[i] \in Int
      /\ Total(w, wt) = SumFunctionOnSet(c, 1..Len(w))
    BY <1>1, WeightsAt
<1> HIDE DEF a, b, c, m, n
<1>5. \A i \in 1..m : c[i] = a[i]
    <2>1. ASSUME NEW i \in 1..m
          PROVE  c[i] = a[i]
        <3>1. i \in 1..m + n /\ i <= m
            BY <1>1
        <3>2. w[i] = s[i] /\ i \in 1..Len(w)
            BY <1>1, <3>1
        <3> QED BY <1>2, <1>4, <3>2
    <2> QED BY <2>1
<1>6. \A i \in 1..n : c[m + i] = b[i] /\ m + i \in 1..m + n
    <2>1. ASSUME NEW i \in 1..n
          PROVE  c[m + i] = b[i] /\ m + i \in 1..m + n
        <3>1. m + i \in 1..m + n /\ ~(m + i <= m) /\ (m + i) - m = i
            BY <1>1
        <3>2. w[m + i] = t[i] /\ m + i \in 1..Len(w)
            BY <1>1, <3>1
        <3>3. c[m + i] = wt[w[m + i]] /\ b[i] = wt[t[i]]
            BY <1>3, <1>4, <3>2
        <3> QED BY <3>1, <3>2, <3>3
    <2> QED BY <2>1
<1> DEFINE Wrong(k) == SumFunctionOnSet(c, 1..m + k) # Total(s, wt) + SumFunctionOnSet(b, 1..k)
           T == {k \in 0..n : Wrong(k)}
<1>7. T = {}
    <2> SUFFICES ASSUME T # {}
                 PROVE  FALSE
        OBVIOUS
    <2>1. PICK k \in T : \A j \in T : k <= j
        <3>1. T \subseteq Nat
            BY <1>1
        <3> QED BY <3>1, LeastNumber
    <2>2. k \in 0..n /\ Wrong(k)
        OBVIOUS
    <2>3. CASE k = 0
        <3>1. 1..m + k = 1..m /\ 1..k = {}
            BY <1>1, <2>3
        <3>2. SumFunctionOnSet(c, 1..m) = Total(s, wt)
            BY <1>2, <1>5, SumOfSame
        <3>3. SumFunctionOnSet(b, 1..k) = 0
            BY <3>1, SumOfNone
        <3>4. SumFunctionOnSet(c, 1..m + k) = Total(s, wt) + SumFunctionOnSet(b, 1..k)
            BY <1>2, <3>1, <3>2, <3>3
        <3> QED BY <2>2, <3>4
    <2>4. CASE k # 0
        <3> DEFINE j == k - 1
        <3>1. j \in 0..n /\ k = j + 1 /\ j \in Nat /\ k \in 1..n /\ j < k
            <4>1. n \in Nat /\ k \in 0..n
                BY <1>1, <2>2
            <4> HIDE DEF T, Wrong
            <4> QED BY <4>1, <2>4, SMTT(30)
        <3>2. ~Wrong(j)
            <4> HIDE DEF j, Wrong
            <4>1. j \notin T
                BY <2>1, <2>2, <3>1
            <4> QED BY <3>1, <4>1
        <3>3. SumFunctionOnSet(c, 1..m + j) = Total(s, wt) + SumFunctionOnSet(b, 1..j)
            BY <3>2
        <3> HIDE DEF j, T, Wrong
        <3>4. /\ 1..m + k = (1..m + j) \union {m + k} /\ m + k \notin 1..m + j
              /\ 1..k = (1..j) \union {k} /\ k \notin 1..j
              /\ IsFiniteSet(1..m + j) /\ IsFiniteSet(1..j)
            <4>1. m \in Nat /\ j \in Nat /\ k = j + 1 /\ m + j \in Nat
                BY <1>1, <3>1
            <4>2. 1..m + k = (1..m + j) \union {m + k} /\ m + k \notin 1..m + j
                BY <4>1
            <4>3. 1..k = (1..j) \union {k} /\ k \notin 1..j
                BY <4>1
            <4>4. IsFiniteSet(1..m + j) /\ IsFiniteSet(1..j)
                BY <4>1, FS_Interval
            <4> QED BY <4>2, <4>3, <4>4
        <3>5. SumFunctionOnSet(c, 1..m + k) = c[m + k] + SumFunctionOnSet(c, 1..m + j)
            <4>2. (1..m + j) \union {m + k} \subseteq 1..Len(w)
                BY <1>1, <3>1
            <4>1. \A i \in (1..m + j) \union {m + k} : c[i] \in Int
                BY <1>4, <4>2
            <4> QED BY <3>4, <4>1, SumOneMore
        <3>6. SumFunctionOnSet(b, 1..k) = b[k] + SumFunctionOnSet(b, 1..j)
              /\ SumFunctionOnSet(b, 1..j) \in Int
            <4>2. (1..j) \union {k} \subseteq 1..n
                BY <1>1, <3>1
            <4>1. \A i \in (1..j) \union {k} : b[i] \in Int
                BY <1>3, <4>2
            <4> QED BY <3>4, <4>1, SumOneMore, SumIsInt
        <3>7. c[m + k] = b[k] /\ b[k] \in Int
            BY <1>3, <1>6, <3>1
        <3> DEFINE x == SumFunctionOnSet(b, 1..j)
                   y == SumFunctionOnSet(c, 1..m + j)
                   z == b[k]
        <3>8. x \in Int /\ z \in Int /\ y = Total(s, wt) + x /\ Total(s, wt) \in Int
              /\ SumFunctionOnSet(c, 1..m + k) = z + y
              /\ SumFunctionOnSet(b, 1..k) = z + x
            BY <1>2, <3>3, <3>5, <3>6, <3>7
        <3> HIDE DEF x, y, z
        <3>9. SumFunctionOnSet(c, 1..m + k) = Total(s, wt) + SumFunctionOnSet(b, 1..k)
            BY <3>8
        <3> QED BY <2>2, <3>9 DEF Wrong
    <2> QED BY <2>3, <2>4
<1>8. n \in 0..n
    BY <1>1
<1>9. ~Wrong(n)
    <2> HIDE DEF Wrong
    <2> QED BY <1>7, <1>8
<1>10. Total(w, wt) = Total(s, wt) + Total(t, wt)
    BY <1>1, <1>3, <1>4, <1>9
<1> QED BY <1>10 DEF w
-----------------------------------------------------------------------------
(***************************************************************************)
(* FoldLeft(PushLine, log, lines) is g[1..Len(lines)] for the g that takes  *)
(* the last line off one after another.                                     *)
(***************************************************************************)
Pushes(g, log, lines, D) ==
    g = [s \in SUBSET D |-> IF s = {} THEN log
                            ELSE PushLine(g[s \ {Max(s)}], lines[Max(s)])]

LEMMA FoldIsChosen ==
    ASSUME NEW log, NEW lines
    PROVE  FoldLeft(PushLine, log, lines)
             = (CHOOSE g : Pushes(g, log, lines, DOMAIN lines))[DOMAIN lines]
BY DEF FoldLeft, MapThenFoldSet, Pushes

LEMMA MaxIsLast ==
    ASSUME NEW n \in Nat, NEW s \in SUBSET (1..n + 1), n + 1 \in s
    PROVE  Max(s) = n + 1
<1>1. \A y \in s : y \in Int /\ n + 1 >= y
    OBVIOUS
<1>2. \A x \in s : (\A y \in s : x >= y) => x = n + 1
    BY <1>1
<1> QED BY <1>1, <1>2 DEF Max

LEMMA MaxIsIn ==
    ASSUME NEW n \in Nat, NEW s \in SUBSET (1..n), s # {}
    PROVE  Max(s) \in s
<1> DEFINE T == {n + 1 - x : x \in s}
<1>0. \A x \in s : n + 1 - x \in Nat
    OBVIOUS
<1>1. T \subseteq Nat /\ T # {}
    BY <1>0
<1>2. PICK m \in T : \A k \in T : m <= k
    BY <1>1, LeastNumber
<1>3. PICK x \in s : m = n + 1 - x
    BY <1>2
<1>4. \A y \in s : n + 1 - x <= n + 1 - y
    BY <1>2, <1>3
<1>5. \A y \in s : y <= x
    BY <1>4
<1> QED BY <1>5 DEF Max

LEMMA PushesExist ==
    ASSUME NEW log, NEW lines, NEW n \in Nat
    PROVE  \E g : Pushes(g, log, lines, 1..n)
<1> DEFINE T == {k \in Nat : ~\E g : Pushes(g, log, lines, 1..k)}
<1> SUFFICES ASSUME T # {}
             PROVE  FALSE
    OBVIOUS
<1>1. PICK k \in T : \A m \in T : k <= m
    BY LeastNumber
<1>2. k \in Nat /\ ~\E g : Pushes(g, log, lines, 1..k)
    BY <1>1
<1>3. CASE k = 0
    <2> DEFINE g == [s \in SUBSET {} |-> log]
    <2>1. g = [s \in SUBSET {} |-> IF s = {} THEN log
                            ELSE PushLine(g[s \ {Max(s)}], lines[Max(s)])]
        OBVIOUS
    <2>2. Pushes(g, log, lines, {})
        BY <2>1 DEF Pushes
    <2>3. 1..k = {}
        BY <1>3
    <2> QED BY <1>2, <2>2, <2>3
<1>4. CASE k # 0
    <2> HIDE DEF T
    <2>1. k - 1 \in Nat /\ k - 1 \notin T
        BY <1>1, <1>2, <1>4
    <2>2. PICK m \in Nat : k = m + 1
        BY <2>1, <1>2
    <2>3. PICK g : Pushes(g, log, lines, 1..m)
        BY <2>1, <2>2 DEF T
    <2> DEFINE D == 1..m + 1
               h == [s \in SUBSET D |->
                       IF m + 1 \in s THEN PushLine(g[s \ {m + 1}], lines[m + 1])
                                      ELSE g[s]]
    <2>4. ASSUME NEW s \in SUBSET D
          PROVE  h[s] = IF s = {} THEN log ELSE PushLine(h[s \ {Max(s)}], lines[Max(s)])
        <3>1. CASE m + 1 \in s
            <4>1. Max(s) = m + 1
                BY <3>1, MaxIsLast
            <4>2. s \ {m + 1} \in SUBSET D /\ m + 1 \notin s \ {m + 1}
                OBVIOUS
            <4>3. h[s \ {m + 1}] = g[s \ {m + 1}]
                BY <4>2
            <4>4. h[s] = PushLine(g[s \ {m + 1}], lines[m + 1])
                BY <3>1
            <4> QED BY <4>1, <4>3, <4>4, <3>1
        <3>2. CASE m + 1 \notin s
            <4>1. s \in SUBSET (1..m)
                BY <3>2
            <4>2. h[s] = g[s]
                BY <3>2
            <4>3. CASE s = {}
                BY <4>1, <4>2, <4>3, <2>3 DEF Pushes
            <4>4. CASE s # {}
                <5>1. g[s] = PushLine(g[s \ {Max(s)}], lines[Max(s)])
                    BY <4>1, <4>4, <2>3 DEF Pushes
                <5>2. s \ {Max(s)} \in SUBSET D /\ m + 1 \notin s \ {Max(s)}
                    BY <3>2
                <5>3. h[s \ {Max(s)}] = g[s \ {Max(s)}]
                    BY <5>2
                <5> QED BY <4>2, <4>4, <5>1, <5>3
            <4> QED BY <4>3, <4>4
        <3> QED BY <3>1, <3>2
    <2>5. h = [s \in SUBSET D |-> h[s]]
        OBVIOUS
    <2> HIDE DEF h
    <2>6. Pushes(h, log, lines, D)
        BY <2>4, <2>5 DEF Pushes
    <2> QED BY <1>2, <2>2, <2>6
<1> QED BY <1>3, <1>4

(***************************************************************************)
(* A sequence of lines is pushed one by one.                                *)
(***************************************************************************)
IsPushedInto(g, log, lines) ==
    /\ g[0] = log
    /\ \A k \in 1..Len(lines) : g[k] = PushLine(g[k - 1], lines[k])

LEMMA LinesOneByOne ==
    ASSUME NEW S, NEW log, NEW lines \in Seq(S)
    PROVE  \E g : /\ IsPushedInto(g, log, lines)
                  /\ FoldLeft(PushLine, log, lines) = g[Len(lines)]
<1> DEFINE n == Len(lines)
           f == CHOOSE g : Pushes(g, log, lines, 1..n)
           g == [k \in 0..n |-> f[1..k]]
<1>1. n \in Nat /\ DOMAIN lines = 1..n
    BY LenProperties
<1>2. Pushes(f, log, lines, 1..n)
    BY <1>1, PushesExist
<1>3. FoldLeft(PushLine, log, lines) = f[1..n]
    BY <1>1, FoldIsChosen
<1> HIDE DEF f, n
<1>4. g[0] = log
    <2>1. 1..0 = {} /\ 0 \in 0..n
        BY <1>1
    <2>2. f[{}] = log
        BY <1>2 DEF Pushes
    <2> QED BY <2>1, <2>2
<1>5. ASSUME NEW k \in 1..n
      PROVE  g[k] = PushLine(g[k - 1], lines[k])
    <2>1. k - 1 \in Nat /\ k - 1 \in 0..n /\ k \in 0..n /\ k \in Nat
        BY <1>1
    <2>2. 1..k \in SUBSET (1..n) /\ k \in 1..k /\ 1..k # {} /\ (k - 1) + 1 = k
        BY <1>1, <2>1
    <2>3. Max(1..k) = k
        BY <2>1, <2>2, MaxIsLast
    <2>4. (1..k) \ {k} = 1..(k - 1)
        BY <2>1
    <2>5. f[1..k] = PushLine(f[1..(k - 1)], lines[k])
        BY <1>2, <2>2, <2>3, <2>4 DEF Pushes
    <2> QED BY <2>1, <2>5
<1>6. g[n] = f[1..n]
    BY <1>1
<1> HIDE DEF g
<1>7. IsPushedInto(g, log, lines)
    BY <1>4, <1>5 DEF IsPushedInto, n
<1> QED BY <1>3, <1>6, <1>7 DEF n
-----------------------------------------------------------------------------
(***************************************************************************)
(* What a ring is between two operations: its contents start at the first   *)
(* place until it is full.                                                  *)
(***************************************************************************)
Ring(ring, Item) ==
    /\ ring = [items |-> ring.items, head |-> ring.head, capacity |-> ring.capacity]
    /\ ring.capacity \in Nat /\ ring.head \in Nat /\ ring.items \in Seq(Item)
    /\ Len(ring.items) <= ring.capacity
    /\ ring.head < ring.capacity \/ ring.head = 0
    /\ Len(ring.items) < ring.capacity => ring.head = 0

LEMMA EmptyIsRing ==
    ASSUME NEW Item, NEW capacity \in Nat
    PROVE  /\ Ring(EmptyRing(capacity), Item)
           /\ Contents(EmptyRing(capacity)) = <<>>
           /\ EmptyRing(capacity).capacity = capacity
<1> DEFINE ring == EmptyRing(capacity)
<1>1. ring = [items |-> <<>>, head |-> 0, capacity |-> capacity]
    BY DEF EmptyRing
<1>2. ring.items = <<>> /\ ring.head = 0 /\ ring.capacity = capacity /\ Len(<<>>) = 0
    BY <1>1
<1> HIDE DEF ring
<1>3. <<>> \in Seq(Item)
    BY EmptySeq
<1>4. Ring(ring, Item)
    BY <1>1, <1>2, <1>3 DEF Ring
<1>5. Contents(ring) = <<>>
    <2>1. ~Wraps(ring)
        BY <1>2 DEF Wraps
    <2>2. OldHalf(ring) = <<>> /\ NewHalf(ring) = <<>>
        BY <1>2, <2>1 DEF OldHalf, NewHalf
    <2> QED BY <2>2, ConcatEmptySeq, <1>3 DEF Contents
<1> QED BY <1>2, <1>4, <1>5 DEF ring

LEMMA AroundOnce ==
    ASSUME NEW c \in Nat, NEW h \in Nat, NEW i \in Nat, h < c, i <= c
    PROVE  (h + i) % c = IF h + i < c THEN h + i ELSE h + i - c
OBVIOUS

(***************************************************************************)
(* The contents are the elements in the order the indices give them.        *)
(***************************************************************************)
LEMMA ContentsAt ==
    ASSUME NEW Item, NEW ring, Ring(ring, Item)
    PROVE  /\ Contents(ring) \in Seq(Item)
           /\ Len(Contents(ring)) = Len(ring.items)
           /\ \A i \in 1..Len(ring.items) : Contents(ring)[i] = At(ring, i - 1)
<1> DEFINE items == ring.items
           n == Len(ring.items)
           h == ring.head
           c == ring.capacity
<1>1. /\ c \in Nat /\ h \in Nat /\ items \in Seq(Item) /\ n \in Nat /\ n <= c
      /\ h < c \/ h = 0
      /\ n < c => h = 0
    BY LenProperties DEF Ring
<1>2. CASE Wraps(ring)
    <2> DEFINE old == SubSeq(items, h + 1, n)
               new == SubSeq(items, 1, h)
    <2>1. n = c /\ h # 0 /\ h < c
        BY <1>1, <1>2 DEF Wraps
    <2>2. Contents(ring) = old \o new
        BY <1>2 DEF Contents, OldHalf, NewHalf
    <2>3. /\ old \in Seq(Item) /\ Len(old) = n - h
          /\ \A i \in 1..n - h : old[i] = items[h + i]
        <3>1. \A i \in h + 1..n : items[i] \in Item
            BY <1>1, ElementOfSeq
        <3>2. Len(old) = n - h
            BY <1>1, <2>1, <3>1, SubSeqProperties
        <3>3. old \in Seq(Item)
            BY <1>1, <2>1, <3>1, SubSeqProperties
        <3>0. \A i \in 1..n - (h + 1) + 1 : old[i] = items[h + 1 + i - 1]
            <4> HIDE DEF items, n, h
            <4> DEFINE a == h + 1
            <4>1. a \in Int /\ n \in Int /\ \A i \in a..n : items[i] \in Item
                BY <1>1, <3>1
            <4> HIDE DEF a
            <4>2. \A i \in 1..n - a + 1 : SubSeq(items, a, n)[i] = items[a + i - 1]
                BY <4>1, SubSeqProperties
            <4> QED BY <4>2 DEF a
        <3> HIDE DEF items, n, h, old
        <3>4. n - (h + 1) + 1 = n - h /\ \A i \in 1..n - h : h + 1 + i - 1 = h + i
            BY <1>1
        <3> QED BY <3>0, <3>2, <3>3, <3>4
    <2>4. /\ new \in Seq(Item) /\ Len(new) = h
          /\ \A i \in 1..h : new[i] = items[i]
        <3>1. \A i \in 1..h : items[i] \in Item
            BY <1>1, <2>1, ElementOfSeq
        <3>2. Len(new) = h
            BY <1>1, <2>1, <3>1, SubSeqProperties
        <3>3. new \in Seq(Item) /\ \A i \in 1..Len(new) : new[i] = items[1 + i - 1]
            BY <1>1, <2>1, <3>1, SubSeqProperties
        <3> HIDE DEF items, n, h, new
        <3>4. \A i \in 1..h : 1 + i - 1 = i
            BY <1>1
        <3> QED BY <3>2, <3>3, <3>4
    <2> DEFINE all == old \o new
    <2>5. /\ all \in Seq(Item) /\ Len(all) = Len(old) + Len(new)
          /\ \A i \in 1..Len(old) + Len(new) :
                all[i] = IF i <= Len(old) THEN old[i] ELSE new[i - Len(old)]
        BY <2>3, <2>4, ConcatProperties
    <2>6. ASSUME NEW i \in 1..n
          PROVE  At(ring, i - 1) = items[((h + (i - 1)) % c) + 1]
        BY <2>1 DEF At, Physical
    <2>7. ASSUME NEW i \in 1..n
          PROVE  (h + (i - 1)) % c = IF h + (i - 1) < c THEN h + (i - 1) ELSE h + (i - 1) - c
        <3>1. i - 1 \in Nat /\ i - 1 <= c
            BY <1>1
        <3> HIDE DEF h, c, n
        <3> QED BY <3>1, <1>1, <2>1, AroundOnce
    <2> HIDE DEF all, old, new, items, n, h, c
    <2>8. ASSUME NEW i \in 1..n
          PROVE  all[i] = At(ring, i - 1)
        <3>1. CASE i <= n - h
            <4>1. all[i] = old[i] /\ old[i] = items[h + i]
                BY <3>1, <2>3, <2>4, <2>5, <1>1
            <4>2. ((h + (i - 1)) % c) + 1 = h + i
                BY <3>1, <2>7, <2>1, <1>1
            <4> QED BY <4>1, <4>2, <2>6
        <3>2. CASE ~(i <= n - h)
            <4>1. i - (n - h) \in 1..h
                BY <3>2, <1>1
            <4>2. all[i] = new[i - (n - h)]
                BY <3>2, <2>3, <2>4, <2>5, <1>1
            <4>3. new[i - (n - h)] = items[i - (n - h)]
                BY <4>1, <2>4
            <4>4. ((h + (i - 1)) % c) + 1 = i - (n - h)
                BY <3>2, <2>7, <2>1, <1>1
            <4> QED BY <4>2, <4>3, <4>4, <2>6
        <3> QED BY <3>1, <3>2
    <2>9. Len(all) = n
        BY <2>3, <2>4, <2>5, <1>1
    <2>10. Contents(ring) = all
        BY <2>2 DEF all
    <2> QED BY <2>5, <2>8, <2>9, <2>10 DEF n, all
<1>3. CASE ~Wraps(ring)
    <2>1. Contents(ring) = items
        <3>1. Contents(ring) = items \o <<>>
            BY <1>3 DEF Contents, OldHalf, NewHalf
        <3> QED BY <3>1, <1>1, ConcatEmptySeq
    <2>2. ASSUME NEW i \in 1..n
          PROVE  items[i] = At(ring, i - 1)
        <3>1. CASE n < c
            BY <3>1, <1>1 DEF At, Physical
        <3>2. CASE ~(n < c)
            <4>1. h = 0
                BY <3>2, <1>1, <1>3 DEF Wraps
            <4>2. At(ring, i - 1) = items[((h + (i - 1)) % c) + 1]
                BY <3>2 DEF At, Physical
            <4> HIDE DEF items, n, h, c
            <4>3. (h + (i - 1)) % c = i - 1
                BY <4>1, <1>1
            <4> QED BY <4>2, <4>3
        <3> QED BY <3>1, <3>2
    <2> QED BY <1>1, <2>1, <2>2
<1> QED BY <1>2, <1>3

LEMMA ItemsReplaced ==
    ASSUME NEW Item, NEW ring, Ring(ring, Item), NEW x
    PROVE  [ring EXCEPT !.items = x] = [items |-> x, head |-> ring.head,
                                        capacity |-> ring.capacity]
<1>1. ring = [items |-> ring.items, head |-> ring.head, capacity |-> ring.capacity]
    BY DEF Ring
<1> QED BY <1>1

LEMMA PushReplaces ==
    ASSUME NEW Item, NEW ring, Ring(ring, Item), NEW item,
           Len(ring.items) = ring.capacity, ring.capacity # 0
    PROVE  Push(ring, item)
              = [items |-> [ring.items EXCEPT ![ring.head + 1] = item],
                 head |-> (ring.head + 1) % ring.capacity,
                 capacity |-> ring.capacity]
<1> DEFINE k == ring.head + 1
           h == (ring.head + 1) % ring.capacity
<1>1. Push(ring, item) = [ring EXCEPT !.items[k] = item, !.head = h]
    BY LenProperties DEF Push, Ring
<1> HIDE DEF k, h
<1> DEFINE e == [ring.items EXCEPT ![k] = item]
           r == [ring EXCEPT !.items[k] = item]
<1>2. [ring EXCEPT !.items[k] = item, !.head = h] = [r EXCEPT !.head = h]
    OBVIOUS
<1>3. ring = [items |-> ring.items, head |-> ring.head, capacity |-> ring.capacity]
    BY DEF Ring
<1>4. r = [items |-> e, head |-> ring.head, capacity |-> ring.capacity]
    BY <1>3
<1> HIDE DEF e, r
<1>5. [r EXCEPT !.head = h] = [items |-> e, head |-> h, capacity |-> ring.capacity]
    BY <1>4
<1> QED BY <1>1, <1>2, <1>5 DEF e, k, h

(***************************************************************************)
(* A push on a ring with room makes it one longer; on a full one it takes   *)
(* the place of the oldest.                                                 *)
(***************************************************************************)
LEMMA PushOnRoom ==
    ASSUME NEW Item, NEW ring, Ring(ring, Item), NEW item \in Item,
           Len(ring.items) < ring.capacity
    PROVE  /\ Ring(Push(ring, item), Item)
           /\ Push(ring, item).capacity = ring.capacity
           /\ Push(ring, item).items = Append(ring.items, item)
           /\ Push(ring, item).head = 0
<1> DEFINE items == ring.items
           n == Len(ring.items)
           c == ring.capacity
           more == Append(items, item)
<1>1. /\ c \in Nat /\ ring.head = 0 /\ items \in Seq(Item) /\ n \in Nat /\ n < c
    BY LenProperties DEF Ring
<1>2. Push(ring, item) = [ring EXCEPT !.items = more]
    BY <1>1 DEF Push
<1>3. Push(ring, item) = [items |-> more, head |-> 0, capacity |-> c]
    BY <1>1, <1>2, ItemsReplaced
<1>4. more \in Seq(Item) /\ Len(more) = n + 1
    BY <1>1, AppendProperties
<1> HIDE DEF items, n, c, more
<1> DEFINE new == Push(ring, item)
<1>5. new.items = more /\ new.head = 0 /\ new.capacity = c
    BY <1>3
<1> HIDE DEF new
<1>6. new = [items |-> new.items, head |-> new.head, capacity |-> new.capacity]
    BY <1>3, <1>5 DEF new
<1>7. Ring(new, Item)
    BY <1>1, <1>4, <1>5, <1>6 DEF Ring
<1> QED BY <1>5, <1>7 DEF new, c, more, items

LEMMA PushOnFull ==
    ASSUME NEW Item, NEW ring, Ring(ring, Item), NEW item \in Item,
           Len(ring.items) = ring.capacity, ring.capacity # 0
    PROVE  /\ Ring(Push(ring, item), Item)
           /\ Push(ring, item).capacity = ring.capacity
           /\ Push(ring, item).items = [ring.items EXCEPT ![ring.head + 1] = item]
           /\ Push(ring, item).head = (ring.head + 1) % ring.capacity
           /\ Len(Push(ring, item).items) = ring.capacity
<1> DEFINE items == ring.items
           n == Len(ring.items)
           c == ring.capacity
           h == ring.head
           set == [items EXCEPT ![h + 1] = item]
           next == (h + 1) % c
<1>1. /\ c \in Nat /\ c > 0 /\ h \in Nat /\ h < c /\ items \in Seq(Item) /\ n = c
    BY LenProperties DEF Ring
<1>3. Push(ring, item) = [items |-> set, head |-> next, capacity |-> c]
    BY <1>1, PushReplaces
<1>4. set \in Seq(Item) /\ Len(set) = c
    BY <1>1, ExceptSeq
<1>5. next \in Nat /\ next < c
    <2> HIDE DEF c, h
    <2>1. next \in 0..c - 1
        BY <1>1
    <2> QED BY <2>1, <1>1
<1> HIDE DEF items, n, c, h, set, next
<1> DEFINE new == Push(ring, item)
<1>6. new.items = set /\ new.head = next /\ new.capacity = c
    BY <1>3
<1> HIDE DEF new
<1>7. new = [items |-> new.items, head |-> new.head, capacity |-> new.capacity]
    BY <1>3, <1>6 DEF new
<1>8. Ring(new, Item)
    BY <1>1, <1>4, <1>5, <1>6, <1>7 DEF Ring
<1> QED BY <1>4, <1>6, <1>8 DEF new, c, set, items, h, next

(***************************************************************************)
(* The contents after a push: what was there, its oldest element gone when  *)
(* there was no room, and the new one behind it.                            *)
(***************************************************************************)
LEMMA ContentsAfterPush ==
    ASSUME NEW Item, NEW ring, Ring(ring, Item), NEW item \in Item, ring.capacity # 0
    PROVE  /\ Ring(Push(ring, item), Item)
           /\ Push(ring, item).capacity = ring.capacity
           /\ Len(ring.items) < ring.capacity =>
                Contents(Push(ring, item)) = Append(Contents(ring), item)
           /\ Len(ring.items) = ring.capacity =>
                Contents(Push(ring, item)) = Append(Tail(Contents(ring)), item)
<1> DEFINE new == Push(ring, item)
           was == Contents(ring)
           is == Contents(new)
           n == Len(ring.items)
           c == ring.capacity
           h == ring.head
<1>1. /\ c \in Nat /\ c > 0 /\ h \in Nat /\ h < c /\ n \in Nat /\ n <= c
      /\ n < c => h = 0
      /\ ring.items \in Seq(Item)
    BY LenProperties DEF Ring
<1>2. /\ was \in Seq(Item) /\ Len(was) = n
      /\ \A i \in 1..n : was[i] = At(ring, i - 1)
    BY ContentsAt
<1>3. CASE n < c
    <2>1. /\ Ring(new, Item) /\ new.capacity = c
          /\ new.items = Append(ring.items, item) /\ new.head = 0
        BY <1>3, PushOnRoom
    <2>2. /\ Len(new.items) = n + 1
          /\ new.items[n + 1] = item
          /\ \A i \in 1..n : new.items[i] = ring.items[i]
        BY <2>1, <1>1, AppendProperties
    <2>3. /\ is \in Seq(Item) /\ Len(is) = n + 1
          /\ \A i \in 1..n + 1 : is[i] = At(new, i - 1)
        BY <2>1, <2>2, ContentsAt
    <2>4. ASSUME NEW i \in 1..n + 1
          PROVE  At(new, i - 1) = new.items[i]
        <3>1. CASE n + 1 < c
            <4>1. Physical(new, i - 1) = i - 1
                BY <3>1, <2>1, <2>2 DEF Physical
            <4> HIDE DEF new, n
            <4>2. i - 1 + 1 = i
                BY <1>1
            <4> QED BY <4>1, <4>2 DEF At
        <3>2. CASE ~(n + 1 < c)
            <4>1. Physical(new, i - 1) = (0 + (i - 1)) % c
                BY <3>2, <2>1, <2>2 DEF Physical
            <4> HIDE DEF new, n, c
            <4>2. (0 + (i - 1)) % c = i - 1 /\ i - 1 + 1 = i
                BY <1>1, <1>3, <3>2
            <4> QED BY <4>1, <4>2 DEF At
        <3> QED BY <3>1, <3>2
    <2>5. ASSUME NEW i \in 1..n
          PROVE  At(ring, i - 1) = ring.items[i]
        <3>1. Physical(ring, i - 1) = i - 1
            BY <1>3 DEF Physical
        <3> HIDE DEF n
        <3>2. i - 1 + 1 = i
            BY <1>1
        <3> QED BY <3>1, <3>2 DEF At
    <2> DEFINE a == Append(was, item)
    <2>6. /\ a \in Seq(Item) /\ Len(a) = n + 1 /\ a[n + 1] = item
          /\ \A i \in 1..n : a[i] = was[i]
        BY <1>2, AppendProperties
    <2> HIDE DEF a, is, was, n, c, new
    <2>7. \A i \in 1..n + 1 : i = n + 1 \/ i \in 1..n
        BY <1>1
    <2>8. \A i \in 1..n + 1 : is[i] = a[i]
        BY <1>1, <1>2, <2>2, <2>3, <2>4, <2>5, <2>6, <2>7
    <2>9. is = a
        BY <2>3, <2>6, <2>8, SeqEqual
    <2> QED BY <1>3, <2>1, <2>9 DEF a, is, was, n, c, new
<1>4. CASE n = c
    <2>1. /\ Ring(new, Item) /\ new.capacity = c
          /\ new.items = [ring.items EXCEPT ![h + 1] = item]
          /\ new.head = (h + 1) % c
          /\ Len(new.items) = c
        BY <1>1, <1>4, PushOnFull
    <2>2. /\ \A i \in 1..c : i # h + 1 => new.items[i] = ring.items[i]
          /\ new.items[h + 1] = item
        BY <2>1, <1>1, <1>4, ExceptSeq
    <2>3. /\ is \in Seq(Item) /\ Len(is) = c
          /\ \A i \in 1..c : is[i] = At(new, i - 1)
        BY <2>1, ContentsAt
    <2> DEFINE t == Tail(was)
               a == Append(t, item)
    <2>4. was # <<>>
        BY <1>1, <1>2, <1>4, EmptySeq
    <2>5. /\ t \in Seq(Item) /\ Len(t) = c - 1
          /\ \A i \in 1..c - 1 : t[i] = was[i + 1]
        BY <1>2, <1>4, <2>4, HeadTailProperties
    <2>6. a \in Seq(Item) /\ Len(a) = Len(t) + 1 /\ a[Len(t) + 1] = item
          /\ \A i \in 1..Len(t) : a[i] = t[i]
        <3> HIDE DEF t
        <3> QED BY <2>5, AppendProperties
    <2>7. ASSUME NEW i \in 1..c
          PROVE  At(new, i - 1) = new.items[((((h + 1) % c) + (i - 1)) % c) + 1]
        BY <2>1 DEF At, Physical
    <2>8. ASSUME NEW i \in 1..c
          PROVE  At(ring, i - 1) = ring.items[((h + (i - 1)) % c) + 1]
        BY <1>4 DEF At, Physical
    <2> HIDE DEF a, is, was, n, c, h, new, t
    <2>9. ASSUME NEW i \in Nat, i <= c
          PROVE  /\ (h + i) % c = IF h + i < c THEN h + i ELSE h + i - c
                 /\ (h + 1) % c = IF h + 1 < c THEN h + 1 ELSE 0
        <3>1. (h + i) % c = IF h + i < c THEN h + i ELSE h + i - c
            BY <1>1, <2>9, AroundOnce
        <3> DEFINE one == 1
        <3>2. one \in Nat /\ one <= c
            BY <1>1
        <3> HIDE DEF one
        <3>3. (h + one) % c = IF h + one < c THEN h + one ELSE h + one - c
            BY <1>1, <3>2, AroundOnce
        <3>4. (h + 1) % c = IF h + 1 < c THEN h + 1 ELSE h + 1 - c
            BY <3>3 DEF one
        <3> QED BY <3>1, <3>4, <1>1
    <2>10. ASSUME NEW i \in 1..c
           PROVE  (((h + 1) % c) + (i - 1)) % c = (h + i) % c
        <3>1. (h + 1) % c = IF h + 1 < c THEN h + 1 ELSE 0
            BY <1>1, <2>9
        <3>2. (h + i) % c = IF h + i < c THEN h + i ELSE h + i - c
            BY <1>1, <2>9
        <3>3. i - 1 \in Nat /\ i - 1 <= c
            BY <1>1
        <3>4. CASE h + 1 < c
            <4>1. (h + 1 + (i - 1)) % c
                      = IF h + 1 + (i - 1) < c THEN h + 1 + (i - 1) ELSE h + 1 + (i - 1) - c
                <5> DEFINE x == h + 1
                           y == i - 1
                <5>1. x \in Nat /\ x < c /\ y \in Nat /\ y <= c
                    BY <3>3, <3>4, <1>1
                <5> HIDE DEF x, y
                <5>2. (x + y) % c = IF x + y < c THEN x + y ELSE x + y - c
                    BY <5>1, <1>1, AroundOnce
                <5> QED BY <5>2 DEF x, y
            <4> QED BY <3>1, <3>2, <3>4, <4>1, <1>1
        <3>5. CASE ~(h + 1 < c)
            <4>1. (0 + (i - 1)) % c = IF 0 + (i - 1) < c THEN 0 + (i - 1) ELSE 0 + (i - 1) - c
                BY <3>3, <1>1, AroundOnce
            <4> QED BY <3>1, <3>2, <3>5, <4>1, <1>1
        <3> QED BY <3>4, <3>5
    <2>11. ASSUME NEW i \in 1..c - 1
           PROVE  is[i] = a[i]
        <3> DEFINE p == ((h + i) % c) + 1
        <3>1. i \in 1..c /\ i + 1 \in 1..c /\ (i + 1) - 1 = i
            BY <1>1
        <3>2. is[i] = new.items[p]
            BY <2>3, <2>7, <2>10, <3>1
        <3>3. was[i + 1] = ring.items[p]
            BY <1>2, <1>4, <2>8, <3>1
        <3>4. p \in 1..c /\ p # h + 1
            BY <2>9, <3>1, <1>1
        <3> HIDE DEF p
        <3>5. a[i] = was[i + 1]
            BY <2>5, <2>6
        <3> QED BY <3>2, <3>3, <3>4, <3>5, <2>2
    <2>12. is[c] = item
        <3>1. (h + c) % c = h
            BY <2>9, <1>1
        <3>2. c \in 1..c
            BY <1>1
        <3> QED BY <2>2, <2>3, <2>7, <2>10, <3>1, <3>2
    <2>13. \A i \in 1..c : i = c \/ i \in 1..c - 1
        BY <1>1
    <2>14. Len(a) = c /\ a[c] = item
        BY <2>5, <2>6, <1>1
    <2>15. is = a
        BY <2>3, <2>6, <2>11, <2>12, <2>13, <2>14, SeqEqual
    <2> QED BY <1>4, <1>1, <2>1, <2>15 DEF a, is, was, n, c, new, t
<1> QED BY <1>1, <1>3, <1>4

(***************************************************************************)
(* The newest element is the last of the contents, and replacing it         *)
(* replaces that one only.                                                  *)
(***************************************************************************)
LEMMA NewestIsLast ==
    ASSUME NEW Item, NEW ring, Ring(ring, Item), ring.items # <<>>
    PROVE  /\ Len(Contents(ring)) \in Nat \ {0}
           /\ Newest(ring) = Contents(ring)[Len(Contents(ring))]
           /\ Newest(ring) \in Item
<1>1. ring.items \in Seq(Item) /\ Len(ring.items) \in Nat
    BY LenProperties DEF Ring
<1>2. Len(ring.items) # 0
    BY <1>1, EmptySeq
<1>3. Len(ring.items) \in 1..Len(ring.items)
    BY <1>1, <1>2
<1>4. Contents(ring)[Len(ring.items)] = Newest(ring)
    BY <1>3, ContentsAt DEF Newest
<1>5. Contents(ring) \in Seq(Item) /\ Len(Contents(ring)) = Len(ring.items)
    BY ContentsAt
<1> QED BY <1>1, <1>2, <1>3, <1>4, <1>5, ElementOfSeq

LEMMA PlacesDiffer ==
    ASSUME NEW c \in Nat, NEW h \in Nat, h < c,
           NEW i \in Nat, NEW j \in Nat, i < c, j < c
    PROVE  /\ (h + i) % c \in 0..c - 1
           /\ (h + i) % c = (h + j) % c => i = j
<1>0. i <= c /\ j <= c
    OBVIOUS
<1>1. (h + i) % c = IF h + i < c THEN h + i ELSE h + i - c
    BY <1>0, AroundOnce
<1>2. (h + j) % c = IF h + j < c THEN h + j ELSE h + j - c
    BY <1>0, AroundOnce
<1>3. (h + i) % c \in 0..c - 1
    BY <1>1
<1>4. (h + i) % c = (h + j) % c => i = j
    BY <1>1, <1>2
<1> QED BY <1>3, <1>4

LEMMA ContentsAfterSet ==
    ASSUME NEW Item, NEW ring, Ring(ring, Item), NEW item \in Item, ring.items # <<>>
    PROVE  /\ Ring(SetNewest(ring, item), Item)
           /\ SetNewest(ring, item).capacity = ring.capacity
           /\ Contents(SetNewest(ring, item))
                = [Contents(ring) EXCEPT ![Len(Contents(ring))] = item]
<1> DEFINE n == Len(ring.items)
           c == ring.capacity
           h == ring.head
           k == Physical(ring, n - 1) + 1
           set == [ring.items EXCEPT ![k] = item]
           new == SetNewest(ring, item)
           was == Contents(ring)
           is == Contents(new)
           a == [was EXCEPT ![n] = item]
<1>1. /\ c \in Nat /\ h \in Nat /\ ring.items \in Seq(Item) /\ n \in Nat /\ n <= c
      /\ h < c \/ h = 0
      /\ n < c => h = 0
    BY LenProperties DEF Ring
<1>2. n # 0
    BY <1>1, EmptySeq
<1>3. \A i \in 0..n - 1 : Physical(ring, i) = IF n < c THEN i ELSE (h + i) % c
    BY DEF Physical
<1>4. \A i, j \in 0..n - 1 :
            /\ Physical(ring, i) \in 0..n - 1
            /\ Physical(ring, i) = Physical(ring, j) => i = j
    <2> HIDE DEF n, c, h, k
    <2>1. CASE n < c
        BY <2>1, <1>3
    <2>2. CASE ~(n < c)
        <3>1. n = c /\ h < c
            BY <2>2, <1>1, <1>2
        <3>2. \A i \in 0..n - 1 : Physical(ring, i) = (h + i) % c
            BY <2>2, <1>3
        <3>3. ASSUME NEW i \in 0..n - 1, NEW j \in 0..n - 1
              PROVE  /\ (h + i) % c \in 0..c - 1
                     /\ (h + i) % c = (h + j) % c => i = j
            <4>1. i \in Nat /\ j \in Nat /\ i < c /\ j < c
                BY <3>1, <1>1
            <4> QED BY <3>1, <4>1, <1>1, PlacesDiffer
        <3> QED BY <3>1, <3>2, <3>3
    <2> QED BY <2>1, <2>2
<1>5. n - 1 \in 0..n - 1
    BY <1>1, <1>2
<1>6. k \in 1..n
    <2> DEFINE p == Physical(ring, n - 1)
    <2>1. p \in 0..n - 1
        BY <1>4, <1>5
    <2> HIDE DEF p, n
    <2>2. p + 1 \in 1..n
        BY <2>1, <1>1
    <2> QED BY <2>2 DEF p
<1>7. new = [items |-> set, head |-> h, capacity |-> c]
    <2>1. new = [ring EXCEPT !.items[k] = item]
        BY DEF SetNewest
    <2> HIDE DEF k
    <2>2. ring = [items |-> ring.items, head |-> ring.head, capacity |-> ring.capacity]
        BY DEF Ring
    <2>3. [ring EXCEPT !.items[k] = item] = [items |-> set, head |-> h, capacity |-> c]
        BY <2>2
    <2> HIDE DEF new
    <2> QED BY <2>1, <2>3
<1>8. /\ set \in Seq(Item) /\ Len(set) = n
      /\ \A j \in 1..n : set[j] = IF j = k THEN item ELSE ring.items[j]
    <2> HIDE DEF k
    <2> QED BY <1>1, <1>6, ExceptSeq
<1>9. /\ was \in Seq(Item) /\ Len(was) = n
      /\ \A i \in 1..n : was[i] = At(ring, i - 1)
    BY ContentsAt
<1>10. /\ a \in Seq(Item) /\ Len(a) = n
       /\ \A j \in 1..n : a[j] = IF j = n THEN item ELSE was[j]
    <2>1. n \in 1..Len(was)
        BY <1>1, <1>2, <1>9
    <2> HIDE DEF was, n
    <2> QED BY <1>9, <2>1, ExceptSeq
<1> HIDE DEF new, set
<1>11. new.items = set /\ new.head = h /\ new.capacity = c
    BY <1>7
<1>12. new = [items |-> new.items, head |-> new.head, capacity |-> new.capacity]
    BY <1>7, <1>11
<1>13. Ring(new, Item)
    BY <1>1, <1>8, <1>11, <1>12 DEF Ring
<1>14. /\ is \in Seq(Item) /\ Len(is) = n
       /\ \A i \in 1..n : is[i] = At(new, i - 1)
    BY <1>8, <1>11, <1>13, ContentsAt
<1>15. \A i \in 0..n - 1 : Physical(new, i) = Physical(ring, i)
    BY <1>8, <1>11 DEF Physical
<1>16. \A i \in 0..n - 1 :
            /\ At(new, i) = set[Physical(ring, i) + 1]
            /\ At(ring, i) = ring.items[Physical(ring, i) + 1]
    BY <1>11, <1>15 DEF At
<1>17. ASSUME NEW i \in 1..n
       PROVE  is[i] = a[i]
    <2> DEFINE p == Physical(ring, i - 1)
               q == Physical(ring, n - 1)
    <2>1. i - 1 \in 0..n - 1
        BY <1>1
    <2>2. p \in 0..n - 1 /\ q \in 0..n - 1 /\ (p = q => i - 1 = n - 1)
        BY <2>1, <1>4, <1>5
    <2>3. is[i] = set[p + 1] /\ was[i] = ring.items[p + 1] /\ k = q + 1
        BY <2>1, <1>9, <1>14, <1>16
    <2> HIDE DEF p, q, is, was, a, n, k
    <2>4. p + 1 \in 1..n
        BY <2>2, <1>1
    <2>5. CASE i = n
        <3>1. p = q
            BY <2>5 DEF p, q
        <3> QED BY <3>1, <2>3, <2>4, <2>5, <1>8, <1>10
    <2>6. CASE i # n
        <3>1. p # q
            BY <2>2, <2>6, <1>1
        <3>2. p + 1 # k
            BY <3>1, <2>2, <2>3
        <3> QED BY <3>2, <2>3, <2>4, <2>6, <1>8, <1>10
    <2> QED BY <2>5, <2>6
<1> HIDE DEF is, a
<1>18. is = a
    BY <1>10, <1>14, <1>17, SeqEqual
<1> QED BY <1>9, <1>11, <1>13, <1>18 DEF new, is, a, c
-----------------------------------------------------------------------------
Entry(S) == [line : S, times : Nat \ {0}]

(***************************************************************************)
(* A log of lines of S.                                                     *)
(***************************************************************************)
IsLog(log, S) ==
    /\ log = [entries |-> log.entries, total |-> log.total]
    /\ Ring(log.entries, Entry(S)) /\ log.entries.capacity # 0
    /\ log.total \in Nat

LEMMA EmptyIsLog ==
    ASSUME NEW S, NEW capacity \in Nat \ {0}
    PROVE  /\ IsLog(EmptyLog(capacity), S)
           /\ EmptyLog(capacity).entries.capacity = capacity
           /\ EmptyLog(capacity).total = 0
           /\ Contents(EmptyLog(capacity).entries) = <<>>
<1> DEFINE ring == EmptyRing(capacity)
<1>1. Ring(ring, Entry(S)) /\ ring.capacity = capacity /\ Contents(ring) = <<>>
    BY EmptyIsRing
<1> HIDE DEF ring
<1>2. EmptyLog(capacity) = [entries |-> ring, total |-> 0]
    BY DEF EmptyLog, ring
<1> QED BY <1>1, <1>2 DEF IsLog

\* The entries a log of a capacity holds before and after a line.
IsPushed(was, line, capacity, is) ==
    LET again == was # <<>> /\ was[Len(was)].line = line
    IN  /\ again => is = [was EXCEPT ![Len(was)] =
                             [line |-> line, times |-> was[Len(was)].times + 1]]
        /\ ~again /\ Len(was) < capacity => is = Append(was, [line |-> line, times |-> 1])
        /\ ~again /\ ~(Len(was) < capacity) =>
               is = Append(Tail(was), [line |-> line, times |-> 1])

(***************************************************************************)
(* A line pushed repeats the newest, which then counts one more, or is an   *)
(* entry of its own.  Either way the log has seen one more push.            *)
(***************************************************************************)
LEMMA LinePushed ==
    ASSUME NEW S, NEW log, IsLog(log, S), NEW line \in S
    PROVE  /\ IsLog(PushLine(log, line), S)
           /\ PushLine(log, line).total = log.total + 1
           /\ PushLine(log, line).entries.capacity = log.entries.capacity
           /\ IsPushed(Contents(log.entries), line, log.entries.capacity,
                       Contents(PushLine(log, line).entries))
<1> DEFINE ring == log.entries
           was == Contents(ring)
           first == [line |-> line, times |-> 1]
           again == [Newest(ring) EXCEPT !.times = @ + 1]
           next == IF Repeats(log, line) THEN SetNewest(ring, again) ELSE Push(ring, first)
           more == log.total + 1
           new == PushLine(log, line)
<1>1. /\ Ring(ring, Entry(S)) /\ ring.capacity # 0 /\ log.total \in Nat
      /\ ring.items \in Seq(Entry(S)) /\ ring.capacity \in Nat
      /\ Len(ring.items) <= ring.capacity /\ Len(ring.items) \in Nat
    BY LenProperties DEF IsLog, Ring
<1>2. new = [entries |-> next, total |-> more]
    BY DEF PushLine
<1>3. was \in Seq(Entry(S)) /\ Len(was) = Len(ring.items)
    BY <1>1, ContentsAt
<1>4. was # <<>> <=> ring.items # <<>>
    BY <1>1, <1>3, EmptySeq
<1>5. first \in Entry(S)
    BY DEF Entry
<1> HIDE DEF ring, more, new, was, first
<1>6. CASE Repeats(log, line)
    <2>1. ring.items # <<>> /\ Newest(ring).line = line
        BY <1>6 DEF Repeats, ring
    <2>2. /\ Newest(ring) \in Entry(S) /\ Newest(ring) = was[Len(was)]
        BY <1>1, <2>1, NewestIsLast DEF was
    <2> DEFINE newest == Newest(ring)
               last == [line |-> line, times |-> newest.times + 1]
    <2>3. newest = [line |-> newest.line, times |-> newest.times] /\ newest.times \in Nat \ {0}
        BY <2>2 DEF Entry
    <2>4. again = last /\ last \in Entry(S)
        BY <2>1, <2>3 DEF Entry
    <2> HIDE DEF again, newest, last
    <2>5. next = SetNewest(ring, last)
        BY <1>6, <2>4
    <2> HIDE DEF next
    <2>6. /\ Ring(next, Entry(S)) /\ next.capacity = ring.capacity
          /\ Contents(next) = [was EXCEPT ![Len(was)] = last]
        BY <1>1, <2>1, <2>4, <2>5, ContentsAfterSet DEF was
    <2>7. was[Len(was)].line = line /\ was # <<>>
        BY <1>4, <2>1, <2>2
    <2>8. last = [line |-> line, times |-> was[Len(was)].times + 1]
        BY <2>2 DEF last, newest
    <2>9. new.entries = next /\ new.total = more
        BY <1>2
    <2>10. more \in Nat /\ more = log.total + 1
        BY <1>1 DEF more
    <2>11. IsLog(new, S)
        BY <1>1, <1>2, <2>6, <2>9, <2>10 DEF IsLog
    <2>12. IsPushed(was, line, ring.capacity, Contents(next))
        BY <2>6, <2>7, <2>8 DEF IsPushed
    <2> QED BY <2>6, <2>9, <2>10, <2>11, <2>12 DEF new, ring, was
<1>7. CASE ~Repeats(log, line)
    <2>1. next = Push(ring, first)
        BY <1>7
    <2> HIDE DEF next
    <2>2. /\ Ring(next, Entry(S)) /\ next.capacity = ring.capacity
          /\ Len(ring.items) < ring.capacity => Contents(next) = Append(was, first)
          /\ Len(ring.items) = ring.capacity => Contents(next) = Append(Tail(was), first)
        BY <1>1, <1>5, <2>1, ContentsAfterPush DEF was
    <2>3. ~(was # <<>> /\ was[Len(was)].line = line)
        <3>1. CASE ring.items = <<>>
            BY <3>1, <1>4
        <3>2. CASE ring.items # <<>>
            <4>1. Newest(ring).line # line
                BY <3>2, <1>7 DEF Repeats, ring
            <4>2. Newest(ring) = was[Len(was)]
                BY <1>1, <3>2, NewestIsLast DEF was
            <4> QED BY <4>1, <4>2
        <3> QED BY <3>1, <3>2
    <2>4. new.entries = next /\ new.total = more
        BY <1>2
    <2>5. more \in Nat /\ more = log.total + 1
        BY <1>1 DEF more
    <2>6. IsLog(new, S)
        BY <1>1, <1>2, <2>2, <2>4, <2>5 DEF IsLog
    <2>7. /\ Len(was) < ring.capacity => Contents(next) = Append(was, first)
          /\ ~(Len(was) < ring.capacity) => Contents(next) = Append(Tail(was), first)
        BY <1>1, <1>3, <2>2
    <2>8. IsPushed(was, line, ring.capacity, Contents(next))
        BY <2>3, <2>7 DEF IsPushed, first
    <2> QED BY <2>2, <2>4, <2>5, <2>6, <2>8 DEF new, ring, was
<1> QED BY <1>6, <1>7

LEMMA LinePushedKeeps ==
    ASSUME NEW S, NEW log, IsLog(log, S), NEW line \in S
    PROVE  /\ IsLog(PushLine(log, line), S)
           /\ PushLine(log, line).total = log.total + 1
           /\ PushLine(log, line).entries.capacity = log.entries.capacity
<1> DEFINE new == PushLine(log, line)
<1>1. IsLog(new, S)
    BY LinePushed
<1>2. new.total = log.total + 1
    BY LinePushed
<1>3. new.entries.capacity = log.entries.capacity
    BY LinePushed
<1> QED BY <1>1, <1>2, <1>3

LEMMA LinesPushedUpTo ==
    ASSUME NEW S, NEW log, IsLog(log, S), NEW lines \in Seq(S),
           NEW g, IsPushedInto(g, log, lines), NEW k \in 0..Len(lines)
    PROVE  /\ IsLog(g[k], S) /\ g[k].total = log.total + k
           /\ g[k].entries.capacity = log.entries.capacity
<1> DEFINE n == Len(lines)
           Good(j) == /\ IsLog(g[j], S) /\ g[j].total = log.total + j
                      /\ g[j].entries.capacity = log.entries.capacity
           T == {j \in 0..n : ~Good(j)}
<1>0. n \in Nat /\ log.total \in Nat
    BY LenProperties DEF IsLog
<1> SUFFICES ASSUME T # {}
             PROVE  FALSE
    OBVIOUS
<1> HIDE DEF n
<1>1. T \subseteq Nat
    BY <1>0
<1> HIDE DEF Good
<1>2. PICK j \in T : \A m \in T : j <= m
    <2> HIDE DEF T
    <2> QED BY <1>1, LeastNumber
<1>3. j \in 0..n /\ ~Good(j)
    BY <1>2
<1>4. j # 0
    <2>1. g[0] = log
        BY DEF IsPushedInto
    <2>2. Good(0)
        BY <1>0, <2>1 DEF Good
    <2> QED BY <1>3, <2>2
<1>5. j - 1 \in 0..n /\ j \in 1..n
    BY <1>3, <1>4, <1>0
<1>6. Good(j - 1)
    <2>1. j - 1 \notin T
        <3> HIDE DEF T
        <3> QED BY <1>2, <1>3, <1>0
    <2> QED BY <1>5, <2>1
<1> DEFINE was == g[j - 1]
<1>7. g[j] = PushLine(was, lines[j]) /\ lines[j] \in S
    BY <1>5, ElementOfSeq DEF IsPushedInto, n
<1>8. IsLog(was, S) /\ was.total = log.total + (j - 1)
      /\ was.entries.capacity = log.entries.capacity
    BY <1>6 DEF Good
<1> HIDE DEF was
<1>9. /\ IsLog(g[j], S) /\ g[j].total = was.total + 1
      /\ g[j].entries.capacity = was.entries.capacity
    BY <1>7, <1>8, LinePushedKeeps
<1>10. log.total + (j - 1) + 1 = log.total + j
    BY <1>0, <1>3
<1>11. Good(j)
    BY <1>8, <1>9, <1>10 DEF Good
<1> QED BY <1>3, <1>11

(***************************************************************************)
(* Lines pushed together are as many more pushes, and leave a log.          *)
(***************************************************************************)
LEMMA LinesPushed ==
    ASSUME NEW S, NEW log, IsLog(log, S), NEW lines \in Seq(S)
    PROVE  /\ IsLog(FoldLeft(PushLine, log, lines), S)
           /\ FoldLeft(PushLine, log, lines).total = log.total + Len(lines)
           /\ FoldLeft(PushLine, log, lines).entries.capacity = log.entries.capacity
<1>1. PICK g : /\ IsPushedInto(g, log, lines)
               /\ FoldLeft(PushLine, log, lines) = g[Len(lines)]
    BY LinesOneByOne
<1>2. Len(lines) \in 0..Len(lines)
    BY LenProperties
<1>3. /\ IsLog(g[Len(lines)], S) /\ g[Len(lines)].total = log.total + Len(lines)
      /\ g[Len(lines)].entries.capacity = log.entries.capacity
    BY <1>1, <1>2, LinesPushedUpTo
<1> QED BY <1>1, <1>3

LEMMA LogOfMore ==
    ASSUME NEW S, NEW T, S \subseteq T, NEW log, IsLog(log, S)
    PROVE  IsLog(log, T)
<1>1. Entry(S) \subseteq Entry(T)
    BY DEF Entry
<1>2. log.entries.items \in Seq(Entry(T))
    BY <1>1, SeqMonotonic DEF IsLog, Ring
<1> QED BY <1>2 DEF IsLog, Ring

LEMMA LogIsRing ==
    ASSUME NEW S, NEW log, IsLog(log, S)
    PROVE  IsRing(log.entries, [line : S, times : Nat])
<1>1. Entry(S) \subseteq [line : S, times : Nat]
    BY DEF Entry
<1>2. log.entries.items \in Seq([line : S, times : Nat])
    BY <1>1, SeqMonotonic DEF IsLog, Ring
<1> QED BY <1>2 DEF IsLog, Ring, IsRing
-----------------------------------------------------------------------------
(***************************************************************************)
(* Entry i of a log holds the lines b[i - 1] + 1 to b[i] of those pushed,   *)
(* which are one line said again and again, and no more of them.            *)
(***************************************************************************)
Marks(b, entries, s, capacity) ==
    /\ b \in [0..Len(entries) -> Nat] /\ b[Len(entries)] = Len(s)
    /\ \A i \in 1..Len(entries) :
           /\ b[i - 1] < b[i] /\ entries[i].times = b[i] - b[i - 1]
           /\ \A p \in b[i - 1] + 1..b[i] : s[p] = entries[i].line
    /\ \A i \in 0..Len(entries) - 1 : b[i] > 0 => s[b[i]] # s[b[i] + 1]
    /\ b[0] > 0 => Len(entries) = capacity

Follows(log, s) == \E b : Marks(b, Contents(log.entries), s, log.entries.capacity)

LEMMA Ascends ==
    ASSUME NEW n \in Nat, NEW b \in [0..n -> Nat], \A i \in 1..n : b[i - 1] < b[i]
    PROVE  \A i, j \in 0..n : i < j => b[i] < b[j]
<1> SUFFICES ASSUME NEW i \in 0..n
             PROVE  \A j \in 0..n : i < j => b[i] < b[j]
    OBVIOUS
<1> DEFINE T == {j \in 0..n : i < j /\ ~(b[i] < b[j])}
<1> SUFFICES ASSUME T # {}
             PROVE  FALSE
    OBVIOUS
<1>1. T \subseteq Nat
    OBVIOUS
<1>2. PICK j \in T : \A k \in T : j <= k
    <2> HIDE DEF T
    <2> QED BY <1>1, LeastNumber
<1>3. j \in 1..n /\ j - 1 \in 0..n /\ i <= j - 1 /\ b[j - 1] < b[j] /\ ~(b[i] < b[j])
    BY <1>2
<1>4. j - 1 \notin T
    <2> HIDE DEF T
    <2> QED BY <1>2, <1>3
<1>5. i # j - 1 => b[i] < b[j - 1]
    BY <1>3, <1>4
<1> QED BY <1>3, <1>5

LEMMA MarksRepeat ==
    ASSUME NEW S, NEW E \in Seq(Entry(S)), NEW s \in Seq(S), NEW line \in S, NEW c,
           NEW b, Marks(b, E, s, c), E # <<>>, E[Len(E)].line = line,
           NEW is, is = [E EXCEPT ![Len(E)] = [line |-> line, times |-> E[Len(E)].times + 1]]
    PROVE  \E m : Marks(m, is, Append(s, line), c)
<1> DEFINE n == Len(E)
           t == Append(s, line)
           last == [line |-> line, times |-> E[n].times + 1]
           m == [b EXCEPT ![n] = b[n] + 1]
<1>1. n \in Nat /\ n # 0 /\ n \in 1..n
    BY EmptySeq
<1>2. /\ b \in [0..n -> Nat] /\ b[n] = Len(s)
      /\ \A i \in 1..n : /\ b[i - 1] < b[i] /\ E[i].times = b[i] - b[i - 1]
                         /\ \A p \in b[i - 1] + 1..b[i] : s[p] = E[i].line
      /\ \A i \in 0..n - 1 : b[i] > 0 => s[b[i]] # s[b[i] + 1]
      /\ b[0] > 0 => n = c
    BY DEF Marks
<1>3. /\ t \in Seq(S) /\ Len(t) = Len(s) + 1 /\ Len(s) \in Nat
      /\ t[Len(s) + 1] = line
      /\ \A p \in 1..Len(s) : t[p] = s[p]
    BY AppendProperties, LenProperties
<1>4. last \in Entry(S)
    <2>1. E[n] \in Entry(S)
        BY <1>1, ElementOfSeq
    <2> DEFINE k == E[n].times
    <2>2. k \in Nat \ {0}
        BY <2>1 DEF Entry
    <2> HIDE DEF k
    <2>3. k + 1 \in Nat \ {0}
        BY <2>2
    <2> QED BY <2>3 DEF Entry, k
<1>5. /\ is \in Seq(Entry(S)) /\ Len(is) = n
      /\ \A i \in 1..n : is[i] = IF i = n THEN last ELSE E[i]
    <2> HIDE DEF last
    <2>1. is = [E EXCEPT ![n] = last]
        BY DEF last
    <2> QED BY <1>1, <1>4, <2>1, ExceptSeq
<1>6. /\ m \in [0..n -> Nat] /\ m[n] = Len(s) + 1
      /\ \A i \in 0..n - 1 : m[i] = b[i]
    BY <1>1, <1>2, <1>3
<1> HIDE DEF m, n, t, last
<1>7. \A i \in 0..n - 1 : b[i] + 1 <= Len(s) /\ b[i] \in Nat
    <2>0. \A i \in 1..n : b[i - 1] < b[i]
        BY <1>2
    <2>a. \A i, j \in 0..n : i < j => b[i] < b[j]
        BY <1>1, <1>2, <2>0, Ascends
    <2>1. \A i \in 0..n - 1 : b[i] < b[n]
        BY <1>1, <2>a
    <2> QED BY <1>1, <1>2, <1>3, <2>1
<1>8. ASSUME NEW i \in 1..n
      PROVE  /\ m[i - 1] < m[i] /\ is[i].times = m[i] - m[i - 1]
             /\ \A p \in m[i - 1] + 1..m[i] : t[p] = is[i].line
    <2>1. m[i - 1] = b[i - 1] /\ b[i - 1] \in Nat /\ b[i] \in Nat /\ i - 1 \in 0..n - 1
        BY <1>1, <1>2, <1>6
    <2>2. CASE i # n
        <3>1. i \in 0..n - 1 /\ m[i] = b[i] /\ is[i] = E[i]
            BY <1>1, <1>5, <1>6, <2>2
        <3>2. b[i] <= Len(s)
            BY <1>3, <1>7, <3>1
        <3>3. \A p \in b[i - 1] + 1..b[i] : t[p] = s[p]
            BY <1>3, <2>1, <3>2
        <3> QED BY <1>2, <2>1, <3>1, <3>3
    <2>3. CASE i = n
        <3>1. is[i] = last /\ m[i] = b[n] + 1 /\ b[n] = Len(s)
            BY <1>2, <1>5, <1>6, <2>3
        <3>2. /\ last.line = line /\ last.times = E[n].times + 1 /\ E[n].line = line
            BY DEF last, n
        <3>3. /\ b[n - 1] < b[n] /\ E[n].times = b[n] - b[n - 1]
              /\ \A p \in b[n - 1] + 1..b[n] : s[p] = line
            BY <1>1, <1>2, <3>2
        <3>4. \A p \in b[n - 1] + 1..b[n] + 1 : t[p] = line
            <4> SUFFICES ASSUME NEW p \in b[n - 1] + 1..b[n] + 1
                         PROVE  t[p] = line
                OBVIOUS
            <4>0. b[n] \in Nat /\ b[n - 1] \in Nat /\ b[n] = Len(s)
                BY <1>2, <2>1, <2>3
            <4>1. CASE p = b[n] + 1
                BY <1>3, <4>0, <4>1
            <4>2. CASE p # b[n] + 1
                <5>1. p \in b[n - 1] + 1..b[n] /\ p \in 1..Len(s)
                    BY <4>0, <4>2
                <5> QED BY <1>3, <3>3, <5>1
            <4> QED BY <4>1, <4>2
        <3>5. b[n] - b[n - 1] + 1 = b[n] + 1 - b[n - 1]
            BY <2>1, <2>3
        <3> QED BY <2>1, <2>3, <3>1, <3>2, <3>3, <3>4, <3>5
    <2> QED BY <2>2, <2>3
<1>9. \A i \in 0..n - 1 : m[i] > 0 => t[m[i]] # t[m[i] + 1]
    <2> SUFFICES ASSUME NEW i \in 0..n - 1, m[i] > 0
                 PROVE  t[m[i]] # t[m[i] + 1]
        OBVIOUS
    <2>1. m[i] = b[i] /\ b[i] \in 1..Len(s) /\ b[i] + 1 \in 1..Len(s) /\ s[b[i]] # s[b[i] + 1]
        BY <1>2, <1>3, <1>6, <1>7
    <2> QED BY <1>3, <2>1
<1>10. m[0] > 0 => n = c
    BY <1>1, <1>2, <1>6
<1>11. m[n] = Len(t)
    BY <1>3, <1>6
<1>12. Marks(m, is, t, c)
    BY <1>5, <1>6, <1>8, <1>9, <1>10, <1>11 DEF Marks
<1> QED BY <1>12 DEF t

LEMMA LastMarked ==
    ASSUME NEW S, NEW E \in Seq(Entry(S)), NEW s, NEW c,
           NEW b, Marks(b, E, s, c), E # <<>>
    PROVE  Len(E) \in Nat \ {0} /\ Len(s) \in Nat \ {0} /\ s[Len(s)] = E[Len(E)].line
<1> DEFINE n == Len(E)
<1>1. n \in Nat /\ n # 0 /\ n \in 1..n /\ n - 1 \in 0..n
    BY EmptySeq
<1>2. /\ b[n] = Len(s) /\ b[n] \in Nat /\ b[n - 1] \in Nat /\ b[n - 1] < b[n]
      /\ \A p \in b[n - 1] + 1..b[n] : s[p] = E[n].line
    BY <1>1 DEF Marks
<1> HIDE DEF n
<1>3. b[n] \in b[n - 1] + 1..b[n] /\ b[n] # 0
    BY <1>2
<1> QED BY <1>1, <1>2, <1>3 DEF n

LEMMA MarksAppend ==
    ASSUME NEW S, NEW E \in Seq(Entry(S)), NEW s \in Seq(S), NEW line \in S, NEW c \in Nat,
           NEW b, Marks(b, E, s, c), E = <<>> \/ E[Len(E)].line # line, Len(E) < c,
           NEW is, is = Append(E, [line |-> line, times |-> 1])
    PROVE  \E m : Marks(m, is, Append(s, line), c)
<1> DEFINE n == Len(E)
           t == Append(s, line)
           first == [line |-> line, times |-> 1]
           m == [i \in 0..n + 1 |-> IF i = n + 1 THEN b[n] + 1 ELSE b[i]]
<1>1. n \in Nat
    BY LenProperties
<1>2. b \in [0..n -> Nat] /\ b[n] = Len(s)
    BY DEF Marks
<1>b. \A i \in 1..n : /\ b[i - 1] < b[i] /\ E[i].times = b[i] - b[i - 1]
                      /\ \A p \in b[i - 1] + 1..b[i] : s[p] = E[i].line
    BY DEF Marks
<1>c. \A i \in 0..n - 1 : b[i] > 0 => s[b[i]] # s[b[i] + 1]
    BY DEF Marks
<1>d. b[0] > 0 => n = c
    BY DEF Marks
<1>3. /\ t \in Seq(S) /\ Len(t) = Len(s) + 1 /\ Len(s) \in Nat
      /\ t[Len(s) + 1] = line
      /\ \A p \in 1..Len(s) : t[p] = s[p]
    BY AppendProperties, LenProperties
<1>4. first \in Entry(S) /\ first.line = line /\ first.times = 1
    BY DEF Entry
<1> HIDE DEF first
<1>5. /\ is \in Seq(Entry(S)) /\ Len(is) = n + 1
      /\ \A i \in 1..n : is[i] = E[i]
      /\ is[n + 1] = first
    <2>1. is = Append(E, first)
        BY DEF first
    <2> QED BY <1>4, <2>1, AppendProperties
<1>6. /\ m \in [0..n + 1 -> Nat] /\ m[n + 1] = Len(s) + 1
      /\ \A i \in 0..n : m[i] = b[i]
    BY <1>1, <1>2, <1>3
<1>7. Len(s) > 0 => s[Len(s)] # line
    <2>1. CASE E = <<>>
        <3>1. n = 0
            BY <2>1
        <3> QED BY <1>2, <1>d, <1>1, <3>1
    <2>2. CASE E # <<>>
        BY <2>2, LastMarked
    <2> QED BY <2>1, <2>2
<1> HIDE DEF m, n, t
<1>8. /\ \A i \in 0..n - 1 : b[i] + 1 <= Len(s) /\ b[i] \in Nat
      /\ \A i \in 0..n : b[i] <= Len(s) /\ b[i] \in Nat
    <2>0. \A i \in 1..n : b[i - 1] < b[i]
        BY <1>b
    <2>a. \A i, j \in 0..n : i < j => b[i] < b[j]
        BY <1>1, <1>2, <2>0, Ascends
    <2>1. \A i \in 0..n - 1 : b[i] < b[n]
        BY <1>1, <2>a
    <2>2. b[n] = Len(s) /\ \A i \in 0..n : b[i] \in Nat
        BY <1>2
    <2>3. \A i \in 0..n : i = n \/ i \in 0..n - 1
        BY <1>1
    <2>4. Len(s) \in Nat
        BY <1>3
    <2>5. \A i \in 0..n - 1 : b[i] \in Nat /\ b[i] + 1 <= Len(s)
        <3>1. \A i \in 0..n - 1 : i \in 0..n
            BY <1>1
        <3> QED BY <2>1, <2>2, <2>4, <3>1
    <2> QED BY <2>2, <2>3, <2>4, <2>5
<1>9. ASSUME NEW i \in 1..n + 1
      PROVE  /\ m[i - 1] < m[i] /\ is[i].times = m[i] - m[i - 1]
             /\ \A p \in m[i - 1] + 1..m[i] : t[p] = is[i].line
    <2>1. CASE i # n + 1
        <3>1. i \in 1..n /\ m[i] = b[i] /\ m[i - 1] = b[i - 1] /\ is[i] = E[i]
            BY <1>1, <1>5, <1>6, <2>1
        <3>2. i \in 0..n /\ i - 1 \in 0..n
            BY <1>1, <3>1
        <3>3. b[i] <= Len(s) /\ b[i] \in Nat /\ b[i - 1] \in Nat
            BY <1>8, <3>2
        <3>4. b[i - 1] + 1..b[i] \subseteq 1..Len(s)
            BY <1>3, <3>3
        <3>5. \A p \in b[i - 1] + 1..b[i] : t[p] = s[p]
            BY <1>3, <3>4
        <3> QED BY <1>b, <3>1, <3>5
    <2>2. CASE i = n + 1
        <3>1. is[i] = first /\ m[i] = Len(s) + 1 /\ m[i - 1] = Len(s)
            <4>1. n \in 0..n /\ (n + 1) - 1 = n
                BY <1>1
            <4> QED BY <1>2, <1>5, <1>6, <2>2, <4>1
        <3>2. m[i] - m[i - 1] = 1 /\ m[i - 1] < m[i]
              /\ \A p \in m[i - 1] + 1..m[i] : p = Len(s) + 1
            BY <1>3, <3>1
        <3> QED BY <1>3, <1>4, <3>1, <3>2
    <2> QED BY <2>1, <2>2
<1>10. ASSUME NEW i \in 0..(n + 1) - 1, m[i] > 0
       PROVE  t[m[i]] # t[m[i] + 1]
    <2>1. CASE i = n
        <3>1. m[i] = Len(s)
            BY <1>1, <1>2, <1>6, <2>1
        <3>2. Len(s) \in 1..Len(s) /\ Len(s) > 0
            BY <1>3, <1>10, <3>1
        <3> QED BY <1>3, <1>7, <3>1, <3>2
    <2>2. CASE i # n
        <3>1. i \in 0..n - 1 /\ m[i] = b[i]
            BY <1>1, <1>6, <2>2
        <3>2. b[i] \in 1..Len(s) /\ b[i] + 1 \in 1..Len(s) /\ s[b[i]] # s[b[i] + 1]
            BY <1>c, <1>3, <1>8, <1>10, <3>1
        <3> QED BY <1>3, <3>1, <3>2
    <2> QED BY <2>1, <2>2
<1>11. m[0] > 0 => n + 1 = c
    <2>1. n < c
        BY DEF n
    <2> QED BY <1>1, <1>2, <1>d, <1>6, <2>1
<1>12. m[n + 1] = Len(t)
    BY <1>3, <1>6
<1>13. Marks(m, is, t, c)
    BY <1>5, <1>6, <1>9, <1>10, <1>11, <1>12 DEF Marks
<1> QED BY <1>13 DEF t

LEMMA MarksShift ==
    ASSUME NEW S, NEW E \in Seq(Entry(S)), NEW s \in Seq(S), NEW line \in S,
           NEW b, Marks(b, E, s, Len(E)), E # <<>>, E[Len(E)].line # line,
           NEW is, is = Append(Tail(E), [line |-> line, times |-> 1])
    PROVE  \E m : Marks(m, is, Append(s, line), Len(E))
<1> DEFINE n == Len(E)
           t == Append(s, line)
           first == [line |-> line, times |-> 1]
           m == [i \in 0..n |-> IF i = n THEN b[n] + 1 ELSE b[i + 1]]
<1>1. n \in Nat /\ n # 0 /\ n \in 1..n
    BY EmptySeq
<1>2. b \in [0..n -> Nat] /\ b[n] = Len(s)
    BY DEF Marks
<1>b. \A i \in 1..n : /\ b[i - 1] < b[i] /\ E[i].times = b[i] - b[i - 1]
                      /\ \A p \in b[i - 1] + 1..b[i] : s[p] = E[i].line
    BY DEF Marks
<1>c. \A i \in 0..n - 1 : b[i] > 0 => s[b[i]] # s[b[i] + 1]
    BY DEF Marks
<1>3. /\ t \in Seq(S) /\ Len(t) = Len(s) + 1 /\ Len(s) \in Nat
      /\ t[Len(s) + 1] = line
      /\ \A p \in 1..Len(s) : t[p] = s[p]
    BY AppendProperties, LenProperties
<1>4. first \in Entry(S) /\ first.line = line /\ first.times = 1
    BY DEF Entry
<1> HIDE DEF first
<1>5. /\ is \in Seq(Entry(S)) /\ Len(is) = n
      /\ \A i \in 1..n - 1 : is[i] = E[i + 1]
      /\ is[n] = first
    <2> DEFINE r == Tail(E)
    <2>1. is = Append(r, first)
        BY DEF first
    <2>2. r \in Seq(Entry(S)) /\ Len(r) = n - 1 /\ \A i \in 1..Len(r) : r[i] = E[i + 1]
        BY HeadTailProperties
    <2> HIDE DEF r, n
    <2>3. /\ is \in Seq(Entry(S)) /\ Len(is) = Len(r) + 1 /\ is[Len(r) + 1] = first
          /\ \A i \in 1..Len(r) : is[i] = r[i]
        BY <1>4, <2>1, <2>2, AppendProperties
    <2>4. Len(r) + 1 = n
        BY <1>1, <2>2
    <2> QED BY <2>2, <2>3, <2>4
<1>6. /\ m \in [0..n -> Nat] /\ m[n] = Len(s) + 1
      /\ \A i \in 0..n - 1 : m[i] = b[i + 1]
    BY <1>1, <1>2, <1>3
<1>7. Len(s) > 0 /\ s[Len(s)] # line
    BY LastMarked
<1> HIDE DEF m, n, t
<1>8. /\ \A i \in 0..n - 1 : b[i] + 1 <= Len(s) /\ b[i] \in Nat
      /\ \A i \in 0..n : b[i] <= Len(s) /\ b[i] \in Nat
    <2>0. \A i \in 1..n : b[i - 1] < b[i]
        BY <1>b
    <2>a. \A i, j \in 0..n : i < j => b[i] < b[j]
        BY <1>1, <1>2, <2>0, Ascends
    <2>1. \A i \in 0..n - 1 : b[i] < b[n]
        BY <1>1, <2>a
    <2>2. b[n] = Len(s) /\ \A i \in 0..n : b[i] \in Nat
        BY <1>2
    <2>3. \A i \in 0..n : i = n \/ i \in 0..n - 1
        BY <1>1
    <2>4. Len(s) \in Nat
        BY <1>3
    <2>5. \A i \in 0..n - 1 : b[i] \in Nat /\ b[i] + 1 <= Len(s)
        <3>1. \A i \in 0..n - 1 : i \in 0..n
            BY <1>1
        <3> QED BY <2>1, <2>2, <2>4, <3>1
    <2> QED BY <2>2, <2>3, <2>4, <2>5
<1>9. ASSUME NEW i \in 1..n
      PROVE  /\ m[i - 1] < m[i] /\ is[i].times = m[i] - m[i - 1]
             /\ \A p \in m[i - 1] + 1..m[i] : t[p] = is[i].line
    <2>0. m[i - 1] = b[i] /\ b[i] \in Nat
        <3>1. i - 1 \in 0..n - 1 /\ (i - 1) + 1 = i /\ i \in 0..n
            BY <1>1
        <3> QED BY <1>6, <1>8, <3>1
    <2>1. CASE i # n
        <3>1. i + 1 \in 1..n /\ (i + 1) - 1 = i /\ m[i] = b[i + 1] /\ is[i] = E[i + 1]
            BY <1>1, <1>5, <1>6, <2>1
        <3>2. b[i + 1] <= Len(s) /\ b[i + 1] \in Nat
            <4>1. i + 1 \in 0..n
                BY <1>1, <3>1
            <4> QED BY <1>8, <4>1
        <3>a. b[i] + 1..b[i + 1] \subseteq 1..Len(s)
            BY <1>3, <2>0, <3>2
        <3>3. \A p \in b[i] + 1..b[i + 1] : t[p] = s[p]
            BY <1>3, <3>a
        <3>4. /\ b[i] < b[i + 1] /\ E[i + 1].times = b[i + 1] - b[i]
              /\ \A p \in b[i] + 1..b[i + 1] : s[p] = E[i + 1].line
            BY <1>b, <3>1
        <3> QED BY <2>0, <3>1, <3>3, <3>4
    <2>2. CASE i = n
        <3>1. is[i] = first /\ m[i] = Len(s) + 1 /\ m[i - 1] = Len(s)
            BY <1>2, <1>5, <1>6, <2>0, <2>2
        <3>2. m[i] - m[i - 1] = 1 /\ m[i - 1] < m[i]
              /\ \A p \in m[i - 1] + 1..m[i] : p = Len(s) + 1
            BY <1>3, <3>1
        <3> QED BY <1>3, <1>4, <3>1, <3>2
    <2> QED BY <2>1, <2>2
<1>10. ASSUME NEW i \in 0..n - 1, m[i] > 0
       PROVE  t[m[i]] # t[m[i] + 1]
    <2>1. CASE i = n - 1
        <3>1. m[i] = Len(s)
            <4>1. i + 1 = n
                BY <1>1, <2>1
            <4> QED BY <1>2, <1>6, <4>1
        <3>2. Len(s) \in 1..Len(s)
            BY <1>3, <1>7
        <3> QED BY <1>3, <1>7, <3>1, <3>2
    <2>2. CASE i # n - 1
        <3>1. i + 1 \in 0..n - 1 /\ m[i] = b[i + 1]
            BY <1>1, <1>6, <2>2
        <3>2. /\ b[i + 1] \in 1..Len(s) /\ b[i + 1] + 1 \in 1..Len(s)
              /\ s[b[i + 1]] # s[b[i + 1] + 1]
            BY <1>c, <1>3, <1>8, <1>10, <3>1
        <3> QED BY <1>3, <3>1, <3>2
    <2> QED BY <2>1, <2>2
<1>11. m[n] = Len(t)
    BY <1>3, <1>6
<1>12. Marks(m, is, t, n)
    BY <1>5, <1>6, <1>9, <1>10, <1>11 DEF Marks
<1> QED BY <1>12 DEF t, n

(***************************************************************************)
(* A log holds the newest of what it was pushed, each entry a run of it.    *)
(***************************************************************************)
LEMMA PushFollows ==
    ASSUME NEW S, NEW log, IsLog(log, S), NEW s \in Seq(S), NEW line \in S, Follows(log, s)
    PROVE  Follows(PushLine(log, line), Append(s, line))
<1> DEFINE E == Contents(log.entries)
           is == Contents(PushLine(log, line).entries)
           c == log.entries.capacity
           again == [E EXCEPT ![Len(E)] = [line |-> line, times |-> E[Len(E)].times + 1]]
           first == [line |-> line, times |-> 1]
<1>1. E \in Seq(Entry(S)) /\ Len(E) \in Nat /\ Len(E) <= c /\ c \in Nat /\ c # 0
    <2>1. Ring(log.entries, Entry(S)) /\ c # 0
        BY DEF IsLog
    <2>2. E \in Seq(Entry(S)) /\ Len(E) = Len(log.entries.items)
        BY <2>1, ContentsAt
    <2> QED BY <2>1, <2>2, LenProperties DEF Ring
<1>2. PICK b : Marks(b, E, s, c)
    BY DEF Follows
<1>3. PushLine(log, line).entries.capacity = c
    BY LinePushed
<1>a. IsPushed(E, line, c, is)
    BY LinePushed
<1>4. CASE E # <<>> /\ E[Len(E)].line = line
    <2>1. is = again
        BY <1>4, <1>a DEF IsPushed
    <2> HIDE DEF E, is, c
    <2>2. \E m : Marks(m, is, Append(s, line), c)
        BY <1>1, <1>2, <1>4, <2>1, MarksRepeat
    <2> QED BY <1>3, <2>2 DEF Follows, is
<1>5. CASE ~(E # <<>> /\ E[Len(E)].line = line) /\ Len(E) < c
    <2>1. is = Append(E, first)
        BY <1>5, <1>a DEF IsPushed
    <2> HIDE DEF E, is, c
    <2>2. \E m : Marks(m, is, Append(s, line), c)
        BY <1>1, <1>2, <1>5, <2>1, MarksAppend
    <2> QED BY <1>3, <2>2 DEF Follows, is
<1>6. CASE ~(E # <<>> /\ E[Len(E)].line = line) /\ ~(Len(E) < c)
    <2>1. is = Append(Tail(E), first)
        BY <1>6, <1>a DEF IsPushed
    <2> HIDE DEF E, is, c
    <2>2. Len(E) = c /\ E # <<>> /\ E[Len(E)].line # line
        <3>1. Len(E) = c
            BY <1>1, <1>6
        <3> QED BY <1>1, <1>6, <3>1, EmptySeq
    <2>3. \E m : Marks(m, is, Append(s, line), c)
        BY <1>1, <1>2, <2>1, <2>2, MarksShift
    <2> QED BY <1>3, <2>3 DEF Follows, is
<1> QED BY <1>4, <1>5, <1>6

LEMMA BehindAnother ==
    ASSUME NEW S, NEW s \in Seq(S), NEW t \in Seq(S), NEW e \in S
    PROVE  Append(s \o t, e) = s \o (t \o <<e>>)
<1>1. Append(s \o t, e) = (s \o t) \o <<e>>
    BY AppendIsConcat, ConcatProperties
<1> QED BY <1>1, ConcatAssociative

LEMMA OneMoreTaken ==
    ASSUME NEW S, NEW s \in Seq(S), NEW lines \in Seq(S), NEW j \in 1..Len(lines)
    PROVE  /\ s \o SubSeq(lines, 1, j - 1) \in Seq(S) /\ lines[j] \in S
           /\ Append(s \o SubSeq(lines, 1, j - 1), lines[j]) = s \o SubSeq(lines, 1, j)
<1> DEFINE v == SubSeq(lines, 1, j - 1)
           e == lines[j]
<1>1. Len(lines) \in Nat /\ \A i \in 1..Len(lines) : lines[i] \in S
    BY LenProperties, ElementOfSeq
<1>2. e \in S /\ v \in Seq(S)
    <2>1. 1 \in Int /\ j - 1 \in Int /\ \A i \in 1..(j - 1) : lines[i] \in S
        BY <1>1
    <2> QED BY <1>1, <2>1, SubSeqProperties
<1>3. SubSeq(lines, 1, j) = v \o <<e>>
    <2>1. 1 \in 1..Len(lines)
        BY <1>1
    <2> QED BY <2>1, SubSeqRecursiveSecond
<1> HIDE DEF v, e
<1>4. s \o v \in Seq(S)
    BY <1>2, ConcatProperties
<1>5. Append(s \o v, e) = s \o (v \o <<e>>)
    BY <1>2, BehindAnother
<1> QED BY <1>2, <1>3, <1>4, <1>5 DEF v, e

LEMMA LinesFollow ==
    ASSUME NEW S, NEW log, IsLog(log, S), NEW s \in Seq(S), Follows(log, s), NEW lines \in Seq(S)
    PROVE  Follows(FoldLeft(PushLine, log, lines), s \o lines)
<1>1. PICK g : /\ IsPushedInto(g, log, lines)
               /\ FoldLeft(PushLine, log, lines) = g[Len(lines)]
    BY LinesOneByOne
<1> DEFINE n == Len(lines)
           Good(j) == Follows(g[j], s \o SubSeq(lines, 1, j))
           T == {j \in 0..n : ~Good(j)}
<1>2. n \in Nat
    BY LenProperties
<1>3. T = {}
    <2> SUFFICES ASSUME T # {}
                 PROVE  FALSE
        OBVIOUS
    <2> HIDE DEF n
    <2>1. T \subseteq Nat
        BY <1>2
    <2> HIDE DEF Good
    <2>2. PICK j \in T : \A m \in T : j <= m
        <3> HIDE DEF T
        <3> QED BY <2>1, LeastNumber
    <2>3. j \in 0..n /\ ~Good(j)
        BY <2>2
    <2>4. j # 0
        <3>1. SubSeq(lines, 1, 0) = <<>>
            BY SubSeqEmpty
        <3>2. s \o <<>> = s
            BY ConcatEmptySeq
        <3>3. g[0] = log
            BY <1>1 DEF IsPushedInto
        <3>4. Good(0)
            BY <3>1, <3>2, <3>3 DEF Good
        <3> QED BY <2>3, <3>4
    <2>5. j - 1 \in 0..n /\ j \in 1..n
        BY <1>2, <2>3, <2>4
    <2>6. Good(j - 1)
        <3>1. j - 1 \notin T
            <4> HIDE DEF T
            <4> QED BY <1>2, <2>2, <2>3
        <3> QED BY <2>5, <3>1
    <2> DEFINE was == g[j - 1]
               past == s \o SubSeq(lines, 1, j - 1)
               e == lines[j]
    <2>7. g[j] = PushLine(was, e)
        BY <1>1, <2>5 DEF IsPushedInto, n
    <2>8. past \in Seq(S) /\ e \in S /\ Append(past, e) = s \o SubSeq(lines, 1, j)
        BY <2>5, OneMoreTaken DEF n
    <2>9. IsLog(was, S)
        BY <1>1, <2>5, LinesPushedUpTo DEF n
    <2>10. Follows(was, past)
        BY <2>6 DEF Good
    <2> HIDE DEF was, past, e
    <2>11. Follows(PushLine(was, e), Append(past, e))
        BY <2>8, <2>9, <2>10, PushFollows
    <2>12. Good(j)
        BY <2>7, <2>8, <2>11 DEF Good
    <2> QED BY <2>3, <2>12
<1>4. Good(n)
    <2>1. n \in 0..n /\ n \notin T
        BY <1>2, <1>3
    <2> HIDE DEF Good, n
    <2> QED BY <2>1
<1>5. SubSeq(lines, 1, n) = lines
    BY SubSeqFull
<1> QED BY <1>1, <1>4, <1>5

LEMMA NothingFollowed ==
    ASSUME NEW capacity \in Nat \ {0}
    PROVE  Follows(EmptyLog(capacity), <<>>)
<1> DEFINE log == EmptyLog(capacity)
           b == [i \in 0..0 |-> 0]
<1>1. Contents(log.entries) = <<>> /\ log.entries.capacity = capacity
    BY EmptyIsLog
<1>2. Len(<<>>) = 0 /\ b \in [0..0 -> Nat] /\ b[0] = 0
    OBVIOUS
<1> HIDE DEF b
<1>3. Marks(b, <<>>, <<>>, capacity)
    BY <1>2 DEF Marks
<1> QED BY <1>1, <1>3 DEF Follows
=============================================================================
