----------------------------- MODULE BookLemmas -----------------------------
(***************************************************************************)
(* Lemmas for the proofs about the engine: induction over finite sets and  *)
(* numbers, with a set in the place of the predicate, and what it shows of *)
(* the sums of the community modules; then the operations of the pool and  *)
(* of one book.                                                            *)
(***************************************************************************)
EXTENDS MatchingEngine, FiniteSetTheorems, WellFoundedInduction, SequenceTheorems, TLAPS

-----------------------------------------------------------------------------
(***************************************************************************)
(* Induction.                                                              *)
(***************************************************************************)
\* A nonempty set of naturals has a least element.
LEMMA LeastNatural ==
    ASSUME NEW T, T \subseteq Nat, T # {}
    PROVE  \E x \in T : \A y \in T : x <= y
<1> DEFINE R == {ss \in Nat \X Nat : ss[1] < ss[2]}
<1>1. IsWellFoundedOn(R, Nat)
  BY NatLessThanWellFounded DEF OpToRel
<1>2. PICK x \in T : \A y \in T : ~(<< y, x >> \in R)
  <2> HIDE DEF R
  <2> QED  BY <1>1, WFMin
<1>3. \A y \in T : y < x => << y, x >> \in R
  OBVIOUS
<1>4. \A y \in T : y \in Nat /\ ~(y < x)
  BY <1>2, <1>3
<1> HIDE DEF R
<1> QED
  BY <1>4

\* Induction over the subsets of a finite set.
LEMMA SubsetInduction ==
    ASSUME NEW S, IsFiniteSet(S), NEW Q,
           \A T \in SUBSET S : (\A U \in SUBSET T : U # T => U \in Q) => T \in Q
    PROVE  SUBSET S \subseteq Q
<1> SUFFICES ASSUME NEW T0 \in SUBSET S, T0 \notin Q
             PROVE  FALSE
  OBVIOUS
<1> DEFINE Bad == {T \in SUBSET S : T \notin Q}
           Sizes == {Cardinality(T) : T \in Bad}
<1>1. \A T \in SUBSET S : IsFiniteSet(T) /\ Cardinality(T) \in Nat
  BY FS_Subset, FS_CardinalityType
<1>2. Sizes \subseteq Nat /\ Sizes # {}
  BY <1>1
<1>3. PICK n \in Sizes : \A k \in Sizes : n <= k
  <2> HIDE DEF Sizes
  <2> QED  BY <1>2, LeastNatural
<1>4. PICK T \in Bad : n = Cardinality(T)
  OBVIOUS
<1>5. ASSUME NEW U \in SUBSET T, U # T
      PROVE  U \in Q
  <2>1. Cardinality(U) <= Cardinality(T) /\ Cardinality(U) # Cardinality(T)
    BY <1>1, <1>5, FS_Subset
  <2>2. Cardinality(U) \notin Sizes
    BY <1>1, <1>3, <1>4, <2>1
  <2> QED
    BY <2>2
<1> QED
  BY <1>4, <1>5

\* The same, adding one element at a time.
LEMMA AddingInduction ==
    ASSUME NEW S, IsFiniteSet(S), NEW Q, {} \in Q,
           \A T \in SUBSET S : \A x \in S \ T : T \in Q => T \cup {x} \in Q
    PROVE  S \in Q
<1>1. ASSUME NEW T \in SUBSET S, \A U \in SUBSET T : U # T => U \in Q
      PROVE  T \in Q
  <2>1. CASE T = {}
    BY <2>1
  <2>2. CASE T # {}
    <3>1. PICK x \in T : TRUE
      BY <2>2
    <3>2. T \ {x} \in Q /\ T \ {x} \in SUBSET S /\ x \in S \ (T \ {x})
          /\ (T \ {x}) \cup {x} = T
      BY <1>1
    <3> QED
      BY <3>2
  <2> QED
    BY <2>1, <2>2
<1> QED
  BY <1>1, SubsetInduction

-----------------------------------------------------------------------------
(***************************************************************************)
(* The recursion that a sum is defined by has a solution.                  *)
(***************************************************************************)
Some(s) == CHOOSE x \in s : TRUE

\* iter[s] is the sum of f over s, for every subset s of S.
SumsOf(f, S, iter) ==
    iter = [s \in SUBSET S |-> IF s = {} THEN 0 ELSE f[Some(s)] + iter[s \ {Some(s)}]]

LEMMA SumIsChosen ==
    ASSUME NEW f, NEW S
    PROVE  SumFunctionOnSet(f, S) = (CHOOSE iter : SumsOf(f, S, iter))[S]
BY DEF SumFunctionOnSet, FoldFunctionOnSet, MapThenFoldSet, SumsOf, Some

\* An element of a set that has one.
LEMMA SomeElement == \A s : s # {} => Some(s) \in s
BY DEF Some

\* Two solutions agree where both are defined.
LEMMA SumsAgree ==
    ASSUME NEW f, NEW S, NEW T, IsFiniteSet(S), NEW g, NEW h,
           SumsOf(f, S, g), SumsOf(f, T, h)
    PROVE  \A s : s \subseteq S /\ s \subseteq T => g[s] = h[s]
<1> DEFINE Q == {s \in SUBSET S : s \in SUBSET T => g[s] = h[s]}
<1>1. ASSUME NEW s \in SUBSET S, \A u \in SUBSET s : u # s => u \in Q
      PROVE  s \in Q
  <2> SUFFICES ASSUME s \in SUBSET T PROVE g[s] = h[s]
    OBVIOUS
  <2>1. g[s] = IF s = {} THEN 0 ELSE f[Some(s)] + g[s \ {Some(s)}]
    BY DEF SumsOf
  <2>2. h[s] = IF s = {} THEN 0 ELSE f[Some(s)] + h[s \ {Some(s)}]
    BY DEF SumsOf
  <2>3. CASE s = {}
    BY <2>1, <2>2, <2>3
  <2>4. CASE s # {}
    <3>1. s \ {Some(s)} \in Q /\ s \ {Some(s)} \in SUBSET T
      BY <1>1, <2>4, SomeElement
    <3> QED
      BY <2>1, <2>2, <2>4, <3>1
  <2> QED
    BY <2>3, <2>4
<1> HIDE DEF Q
<1>2. SUBSET S \subseteq Q
  BY <1>1, SubsetInduction
<1> QED
  BY <1>2 DEF Q

\* A solution for a set holds one for each of its subsets.
LEMMA SumsRestrict ==
    ASSUME NEW f, NEW S, NEW T \in SUBSET S, NEW g, SumsOf(f, S, g)
    PROVE  SumsOf(f, T, [s \in SUBSET T |-> g[s]])
<1> DEFINE h == [s \in SUBSET T |-> g[s]]
<1>1. ASSUME NEW s \in SUBSET T
      PROVE  h[s] = IF s = {} THEN 0 ELSE f[Some(s)] + h[s \ {Some(s)}]
  <2>1. s \in SUBSET S /\ s \ {Some(s)} \in SUBSET T
    OBVIOUS
  <2>2. g[s] = IF s = {} THEN 0 ELSE f[Some(s)] + g[s \ {Some(s)}]
    BY <2>1 DEF SumsOf
  <2> QED
    BY <2>1, <2>2
<1> QED
  BY <1>1 DEF SumsOf

\* There is a solution for every finite set.
LEMMA SumsExist ==
    ASSUME NEW f, NEW S, IsFiniteSet(S)
    PROVE  \E iter : SumsOf(f, S, iter)
<1> DEFINE Q == {T \in SUBSET S : \E iter : SumsOf(f, T, iter)}
           E(T) == CHOOSE iter : SumsOf(f, T, iter)
<1>1. ASSUME NEW T \in SUBSET S, \A U \in SUBSET T : U # T => U \in Q
      PROVE  T \in Q
  <2>1. CASE T = {}
    <3>1. SumsOf(f, {}, [s \in SUBSET {} |-> 0])
      BY DEF SumsOf
    <3> QED
      BY <2>1, <3>1
  <2>2. CASE T # {}
    <3> DEFINE B == T \ {Some(T)}
               g == E(B)
               h == [s \in SUBSET T |->
                        IF s = {} THEN 0
                        ELSE f[Some(s)] + E(s \ {Some(s)})[s \ {Some(s)}]]
    <3>1. \A U \in SUBSET T : U # T => SumsOf(f, U, E(U))
      BY <1>1
    <3>2. ASSUME NEW s \in SUBSET T, s # {}
          PROVE  h[s \ {Some(s)}] = E(s \ {Some(s)})[s \ {Some(s)}]
      <4> DEFINE r == s \ {Some(s)}
                 q == r \ {Some(r)}
      <4>1. Some(s) \in s /\ r \in SUBSET T /\ r # T /\ IsFiniteSet(r)
        BY <3>2, SomeElement, FS_Subset
      <4>2. SumsOf(f, r, E(r))
        BY <3>1, <4>1
      <4>3. E(r)[r] = IF r = {} THEN 0 ELSE f[Some(r)] + E(r)[q]
        BY <4>2 DEF SumsOf
      <4>4. h[r] = IF r = {} THEN 0 ELSE f[Some(r)] + E(q)[q]
        BY <4>1
      <4>5. CASE r = {}
        BY <4>3, <4>4, <4>5
      <4>6. CASE r # {}
        <5>1. q \in SUBSET T /\ q # T /\ q \in SUBSET r
          BY <4>1
        <5>2. SumsOf(f, q, E(q))
          BY <3>1, <5>1
        <5>3. E(r)[q] = E(q)[q]
          BY <4>1, <4>2, <5>1, <5>2, SumsAgree
        <5> QED
          BY <4>3, <4>4, <4>6, <5>3
      <4> QED
        BY <4>5, <4>6
    <3>3. SumsOf(f, T, h)
      <4>1. ASSUME NEW s \in SUBSET T
            PROVE  h[s] = IF s = {} THEN 0 ELSE f[Some(s)] + h[s \ {Some(s)}]
        <5>1. h[s] = IF s = {} THEN 0
                     ELSE f[Some(s)] + E(s \ {Some(s)})[s \ {Some(s)}]
          OBVIOUS
        <5> HIDE DEF h, E
        <5> QED
          BY <3>2, <5>1
      <4>2. h = [s \in SUBSET T |-> h[s]]
        OBVIOUS
      <4> HIDE DEF h
      <4>3. h = [s \in SUBSET T |-> IF s = {} THEN 0 ELSE f[Some(s)] + h[s \ {Some(s)}]]
        BY <4>1, <4>2, Zenon
      <4> QED
        BY <4>3 DEF SumsOf
    <3> QED
      BY <3>3
  <2> QED
    BY <2>1, <2>2
<1> HIDE DEF Q
<1>2. SUBSET S \subseteq Q
  BY <1>1, SubsetInduction
<1> QED
  BY <1>2 DEF Q

\* The sum by its definition: nothing, or one element and the rest.
LEMMA SumDefinition ==
    ASSUME NEW f, NEW S, IsFiniteSet(S)
    PROVE  SumFunctionOnSet(f, S) =
              IF S = {} THEN 0
              ELSE f[Some(S)] + SumFunctionOnSet(f, S \ {Some(S)})
<1> DEFINE E(T) == CHOOSE iter : SumsOf(f, T, iter)
           B == S \ {Some(S)}
<1>1. SumFunctionOnSet(f, S) = E(S)[S] /\ SumFunctionOnSet(f, B) = E(B)[B]
  BY SumIsChosen
<1>2. SumsOf(f, S, E(S))
  BY SumsExist
<1>3. E(S)[S] = IF S = {} THEN 0 ELSE f[Some(S)] + E(S)[B]
  BY <1>2 DEF SumsOf
<1>4. IsFiniteSet(B)
  BY FS_Subset
<1>5. SumsOf(f, B, E(B))
  BY <1>4, SumsExist
<1>6. E(S)[B] = E(B)[B]
  BY <1>2, <1>5, SumsAgree
<1> QED
  BY <1>1, <1>3, <1>6

-----------------------------------------------------------------------------
(***************************************************************************)
(* Sums of natural numbers.                                                *)
(***************************************************************************)
NatOn(f, S) == \A x \in S : f[x] \in Nat

\* The sum over nothing.
LEMMA SumEmpty == \A f : SumFunctionOnSet(f, {}) = 0
BY SumDefinition, FS_EmptySet

\* A sum of naturals is one.
LEMMA SumType ==
    ASSUME NEW f, NEW S, IsFiniteSet(S), NatOn(f, S)
    PROVE  SumFunctionOnSet(f, S) \in Nat
<1> DEFINE Q == {T \in SUBSET S : SumFunctionOnSet(f, T) \in Nat}
<1>1. ASSUME NEW T \in SUBSET S, \A U \in SUBSET T : U # T => U \in Q
      PROVE  T \in Q
  <2>1. IsFiniteSet(T)
    BY FS_Subset
  <2>2. SumFunctionOnSet(f, T) = IF T = {} THEN 0
                                 ELSE f[Some(T)] + SumFunctionOnSet(f, T \ {Some(T)})
    BY <2>1, SumDefinition
  <2>3. T # {} => /\ f[Some(T)] \in Nat
                  /\ SumFunctionOnSet(f, T \ {Some(T)}) \in Nat
    BY <1>1, SomeElement DEF NatOn
  <2> QED
    BY <2>2, <2>3
<1> HIDE DEF Q
<1>2. SUBSET S \subseteq Q
  BY <1>1, SubsetInduction
<1> QED
  BY <1>2 DEF Q

\* One element more, whichever it is.
LEMMA SumAdd ==
    ASSUME NEW f, NEW S, IsFiniteSet(S), NEW x \in S, NatOn(f, S)
    PROVE  SumFunctionOnSet(f, S) = f[x] + SumFunctionOnSet(f, S \ {x})
<1> DEFINE Sum(T) == SumFunctionOnSet(f, T)
           Q == {T \in SUBSET S : \A y \in T : Sum(T) = f[y] + Sum(T \ {y})}
<1>1. \A T \in SUBSET S : IsFiniteSet(T) /\ Sum(T) \in Nat
  BY FS_Subset, SumType DEF NatOn
<1>2. \A T \in SUBSET S : T # {} => Sum(T) = f[Some(T)] + Sum(T \ {Some(T)})
  BY <1>1, SumDefinition
<1> HIDE DEF Sum
<1>3. ASSUME NEW T \in SUBSET S, \A U \in SUBSET T : U # T => U \in Q,
             NEW y \in T
      PROVE  Sum(T) = f[y] + Sum(T \ {y})
  <2> DEFINE z == Some(T)
             B == T \ {z}
             C == (T \ {y}) \ {z}
  <2>1. z \in T /\ Sum(T) = f[z] + Sum(B)
    BY <1>2, SomeElement
  <2>2. CASE y = z
    BY <2>1, <2>2
  <2>3. CASE y # z
    <3>1. B \in Q /\ T \ {y} \in Q
      BY <1>3, <2>1
    <3>2. Sum(B) = f[y] + Sum(B \ {y}) /\ Sum(T \ {y}) = f[z] + Sum(C)
      BY <2>1, <2>3, <3>1
    <3>3. B \ {y} = C
      OBVIOUS
    <3>4. f[y] \in Nat /\ f[z] \in Nat /\ Sum(C) \in Nat
      BY <1>1, <2>1 DEF NatOn
    <3> HIDE DEF z, B, C
    <3> QED
      BY <2>1, <3>2, <3>3, <3>4
  <2> QED
    BY <2>2, <2>3
<1>4. \A T \in SUBSET S : (\A U \in SUBSET T : U # T => U \in Q) => T \in Q
  BY <1>3
<1> HIDE DEF Q
<1>5. SUBSET S \subseteq Q
  BY <1>4, SubsetInduction
<1> QED
  BY <1>5 DEF Q, Sum

\* An element's share is not more than the sum.
LEMMA SumAtLeast ==
    ASSUME NEW f, NEW S, IsFiniteSet(S), NEW x \in S, NatOn(f, S)
    PROVE  f[x] <= SumFunctionOnSet(f, S)
<1>1. IsFiniteSet(S \ {x}) /\ NatOn(f, S \ {x}) /\ f[x] \in Nat
  BY FS_Subset DEF NatOn
<1>2. SumFunctionOnSet(f, S \ {x}) \in Nat
  BY <1>1, SumType
<1> QED
  BY <1>1, <1>2, SumAdd

\* More elements, a larger sum.
LEMMA SumMonotone ==
    ASSUME NEW f, NEW S, IsFiniteSet(S), NEW T \in SUBSET S, NatOn(f, S)
    PROVE  SumFunctionOnSet(f, T) <= SumFunctionOnSet(f, S)
<1> DEFINE Sum(U) == SumFunctionOnSet(f, U)
           Q == {D \in SUBSET (S \ T) : Sum(T) <= Sum(T \cup D)}
<1>1. \A U \in SUBSET S : IsFiniteSet(U) /\ Sum(U) \in Nat
  BY FS_Subset, SumType DEF NatOn
<1>2. {} \in Q
  <2>1. T \cup {} = T
    OBVIOUS
  <2> QED
    BY <1>1, <2>1
<1>3. ASSUME NEW D \in SUBSET (S \ T), NEW x \in (S \ T) \ D, D \in Q
      PROVE  D \cup {x} \in Q
  <2> DEFINE U == T \cup (D \cup {x})
  <2>1. U \in SUBSET S /\ x \in U /\ U \ {x} = T \cup D
    OBVIOUS
  <2>2. Sum(U) = f[x] + Sum(T \cup D)
    BY <1>1, <2>1, SumAdd DEF NatOn
  <2>3. f[x] \in Nat /\ Sum(T \cup D) \in Nat /\ Sum(T) \in Nat /\ Sum(T) <= Sum(T \cup D)
    BY <1>1, <1>3 DEF NatOn
  <2> HIDE DEF Sum
  <2> QED
    BY <2>2, <2>3
<1>4. IsFiniteSet(S \ T)
  BY FS_Subset
<1> HIDE DEF Q
<1>5. S \ T \in Q
  BY <1>2, <1>3, <1>4, AddingInduction
<1>6. T \cup (S \ T) = S
  OBVIOUS
<1> QED
  BY <1>5, <1>6 DEF Q

\* The sum over the values that an injective function takes.
LEMMA SumImage ==
    ASSUME NEW f, NEW S, IsFiniteSet(S), NEW h,
           \A x, y \in S : h[x] = h[y] => x = y,
           NEW V, V = {h[x] : x \in S}, NatOn(f, V),
           NEW g, \A x \in S : g[x] = f[h[x]]
    PROVE  /\ IsFiniteSet(V)
           /\ SumFunctionOnSet(f, V) = SumFunctionOnSet(g, S)
<1> DEFINE Image(T) == {h[x] : x \in T}
           Q == {T \in SUBSET S : /\ IsFiniteSet(Image(T))
                                  /\ SumFunctionOnSet(f, Image(T)) = SumFunctionOnSet(g, T)}
<1>1. {} \in Q
  <2>1. Image({}) = {}
    OBVIOUS
  <2> QED
    BY <2>1, SumEmpty, FS_EmptySet
<1>2. ASSUME NEW T \in SUBSET S, NEW x \in S \ T, T \in Q
      PROVE  T \cup {x} \in Q
  <2> DEFINE U == T \cup {x}
  <2>1. Image(U) = Image(T) \cup {h[x]} /\ h[x] \notin Image(T)
    OBVIOUS
  <2>2. IsFiniteSet(Image(T)) /\ IsFiniteSet(Image(U)) /\ IsFiniteSet(U)
    BY <1>2, <2>1, FS_AddElement, FS_Subset
  <2>3. NatOn(f, Image(U)) /\ NatOn(g, U)
    BY DEF NatOn
  <2>4. Image(U) \ {h[x]} = Image(T) /\ h[x] \in Image(U) /\ U \ {x} = T /\ x \in U
    BY <2>1
  <2>5. SumFunctionOnSet(f, Image(U)) = f[h[x]] + SumFunctionOnSet(f, Image(T))
    <3> DEFINE I == Image(U)
    <3>1. IsFiniteSet(I) /\ NatOn(f, I) /\ h[x] \in I /\ I \ {h[x]} = Image(T)
      BY <2>2, <2>3, <2>4
    <3> HIDE DEF I
    <3>2. SumFunctionOnSet(f, I) = f[h[x]] + SumFunctionOnSet(f, I \ {h[x]})
      BY <3>1, SumAdd
    <3> QED
      BY <3>1, <3>2 DEF I
  <2>6. SumFunctionOnSet(g, U) = g[x] + SumFunctionOnSet(g, T)
    <3> HIDE DEF U
    <3> QED  BY <2>2, <2>3, <2>4, SumAdd
  <2> QED
    BY <1>2, <2>2, <2>5, <2>6
<1> HIDE DEF Q
<1>3. S \in Q
  BY <1>1, <1>2, AddingInduction
<1> QED
  BY <1>3 DEF Q

\* Functions that agree have the same sum.
LEMMA SumSame ==
    ASSUME NEW f, NEW g, NEW S, IsFiniteSet(S), NatOn(f, S), \A x \in S : f[x] = g[x]
    PROVE  SumFunctionOnSet(f, S) = SumFunctionOnSet(g, S)
<1> DEFINE h == [x \in S |-> x]
<1>1. {h[x] : x \in S} = S /\ \A x \in S : g[x] = f[h[x]]
  OBVIOUS
<1>2. \A x, y \in S : h[x] = h[y] => x = y
  OBVIOUS
<1> HIDE DEF h
<1> QED
  BY <1>1, <1>2, SumImage

-----------------------------------------------------------------------------
(***************************************************************************)
(* The free stack.                                                         *)
(***************************************************************************)
\* allocate takes one slot off the stack and leaves the others.
LEMMA AllocateLemma ==
    ASSUME NEW S, NEW stack \in Seq(S), NoDuplicates(stack), stack # << >>
    PROVE  /\ allocated(stack) \in S
           /\ InStack(stack, allocated(stack))
           /\ allocate(stack) \in Seq(S)
           /\ NoDuplicates(allocate(stack))
           /\ \A slot : InStack(allocate(stack), slot)
                          <=> InStack(stack, slot) /\ slot # allocated(stack)
<1> DEFINE n == Len(stack)
           rest == allocate(stack)
<1>1. n \in Nat \ {0} /\ DOMAIN stack = 1 .. n /\ \A i \in 1 .. n : stack[i] \in S
  OBVIOUS
<1>2. allocated(stack) = stack[n]
  BY <1>1 DEF allocated, Last
<1>3. rest = SubSeq(stack, 1, n - 1)
  BY DEF allocate, Front
<1>4. rest \in Seq(S) /\ DOMAIN rest = 1 .. n - 1 /\ \A i \in 1 .. n - 1 : rest[i] = stack[i]
  BY <1>1, <1>3, SubSeqProperties
<1>5. NoDuplicates(rest)
  BY <1>1, <1>4 DEF NoDuplicates
<1>6. ASSUME NEW slot
      PROVE  InStack(rest, slot) <=> InStack(stack, slot) /\ slot # stack[n]
  BY <1>1, <1>4 DEF InStack, NoDuplicates
<1> HIDE DEF rest
<1> QED
  BY <1>1, <1>2, <1>4, <1>5, <1>6 DEF InStack, rest

\* deallocate puts one slot on the stack; there are no duplicates as long as
\* the slot was not there.
LEMMA DeallocateLemma ==
    ASSUME NEW S, NEW stack \in Seq(S), NoDuplicates(stack),
           NEW x \in S, ~InStack(stack, x)
    PROVE  /\ deallocate(stack, x) \in Seq(S)
           /\ NoDuplicates(deallocate(stack, x))
           /\ \A slot : InStack(deallocate(stack, x), slot)
                          <=> InStack(stack, slot) \/ slot = x
<1> DEFINE n == Len(stack)
           more == deallocate(stack, x)
<1>1. n \in Nat /\ DOMAIN stack = 1 .. n
  OBVIOUS
<1>2. more \in Seq(S) /\ DOMAIN more = 1 .. n + 1 /\ more[n + 1] = x
      /\ \A i \in 1 .. n : more[i] = stack[i]
  BY <1>1 DEF deallocate
<1>3. NoDuplicates(more)
  BY <1>1, <1>2 DEF NoDuplicates, InStack
<1>4. ASSUME NEW slot
      PROVE  InStack(more, slot) <=> InStack(stack, slot) \/ slot = x
  BY <1>1, <1>2 DEF InStack
<1> QED
  BY <1>2, <1>3, <1>4

-----------------------------------------------------------------------------
(***************************************************************************)
(* The best price exists.                                                  *)
(***************************************************************************)
\* A nonempty set of integers that are not negative and at most cap has a
\* least and a greatest element.
LEMMA BoundedIntegers ==
    ASSUME NEW cap \in Nat, NEW T, T # {},
           \A x \in T : x \in Int /\ 0 <= x /\ x <= cap
    PROVE  /\ \E x \in T : \A y \in T : x <= y
           /\ \E x \in T : \A y \in T : x >= y
<1>1. \E x \in T : \A y \in T : x <= y
  <2>1. T \subseteq Nat
    OBVIOUS
  <2> QED
    BY <2>1, LeastNatural
<1>2. \E x \in T : \A y \in T : x >= y
  <2> DEFINE U == {cap - x : x \in T}
  <2>1. U \subseteq Nat /\ U # {}
    OBVIOUS
  <2>2. PICK u \in U : \A w \in U : u <= w
    <3> HIDE DEF U
    <3> QED  BY <2>1, LeastNatural
  <2>3. PICK x \in T : u = cap - x
    OBVIOUS
  <2>4. \A y \in T : cap - x <= cap - y
    BY <2>2, <2>3
  <2> QED
    BY <2>4
<1> QED
  BY <1>1, <1>2

\* The prices of the levels of a book.
PricesBounded(book) ==
    \A side \in Sides : \A price \in DOMAIN book.orders[side] :
        price \in Int /\ 0 <= price /\ price <= MaxPrice

\* The best price of a side with orders is one of its levels, and no level is
\* better.
LEMMA BestPriceLemma ==
    ASSUME NEW book, PricesBounded(book), NEW side \in Sides,
           DOMAIN book.orders[side] # {}
    PROVE  /\ BestPrice(book, side) \in DOMAIN book.orders[side]
           /\ \A q \in DOMAIN book.orders[side] :
                 AtLeastAsGood(side, BestPrice(book, side), q)
<1> DEFINE P == DOMAIN book.orders[side]
<1>1. /\ \E x \in P : \A y \in P : x <= y
      /\ \E x \in P : \A y \in P : x >= y
  <2>1. \A x \in P : x \in Int /\ 0 <= x /\ x <= MaxPrice
    BY DEF PricesBounded
  <2>2. MaxPrice \in Nat
    BY EngineAssumption
  <2> HIDE DEF P
  <2> QED  BY <2>1, <2>2, BoundedIntegers DEF P
<1>2. \E p \in P : \A q \in P : AtLeastAsGood(side, p, q)
  BY <1>1 DEF AtLeastAsGood
<1> QED
  BY <1>2 DEF BestPrice

-----------------------------------------------------------------------------
(***************************************************************************)
(* add_order.                                                              *)
(***************************************************************************)
\* A book whose two structures agree.
ConsistentBook(book, m, symbol) ==
    /\ IsBook(book)
    /\ EntriesAreListed(book, m)
    /\ NodesAreFound(book, m, symbol)
    /\ HasNoEmptyLevel(book)

\* The parts of the book that add_order leaves.
LEMMA AddOrderParts ==
    ASSUME NEW book, IsBook(book), NEW m, NEW slot \in Pool, m[slot] \in Order
    PROVE  LET new    == add_order(book, m, slot)
               side   == m[slot].side
               levels == book.orders[side]
           IN  /\ new = [orders |-> new.orders, lookup |-> new.lookup]
               /\ new.orders = [s \in Sides |-> new.orders[s]]
               /\ new.orders[side] = Put(levels, m[slot].price,
                                         Append(At(levels, m[slot].price), slot))
               /\ \A s \in Sides : s # side => new.orders[s] = book.orders[s]
               /\ new.lookup = Put(book.lookup, m[slot].id, slot)
<1>1. book = [orders |-> book.orders, lookup |-> book.lookup]
      /\ book.orders = [s \in Sides |-> book.orders[s]] /\ m[slot].side \in Sides
  BY DEF IsBook, Order
<1> QED
  BY <1>1 DEF add_order

\* After add_order the book is consistent again, and what it reaches and the
\* levels it has are what they were and the new order's.
LEMMA AddOrderLemma ==
    ASSUME NEW book, NEW m, NEW symbol, ConsistentBook(book, m, symbol),
           NEW slot \in Pool, m[slot] \in Order, m[slot].symbol = symbol,
           ~Listed(book, slot), m[slot].id \notin DOMAIN book.lookup
    PROVE  LET new == add_order(book, m, slot)
           IN  /\ ConsistentBook(new, m, symbol)
               /\ \A s : Listed(new, s) <=> Listed(book, s) \/ s = slot
               /\ \A side \in Sides : \A p :
                     p \in DOMAIN new.orders[side] <=>
                        \/ p \in DOMAIN book.orders[side]
                        \/ side = m[slot].side /\ p = m[slot].price
               /\ \A id : id \in DOMAIN new.lookup <=>
                     id \in DOMAIN book.lookup \/ id = m[slot].id
<1> DEFINE new    == add_order(book, m, slot)
           side0  == m[slot].side
           price0 == m[slot].price
           id0    == m[slot].id
           old    == book.orders[side0]
           list0  == At(old, price0)
           back   == Append(list0, slot)
<1>1. side0 \in Sides /\ price0 \in Prices /\ id0 \in OrderIds
  BY DEF Order
<1>2. IsBook(book) /\ EntriesAreListed(book, m) /\ NodesAreFound(book, m, symbol)
      /\ HasNoEmptyLevel(book)
  BY DEF ConsistentBook
<1>3. list0 \in Seq(Pool)
  BY <1>1, <1>2 DEF At, IsBook, IsPartialFunction
<1>4. /\ back \in Seq(Pool) /\ DOMAIN back = 1 .. Len(list0) + 1
      /\ DOMAIN list0 = 1 .. Len(list0) /\ Len(list0) \in Nat
      /\ back[Len(list0) + 1] = slot
      /\ \A i \in DOMAIN list0 : back[i] = list0[i]
  BY <1>3
<1>4a. \A s : InStack(back, s) <=> InStack(list0, s) \/ s = slot
  BY <1>4 DEF InStack
<1>5. /\ new = [orders |-> new.orders, lookup |-> new.lookup]
      /\ new.orders = [s \in Sides |-> new.orders[s]]
      /\ new.orders[side0] = Put(old, price0, back)
      /\ \A s \in Sides : s # side0 => new.orders[s] = book.orders[s]
      /\ new.lookup = Put(book.lookup, id0, slot)
  BY <1>2, AddOrderParts
<1> HIDE DEF new, back
<1>6. /\ IsPartialFunction(new.orders[side0], Prices, Seq(Pool))
      /\ DOMAIN new.orders[side0] = DOMAIN old \cup {price0}
      /\ new.orders[side0][price0] = back
      /\ \A p \in DOMAIN old : p # price0 => new.orders[side0][p] = old[p]
  <2> DEFINE Lists == Seq(Pool)
  <2>1. IsPartialFunction(old, Prices, Lists)
    BY <1>1, <1>2 DEF IsBook
  <2>2. price0 \in Prices /\ back \in Lists
    BY <1>1, <1>4
  <2> HIDE DEF old, price0, Lists
  <2>3. /\ IsPartialFunction(Put(old, price0, back), Prices, Lists)
        /\ DOMAIN Put(old, price0, back) = DOMAIN old \cup {price0}
        /\ Put(old, price0, back)[price0] = back
        /\ \A p \in DOMAIN old : p # price0 => Put(old, price0, back)[p] = old[p]
    BY <2>1, <2>2 DEF Put, IsPartialFunction
  <2> QED
    BY <1>5, <2>3 DEF Lists
<1>7. /\ IsPartialFunction(new.lookup, OrderIds, Pool)
      /\ DOMAIN new.lookup = DOMAIN book.lookup \cup {id0}
      /\ new.lookup[id0] = slot
      /\ \A id \in DOMAIN book.lookup : id # id0 => new.lookup[id] = book.lookup[id]
  <2>1. IsPartialFunction(book.lookup, OrderIds, Pool)
    BY <1>2 DEF IsBook
  <2> DEFINE lookup == book.lookup
  <2>2. id0 \in OrderIds /\ slot \in Pool
    BY <1>1
  <2> HIDE DEF id0, lookup
  <2>3. /\ IsPartialFunction(Put(lookup, id0, slot), OrderIds, Pool)
        /\ DOMAIN Put(lookup, id0, slot) = DOMAIN lookup \cup {id0}
        /\ Put(lookup, id0, slot)[id0] = slot
        /\ \A id \in DOMAIN lookup : id # id0 => Put(lookup, id0, slot)[id] = lookup[id]
    BY <2>1, <2>2 DEF lookup, Put, IsPartialFunction
  <2> QED
    BY <1>5, <2>3 DEF lookup
<1>8. IsBook(new)
  <2>1. ASSUME NEW s \in Sides
        PROVE  IsPartialFunction(new.orders[s], Prices, Seq(Pool))
    BY <1>2, <1>5, <1>6 DEF IsBook
  <2> QED
    BY <2>1, <1>5, <1>7 DEF IsBook
<1>9. \A side \in Sides : \A p :
         p \in DOMAIN new.orders[side] <=>
            p \in DOMAIN book.orders[side] \/ (side = side0 /\ p = price0)
  BY <1>5, <1>6
<1>10. list0 = IF price0 \in DOMAIN old THEN old[price0] ELSE << >>
  BY DEF At
<1>11. HasNoEmptyLevel(new)
  <2>1. back # << >>
    BY <1>4
  <2>2. ASSUME NEW side \in Sides, NEW p \in DOMAIN new.orders[side]
        PROVE  new.orders[side][p] # << >>
    <3>1. CASE side = side0 /\ p = price0
      BY <3>1, <2>1, <1>6
    <3>2. CASE ~(side = side0 /\ p = price0)
      <4>1. p \in DOMAIN book.orders[side] /\ new.orders[side][p] = book.orders[side][p]
        BY <3>2, <1>5, <1>6, <1>9
      <4> QED
        BY <4>1, <1>2 DEF HasNoEmptyLevel
    <3> QED
      BY <3>1, <3>2
  <2> QED
    BY <2>2 DEF HasNoEmptyLevel
<1>12. ASSUME NEW s
       PROVE  Listed(new, s) <=> Listed(book, s) \/ s = slot
  <2>1. InStack(back, s) <=> InStack(list0, s) \/ s = slot
    BY <1>4a
  <2>2. InStack(list0, s) => Listed(book, s)
    BY <1>1, <1>10 DEF InStack, Listed
  <2>3. Listed(new, s) => Listed(book, s) \/ s = slot
    <3> SUFFICES ASSUME NEW side \in Sides, NEW p \in DOMAIN new.orders[side],
                        InStack(new.orders[side][p], s)
                 PROVE  Listed(book, s) \/ s = slot
      BY DEF Listed, InStack
    <3>1. CASE side = side0 /\ p = price0
      BY <3>1, <1>6, <2>1, <2>2
    <3>2. CASE ~(side = side0 /\ p = price0)
      <4>1. p \in DOMAIN book.orders[side] /\ new.orders[side][p] = book.orders[side][p]
        BY <3>2, <1>5, <1>6, <1>9
      <4> QED
        BY <4>1 DEF Listed, InStack
    <3> QED
      BY <3>1, <3>2
  <2>4. s = slot => Listed(new, s)
    <3>1. InStack(back, slot)
      BY <1>4 DEF InStack
    <3> QED
      BY <3>1, <1>1, <1>6 DEF Listed, InStack
  <2>5. Listed(book, s) => Listed(new, s)
    <3> SUFFICES ASSUME NEW side \in Sides, NEW p \in DOMAIN book.orders[side],
                        InStack(book.orders[side][p], s)
                 PROVE  Listed(new, s)
      BY DEF Listed, InStack
    <3>1. CASE side = side0 /\ p = price0
      <4>1. InStack(back, s)
        BY <3>1, <1>10, <2>1
      <4> QED
        BY <4>1, <1>1, <1>6 DEF Listed, InStack
    <3>2. CASE ~(side = side0 /\ p = price0)
      <4>1. p \in DOMAIN new.orders[side] /\ new.orders[side][p] = book.orders[side][p]
        BY <3>2, <1>5, <1>6, <1>9
      <4> QED
        BY <4>1 DEF Listed, InStack
    <3> QED
      BY <3>1, <3>2
  <2> QED
    BY <2>3, <2>4, <2>5
<1>13. EntriesAreListed(new, m)
  <2> SUFFICES ASSUME NEW id \in DOMAIN new.lookup
               PROVE  EntryIsListed(new, m, id)
    BY DEF EntriesAreListed
  <2>1. CASE id = id0
    <3>1. InStack(back, slot)
      BY <1>4 DEF InStack
    <3> QED
      BY <2>1, <3>1, <1>6, <1>7 DEF EntryIsListed
  <2>2. CASE id # id0
    <3> DEFINE order == m[book.lookup[id]]
    <3>1. id \in DOMAIN book.lookup /\ new.lookup[id] = book.lookup[id]
      BY <2>2, <1>7
    <3>2. /\ order \in Order /\ order.id = id
          /\ order.price \in DOMAIN book.orders[order.side]
          /\ InStack(book.orders[order.side][order.price], book.lookup[id])
      BY <3>1, <1>2 DEF EntriesAreListed, EntryIsListed
    <3>3. order.side \in Sides
      BY <3>2 DEF Order
    <3>4. CASE order.side = side0 /\ order.price = price0
      <4>0. list0 = book.orders[order.side][order.price]
        BY <3>2, <3>4, <1>10
      <4>1. InStack(back, book.lookup[id])
        BY <3>2, <4>0, <1>4a
      <4> QED
        BY <3>1, <3>2, <3>4, <4>1, <1>6 DEF EntryIsListed
    <3>5. CASE ~(order.side = side0 /\ order.price = price0)
      <4>1. /\ order.price \in DOMAIN new.orders[order.side]
            /\ new.orders[order.side][order.price] = book.orders[order.side][order.price]
        BY <3>2, <3>3, <3>5, <1>5, <1>6, <1>9
      <4> QED
        BY <3>1, <3>2, <4>1 DEF EntryIsListed
    <3> QED
      BY <3>4, <3>5
  <2> QED
    BY <2>1, <2>2
<1>14. NodesAreFound(new, m, symbol)
  <2> SUFFICES ASSUME NEW side \in Sides, NEW p \in DOMAIN new.orders[side]
               PROVE  /\ NoDuplicates(new.orders[side][p])
                      /\ \A i \in DOMAIN new.orders[side][p] :
                            NodeIsFound(new, m[new.orders[side][p][i]],
                                        new.orders[side][p][i], symbol, side, p)
    BY DEF NodesAreFound
  <2> DEFINE list == book.orders[side][p]
  <2>1. ASSUME p \in DOMAIN book.orders[side]
        PROVE  /\ NoDuplicates(list)
               /\ ~InStack(list, slot)
               /\ \A i \in DOMAIN list :
                     NodeIsFound(new, m[list[i]], list[i], symbol, side, p)
    <3>1. ~InStack(list, slot)
      BY <2>1 DEF Listed, InStack
    <3>2. /\ NoDuplicates(list)
          /\ \A i \in DOMAIN list :
                NodeIsFound(book, m[list[i]], list[i], symbol, side, p)
      BY <2>1, <1>2 DEF NodesAreFound
    <3> HIDE DEF list
    <3>3. ASSUME NEW i \in DOMAIN list
          PROVE  NodeIsFound(new, m[list[i]], list[i], symbol, side, p)
      BY <3>2, <1>7 DEF NodeIsFound
    <3> QED
      BY <3>1, <3>2, <3>3
  <2>2. CASE side = side0 /\ p = price0
    <3>1. CASE price0 \in DOMAIN old
      <4>1. list0 = list /\ p \in DOMAIN book.orders[side]
        BY <2>2, <3>1, <1>10
      <4> HIDE DEF list, list0
      <4>2. NoDuplicates(back)
        BY <2>1, <4>1, <1>4 DEF InStack, NoDuplicates
      <4>3. \A i \in DOMAIN list0 :
               NodeIsFound(new, m[back[i]], back[i], symbol, side, p)
        BY <2>1, <4>1, <1>4
      <4>4. NodeIsFound(new, m[slot], slot, symbol, side, p)
        BY <2>2, <1>7 DEF NodeIsFound
      <4> QED
        BY <4>2, <4>3, <4>4, <2>2, <1>4, <1>6
    <3>2. CASE price0 \notin DOMAIN old
      <4>1. back = << slot >>
        BY <3>2, <1>10 DEF back
      <4>2. NodeIsFound(new, m[slot], slot, symbol, side, p)
        BY <2>2, <1>7 DEF NodeIsFound
      <4>3. NoDuplicates(back) /\ \A i \in DOMAIN back : back[i] = slot
        BY <4>1 DEF NoDuplicates
      <4> QED
        BY <4>2, <4>3, <2>2, <1>6
    <3> QED
      BY <3>1, <3>2
  <2>3. CASE ~(side = side0 /\ p = price0)
    <3>1. p \in DOMAIN book.orders[side] /\ new.orders[side][p] = list
      BY <2>3, <1>5, <1>6, <1>9
    <3> QED
      BY <3>1, <2>1
  <2> QED
    BY <2>2, <2>3
<1> QED
  BY <1>7, <1>8, <1>9, <1>11, <1>12, <1>13, <1>14 DEF ConsistentBook, new

-----------------------------------------------------------------------------
(***************************************************************************)
(* cancel_order.                                                           *)
(***************************************************************************)
\* Erasing the node of a slot takes that slot off the list and no other.
LEMMA EraseLemma ==
    ASSUME NEW S, NEW list \in Seq(S), NoDuplicates(list),
           NEW slot, InStack(list, slot)
    PROVE  LET rest == Erased(list, NodeOf(list, slot))
           IN  /\ rest \in Seq(S)
               /\ NoDuplicates(rest)
               /\ \A s : InStack(rest, s) <=> InStack(list, s) /\ s # slot
<1> DEFINE n    == Len(list)
           node == NodeOf(list, slot)
           rest == Erased(list, node)
<1>1. n \in Nat /\ DOMAIN list = 1 .. n /\ \A i \in 1 .. n : list[i] \in S
  OBVIOUS
<1>2. node \in 1 .. n /\ list[node] = slot
  <2>1. \E i \in DOMAIN list : list[i] = slot
                               /\ \A j \in DOMAIN list : list[j] = slot => j <= i
    BY <1>1 DEF InStack, NoDuplicates
  <2> QED
    BY <2>1, <1>1 DEF NodeOf
<1> HIDE DEF node
<1>3. rest = [k \in 1 .. n - 1 |-> IF k < node THEN list[k] ELSE list[k + 1]]
  BY DEF Erased
<1> HIDE DEF rest
<1>4. /\ n - 1 \in Nat /\ DOMAIN rest = 1 .. n - 1
      /\ \A k \in 1 .. n - 1 : k < node => rest[k] = list[k]
      /\ \A k \in 1 .. n - 1 : k >= node => rest[k] = list[k + 1]
  BY <1>1, <1>2, <1>3
<1>5. rest \in Seq(S)
  BY <1>1, <1>2, <1>3, <1>4
<1>6. NoDuplicates(rest)
  <2> DEFINE at(k) == IF k < node THEN k ELSE k + 1
  <2>1. \A k \in 1 .. n - 1 : at(k) \in 1 .. n /\ rest[k] = list[at(k)]
    BY <1>1, <1>2, <1>4
  <2>2. \A j, k \in 1 .. n - 1 : at(j) = at(k) => j = k
    BY <1>1, <1>2
  <2>3. \A j, k \in 1 .. n : list[j] = list[k] => j = k
    BY <1>1 DEF NoDuplicates
  <2> HIDE DEF at
  <2> QED
    BY <2>1, <2>2, <2>3, <1>4 DEF NoDuplicates
<1>7. ASSUME NEW s
      PROVE  InStack(rest, s) <=> InStack(list, s) /\ s # slot
  <2>1. ASSUME InStack(rest, s)
        PROVE  InStack(list, s) /\ s # slot
    <3>1. PICK k \in 1 .. n - 1 : rest[k] = s
      BY <2>1, <1>4 DEF InStack
    <3>2. CASE k < node
      BY <3>1, <3>2, <1>1, <1>2, <1>4 DEF InStack, NoDuplicates
    <3>3. CASE k >= node
      <4>1. k + 1 \in 1 .. n /\ list[k + 1] = s /\ k + 1 # node
        BY <3>1, <3>3, <1>1, <1>2, <1>4
      <4> QED
        BY <4>1, <1>1, <1>2 DEF InStack, NoDuplicates
    <3> QED
      BY <3>1, <3>2, <3>3, <1>1, <1>2
  <2>2. ASSUME InStack(list, s), s # slot
        PROVE  InStack(rest, s)
    <3>1. PICK i \in 1 .. n : list[i] = s
      BY <2>2, <1>1 DEF InStack
    <3>2. CASE i < node
      BY <3>1, <3>2, <1>1, <1>2, <1>4 DEF InStack
    <3>3. CASE i > node
      <4>1. i - 1 \in 1 .. n - 1 /\ i - 1 >= node /\ rest[i - 1] = list[(i - 1) + 1]
        BY <3>1, <3>3, <1>1, <1>2, <1>4
      <4>2. (i - 1) + 1 = i
        BY <1>1
      <4> QED
        BY <3>1, <4>1, <4>2, <1>4 DEF InStack
    <3> QED
      BY <2>2, <3>1, <3>2, <3>3, <1>1, <1>2
  <2> QED
    BY <2>1, <2>2
<1> QED
  BY <1>5, <1>6, <1>7 DEF rest, node

\* The parts of the book that a cancel leaves.
LEMMA CancelOrderParts ==
    ASSUME NEW book, IsBook(book), NEW m, NEW id, Cancellable(book, m, id),
           m[book.lookup[id]].side \in Sides
    PROVE  LET new   == cancel_order(book, m, id)
               slot  == book.lookup[id]
               side  == m[slot].side
           IN  /\ new = [orders |-> new.orders, lookup |-> new.lookup]
               /\ new.orders = [s \in Sides |-> new.orders[s]]
               /\ new.orders[side] =
                     EraseFromLevel(book.orders[side], m[slot].price, slot)
               /\ \A s \in Sides : s # side => new.orders[s] = book.orders[s]
               /\ new.lookup = Without(book.lookup, id)
<1> DEFINE new   == cancel_order(book, m, id)
           slot  == book.lookup[id]
           side  == m[slot].side
           price == m[slot].price
<1>1. book.orders = [s \in Sides |-> book.orders[s]]
  BY DEF IsBook
<1>2. new = [orders |-> [book.orders EXCEPT ![side] = EraseFromLevel(@, price, slot)],
             lookup |-> Without(book.lookup, id)]
  BY DEF cancel_order
<1>3. side \in Sides
  OBVIOUS
<1> HIDE DEF new, slot, price, side
<1>4. /\ new = [orders |-> new.orders, lookup |-> new.lookup]
      /\ new.orders = [s \in Sides |-> new.orders[s]]
      /\ new.orders[side] = EraseFromLevel(book.orders[side], price, slot)
      /\ \A s \in Sides : s # side => new.orders[s] = book.orders[s]
      /\ new.lookup = Without(book.lookup, id)
  BY <1>1, <1>2, <1>3
<1> QED
  BY <1>4 DEF new, slot, price, side

\* After cancel_order the book is consistent again; it has lost the order of
\* that id and nothing else, and no level was added.
LEMMA CancelOrderLemma ==
    ASSUME NEW book, NEW m, NEW symbol, ConsistentBook(book, m, symbol),
           NEW id \in DOMAIN book.lookup
    PROVE  LET new  == cancel_order(book, m, id)
               slot == book.lookup[id]
           IN  /\ cancelled(book, m, id) = slot
               /\ slot \in Pool
               /\ Listed(book, slot)
               /\ ConsistentBook(new, m, symbol)
               /\ \A s : Listed(new, s) <=> Listed(book, s) /\ s # slot
               /\ \A side \in Sides : DOMAIN new.orders[side] \subseteq DOMAIN book.orders[side]
               /\ DOMAIN new.lookup = DOMAIN book.lookup \ {id}
<1> DEFINE new    == cancel_order(book, m, id)
           slot   == book.lookup[id]
           side0  == m[slot].side
           price0 == m[slot].price
           old    == book.orders[side0]
           list0  == old[price0]
           rest   == Erased(list0, NodeOf(list0, slot))
<1>1. IsBook(book) /\ EntriesAreListed(book, m) /\ NodesAreFound(book, m, symbol)
      /\ HasNoEmptyLevel(book)
  BY DEF ConsistentBook
<1>2. /\ m[slot] \in Order /\ m[slot].id = id
      /\ price0 \in DOMAIN old /\ InStack(list0, slot)
  BY <1>1 DEF EntriesAreListed, EntryIsListed
<1>3. side0 \in Sides /\ price0 \in Prices /\ id \in OrderIds /\ slot \in Pool
  BY <1>1, <1>2 DEF Order, IsBook, IsPartialFunction
<1>4. Cancellable(book, m, id) /\ cancelled(book, m, id) = slot
  BY <1>2 DEF Cancellable, cancelled
<1>5. Listed(book, slot)
  BY <1>2, <1>3 DEF Listed, InStack
<1>6. /\ new = [orders |-> new.orders, lookup |-> new.lookup]
      /\ new.orders = [s \in Sides |-> new.orders[s]]
      /\ new.orders[side0] = EraseFromLevel(old, price0, slot)
      /\ \A s \in Sides : s # side0 => new.orders[s] = book.orders[s]
      /\ new.lookup = Without(book.lookup, id)
  BY <1>1, <1>3, <1>4, CancelOrderParts
<1>7. list0 \in Seq(Pool) /\ NoDuplicates(list0)
      /\ \A i \in DOMAIN list0 :
            NodeIsFound(book, m[list0[i]], list0[i], symbol, side0, price0)
  BY <1>1, <1>2, <1>3 DEF IsBook, IsPartialFunction, NodesAreFound
<1>8. /\ rest \in Seq(Pool) /\ NoDuplicates(rest)
      /\ \A s : InStack(rest, s) <=> InStack(list0, s) /\ s # slot
  <2>1. InStack(list0, slot)
    BY <1>2
  <2> HIDE DEF list0, slot
  <2> QED
    BY <1>7, <2>1, EraseLemma
<1> HIDE DEF new, rest
<1>9. new.orders[side0] = IF rest = << >> THEN Without(old, price0)
                                          ELSE Put(old, price0, rest)
  BY <1>6 DEF EraseFromLevel, rest
<1>10. /\ DOMAIN new.orders[side0] = IF rest = << >> THEN DOMAIN old \ {price0}
                                                    ELSE DOMAIN old
       /\ price0 \in DOMAIN new.orders[side0] => new.orders[side0][price0] = rest
       /\ \A p \in DOMAIN old : p # price0 => new.orders[side0][p] = old[p]
       /\ IsPartialFunction(new.orders[side0], Prices, Seq(Pool))
  <2> DEFINE Lists == Seq(Pool)
  <2>1. IsPartialFunction(old, Prices, Lists)
    BY <1>1, <1>3 DEF IsBook
  <2>2. price0 \in DOMAIN old /\ rest \in Lists
    BY <1>2, <1>8
  <2> HIDE DEF old, price0, Lists
  <2>3. CASE rest = << >>
    BY <1>9, <2>1, <2>2, <2>3 DEF Without, Restrict, IsPartialFunction, Lists
  <2>4. CASE rest # << >>
    BY <1>9, <2>1, <2>2, <2>4 DEF Put, IsPartialFunction, Lists
  <2> QED
    BY <2>3, <2>4
<1>11. /\ IsPartialFunction(new.lookup, OrderIds, Pool)
       /\ DOMAIN new.lookup = DOMAIN book.lookup \ {id}
       /\ \A x \in DOMAIN new.lookup : new.lookup[x] = book.lookup[x]
  <2> DEFINE lookup == book.lookup
  <2>1. IsPartialFunction(lookup, OrderIds, Pool)
    BY <1>1 DEF IsBook
  <2>2. new.lookup = Without(lookup, id)
    BY <1>6
  <2> HIDE DEF lookup
  <2>3. /\ IsPartialFunction(new.lookup, OrderIds, Pool)
        /\ DOMAIN new.lookup = DOMAIN lookup \ {id}
        /\ \A x \in DOMAIN new.lookup : new.lookup[x] = lookup[x]
    BY <2>1, <2>2 DEF Without, Restrict, IsPartialFunction
  <2> QED
    BY <2>3 DEF lookup
<1>12. IsBook(new)
  <2>1. ASSUME NEW s \in Sides
        PROVE  IsPartialFunction(new.orders[s], Prices, Seq(Pool))
    BY <1>1, <1>6, <1>10 DEF IsBook
  <2> QED
    BY <2>1, <1>6, <1>11 DEF IsBook
<1>13. ASSUME NEW side \in Sides, NEW p
       PROVE  /\ p \in DOMAIN new.orders[side] => p \in DOMAIN book.orders[side]
              /\ p \in DOMAIN new.orders[side] =>
                    new.orders[side][p] = IF side = side0 /\ p = price0
                                          THEN rest ELSE book.orders[side][p]
              /\ p \in DOMAIN book.orders[side] /\ ~(side = side0 /\ p = price0)
                    => p \in DOMAIN new.orders[side]
  BY <1>2, <1>6, <1>10
<1>14. rest # << >> <=> price0 \in DOMAIN new.orders[side0]
  BY <1>2, <1>10
<1>15. HasNoEmptyLevel(new)
  BY <1>1, <1>13, <1>14 DEF HasNoEmptyLevel

<1>16. ASSUME NEW s
       PROVE  Listed(new, s) <=> Listed(book, s) /\ s # slot
  <2>1. ASSUME NEW side \in Sides, NEW p \in DOMAIN book.orders[side],
               InStack(book.orders[side][p], slot)
        PROVE  side = side0 /\ p = price0
    BY <2>1, <1>1 DEF NodesAreFound, NodeIsFound, InStack
  <2>2. ASSUME NEW side \in Sides, NEW p \in DOMAIN new.orders[side],
               InStack(new.orders[side][p], s)
        PROVE  Listed(book, s) /\ s # slot
    <3>1. CASE side = side0 /\ p = price0
      <4>1. InStack(list0, s) /\ s # slot
        BY <2>2, <3>1, <1>8, <1>13
      <4> QED
        BY <4>1, <1>2, <1>3 DEF Listed, InStack
    <3>2. CASE ~(side = side0 /\ p = price0)
      <4>1. p \in DOMAIN book.orders[side] /\ new.orders[side][p] = book.orders[side][p]
        BY <3>2, <1>13
      <4>2. InStack(book.orders[side][p], s)
        BY <2>2, <4>1
      <4>3. Listed(book, s)
        BY <4>1, <4>2 DEF Listed, InStack
      <4> QED
        BY <3>2, <4>1, <4>2, <4>3, <2>1
    <3> QED
      BY <3>1, <3>2
  <2>3. ASSUME NEW side \in Sides, NEW p \in DOMAIN book.orders[side],
               InStack(book.orders[side][p], s), s # slot
        PROVE  Listed(new, s)
    <3>1. CASE side = side0 /\ p = price0
      <4>1. InStack(rest, s)
        BY <2>3, <3>1, <1>8
      <4>2. price0 \in DOMAIN new.orders[side0]
        BY <4>1, <1>14 DEF InStack
      <4> QED
        BY <4>1, <4>2, <1>3, <1>13 DEF Listed, InStack
    <3>2. CASE ~(side = side0 /\ p = price0)
      <4>1. p \in DOMAIN new.orders[side] /\ new.orders[side][p] = book.orders[side][p]
        BY <3>2, <1>13
      <4> QED
        BY <2>3, <4>1 DEF Listed, InStack
    <3> QED
      BY <3>1, <3>2
  <2> QED
    BY <2>2, <2>3 DEF Listed, InStack
<1>17. EntriesAreListed(new, m)
  <2> SUFFICES ASSUME NEW x \in DOMAIN new.lookup
               PROVE  EntryIsListed(new, m, x)
    BY DEF EntriesAreListed
  <2> DEFINE other == book.lookup[x]
             order == m[other]
  <2>1. x \in DOMAIN book.lookup /\ x # id /\ new.lookup[x] = other
    BY <1>11
  <2>2. /\ order \in Order /\ order.id = x
        /\ order.price \in DOMAIN book.orders[order.side]
        /\ InStack(book.orders[order.side][order.price], other)
    BY <2>1, <1>1 DEF EntriesAreListed, EntryIsListed
  <2>3. order.side \in Sides /\ other # slot
    BY <2>1, <2>2, <1>2 DEF Order
  <2> HIDE DEF order, other
  <2>4. CASE order.side = side0 /\ order.price = price0
    <3>1. InStack(rest, other)
      BY <2>2, <2>3, <2>4, <1>8
    <3>2. price0 \in DOMAIN new.orders[side0]
      BY <3>1, <1>14 DEF InStack
    <3> QED
      BY <2>1, <2>2, <2>4, <3>1, <3>2, <1>10 DEF EntryIsListed, order
  <2>5. CASE ~(order.side = side0 /\ order.price = price0)
    <3>1. /\ order.price \in DOMAIN new.orders[order.side]
          /\ new.orders[order.side][order.price] = book.orders[order.side][order.price]
      BY <2>2, <2>3, <2>5, <1>13
    <3> QED
      BY <2>1, <2>2, <3>1 DEF EntryIsListed, order
  <2> QED
    BY <2>4, <2>5
<1>18. NodesAreFound(new, m, symbol)
  <2> SUFFICES ASSUME NEW side \in Sides, NEW p \in DOMAIN new.orders[side]
               PROVE  /\ NoDuplicates(new.orders[side][p])
                      /\ \A i \in DOMAIN new.orders[side][p] :
                            NodeIsFound(new, m[new.orders[side][p][i]],
                                        new.orders[side][p][i], symbol, side, p)
    BY DEF NodesAreFound
  <2> DEFINE list == new.orders[side][p]
             was  == book.orders[side][p]
  <2>1. p \in DOMAIN book.orders[side]
    BY <1>13
  <2>2. NoDuplicates(list)
    BY <2>1, <1>1, <1>8, <1>13 DEF NodesAreFound
  <2>3. ASSUME NEW i \in DOMAIN list
        PROVE  InStack(was, list[i]) /\ list[i] # slot
    <3>1. InStack(list, list[i])
      BY DEF InStack
    <3>2. CASE side = side0 /\ p = price0
      BY <3>1, <3>2, <1>8, <1>13
    <3>3. CASE ~(side = side0 /\ p = price0)
      <4>1. list = was
        BY <3>3, <1>13
      <4>2. list[i] = slot => side = side0 /\ p = price0
        BY <2>1, <4>1, <1>1 DEF NodesAreFound, NodeIsFound
      <4> QED
        BY <3>1, <3>3, <4>1, <4>2
    <3> QED
      BY <3>2, <3>3
  <2>4. ASSUME NEW s, InStack(was, s), s # slot
        PROVE  NodeIsFound(new, m[s], s, symbol, side, p)
    <3>1. NodeIsFound(book, m[s], s, symbol, side, p)
      BY <2>1, <2>4, <1>1 DEF NodesAreFound, InStack
    <3>2. m[s].id # id
      BY <2>4, <3>1 DEF NodeIsFound
    <3> QED
      BY <3>1, <3>2, <1>11 DEF NodeIsFound
  <2> QED
    BY <2>2, <2>3, <2>4
<1> QED
  BY <1>3, <1>4, <1>5, <1>11, <1>12, <1>13, <1>15, <1>16, <1>17, <1>18
  DEF ConsistentBook, new

-----------------------------------------------------------------------------
(***************************************************************************)
(* What a consistent book says of the orders it reaches.                   *)
(***************************************************************************)
\* An order that is reached through the lists is one of the pool, belongs to
\* this book, and its id leads back to it.
LEMMA ListedLemma ==
    ASSUME NEW book, NEW m, NEW symbol, ConsistentBook(book, m, symbol),
           NEW s, Listed(book, s)
    PROVE  /\ s \in Pool
           /\ m[s] \in Order
           /\ m[s].symbol = symbol
           /\ m[s].side \in Sides
           /\ m[s].price \in DOMAIN book.orders[m[s].side]
           /\ m[s].id \in DOMAIN book.lookup
           /\ book.lookup[m[s].id] = s
<1>1. IsBook(book) /\ NodesAreFound(book, m, symbol)
  BY DEF ConsistentBook
<1>2. PICK side \in Sides : \E price \in DOMAIN book.orders[side] :
         \E i \in DOMAIN book.orders[side][price] : book.orders[side][price][i] = s
  BY DEF Listed
<1>3. PICK price \in DOMAIN book.orders[side] :
         \E i \in DOMAIN book.orders[side][price] : book.orders[side][price][i] = s
  BY <1>2
<1>4. NodeIsFound(book, m[s], s, symbol, side, price)
  BY <1>1, <1>3 DEF NodesAreFound
<1>5. book.orders[side][price] \in Seq(Pool)
  BY <1>1, <1>3 DEF IsBook, IsPartialFunction
<1> QED
  BY <1>3, <1>4, <1>5 DEF NodeIsFound

\* The same for an order that is reached through the lookup.
LEMMA LookupLemma ==
    ASSUME NEW book, NEW m, NEW symbol, ConsistentBook(book, m, symbol),
           NEW id \in DOMAIN book.lookup
    PROVE  Listed(book, book.lookup[id]) /\ m[book.lookup[id]].id = id
<1>1. EntryIsListed(book, m, id)
  BY DEF ConsistentBook, EntriesAreListed
<1> QED
  BY <1>1 DEF EntryIsListed, Listed, InStack, Order

\* A book stays consistent when the orders it reaches keep their id, symbol,
\* side and price, whatever happens to the rest of the pool.
LEMMA SameOrdersLemma ==
    ASSUME NEW book, NEW m, NEW symbol, ConsistentBook(book, m, symbol), NEW n,
           \A s \in Pool : Listed(book, s) =>
              /\ n[s] \in Order
              /\ n[s].id = m[s].id
              /\ n[s].symbol = m[s].symbol
              /\ n[s].side = m[s].side
              /\ n[s].price = m[s].price
    PROVE  ConsistentBook(book, n, symbol)
<1>1. /\ IsBook(book) /\ EntriesAreListed(book, m)
      /\ NodesAreFound(book, m, symbol) /\ HasNoEmptyLevel(book)
  BY DEF ConsistentBook
<1>2. EntriesAreListed(book, n)
  <2> SUFFICES ASSUME NEW id \in DOMAIN book.lookup
               PROVE  EntryIsListed(book, n, id)
    BY DEF EntriesAreListed
  <2>1. EntryIsListed(book, m, id)
    BY <1>1 DEF EntriesAreListed
  <2>2. Listed(book, book.lookup[id]) /\ book.lookup[id] \in Pool
    BY LookupLemma, ListedLemma
  <2> QED
    BY <2>1, <2>2 DEF EntryIsListed
<1>3. NodesAreFound(book, n, symbol)
  <2> SUFFICES ASSUME NEW side \in Sides, NEW price \in DOMAIN book.orders[side],
                      NEW i \in DOMAIN book.orders[side][price]
               PROVE  NodeIsFound(book, n[book.orders[side][price][i]],
                                  book.orders[side][price][i], symbol, side, price)
    BY <1>1 DEF NodesAreFound
  <2> DEFINE s == book.orders[side][price][i]
  <2>1. NodeIsFound(book, m[s], s, symbol, side, price)
    BY <1>1 DEF NodesAreFound
  <2>2. Listed(book, s)
    BY DEF Listed
  <2> HIDE DEF s
  <2>3. s \in Pool
    BY <2>2, ListedLemma
  <2> QED
    BY <2>1, <2>2, <2>3 DEF NodeIsFound, s
<1> QED
  BY <1>1, <1>2, <1>3 DEF ConsistentBook

\* The best order of a side is an order of that side that no other is better
\* priced than; there is one unless the side has no level.
LEMMA BestLemma ==
    ASSUME NEW book, NEW m, NEW symbol, ConsistentBook(book, m, symbol),
           PricesBounded(book), NEW side \in Sides
    PROVE  LET best == getBest(book, side)
           IN  /\ best = NoSlot <=> DOMAIN book.orders[side] = {}
               /\ best # NoSlot =>
                     /\ Listed(book, best)
                     /\ m[best].side = side
                     /\ \A q \in DOMAIN book.orders[side] :
                           AtLeastAsGood(side, m[best].price, q)
<1> DEFINE price == BestPrice(book, side)
           list  == book.orders[side][price]
<1>1. CASE DOMAIN book.orders[side] = {}
  BY <1>1 DEF getBest
<1>2. CASE DOMAIN book.orders[side] # {}
  <2>1. /\ price \in DOMAIN book.orders[side]
        /\ \A q \in DOMAIN book.orders[side] : AtLeastAsGood(side, price, q)
    BY <1>2, BestPriceLemma
  <2> HIDE DEF price
  <2>2. list \in Seq(Pool) /\ list # << >>
    BY <2>1 DEF ConsistentBook, IsBook, IsPartialFunction, HasNoEmptyLevel
  <2>3. 1 \in DOMAIN list /\ Head(list) = list[1] /\ list[1] \in Pool
    BY <2>2
  <2>4. getBest(book, side) = list[1]
    BY <1>2, <2>3 DEF getBest, price
  <2>5. NodeIsFound(book, m[list[1]], list[1], symbol, side, price)
    BY <2>1, <2>3 DEF ConsistentBook, NodesAreFound
  <2>6. Listed(book, list[1])
    BY <2>1, <2>3 DEF Listed
  <2>7. list[1] # NoSlot
    BY <2>3, EngineAssumption DEF Pool, Slots, NoSlot
  <2> HIDE DEF list
  <2> QED
    BY <1>2, <2>1, <2>4, <2>5, <2>6, <2>7 DEF NodeIsFound
<1> QED
  BY <1>1, <1>2

=============================================================================
