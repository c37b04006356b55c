---------------------------- MODULE UsageProofs ----------------------------
(***************************************************************************)
(* Proofs about the access policy and the recorded usage: the cyclic       *)
(* window, the limit of a session, that ends are recorded, and that the    *)
(* sessions of a day fit into the allowance.                               *)
(***************************************************************************)
EXTENDS Usage, FiniteSetTheorems, NaturalsInduction, TLAPS

-----------------------------------------------------------------------------
(* Sums over sets of tickets.  Induction is on the size of the set, through
   the least size at which a fact could fail. *)

\* The sum of the values of f on S.
Sum(f, S) == MapThenSumSet(LAMBDA x : f[x], S)

\* The element the fold takes next, and its partial sums.
Pick(s) == CHOOSE x \in s : TRUE
Partial(g, f, S) ==
    g = [s \in SUBSET S |-> IF s = {} THEN 0 ELSE f[Pick(s)] + g[s \ {Pick(s)}]]

LEMMA LeastNat ==
    ASSUME NEW S \in SUBSET Nat, S # {}
    PROVE  \E n \in S : \A m \in S : n <= m
<1>1. IsWellFoundedOn(OpToRel(<, Nat), Nat)
  BY NatLessThanWellFounded, Zenon
<1>2. PICK n \in S : \A m \in S : ~(<<m, n>> \in OpToRel(<, Nat))
  BY <1>1, WFMin, Zenon
<1>3. \A m \in S : ~(m < n)
  BY <1>2, Zenon DEF OpToRel
<1> QED
  BY <1>3

\* Sets of tickets are finite, and taking an element away makes them smaller.
LEMMA TicketSets ==
    ASSUME NEW S \in SUBSET Ticket
    PROVE  /\ Cardinality(S) \in Nat /\ (Cardinality(S) = 0 <=> S = {})
           /\ S # {} => Pick(S) \in S
           /\ \A x \in S : Cardinality(S \ {x}) = Cardinality(S) - 1
<1>1. IsFiniteSet(S)
  BY FS_Subset, UsageAssumption
<1>2. Cardinality(S) \in Nat /\ (Cardinality(S) = 0 <=> S = {})
  BY <1>1, FS_CardinalityType, FS_EmptySet
<1>3. S # {} => Pick(S) \in S
  BY DEF Pick
<1> QED
  BY <1>1, <1>2, <1>3, FS_RemoveElement

\* The fold has partial sums.
LEMMA PartialExists ==
    ASSUME NEW f \in [Ticket -> Nat], NEW S \in SUBSET Ticket
    PROVE  \E g \in [SUBSET S -> Nat] : Partial(g, f, S)
<1> DEFINE Small(n) == {s \in SUBSET S : Cardinality(s) <= n}
           Good(n) == \E g \in [Small(n) -> Nat] : \A s \in Small(n) :
                         g[s] = IF s = {} THEN 0 ELSE f[Pick(s)] + g[s \ {Pick(s)}]
           Bad == {n \in Nat : ~Good(n)}
<1>0. Good(0)
  <2> DEFINE g == [s \in Small(0) |-> 0]
  <2>1. \A s \in Small(0) : s = {}
    <3>1. \A s \in SUBSET S : Cardinality(s) \in Nat /\ (Cardinality(s) = 0 => s = {})
      BY TicketSets
    <3> QED
      BY <3>1
  <2>2. g \in [Small(0) -> Nat] /\ \A s \in Small(0) : g[s] = 0
    OBVIOUS
  <2> HIDE DEF g
  <2> QED
    BY <2>1, <2>2
<1>1. ASSUME NEW n \in Nat, Good(n) PROVE Good(n + 1)
  <2>1. PICK g \in [Small(n) -> Nat] : \A s \in Small(n) :
              g[s] = IF s = {} THEN 0 ELSE f[Pick(s)] + g[s \ {Pick(s)}]
    BY <1>1
  <2> DEFINE h == [s \in Small(n + 1) |-> IF s = {} THEN 0 ELSE f[Pick(s)] + g[s \ {Pick(s)}]]
  <2>2. ASSUME NEW s \in Small(n + 1), s # {}
        PROVE  s \ {Pick(s)} \in Small(n) /\ s \ {Pick(s)} \in Small(n + 1) /\ Pick(s) \in Ticket
    <3>1. /\ s \in SUBSET Ticket /\ Cardinality(s) <= n + 1 /\ Cardinality(s) \in Nat
          /\ Pick(s) \in s /\ Cardinality(s \ {Pick(s)}) = Cardinality(s) - 1
      BY <2>2, TicketSets
    <3> QED
      BY <3>1
  <2>3. h \in [Small(n + 1) -> Nat]
    BY <2>1, <2>2
  <2>4. Small(n) \subseteq Small(n + 1)
    <3>1. \A s \in SUBSET S : Cardinality(s) \in Nat
      BY TicketSets
    <3> QED
      BY <3>1
  <2>5. \A s \in Small(n) : h[s] = g[s]
    BY <2>1, <2>4
  <2>6. \A s \in Small(n + 1) : h[s] = IF s = {} THEN 0 ELSE f[Pick(s)] + h[s \ {Pick(s)}]
    BY <2>2, <2>5
  <2> HIDE DEF h, Small
  <2> QED
    BY <2>3, <2>6
<1>2. \A n \in Nat : Good(n)
  <2> SUFFICES ASSUME Bad # {} PROVE FALSE
    OBVIOUS
  <2> HIDE DEF Good
  <2>1. PICK n \in Bad : \A m \in Bad : n <= m
    BY LeastNat
  <2>2. n # 0 /\ n - 1 \in Nat /\ Good(n - 1)
    BY <1>0, <2>1
  <2>3. (n - 1) + 1 = n
    BY <2>2
  <2> QED
    BY <1>1, <2>1, <2>2, <2>3
<1> DEFINE N == Cardinality(S)
<1>3. N \in Nat /\ Small(N) = SUBSET S
  <2>1. \A s \in SUBSET S : Cardinality(s) <= N
    BY FS_Subset, UsageAssumption
  <2> QED
    BY <2>1, TicketSets
<1>4. PICK g \in [Small(N) -> Nat] : \A s \in Small(N) :
            g[s] = IF s = {} THEN 0 ELSE f[Pick(s)] + g[s \ {Pick(s)}]
  BY <1>2, <1>3
<1> HIDE DEF N, Small
<1>5. g \in [SUBSET S -> Nat] /\ Partial(g, f, S)
  BY <1>3, <1>4 DEF Partial
<1> QED
  BY <1>5
\* Whatever the order in which the fold takes the elements, a partial sum is
\* the value of any element and the sum of the others.
Additive(g, f, S) ==
    /\ g[{}] = 0
    /\ \A s \in SUBSET S : g[s] \in Nat /\ \A x \in s : g[s] = f[x] + g[s \ {x}]

LEMMA PartialOrder ==
    ASSUME NEW f \in [Ticket -> Nat], NEW S \in SUBSET Ticket, NEW g, Partial(g, f, S)
    PROVE  Additive(g, f, S)
<1>e. \A s \in SUBSET S : g[s] = IF s = {} THEN 0 ELSE f[Pick(s)] + g[s \ {Pick(s)}]
  BY DEF Partial
<1> DEFINE Ok(s) == g[s] \in Nat /\ \A x \in s : g[s] = f[x] + g[s \ {x}]
           Bad == {n \in Nat : \E s \in SUBSET S : Cardinality(s) = n /\ ~Ok(s)}
<1>c. \A s \in SUBSET S : Cardinality(s) \in Nat
  BY TicketSets
<1>0. g[{}] = 0 /\ Ok({})
  <2>1. {} \in SUBSET S
    OBVIOUS
  <2>2. g[{}] = 0
    BY <1>e, <2>1
  <2> QED
    BY <2>2
<1>1. ASSUME NEW s \in SUBSET S, s # {}, \A r \in SUBSET S : Cardinality(r) < Cardinality(s) => Ok(r)
      PROVE  Ok(s)
  <2> DEFINE c == Pick(s)
  <2>1. /\ c \in s /\ g[s] = f[c] + g[s \ {c}] /\ s \subseteq Ticket
        /\ \A x \in s : Cardinality(s \ {x}) < Cardinality(s) /\ s \ {x} \in SUBSET S
    <3>1. /\ s \in SUBSET Ticket /\ Cardinality(s) \in Nat /\ c \in s
          /\ \A x \in s : Cardinality(s \ {x}) = Cardinality(s) - 1
      <4>1. s \in SUBSET Ticket
        OBVIOUS
      <4> QED
        BY <1>1, <4>1, TicketSets
    <3>2. g[s] = f[c] + g[s \ {c}]
      BY <1>1, <1>e
    <3> HIDE DEF c
    <3> QED
      BY <3>1, <3>2
  <2> HIDE DEF c
  <2>2. \A x \in s : Ok(s \ {x}) /\ f[x] \in Nat
    <3>1. ASSUME NEW x \in s PROVE Ok(s \ {x})
      <4> HIDE DEF Ok
      <4> QED
        BY <1>1, <2>1
    <3> QED
      BY <2>1, <3>1
  <2>3. g[s] \in Nat
    <3>1. f[c] \in Nat /\ g[s \ {c}] \in Nat /\ g[s] = f[c] + g[s \ {c}]
      BY <2>1, <2>2, Zenon
    <3> QED
      BY <3>1
  <2>4. ASSUME NEW x \in s PROVE g[s] = f[x] + g[s \ {x}]
    <3>1. CASE x = c
      BY <2>1, <3>1
    <3>2. CASE x # c
      <4>1. g[s \ {c}] = f[x] + g[(s \ {c}) \ {x}] /\ g[s \ {c}] \in Nat
        BY <2>1, <2>2, <3>2
      <4>2. g[s \ {x}] = f[c] + g[(s \ {x}) \ {c}] /\ g[s \ {x}] \in Nat
        BY <2>1, <2>2, <3>2
      <4>3. (s \ {c}) \ {x} = (s \ {x}) \ {c}
        OBVIOUS
      <4>4. g[(s \ {c}) \ {x}] \in Nat
        <5>1. Cardinality((s \ {c}) \ {x}) < Cardinality(s) /\ (s \ {c}) \ {x} \in SUBSET S
          <6>1. s \ {c} \in SUBSET Ticket /\ x \in s \ {c}
            BY <2>1, <3>2
          <6>2. Cardinality((s \ {c}) \ {x}) = Cardinality(s \ {c}) - 1
            BY <6>1, TicketSets
          <6>3. Cardinality(s \ {c}) \in Nat /\ Cardinality(s) \in Nat
            BY <2>1, <6>1, TicketSets
          <6> QED
            BY <2>1, <6>2, <6>3
        <5> QED
          BY <1>1, <5>1
      <4>5. f[c] \in Nat /\ f[x] \in Nat
        BY <2>1, <2>2
      <4> QED
        BY <2>1, <4>1, <4>2, <4>3, <4>4, <4>5
    <3> QED
      BY <3>1, <3>2
  <2> QED
    BY <2>3, <2>4
<1>2. ASSUME NEW s \in SUBSET S PROVE Ok(s)
  <2> HIDE DEF Ok
  <2> SUFFICES ASSUME ~Ok(s) PROVE FALSE
    OBVIOUS
  <2>1. Bad # {} /\ Bad \in SUBSET Nat
    BY <1>c
  <2>2. PICK n \in Bad : \A m \in Bad : n <= m
    BY <2>1, LeastNat
  <2>3. PICK r \in SUBSET S : Cardinality(r) = n /\ ~Ok(r)
    BY <2>2
  <2>4. ASSUME NEW q \in SUBSET S, Cardinality(q) < Cardinality(r) PROVE Ok(q)
    BY <1>c, <2>2, <2>3, <2>4
  <2> QED
    BY <1>0, <1>1, <2>3, <2>4
<1> QED
  BY <1>0, <1>2 DEF Additive

\* Partial sums of functions that agree are the same.
LEMMA PartialAgree ==
    ASSUME NEW f \in [Ticket -> Nat], NEW S \in SUBSET Ticket, NEW g, Partial(g, f, S),
           NEW e \in [Ticket -> Nat], NEW R \in SUBSET Ticket, NEW h, Partial(h, e, R)
    PROVE  \A s \in SUBSET (S \cap R) : (\A x \in s : f[x] = e[x]) => g[s] = h[s]
<1>g. Additive(g, f, S) /\ Additive(h, e, R)
  BY PartialOrder, Zenon
<1> DEFINE Ok(s) == (\A x \in s : f[x] = e[x]) => g[s] = h[s]
           Bad == {n \in Nat : \E s \in SUBSET (S \cap R) : Cardinality(s) = n /\ ~Ok(s)}
<1>c. \A s \in SUBSET (S \cap R) : Cardinality(s) \in Nat
  BY TicketSets
<1>0. Ok({})
  BY <1>g DEF Additive
<1>1. ASSUME NEW s \in SUBSET (S \cap R), s # {},
             \A r \in SUBSET (S \cap R) : Cardinality(r) < Cardinality(s) => Ok(r)
      PROVE  Ok(s)
  <2>1. PICK x \in s : TRUE
    BY <1>1
  <2>2. s \ {x} \in SUBSET (S \cap R) /\ Cardinality(s \ {x}) < Cardinality(s)
    BY <2>1, TicketSets
  <2>3. g[s] = f[x] + g[s \ {x}] /\ h[s] = e[x] + h[s \ {x}]
    <3>1. s \in SUBSET S /\ s \in SUBSET R
      OBVIOUS
    <3> QED
      BY <1>g, <2>1, <3>1 DEF Additive
  <2>4. Ok(s \ {x})
    BY <1>1, <2>2
  <2> QED
    BY <2>1, <2>3, <2>4
<1> SUFFICES ASSUME NEW s \in SUBSET (S \cap R) PROVE Ok(s)
  OBVIOUS
<1> HIDE DEF Ok
<1> SUFFICES ASSUME ~Ok(s) PROVE FALSE
  OBVIOUS
<1>2. Bad # {} /\ Bad \in SUBSET Nat
  BY <1>c
<1>3. PICK n \in Bad : \A m \in Bad : n <= m
  BY <1>2, LeastNat
<1>4. PICK r \in SUBSET (S \cap R) : Cardinality(r) = n /\ ~Ok(r)
  BY <1>3
<1>5. ASSUME NEW q \in SUBSET (S \cap R), Cardinality(q) < Cardinality(r) PROVE Ok(q)
  BY <1>c, <1>3, <1>4, <1>5
<1> QED
  BY <1>0, <1>1, <1>4, <1>5

\* What the fold returns is the last of its partial sums.
LEMMA SumIs ==
    ASSUME NEW f \in [Ticket -> Nat], NEW S \in SUBSET Ticket, NEW g, Partial(g, f, S)
    PROVE  Sum(f, S) = g[S]
<1> DEFINE h == CHOOSE iter : Partial(iter, f, S)
<1>1. Sum(f, S) = h[S]
  BY DEF Sum, MapThenSumSet, MapThenFoldSet, Pick, Partial
<1>2. Partial(h, f, S)
  <2>1. \E iter : Partial(iter, f, S)
    BY PartialExists
  <2> QED
    BY <2>1
<1> HIDE DEF h
<1>3. S \in SUBSET (S \cap S)
  OBVIOUS
<1> QED
  BY <1>1, <1>2, <1>3, PartialAgree

LEMMA SumType ==
    ASSUME NEW f \in [Ticket -> Nat], NEW S \in SUBSET Ticket
    PROVE  Sum(f, S) \in Nat /\ Sum(f, {}) = 0
<1>1. PICK g \in [SUBSET S -> Nat] : Partial(g, f, S)
  BY PartialExists
<1>2. PICK h \in [SUBSET {} -> Nat] : Partial(h, f, {})
  BY PartialExists
<1> QED
  BY <1>1, <1>2, SumIs, PartialOrder DEF Additive

\* One more element.
LEMMA SumAdd ==
    ASSUME NEW f \in [Ticket -> Nat], NEW S \in SUBSET Ticket, NEW x \in Ticket \ S
    PROVE  Sum(f, S \cup {x}) = f[x] + Sum(f, S)
<1> DEFINE X == S \cup {x}
<1>1. X \in SUBSET Ticket /\ S \in SUBSET (S \cap X) /\ x \in X /\ X \ {x} = S
  OBVIOUS
<1>2. PICK g \in [SUBSET X -> Nat] : Partial(g, f, X)
  BY <1>1, PartialExists
<1>3. PICK h \in [SUBSET S -> Nat] : Partial(h, f, S)
  BY PartialExists
<1> HIDE DEF X
<1>4. g[X] = f[x] + g[X \ {x}]
  BY <1>1, <1>2, PartialOrder DEF Additive
<1>5. h[S] = g[S]
  BY <1>1, <1>2, <1>3, PartialAgree
<1>6. Sum(f, X) = g[X] /\ Sum(f, S) = h[S]
  BY <1>1, <1>2, <1>3, SumIs
<1>7. Sum(f, X) = f[x] + Sum(f, S)
  BY <1>1, <1>4, <1>5, <1>6
<1> QED
  BY <1>7 DEF X

\* A sum depends on the values on its set only.
LEMMA SumSame ==
    ASSUME NEW f \in [Ticket -> Nat], NEW e \in [Ticket -> Nat], NEW S \in SUBSET Ticket,
           \A x \in S : f[x] = e[x]
    PROVE  Sum(f, S) = Sum(e, S)
<1>1. PICK g \in [SUBSET S -> Nat] : Partial(g, f, S)
  BY PartialExists
<1>2. PICK h \in [SUBSET S -> Nat] : Partial(h, e, S)
  BY PartialExists
<1>3. S \in SUBSET (S \cap S)
  OBVIOUS
<1>4. g[S] = h[S]
  BY <1>1, <1>2, <1>3, PartialAgree
<1> QED
  BY <1>1, <1>2, <1>4, SumIs

\* Sums are bounded as their values are.
LEMMA SumBound ==
    ASSUME NEW f \in [Ticket -> Nat], NEW e \in [Ticket -> Nat], NEW S \in SUBSET Ticket,
           NEW c \in Nat, NEW k \in Nat, \A x \in S : f[x] <= c * e[x] + k
    PROVE  Sum(f, S) <= c * Sum(e, S) + Cardinality(S) * k
<1> DEFINE Ok(s) == Sum(f, s) <= c * Sum(e, s) + Cardinality(s) * k
           Bad == {n \in Nat : \E s \in SUBSET S : Cardinality(s) = n /\ ~Ok(s)}
<1>c. \A s \in SUBSET S : Cardinality(s) \in Nat
  BY TicketSets
<1>0. Ok({})
  <2>1. Sum(f, {}) = 0 /\ Sum(e, {}) = 0 /\ Cardinality({}) = 0
    BY SumType, FS_EmptySet
  <2> QED
    BY <2>1
<1>1. ASSUME NEW s \in SUBSET S, s # {}, \A r \in SUBSET S : Cardinality(r) < Cardinality(s) => Ok(r)
      PROVE  Ok(s)
  <2>1. PICK x \in s : TRUE
    BY <1>1
  <2> DEFINE r == s \ {x}
  <2>2. /\ r \in SUBSET S /\ Cardinality(r) < Cardinality(s) /\ Cardinality(s) = Cardinality(r) + 1
        /\ Cardinality(r) \in Nat /\ x \in Ticket \ r /\ r \cup {x} = s /\ r \in SUBSET Ticket
    <3>1. s \in SUBSET Ticket /\ r \in SUBSET Ticket /\ r \cup {x} = s /\ x \in Ticket \ r
      BY <2>1
    <3>2. Cardinality(r) = Cardinality(s) - 1 /\ Cardinality(s) \in Nat /\ Cardinality(r) \in Nat
      BY <2>1, <3>1, TicketSets
    <3> QED
      BY <3>1, <3>2
  <2> HIDE DEF r
  <2>3. Ok(r)
    <3> HIDE DEF Ok
    <3> QED
      BY <1>1, <2>2
  <2>4. Sum(f, s) = f[x] + Sum(f, r) /\ Sum(e, s) = e[x] + Sum(e, r)
    BY <2>2, SumAdd
  <2>5. Sum(f, r) \in Nat /\ Sum(e, r) \in Nat /\ f[x] \in Nat /\ e[x] \in Nat /\ f[x] <= c * e[x] + k
    BY <2>1, <2>2, SumType
  <2> DEFINE a == Sum(e, r)
             n == Cardinality(r)
  <2>6. a \in Nat /\ n \in Nat
    BY <2>2, <2>5
  <2>7. Sum(f, s) <= c * e[x] + k + (c * a + n * k)
    BY <2>3, <2>4, <2>5, <2>6
  <2>8. c * (e[x] + a) = c * e[x] + c * a /\ (n + 1) * k = n * k + k
    <3> HIDE DEF a, n
    <3> QED
      BY <2>5, <2>6
  <2>9. Sum(e, s) = e[x] + a /\ Cardinality(s) = n + 1
    BY <2>2, <2>4
  <2>10. c * e[x] \in Nat /\ c * a \in Nat /\ n * k \in Nat
    <3> HIDE DEF a, n
    <3> QED
      BY <2>5, <2>6
  <2> HIDE DEF a, n
  <2> QED
    BY <2>7, <2>8, <2>9, <2>10
<1> HIDE DEF Ok
<1> SUFFICES ASSUME ~Ok(S) PROVE FALSE
  BY DEF Ok
<1>2. Bad # {} /\ Bad \in SUBSET Nat
  <2>1. S \in SUBSET S /\ Cardinality(S) \in Nat
    BY <1>c
  <2> QED
    BY <2>1
<1>3. PICK n \in Bad : \A m \in Bad : n <= m
  BY <1>2, LeastNat
<1>4. PICK r \in SUBSET S : Cardinality(r) = n /\ ~Ok(r)
  BY <1>3
<1>5. ASSUME NEW q \in SUBSET S, Cardinality(q) < Cardinality(r) PROVE Ok(q)
  BY <1>c, <1>3, <1>4, <1>5
<1> QED
  BY <1>0, <1>1, <1>4, <1>5

\* Values that are 0 add nothing.
LEMMA SumZero ==
    ASSUME NEW f \in [Ticket -> Nat], NEW S \in SUBSET Ticket, NEW C \in SUBSET S,
           \A x \in S \ C : f[x] = 0
    PROVE  Sum(f, S) = Sum(f, C)
<1> DEFINE Ok(s) == Sum(f, s) = Sum(f, s \cap C)
           Bad == {n \in Nat : \E s \in SUBSET S : Cardinality(s) = n /\ ~Ok(s)}
<1>c. \A s \in SUBSET S : Cardinality(s) \in Nat
  BY TicketSets
<1>0. Ok({})
  <2>1. {} \cap C = {}
    OBVIOUS
  <2> QED
    BY <2>1
<1>1. ASSUME NEW s \in SUBSET S, s # {}, \A r \in SUBSET S : Cardinality(r) < Cardinality(s) => Ok(r)
      PROVE  Ok(s)
  <2>1. PICK x \in s : TRUE
    BY <1>1
  <2> DEFINE r == s \ {x}
  <2>2. /\ r \in SUBSET S /\ Cardinality(r) < Cardinality(s)
        /\ x \in Ticket \ r /\ r \cup {x} = s /\ r \in SUBSET Ticket
    <3>1. s \in SUBSET Ticket /\ r \in SUBSET Ticket /\ r \cup {x} = s /\ x \in Ticket \ r
      BY <2>1
    <3>2. Cardinality(r) = Cardinality(s) - 1 /\ Cardinality(s) \in Nat /\ Cardinality(r) \in Nat
      BY <2>1, <3>1, TicketSets
    <3> QED
      BY <3>1, <3>2
  <2> HIDE DEF r
  <2>3. Ok(r)
    <3> HIDE DEF Ok
    <3> QED
      BY <1>1, <2>2
  <2>4. Sum(f, s) = f[x] + Sum(f, r) /\ f[x] \in Nat /\ Sum(f, r) \in Nat
    BY <2>2, SumAdd, SumType
  <2>5. CASE x \in C
    <3>1. r \cap C \in SUBSET Ticket /\ x \in Ticket \ (r \cap C) /\ (r \cap C) \cup {x} = s \cap C
      BY <2>2, <2>5
    <3>2. Sum(f, (r \cap C) \cup {x}) = f[x] + Sum(f, r \cap C)
      BY <3>1, SumAdd
    <3> QED
      BY <2>3, <2>4, <3>1, <3>2
  <2>6. CASE x \notin C
    <3>1. s \cap C = r \cap C /\ f[x] = 0
      BY <2>1, <2>2, <2>6
    <3>2. Sum(f, s) = Sum(f, r)
      BY <2>4, <3>1
    <3>3. Sum(f, s \cap C) = Sum(f, r \cap C)
      BY <3>1, Zenon
    <3> QED
      BY <2>3, <3>2, <3>3
  <2> QED
    BY <2>5, <2>6
<1> HIDE DEF Ok
<1>2. Ok(S)
  <2> SUFFICES ASSUME ~Ok(S) PROVE FALSE
    OBVIOUS
  <2>1. S \in SUBSET S /\ Cardinality(S) \in Nat
    BY <1>c
  <2>2. Bad # {} /\ Bad \in SUBSET Nat
    BY <2>1
  <2>3. PICK n \in Bad : \A m \in Bad : n <= m
    BY <2>2, LeastNat
  <2>4. PICK r \in SUBSET S : Cardinality(r) = n /\ ~Ok(r)
    BY <2>3
  <2>5. ASSUME NEW q \in SUBSET S, Cardinality(q) < Cardinality(r) PROVE Ok(q)
    BY <1>c, <2>3, <2>4, <2>5
  <2> QED
    BY <1>0, <1>1, <2>4, <2>5
<1>3. S \cap C = C
  OBVIOUS
<1> QED
  BY <1>2, <1>3 DEF Ok

-----------------------------------------------------------------------------
(* Arithmetic of the clock. *)

LEMMA DivMod ==
    ASSUME NEW n \in Int, NEW m \in Nat \ {0}
    PROVE  /\ n % m \in 0..m - 1 /\ n \div m \in Int
           /\ n = m * (n \div m) + (n % m)
  OBVIOUS

\* A quotient and a remainder are what they are.
LEMMA DivModUnique ==
    ASSUME NEW m \in Nat \ {0}, NEW q \in Int, NEW r \in 0..m - 1
    PROVE  (m * q + r) % m = r /\ (m * q + r) \div m = q
<1>1. m * q + r \in Int
  OBVIOUS
<1> QED
  BY <1>1

\* Remainders of differences of numbers below m.
LEMMA ModOfDifference ==
    ASSUME NEW m \in Nat \ {0}, NEW a \in Int
    PROVE  /\ a \in 0..m - 1 => a % m = a
           /\ a + m \in 0..m - 1 => a % m = a + m
<1>1. ASSUME a \in 0..m - 1 PROVE a % m = a
  <2>1. m * 0 + a = a
    OBVIOUS
  <2> QED
    BY <1>1, <2>1, DivModUnique
<1>2. ASSUME a + m \in 0..m - 1 PROVE a % m = a + m
  <2>1. m * (0 - 1) + (a + m) = a /\ 0 - 1 \in Int
    OBVIOUS
  <2> QED
    BY <1>2, <2>1, DivModUnique
<1> QED
  BY <1>1, <1>2

\* A day starts on a whole second.
LEMMA DayStarts ==
    ASSUME NEW n \in Nat
    PROVE  /\ Ticks \in Nat \ {0} /\ TicksPerSecond \in Nat \ {0} /\ Day(n) \in Nat
           /\ StartOfDay(n) = Ticks * Day(n)
           /\ StartOfDay(n) \in Nat /\ StartOfDay(n) <= n /\ n < StartOfDay(n) + Ticks
           /\ StartOfDay(n) = TicksPerSecond * (StartOfDay(n) \div TicksPerSecond)
<1> DEFINE A == TicksPerSecond
           K == SecondsPerMinute * MinutesPerDay
           T == Ticks
           q == Day(n)
<1>1. A \in Nat \ {0} /\ K \in Nat \ {0} /\ T = A * K /\ T \in Nat \ {0}
  <2> DEFINE x == TicksPerSecond
             y == SecondsPerMinute
             z == MinutesPerDay
  <2>1. x \in Nat \ {0} /\ y \in Nat \ {0} /\ z \in Nat \ {0}
    BY UsageAssumption
  <2>2. T = (x * y) * z
    BY DEF Ticks
  <2> HIDE DEF x, y, z, T
  <2>3. y * z \in Nat \ {0} /\ (x * y) * z = x * (y * z) /\ x * (y * z) \in Nat \ {0}
    <3>1. y * z \in Nat \ {0}
      BY <2>1
    <3>2. \A a, b, c \in Nat : (a * b) * c = a * (b * c)
      OBVIOUS
    <3>3. \A a, b \in Nat \ {0} : a * b \in Nat \ {0}
      OBVIOUS
    <3> QED
      BY <2>1, <3>1, <3>2, <3>3
  <2> QED
    BY <2>1, <2>2, <2>3 DEF x, y, z
<1> HIDE DEF A, K, T
<1>2. /\ n % T \in 0..T - 1 /\ n \div T \in Int /\ n = T * (n \div T) + (n % T)
  <2>1. n \in Int
    OBVIOUS
  <2> QED
    BY <1>1, <2>1, DivMod, Zenon
<1>3. q = n \div T /\ StartOfDay(n) = n - (n % T)
  BY DEF Day, StartOfDay, T
<1> HIDE DEF q
<1>4. q \in Nat
  <2> SUFFICES ASSUME q <= -1 PROVE FALSE
    BY <1>2, <1>3
  <2>1. T * q <= -T
    BY <1>1, <1>2, <1>3
  <2> QED
    BY <1>1, <1>2, <1>3, <2>1
<1>5. StartOfDay(n) = T * q /\ T * q \in Nat /\ T * q <= n /\ n < T * q + T
  <2>1. T * q \in Nat
    BY <1>1, <1>4
  <2> QED
    BY <1>1, <1>2, <1>3, <2>1
<1>6. T * q = A * (K * q) /\ K * q \in Nat
  <2>1. \A a, b, c \in Nat : (a * b) * c = a * (b * c) /\ b * c \in Nat
    OBVIOUS
  <2> QED
    BY <1>1, <1>4, <2>1
<1>7. (A * (K * q)) \div A = K * q
  <2> DEFINE w == K * q
  <2>1. w \in Int /\ 0 \in 0..A - 1
    BY <1>1, <1>6
  <2> HIDE DEF w
  <2>2. (A * w + 0) \div A = w /\ A * w + 0 = A * w
    BY <1>1, <2>1, DivModUnique
  <2> QED
    BY <2>2 DEF w
<1> QED
  BY <1>1, <1>4, <1>5, <1>6, <1>7 DEF A, T, q

\* A start that sorts after its own day's start is counted on that day only.
LEMMA CountedFrom ==
    ASSUME NEW n \in Nat, NEW m \in Nat, n <= m, StampFrom(n, StartOfDay(n))
    PROVE  StampFrom(n, StartOfDay(m)) <=> Day(n) = Day(m)
<1>1. ASSUME Day(n) = Day(m) PROVE StampFrom(n, StartOfDay(m))
  BY <1>1, DayStarts
<1>2. ASSUME Day(n) # Day(m) PROVE ~StampFrom(n, StartOfDay(m))
  <2> DEFINE T == Ticks
             A == TicksPerSecond
             p == Day(n)
             q == Day(m)
             S == StartOfDay(m)
             k == S \div A
             j == n \div A
  <2>1. /\ T \in Nat \ {0} /\ A \in Nat \ {0} /\ p \in Nat /\ q \in Nat
        /\ T * p <= n /\ n < T * p + T
        /\ S = T * q /\ T * q <= m /\ m < T * q + T
        /\ S \in Nat /\ S = A * k
    BY DayStarts
  <2>2. k \in Int /\ j \in Int /\ n % A \in 0..A - 1 /\ n = A * j + (n % A)
    <3>1. n \in Int /\ S \in Int
      BY <2>1
    <3> HIDE DEF A, S
    <3> QED
      BY <2>1, <3>1, DivMod, Zenon
  <2>3. p < q
    <3> HIDE DEF T, A, p, q, S, k, j
    <3> SUFFICES ASSUME q + 1 <= p PROVE FALSE
      BY <1>2, <2>1 DEF p, q
    <3>1. T * (q + 1) <= T * p /\ T * (q + 1) = T * q + T
      BY <2>1
    <3> QED
      BY <2>1, <3>1
  <2>4. n < S
    <3> HIDE DEF T, A, p, q, S, k, j
    <3>1. T * (p + 1) <= T * q /\ T * (p + 1) = T * p + T
      BY <2>1, <2>3
    <3> QED
      BY <2>1, <3>1
  <2>5. j # k
    <3> SUFFICES ASSUME j = k PROVE FALSE
      OBVIOUS
    <3>1. A * j = A * k
      OBVIOUS
    <3> QED
      BY <2>1, <2>2, <2>4, <3>1
  <2> QED
    BY <2>1, <2>4, <2>5 DEF StampFrom
<1> QED
  BY <1>1, <1>2

\* The minute of the day.
LEMMA MinuteRange ==
    ASSUME NEW n \in Nat
    PROVE  /\ Minute(n) \in 0..MinutesPerDay - 1
           /\ Ticks \in Nat \ {0} /\ TicksPerSecond * SecondsPerMinute \in Nat \ {0}
<1> DEFINE A == TicksPerSecond * SecondsPerMinute
           M == MinutesPerDay
           r == n % Ticks
           q == r \div A
<1>1. A \in Nat \ {0} /\ M \in Nat \ {0} /\ Ticks = A * M /\ Ticks \in Nat \ {0}
  <2>1. TicksPerSecond \in Nat \ {0} /\ SecondsPerMinute \in Nat \ {0} /\ M \in Nat \ {0}
    BY UsageAssumption
  <2>2. A \in Nat \ {0}
    BY <2>1
  <2> HIDE DEF A, M
  <2>3. A * M \in Nat \ {0}
    BY <2>1, <2>2
  <2>4. Ticks = A * M
    BY DEF Ticks, A, M
  <2> QED
    BY <2>1, <2>2, <2>3, <2>4
<1>2. Minute(n) = q
  BY DEF Minute
<1> HIDE DEF A, M
<1>3. r \in 0..(A * M) - 1 /\ r \in Int
  BY <1>1, DivMod
<1> HIDE DEF r
<1>4. q \in Int /\ r % A \in 0..A - 1 /\ r = A * q + (r % A)
  BY <1>1, <1>3, DivMod
<1> HIDE DEF q
<1>5. q >= 0
  <2> SUFFICES ASSUME q <= -1 PROVE FALSE
    BY <1>4
  <2>1. A * q <= -A
    BY <1>1, <1>4
  <2> QED
    BY <1>1, <1>3, <1>4, <2>1
<1>6. q < M
  <2> SUFFICES ASSUME q >= M PROVE FALSE
    BY <1>1, <1>4
  <2>1. A * q >= A * M
    BY <1>1, <1>4
  <2> QED
    BY <1>1, <1>3, <1>4, <2>1
<1> QED
  BY <1>1, <1>2, <1>4, <1>5, <1>6 DEF M, A

\* What adminUpdate let through.
LEMMA PolicyType ==
    ASSUME TypeOK
    PROVE  /\ policy.start \in 0..MinutesPerDay - 1 /\ policy.end \in 1..MinutesPerDay
           /\ policy.limit \in Nat /\ policy.max \in Nat
           /\ policy.limit * SecondsPerMinute \in Nat /\ policy.max * SecondsPerMinute \in Nat
           /\ policy.limit > 0 => policy.limit * SecondsPerMinute > 0
           /\ policy.max > 0 => policy.max * SecondsPerMinute > 0
           /\ now \in Nat
<1>1. /\ policy.start \in 0..MinutesPerDay - 1 /\ policy.end \in 1..MinutesPerDay
      /\ policy.limit \in Nat /\ policy.max \in Nat /\ now \in Nat
      /\ SecondsPerMinute \in Nat \ {0}
  BY UsageAssumption DEF TypeOK
<1> QED
  BY <1>1

LEMMA WindowCyclic == TypeOK => WindowIsCyclic
<1> SUFFICES ASSUME TypeOK PROVE WindowIsCyclic
  OBVIOUS
<1> DEFINE m == Minute(now)
           s == policy.start
           e == policy.end
           M == MinutesPerDay
<1>1. /\ s \in 0..M - 1 /\ e \in 1..M /\ m \in 0..M - 1 /\ M \in Nat \ {0}
  BY PolicyType, MinuteRange, UsageAssumption
<1>2. InWindow(policy, m) <=> \/ s = 0 /\ e = M
                              \/ s < e /\ m >= s /\ m < e
                              \/ s > e /\ (m >= s \/ m < e)
  BY DEF InWindow
<1> HIDE DEF m, s, e, M
<1>3. (m - s) % M = IF m >= s THEN m - s ELSE m - s + M
  <2>1. m - s \in Int /\ (m >= s => m - s \in 0..M - 1) /\ (m < s => m - s + M \in 0..M - 1)
    BY <1>1
  <2> QED
    BY <1>1, <2>1, ModOfDifference
<1>4. ~(s = 0 /\ e = M) => (e - s) % M = IF e >= s THEN e - s ELSE e - s + M
  <2>1. /\ e - s \in Int /\ (e < s => e - s + M \in 0..M - 1)
        /\ ~(s = 0 /\ e = M) /\ e >= s => e - s \in 0..M - 1
    BY <1>1
  <2> QED
    BY <1>1, <2>1, ModOfDifference
<1> DEFINE width == IF s = 0 /\ e = M THEN M ELSE (e - s) % M
<1>5. InWindow(policy, m) <=> (m - s) % M < width
  BY <1>1, <1>2, <1>3, <1>4
<1> QED
  BY <1>5 DEF WindowIsCyclic, m, s, e, M

-----------------------------------------------------------------------------
(* Seconds used. *)

\* What each counted row stands for.
Rows == [t \in Ticket |-> IF t \in Counted THEN RowSeconds(t) ELSE 0]

LEMMA RowsType ==
    ASSUME TypeOK
    PROVE  Rows \in [Ticket -> Nat] /\ Counted \in SUBSET Ticket
<1>1. ASSUME NEW t \in Counted PROVE RowSeconds(t) \in Nat
  <2> DEFINE ended == IF usage[t].ended = None THEN now ELSE usage[t].ended
  <2>1. usage[t].started \in Nat /\ ended \in Nat /\ TicksPerSecond \in Nat \ {0}
    BY PolicyType, UsageAssumption DEF Counted, TypeOK, NoRow
  <2>2. RowSeconds(t) = IF ended > usage[t].started
                        THEN (ended - usage[t].started) \div TicksPerSecond ELSE 0
    BY DEF RowSeconds
  <2> HIDE DEF ended
  <2>3. ended > usage[t].started => (ended - usage[t].started) \div TicksPerSecond \in Nat
    BY <2>1
  <2> QED
    BY <2>2, <2>3
<1> QED
  BY <1>1 DEF Rows, Counted

\* PolicyStatus adds the rows up.
LEMMA UsedIsSum ==
    ASSUME TypeOK
    PROVE  UsedSeconds = Sum(Rows, Counted) /\ UsedSeconds \in Nat
<1> DEFINE Eq(g) == g = [s \in SUBSET Counted |->
                           IF s = {} THEN 0 ELSE RowSeconds(Pick(s)) + g[s \ {Pick(s)}]]
           h == CHOOSE g : Eq(g)
<1>1. UsedSeconds = h[Counted]
  BY DEF UsedSeconds, MapThenSumSet, MapThenFoldSet, Pick
<1>2. ASSUME NEW s \in SUBSET Counted, s # {} PROVE Rows[Pick(s)] = RowSeconds(Pick(s))
  <2>1. Pick(s) \in s
    BY <1>2 DEF Pick
  <2> QED
    BY <2>1 DEF Rows, Counted
<1>3. ASSUME NEW g PROVE Eq(g) <=> Partial(g, Rows, Counted)
  BY <1>2 DEF Partial
<1>4. \E g : Eq(g)
  BY <1>3, RowsType, PartialExists
<1>5. Eq(h)
  BY <1>4
<1> HIDE DEF h, Eq
<1>6. Partial(h, Rows, Counted)
  BY <1>3, <1>5
<1>7. Sum(Rows, Counted) = h[Counted]
  BY <1>6, RowsType, SumIs
<1> QED
  BY <1>1, <1>7, RowsType, SumType

\* The numbers of PolicyStatus.
LEMMA LimitType ==
    ASSUME TypeOK
    PROVE  RemainingSeconds \in Int /\ EffectiveMaxSeconds \in Nat
  BY PolicyType, UsedIsSum DEF RemainingSeconds, EffectiveMaxSeconds

LEMMA LimitReal == TypeOK => LimitIsReal
<1> SUFFICES ASSUME TypeOK, Allowed, policy.limit > 0
             PROVE  /\ EffectiveMaxSeconds \in 1..RemainingSeconds
                    /\ policy.max > 0 => EffectiveMaxSeconds <= policy.max * SecondsPerMinute
  BY DEF LimitIsReal
<1>1. RemainingSeconds > 0 /\ RemainingSeconds \in Int
  BY LimitType DEF Allowed
<1> QED
  BY <1>1, PolicyType DEF EffectiveMaxSeconds
-----------------------------------------------------------------------------
(* Types and closed rows. *)

\* Nothing has gone wrong that loses the end of a session.
Clean == faults \cap {"lost", "reordered", "crash"} = {}

\* A session that has begun is on the wire or in the table, and so is its end.
Recorded(t) ==
    /\ session[t].state \in {"none", "issued"} => session[t].begun = None
    /\ session[t].begun = None =>
          /\ usage[t].started = None
          /\ <<t, "session_started">> \notin events /\ <<t, "session_exited">> \notin events
    /\ session[t].state = "running" =>
          session[t].begun # None /\ <<t, "session_exited">> \notin events
    /\ Clean /\ session[t].begun # None =>
          <<t, "session_started">> \in events \/ usage[t].started # None
    /\ Clean /\ session[t].begun # None /\ session[t].state = "over" =>
          <<t, "session_exited">> \in events \/ usage[t].ended # None

\* Inductive.
RecordInv == TypeOK /\ \A t \in Ticket : Recorded(t)

LEMMA FaultsGrow ==
    ASSUME TypeOK, [Next]_vars
    PROVE  faults \subseteq faults'
  BY DEF Next, Tick, Crash, Launch, Abandon, Begin, Finish, SessionStarted, SessionExited, Lose,
     Fault, vars

\* The fields of the rows.
LEMMA RowTypes ==
    ASSUME TypeOK, NEW t \in Ticket
    PROVE  /\ session[t] \in Sessions
           /\ session[t].begun \in Nat \cup {None} /\ session[t].done \in Nat \cup {None}
           /\ session[t].cap \in Nat
           /\ usage[t].started \in Nat \cup {None} /\ usage[t].ended \in Nat \cup {None}
           /\ usage[t].started = None => usage[t] = NoRow /\ usage[t].ended = None
           /\ now \in Nat /\ None \notin Nat
<1>1. session[t] \in Sessions /\ usage[t] \in {NoRow} \cup [started: Nat, ended: Nat \cup {None}]
  BY DEF TypeOK
<1>2. /\ session[t].begun \in Nat \cup {None} /\ session[t].done \in Nat \cup {None}
      /\ session[t].cap \in Nat
  BY <1>1 DEF Sessions
<1>3. now \in Nat /\ None \notin Nat
  BY UsageAssumption DEF TypeOK
<1>4. CASE usage[t] = NoRow
  BY <1>1, <1>2, <1>3, <1>4 DEF NoRow
<1>5. CASE usage[t] \in [started: Nat, ended: Nat \cup {None}]
  BY <1>1, <1>2, <1>3, <1>5
<1> QED
  BY <1>1, <1>4, <1>5

LEMMA UsageTypeStep == TypeOK /\ [Next]_vars => TypeOK'
<1> SUFFICES ASSUME TypeOK, [Next]_vars PROVE TypeOK'
  OBVIOUS
<1>0. session \in [Ticket -> Sessions] /\ now \in Nat
  BY UsageAssumption DEF TypeOK
<1>1. CASE Tick
  <2>1. now' \in 0..Horizon
    <3>1. Horizon \in Nat /\ now' = now + 1 /\ now < Horizon
      BY <1>1, UsageAssumption DEF Tick
    <3> QED
      BY <1>0, <3>1
  <2>2. faults' \subseteq Faults
    BY <1>1 DEF Tick, TypeOK, Fault, Faults
  <2> QED
    BY <1>1, <2>1, <2>2 DEF Tick, TypeOK
<1>2. CASE Crash
  <2>1. session' \in [Ticket -> Sessions]
    BY <1>0, <1>2 DEF Crash, Sessions
  <2> QED
    BY <1>2, <2>1 DEF Crash, TypeOK, Fault, Faults
<1>3. ASSUME NEW t \in Ticket, Launch(t) PROVE TypeOK'
  <2>1. session' \in [Ticket -> Sessions]
    BY <1>0, <1>3, LimitType DEF Launch, Sessions
  <2>2. faults' \subseteq Faults
    BY <1>3 DEF Launch, Fault, TypeOK, Faults
  <2> QED
    BY <1>3, <2>1, <2>2 DEF Launch, TypeOK
<1>4. ASSUME NEW t \in Ticket, Abandon(t) \/ Begin(t) \/ Finish(t) PROVE TypeOK'
  <2>1. session' \in [Ticket -> Sessions]
    BY <1>0, <1>4 DEF Abandon, Begin, Finish, Sessions
  <2>2. events' \subseteq Ticket \X {"session_started", "session_exited"}
    BY <1>4 DEF Abandon, Begin, Finish, TypeOK
  <2> QED
    BY <1>4, <2>1, <2>2 DEF Abandon, Begin, Finish, TypeOK
<1>5. ASSUME NEW t \in Ticket, NEW e \in {"session_started", "session_exited"}, Lose(t, e)
      PROVE  TypeOK'
  BY <1>5 DEF Lose, TypeOK, Fault, Faults
<1>6. ASSUME NEW t \in Ticket, SessionStarted(t) \/ SessionExited(t) PROVE TypeOK'
  <2>1. usage'[t] \in {NoRow} \cup [started: Nat, ended: Nat \cup {None}]
    <3>1. CASE SessionStarted(t)
      <4>1. usage'[t] = [usage[t] EXCEPT !.started = IF @ = None THEN now ELSE @]
        BY <3>1 DEF SessionStarted, TypeOK
      <4> QED
        BY <4>1, RowTypes DEF TypeOK, NoRow
    <3>2. CASE SessionExited(t)
      <4>1. usage'[t] = [usage[t] EXCEPT !.ended =
                            IF usage[t].started # None /\ @ = None THEN now ELSE @]
        BY <3>2 DEF SessionExited, TypeOK
      <4> QED
        BY <4>1, RowTypes DEF TypeOK, NoRow
    <3> QED
      BY <1>6, <3>1, <3>2
  <2>2. usage' \in [Ticket -> {NoRow} \cup [started: Nat, ended: Nat \cup {None}]]
    <3>1. usage' = [usage EXCEPT ![t] = usage'[t]]
      BY <1>6 DEF SessionStarted, SessionExited, TypeOK
    <3> QED
      BY <2>1, <3>1 DEF TypeOK
  <2>3. faults' \subseteq Faults
    BY <1>6 DEF SessionStarted, SessionExited, Fault, TypeOK, Faults
  <2>4. events' \subseteq Ticket \X {"session_started", "session_exited"}
    BY <1>6 DEF SessionStarted, SessionExited, TypeOK
  <2> QED
    BY <1>6, <2>2, <2>3, <2>4 DEF SessionStarted, SessionExited, TypeOK
<1>7. CASE UNCHANGED vars
  BY <1>7 DEF vars, TypeOK
<1> QED
  BY <1>1, <1>2, <1>3, <1>4, <1>5, <1>6, <1>7 DEF Next

\* A ticket whose row, session and events the step leaves alone.
LEMMA RecordStill ==
    ASSUME TypeOK, [Next]_vars, NEW t \in Ticket, Recorded(t),
           session'[t] = session[t], usage'[t] = usage[t],
           \A e \in {"session_started", "session_exited"} :
              <<t, e>> \in events' <=> <<t, e>> \in events
    PROVE  Recorded(t)'
<1>1. Clean' => Clean
  BY FaultsGrow DEF Clean
<1> QED
  BY <1>1 DEF Recorded

LEMMA RecordStep == RecordInv /\ [Next]_vars => RecordInv'
<1> SUFFICES ASSUME RecordInv, [Next]_vars, NEW t \in Ticket PROVE Recorded(t)'
  BY UsageTypeStep DEF RecordInv
<1>0. TypeOK /\ Recorded(t)
  BY DEF RecordInv
<1>c. Clean' => Clean
  BY <1>0, FaultsGrow DEF Clean
<1>t. /\ session \in [Ticket -> Sessions] /\ now \in Nat /\ None \notin Nat
      /\ usage \in [Ticket -> {NoRow} \cup [started: Nat, ended: Nat \cup {None}]]
  BY <1>0, RowTypes DEF TypeOK
<1>1. CASE Tick \/ UNCHANGED vars
  BY <1>0, <1>1, RecordStill DEF Tick, vars
<1>2. CASE Crash
  <2>1. ~Clean'
    BY <1>2 DEF Crash, Fault, Clean
  <2>2. /\ session'[t].begun = session[t].begun
        /\ session'[t].state = session[t].state
              \/ (session[t].state = "running" /\ session'[t].state = "over")
        /\ UNCHANGED <<usage, events>>
    BY <1>2, <1>t DEF Crash, Sessions
  <2> QED
    BY <1>0, <2>1, <2>2 DEF Recorded
<1>3. ASSUME NEW s \in Ticket, Launch(s) \/ Abandon(s) \/ Begin(s) \/ Finish(s)
      PROVE  Recorded(t)'
  <2>1. CASE s # t
    BY <1>0, <1>3, <1>t, <2>1, RecordStill DEF Launch, Abandon, Begin, Finish
  <2>2. CASE s = t /\ Launch(t)
    <3>1. /\ session[t].state = "none" /\ session'[t].state = "issued"
          /\ session'[t].begun = session[t].begun /\ UNCHANGED <<usage, events>>
      BY <2>2, <1>t DEF Launch, Sessions
    <3> QED
      BY <1>0, <3>1 DEF Recorded
  <2>3. CASE s = t /\ Abandon(t)
    <3>1. /\ session[t].state = "issued" /\ session'[t].state = "over"
          /\ session'[t].begun = session[t].begun /\ UNCHANGED <<usage, events>>
      BY <2>3, <1>t DEF Abandon, Sessions
    <3> QED
      BY <1>0, <3>1 DEF Recorded
  <2>4. CASE s = t /\ Begin(t)
    <3>1. /\ session[t].state = "issued" /\ session'[t].state = "running"
          /\ session'[t].begun = now /\ UNCHANGED usage
          /\ <<t, "session_started">> \in events'
          /\ <<t, "session_exited">> \in events' => <<t, "session_exited">> \in events
      BY <2>4, <1>t DEF Begin, Sessions
    <3> QED
      BY <1>0, <1>t, <3>1 DEF Recorded
  <2>5. CASE s = t /\ Finish(t)
    <3>1. /\ session[t].state = "running" /\ session'[t].state = "over"
          /\ session'[t].begun = session[t].begun /\ UNCHANGED usage
          /\ <<t, "session_started">> \in events' <=> <<t, "session_started">> \in events
          /\ <<t, "session_exited">> \in events'
      BY <2>5, <1>t DEF Finish, Sessions
    <3> QED
      BY <1>0, <1>c, <3>1 DEF Recorded
  <2> QED
    BY <1>3, <2>1, <2>2, <2>3, <2>4, <2>5
<1>4. ASSUME NEW s \in Ticket, NEW e \in {"session_started", "session_exited"}, Lose(s, e)
      PROVE  Recorded(t)'
  <2>1. ~Clean'
    BY <1>4 DEF Lose, Fault, Clean
  <2>2. UNCHANGED <<session, usage>> /\ events' \subseteq events
    BY <1>4 DEF Lose
  <2> QED
    BY <1>0, <2>1, <2>2 DEF Recorded
<1>5. ASSUME NEW s \in Ticket, SessionStarted(s) PROVE Recorded(t)'
  <2>1. CASE s # t
    BY <1>0, <1>5, <1>t, <2>1, RecordStill DEF SessionStarted
  <2>2. CASE s = t
    <3>1. /\ UNCHANGED session /\ <<t, "session_started">> \in events
          /\ usage'[t].started # None /\ usage'[t].ended = usage[t].ended
          /\ <<t, "session_started">> \notin events'
          /\ <<t, "session_exited">> \in events' <=> <<t, "session_exited">> \in events
      <4>1. usage'[t] = [usage[t] EXCEPT !.started = IF @ = None THEN now ELSE @]
        BY <1>5, <1>t, <2>2 DEF SessionStarted
      <4>2. usage'[t].started # None /\ usage'[t].ended = usage[t].ended
        BY <4>1, <1>0, <1>t, RowTypes DEF NoRow
      <4> QED
        BY <1>5, <2>2, <4>2 DEF SessionStarted
    <3> QED
      BY <1>0, <1>c, <3>1 DEF Recorded
  <2> QED
    BY <2>1, <2>2
<1>6. ASSUME NEW s \in Ticket, SessionExited(s) PROVE Recorded(t)'
  <2>1. CASE s # t
    BY <1>0, <1>6, <1>t, <2>1, RecordStill DEF SessionExited
  <2>2. CASE s = t
    <3>1. /\ UNCHANGED session /\ <<t, "session_exited">> \in events
          /\ usage'[t].started = usage[t].started
          /\ usage[t].started # None => usage'[t].ended # None
          /\ <<t, "session_exited">> \notin events'
          /\ <<t, "session_started">> \in events' <=> <<t, "session_started">> \in events
      BY <1>6, <1>t, <2>2 DEF SessionExited, NoRow
    <3>2. Clean' => <<t, "session_started">> \notin events
      BY <1>6, <2>2 DEF SessionExited, Fault, Clean
    <3> QED
      BY <1>0, <1>c, <3>1, <3>2 DEF Recorded
  <2> QED
    BY <2>1, <2>2
<1> QED
  BY <1>1, <1>2, <1>3, <1>4, <1>5, <1>6 DEF Next

\* The table of usage keeps its types, and a session that is over and whose
\* events have arrived is no longer charged, for any number of sessions and any
\* order of events without loss, reordering or crash (SessionEvent).
THEOREM EndsAreRecorded == Spec => []UsageInv
<1>1. Init => RecordInv
  BY UsageAssumption DEF Init, RecordInv, TypeOK, Recorded, NoRow, Sessions
<1>2. RecordInv => UsageInv
  <2> SUFFICES ASSUME RecordInv, NEW t \in Ticket, session[t].state = "over",
                      usage[t].started # None, \A e \in events : e[1] # t,
                      faults \cap {"lost", "reordered", "crash"} = {}
               PROVE  usage[t].ended # None
    BY DEF RecordInv, UsageInv, EndedIsClosed
  <2>1. Recorded(t) /\ Clean
    BY DEF RecordInv, Clean
  <2>2. <<t, "session_exited">>[1] = t
    OBVIOUS
  <2>3. <<t, "session_exited">> \notin events
    BY <2>2
  <2> QED
    BY <2>1, <2>3 DEF Recorded
<1> QED
  BY <1>1, <1>2, RecordStep, PTL DEF Spec

\* A launch is admitted exactly at the minutes of a cyclic interval of the day,
\* for every length of the day and every window the administrator can set
\* (PolicyStatus).
THEOREM CyclicWindow == Spec => []WindowIsCyclic
<1>1. Init => RecordInv
  BY UsageAssumption DEF Init, RecordInv, TypeOK, Recorded, NoRow, Sessions
<1>2. RecordInv => WindowIsCyclic
  BY WindowCyclic DEF RecordInv
<1> QED
  BY <1>1, <1>2, RecordStep, PTL DEF Spec

\* The limit an admitted session is given is at least a second and no more than
\* what is left: it never comes out as 0, which would lift it (PolicyStatus).
THEOREM LimitNeverLifted == Spec => []LimitIsReal
<1>1. Init => RecordInv
  BY UsageAssumption DEF Init, RecordInv, TypeOK, Recorded, NoRow, Sessions
<1>2. RecordInv => LimitIsReal
  BY LimitReal DEF RecordInv
<1> QED
  BY <1>1, <1>2, RecordStep, PTL DEF Spec
-----------------------------------------------------------------------------
(* The allowance of a day, when nothing goes wrong. *)

\* The table has the times of a session, but for what happens this tick.
Timed(t) ==
    /\ session[t].begun # None => session[t].begun <= now
    /\ session[t].state = "running" => usage[t].ended = None
    /\ session[t].begun # None /\ session[t].state = "over" =>
          /\ session[t].done \in Nat
          /\ session[t].begun <= session[t].done /\ session[t].done <= now
          /\ \/ usage[t].ended = session[t].done
             \/ usage[t].ended = None /\ session[t].done = now
    /\ usage[t].started # None =>
          /\ session[t].begun # None /\ usage[t].started = session[t].begun
          /\ StampFrom(session[t].begun, StartOfDay(session[t].begun))
    /\ session[t].begun # None /\ usage[t].started = None => session[t].begun = now

\* Seconds of the allowance a session takes up: all it may run, then all it ran.
Due == [t \in Ticket |->
          IF session[t].state = "running" THEN session[t].cap
          ELSE IF session[t].state = "over" /\ session[t].begun # None
          THEN (session[t].done - session[t].begun) \div TicksPerSecond
          ELSE 0]

Allowance == policy.limit * SecondsPerMinute

Single ==
    \A s, t \in Ticket :
        {session[s].state, session[t].state} \subseteq {"issued", "running"} => s = t

\* What is taken up of each day fits, with the session that is to begin.
Reserved ==
    /\ \A d \in Nat : Sum(Due, BegunOn(d)) <= Allowance
    /\ \A t \in Ticket :
          /\ session[t].state = "issued" =>
                session[t].cap >= 1 /\ session[t].cap + Sum(Due, BegunOn(Day(now))) <= Allowance
          /\ session[t].state = "running" =>
                session[t].cap >= 1
                /\ now <= session[t].begun + session[t].cap * TicksPerSecond

\* Inductive.
AllowInv ==
    /\ RecordInv
    /\ faults = {} =>
          /\ \A t \in Ticket : Timed(t)
          /\ Single
          /\ policy.limit > 0 => Reserved

LEMMA DueType ==
    ASSUME AllowInv, faults = {}
    PROVE  /\ Due \in [Ticket -> Nat] /\ TypeOK /\ Clean
           /\ \A t \in Ticket : Recorded(t) /\ Timed(t) /\ session[t] \in Sessions
           /\ \A d \in Int : BegunOn(d) \in SUBSET Ticket
           /\ Allowance \in Nat
<1>1. /\ TypeOK /\ Clean /\ \A t \in Ticket : Recorded(t) /\ Timed(t) /\ session[t] \in Sessions
  BY DEF AllowInv, RecordInv, Clean, TypeOK
<1>2. ASSUME NEW t \in Ticket PROVE Due[t] \in Nat
  <2>1. session[t].cap \in Nat /\ session[t].begun \in Nat \cup {None}
    BY <1>1 DEF Sessions
  <2>2. CASE session[t].state = "over" /\ session[t].begun # None
    <3> DEFINE n == session[t].done - session[t].begun
    <3>1. n \in Nat /\ TicksPerSecond \in Nat \ {0} /\ Due[t] = n \div TicksPerSecond
      BY <1>1, <2>1, <2>2, UsageAssumption DEF Timed, Due
    <3> HIDE DEF n
    <3>2. n \div TicksPerSecond \in Nat
      BY <3>1
    <3> QED
      BY <3>1, <3>2
  <2>3. CASE ~(session[t].state = "over" /\ session[t].begun # None)
    <3>1. CASE session[t].state = "running"
      BY <2>1, <3>1 DEF Due
    <3>2. CASE session[t].state # "running"
      BY <2>3, <3>2 DEF Due
    <3> QED
      BY <3>1, <3>2
  <2> QED
    BY <2>2, <2>3
<1>3. Due \in [Ticket -> Nat]
  BY <1>2 DEF Due
<1> QED
  BY <1>1, <1>3, PolicyType DEF Allowance, BegunOn

\* While no session is open, PolicyStatus counts what the sessions of this day
\* have taken up.
LEMMA UsedIsDue ==
    ASSUME AllowInv, faults = {}, \A t \in Ticket : session[t].state \notin {"issued", "running"}
    PROVE  UsedSeconds = Sum(Due, BegunOn(Day(now)))
<1> DEFINE B == BegunOn(Day(now))
<1>1. /\ Rows \in [Ticket -> Nat] /\ Due \in [Ticket -> Nat] /\ TypeOK /\ now \in Nat
      /\ B \in SUBSET Ticket /\ None \notin Nat
  BY DueType, RowsType, PolicyType, UsageAssumption DEF BegunOn
<1>2. ASSUME NEW t \in Ticket, session[t].begun # None
      PROVE  /\ session[t].begun \in Nat /\ session[t].begun <= now /\ session[t].done \in Nat
             /\ session[t].begun <= session[t].done /\ session[t].done <= now
             /\ Due[t] = (session[t].done - session[t].begun) \div TicksPerSecond
             /\ \/ usage[t].ended = session[t].done
                \/ usage[t].ended = None /\ session[t].done = now
             /\ usage[t].started = None => session[t].begun = now
  <2>1. Timed(t) /\ Recorded(t) /\ session[t] \in Sessions
    BY DueType
  <2>2. session[t].state = "over" /\ session[t].begun \in Nat
    BY <1>2, <2>1 DEF Recorded, Sessions
  <2> QED
    BY <1>2, <2>1, <2>2 DEF Timed, Due
<1>3. ASSUME NEW t \in Ticket, usage[t].started # None
      PROVE  /\ session[t].begun # None /\ usage[t].started = session[t].begun
             /\ t \in Counted <=> Day(session[t].begun) = Day(now)
  <2>1. /\ session[t].begun # None /\ usage[t].started = session[t].begun
        /\ StampFrom(session[t].begun, StartOfDay(session[t].begun))
    BY <1>3, DueType DEF Timed
  <2>2. session[t].begun \in Nat /\ session[t].begun <= now
    BY <1>2, <2>1
  <2>3. StampFrom(session[t].begun, StartOfDay(now)) <=> Day(session[t].begun) = Day(now)
    BY <1>1, <2>1, <2>2, CountedFrom, Zenon
  <2> QED
    BY <1>3, <2>1, <2>3 DEF Counted
<1>4. Counted \in SUBSET B
  BY <1>3 DEF Counted, BegunOn
<1>5. ASSUME NEW t \in B PROVE Rows[t] = Due[t] /\ (t \notin Counted => Rows[t] = 0)
  <2> DEFINE n == session[t].done - session[t].begun
  <2>1. t \in Ticket /\ session[t].begun # None /\ Day(session[t].begun) = Day(now)
    BY DEF BegunOn
  <2>2. n \in Nat /\ Due[t] = n \div TicksPerSecond /\ TicksPerSecond \in Nat \ {0}
    BY <1>2, <2>1, UsageAssumption
  <2>3. 0 \div TicksPerSecond = 0
    BY <2>2
  <2>4. CASE t \in Counted
    <3>1. /\ usage[t].started = session[t].begun /\ Rows[t] = RowSeconds(t)
          /\ (IF usage[t].ended = None THEN now ELSE usage[t].ended) = session[t].done
      BY <1>1, <1>2, <1>3, <2>1, <2>4 DEF Counted, Rows
    <3>2. Rows[t] = IF session[t].done > session[t].begun THEN n \div TicksPerSecond ELSE 0
      BY <3>1 DEF RowSeconds
    <3>3. ~(session[t].done > session[t].begun) => n = 0
      BY <1>2, <2>1
    <3> HIDE DEF n
    <3>4. CASE session[t].done > session[t].begun
      BY <2>2, <2>4, <3>2, <3>4
    <3>5. CASE ~(session[t].done > session[t].begun)
      BY <2>2, <2>3, <2>4, <3>2, <3>3, <3>5
    <3> QED
      BY <3>4, <3>5
  <2>5. CASE t \notin Counted
    <3>1. usage[t].started = None
      BY <1>3, <2>1, <2>5
    <3>2. n = 0
      BY <1>1, <1>2, <2>1, <3>1
    <3> HIDE DEF n
    <3> QED
      BY <2>1, <2>2, <2>3, <2>5, <3>2 DEF Rows
  <2> QED
    BY <2>4, <2>5
<1> HIDE DEF B
<1>6. Sum(Rows, B) = Sum(Rows, Counted)
  BY <1>1, <1>4, <1>5, SumZero
<1>7. Sum(Rows, B) = Sum(Due, B)
  BY <1>1, <1>5, SumSame
<1> QED
  BY <1>1, <1>6, <1>7, UsedIsSum DEF B

\* How long each session ran.
Runs == [t \in Ticket |-> IF session[t].begun # None THEN Ran(t) ELSE 0]

LEMMA RunsSum ==
    ASSUME Runs \in [Ticket -> Nat], NEW d
    PROVE  MapThenSumSet(Ran, BegunOn(d)) = Sum(Runs, BegunOn(d))
<1> DEFINE B == BegunOn(d)
           Eq(g) == g = [s \in SUBSET B |->
                           IF s = {} THEN 0 ELSE Ran(Pick(s)) + g[s \ {Pick(s)}]]
           h == CHOOSE g : Eq(g)
<1>0. B \in SUBSET Ticket
  BY DEF BegunOn
<1>1. MapThenSumSet(Ran, B) = h[B]
  BY DEF MapThenSumSet, MapThenFoldSet, Pick
<1>2. ASSUME NEW s \in SUBSET B, s # {} PROVE Runs[Pick(s)] = Ran(Pick(s))
  <2>1. Pick(s) \in s
    BY <1>2 DEF Pick
  <2> QED
    BY <2>1 DEF Runs, BegunOn
<1>3. ASSUME NEW g PROVE Eq(g) <=> Partial(g, Runs, B)
  BY <1>2 DEF Partial
<1> HIDE DEF B
<1>4. \E g : Eq(g)
  BY <1>0, <1>3, PartialExists
<1>5. Eq(h)
  BY <1>4
<1> HIDE DEF h, Eq
<1>6. Partial(h, Runs, B)
  BY <1>3, <1>5
<1>7. Sum(Runs, B) = h[B]
  BY <1>0, <1>6, SumIs
<1> QED
  BY <1>1, <1>7 DEF B

LEMMA AllowanceFollows == AllowInv => AllowanceKept
<1> SUFFICES ASSUME AllowInv, faults = {}, policy.limit > 0, NEW d \in 0..Day(now)
             PROVE  MapThenSumSet(Ran, BegunOn(d)) <=
                        TicksPerSecond * policy.limit * SecondsPerMinute
                            + Cardinality(BegunOn(d)) * (TicksPerSecond - 1)
  BY DEF AllowanceKept
<1> DEFINE c == TicksPerSecond
           B == BegunOn(d)
<1>1. /\ Due \in [Ticket -> Nat] /\ B \in SUBSET Ticket /\ c \in Nat \ {0} /\ c - 1 \in Nat
      /\ now \in Nat /\ Allowance \in Nat /\ Reserved /\ d \in Nat
      /\ None \notin Nat
  <2>1. TypeOK /\ Reserved
    BY DEF AllowInv, RecordInv
  <2> QED
    BY <2>1, DueType, PolicyType, UsageAssumption DEF BegunOn
<1>2. ASSUME NEW t \in Ticket PROVE Runs[t] \in Nat /\ Runs[t] <= c * Due[t] + (c - 1)
  <2>1. Timed(t) /\ Recorded(t) /\ session[t] \in Sessions /\ Due[t] \in Nat
    BY <1>1, DueType
  <2>0. c * Due[t] \in Nat
    <3> DEFINE x == Due[t]
    <3> HIDE DEF x, c
    <3>1. c * x \in Nat
      BY <1>1, <2>1 DEF x
    <3> QED
      BY <3>1 DEF x
  <2>2. CASE session[t].begun = None
    BY <1>1, <2>0, <2>2 DEF Runs
  <2>3. CASE session[t].begun # None /\ session[t].state = "running"
    <3>1. /\ session[t].begun \in Nat /\ session[t].begun <= now /\ session[t].cap \in Nat
          /\ now <= session[t].begun + session[t].cap * c /\ Due[t] = session[t].cap
          /\ Runs[t] = now - session[t].begun
      BY <1>1, <2>1, <2>3 DEF Timed, Sessions, Reserved, Due, Runs, Ran
    <3>2. session[t].cap * c = c * session[t].cap
      <4>1. \A a, b \in Nat : a * b = b * a
        OBVIOUS
      <4> QED
        BY <1>1, <3>1, <4>1
    <3> DEFINE x == c * session[t].cap
    <3>3. x \in Nat /\ now <= session[t].begun + x /\ x = c * Due[t]
      BY <2>0, <3>1, <3>2
    <3> HIDE DEF x, c
    <3> QED
      BY <1>1, <3>1, <3>3
  <2>4. CASE session[t].begun # None /\ session[t].state = "over"
    <3> DEFINE n == session[t].done - session[t].begun
    <3>1. n \in Nat /\ Runs[t] = n /\ Due[t] = n \div c
      BY <2>1, <2>4 DEF Timed, Sessions, Due, Runs, Ran
    <3> HIDE DEF n, c
    <3>2. n % c \in 0..c - 1 /\ n = c * (n \div c) + (n % c)
      <4>1. n \in Int
        BY <3>1
      <4> QED
        BY <1>1, <4>1, DivMod, Zenon
    <3> DEFINE y == c * Due[t]
               r == n % c
    <3>3. y \in Nat /\ r \in 0..c - 1 /\ n = y + r
      BY <2>0, <3>1, <3>2
    <3> HIDE DEF y, r
    <3>4. n <= y + (c - 1)
      BY <1>1, <3>1, <3>3
    <3> QED
      BY <3>1, <3>4 DEF y
  <2>5. session[t].begun = None \/ session[t].state \in {"running", "over"}
    BY <2>1 DEF Recorded, Sessions
  <2> QED
    BY <2>2, <2>3, <2>4, <2>5
<1>3. Runs \in [Ticket -> Nat]
  BY <1>2 DEF Runs
<1>4. MapThenSumSet(Ran, B) = Sum(Runs, B)
  BY <1>3, RunsSum
<1>5. Sum(Runs, B) <= c * Sum(Due, B) + Cardinality(B) * (c - 1)
  <2> HIDE DEF B, c
  <2>1. \A x \in B : Runs[x] <= c * Due[x] + (c - 1)
    BY <1>1, <1>2
  <2> QED
    BY <1>1, <1>3, <2>1, SumBound
<1>6. Sum(Due, B) \in Nat /\ Sum(Due, B) <= Allowance
  BY <1>1, SumType DEF Reserved
<1>7. c * Sum(Due, B) <= c * Allowance
  <2> DEFINE x == Sum(Due, B)
             y == Allowance
  <2>1. x \in Nat /\ y \in Nat /\ x <= y /\ c \in Nat
    BY <1>1, <1>6
  <2> HIDE DEF x, y, c
  <2>2. c * x <= c * y
    BY <2>1
  <2> QED
    BY <2>2 DEF x, y
<1>8. c * Allowance = TicksPerSecond * policy.limit * SecondsPerMinute
  <2>1. policy.limit \in Nat /\ SecondsPerMinute \in Nat /\ c \in Nat
    BY <1>1, DueType, PolicyType, UsageAssumption
  <2>2. \A x, y, z \in Nat : x * (y * z) = x * y * z
    OBVIOUS
  <2> QED
    BY <2>1, <2>2 DEF Allowance
<1>9. Cardinality(B) \in Nat /\ Sum(Runs, B) \in Nat /\ c * Sum(Due, B) \in Nat /\ c * Allowance \in Nat
  <2>1. Cardinality(B) \in Nat /\ Sum(Runs, B) \in Nat
    BY <1>1, <1>3, TicketSets, SumType
  <2>2. \A x, y \in Nat : x * y \in Nat
    OBVIOUS
  <2> QED
    BY <1>1, <1>6, <2>1, <2>2
<1> DEFINE k == Cardinality(B) * (c - 1)
<1>10. k \in Nat
  <2>1. \A x, y \in Nat : x * y \in Nat
    OBVIOUS
  <2> QED
    BY <1>1, <1>9, <2>1
<1> QED
  <2> DEFINE u == c * Sum(Due, B)
             v == c * Allowance
             w == Sum(Runs, B)
  <2>1. /\ u \in Nat /\ v \in Nat /\ w \in Nat /\ u <= v /\ w <= u + k
    BY <1>5, <1>7, <1>9, <1>10
  <2> HIDE DEF u, v, w, k
  <2>2. w <= v + k
    BY <1>10, <2>1
  <2> QED
    BY <1>4, <1>8, <2>2 DEF v, w, k

\* A step without a fault follows one without.
LEMMA FaultFree ==
    ASSUME AllowInv, [Next]_vars, faults' = {}
    PROVE  /\ faults = {} /\ UNCHANGED policy /\ TypeOK
           /\ \A f : Fault(f) => f = {}
           /\ session \in [Ticket -> Sessions] /\ now \in Nat /\ None \notin Nat
           /\ usage \in [Ticket -> {NoRow} \cup [started: Nat, ended: Nat \cup {None}]]
<1>1. TypeOK
  BY DEF AllowInv, RecordInv
<1>2. faults = {}
  BY <1>1, FaultsGrow
<1>3. UNCHANGED policy
  BY DEF Next, Tick, Crash, Launch, Abandon, Begin, Finish, SessionStarted, SessionExited, Lose, vars
<1> QED
  BY <1>1, <1>2, <1>3, RowTypes, UsageAssumption DEF TypeOK, Fault

\* A ticket whose session and row the step leaves alone, within the tick.
LEMMA TimedStill ==
    ASSUME NEW t \in Ticket, Timed(t), session'[t] = session[t], usage'[t] = usage[t], now' = now
    PROVE  Timed(t)'
  BY DEF Timed

LEMMA TimedStep ==
    ASSUME AllowInv, [Next]_vars, faults' = {}, NEW t \in Ticket
    PROVE  Timed(t)'
<1>0. /\ Timed(t) /\ Recorded(t) /\ Clean /\ TypeOK /\ faults = {}
      /\ \A f : Fault(f) => f = {}
      /\ session \in [Ticket -> Sessions] /\ now \in Nat /\ None \notin Nat
      /\ usage \in [Ticket -> {NoRow} \cup [started: Nat, ended: Nat \cup {None}]]
  BY FaultFree, DueType
<1>r. /\ session[t].begun \in Nat \cup {None} /\ session[t].done \in Nat \cup {None}
      /\ usage[t].started \in Nat \cup {None} /\ usage[t].ended \in Nat \cup {None}
      /\ usage[t].started = None => usage[t].ended = None
  BY <1>0, RowTypes
<1>1. CASE Tick
  <2>1. events = {}
    BY <1>0, <1>1 DEF Tick
  <2>2. /\ session[t].begun # None /\ session[t].state = "over" => usage[t].ended # None
        /\ session[t].begun # None => usage[t].started # None
    BY <1>0, <2>1 DEF Recorded
  <2>3. now' = now + 1 /\ UNCHANGED <<session, usage>>
    BY <1>1 DEF Tick
  <2>4. session[t].begun # None => session[t].begun <= now + 1
    BY <1>0, <1>r DEF Timed
  <2>5. session[t].begun # None /\ session[t].state = "over" => session[t].done <= now + 1
    BY <1>0 DEF Timed
  <2> QED
    BY <1>0, <2>2, <2>3, <2>4, <2>5 DEF Timed
<1>2. CASE Crash
  BY <1>0, <1>2 DEF Crash
<1>3. ASSUME NEW s \in Ticket, Launch(s) \/ Abandon(s) \/ Begin(s) \/ Finish(s)
      PROVE  Timed(t)'
  <2>1. CASE s # t
    BY <1>0, <1>3, <2>1, TimedStill DEF Launch, Abandon, Begin, Finish
  <2>2. CASE s = t /\ (Launch(t) \/ Abandon(t))
    <3>1. /\ session[t].state \in {"none", "issued"} /\ session'[t].begun = session[t].begun
          /\ session'[t].state # "running" /\ UNCHANGED usage
      BY <1>0, <2>2 DEF Launch, Abandon, Sessions
    <3> QED
      BY <1>0, <3>1 DEF Timed, Recorded
  <2>3. CASE s = t /\ Begin(t)
    <3>1. /\ session[t].state = "issued" /\ session'[t].begun = now
          /\ session'[t].state = "running" /\ UNCHANGED <<usage, now>>
      BY <1>0, <2>3 DEF Begin, Sessions
    <3>2. usage[t].started = None /\ usage[t].ended = None
      BY <1>0, <1>r, <3>1 DEF Recorded
    <3> QED
      BY <1>0, <3>1, <3>2 DEF Timed
  <2>4. CASE s = t /\ Finish(t)
    <3>1. /\ session[t].state = "running" /\ session'[t].begun = session[t].begun
          /\ session'[t].state = "over" /\ session'[t].done = now /\ UNCHANGED <<usage, now>>
      BY <1>0, <2>4 DEF Finish, Sessions
    <3> QED
      BY <1>0, <3>1 DEF Timed
  <2> QED
    BY <1>3, <2>1, <2>2, <2>3, <2>4
<1>4. ASSUME NEW s \in Ticket, NEW e \in {"session_started", "session_exited"}, Lose(s, e)
      PROVE  Timed(t)'
  BY <1>0, <1>4 DEF Lose
<1>5. ASSUME NEW s \in Ticket, SessionStarted(s) PROVE Timed(t)'
  <2>1. CASE s # t
    BY <1>0, <1>5, <2>1, TimedStill DEF SessionStarted
  <2>2. CASE s = t
    <3>1. /\ UNCHANGED <<session, now>> /\ <<t, "session_started">> \in events
          /\ usage'[t] = [usage[t] EXCEPT !.started = IF @ = None THEN now ELSE @]
      BY <1>0, <1>5, <2>2 DEF SessionStarted
    <3>2. StampFrom(now, StartOfDay(now))
      BY <1>0, <1>5 DEF SessionStarted
    <3>3. session[t].begun # None
      BY <1>0, <3>1 DEF Recorded
    <3>4. /\ usage'[t].started = IF usage[t].started = None THEN now ELSE usage[t].started
          /\ usage'[t].ended = usage[t].ended
      BY <1>0, <3>1 DEF NoRow
    <3>5. CASE usage[t].started = None
      <4>1. session[t].begun = now /\ usage'[t].started = now
        BY <1>0, <3>3, <3>4, <3>5 DEF Timed
      <4>2. /\ UNCHANGED <<session, now>> /\ usage'[t].ended = usage[t].ended
        BY <3>1, <3>4
      <4> QED
        BY <1>0, <3>2, <3>3, <3>4, <4>1, <4>2 DEF Timed
    <3>6. CASE usage[t].started # None
      <4>1. usage'[t].started = usage[t].started /\ usage'[t].ended = usage[t].ended
        BY <3>4, <3>6
      <4> QED
        BY <1>0, <3>1, <4>1 DEF Timed
    <3> QED
      BY <3>5, <3>6
  <2> QED
    BY <2>1, <2>2
<1>6. ASSUME NEW s \in Ticket, SessionExited(s) PROVE Timed(t)'
  <2>1. CASE s # t
    BY <1>0, <1>6, <2>1, TimedStill DEF SessionExited
  <2>2. CASE s = t
    <3>1. /\ UNCHANGED <<session, now>> /\ <<t, "session_exited">> \in events
          /\ <<t, "session_started">> \notin events
          /\ usage'[t] = [usage[t] EXCEPT !.ended =
                             IF usage[t].started # None /\ @ = None THEN now ELSE @]
      BY <1>0, <1>6, <2>2 DEF SessionExited
    <3>2. session[t].begun # None /\ session[t].state = "over" /\ usage[t].started # None
      BY <1>0, <3>1 DEF Recorded, Sessions
    <3>3. /\ usage'[t].started = usage[t].started
          /\ usage'[t].ended = IF usage[t].ended = None THEN now ELSE usage[t].ended
      BY <1>0, <3>1, <3>2 DEF NoRow
    <3>4. usage'[t].ended = session[t].done
      BY <1>0, <3>2, <3>3 DEF Timed
    <3> QED
      BY <1>0, <3>1, <3>2, <3>3, <3>4 DEF Timed
  <2> QED
    BY <2>1, <2>2
<1>7. CASE UNCHANGED vars
  BY <1>0, <1>7, TimedStill DEF vars
<1> QED
  BY <1>1, <1>2, <1>3, <1>4, <1>5, <1>6, <1>7 DEF Next

LEMMA SingleStep ==
    ASSUME AllowInv, [Next]_vars, faults' = {}
    PROVE  Single'
<1>0. /\ Single /\ faults = {} /\ \A f : Fault(f) => f = {}
      /\ session \in [Ticket -> Sessions]
  BY FaultFree DEF AllowInv
<1> DEFINE Open(t) == session[t].state \in {"issued", "running"}
<1>1. CASE \E s \in Ticket : Launch(s)
  <2>1. PICK s \in Ticket : Launch(s)
    BY <1>1
  <2>2. \A t \in Ticket : ~Open(t)
    BY <1>0, <2>1 DEF Launch
  <2>3. \A t \in Ticket : t # s => session'[t] = session[t]
    BY <1>0, <2>1 DEF Launch
  <2> QED
    BY <2>2, <2>3 DEF Single
<1>2. CASE ~\E s \in Ticket : Launch(s)
  <2>1. \A t \in Ticket : session'[t].state \in {"issued", "running"} => Open(t)
    BY <1>0, <1>2 DEF Next, Tick, Crash, Abandon, Begin, Finish, SessionStarted, SessionExited, Lose,
       vars, Sessions
  <2> QED
    BY <1>0, <2>1 DEF Single
<1> QED
  BY <1>1, <1>2

LEMMA DayMono ==
    ASSUME NEW n \in Nat, NEW m \in Nat, n <= m
    PROVE  Day(n) <= Day(m)
<1> DEFINE T == Ticks
           p == Day(n)
           q == Day(m)
<1>1. /\ T \in Nat \ {0} /\ p \in Nat /\ q \in Nat
      /\ T * p <= n /\ m < T * q + T
  BY DayStarts
<1> HIDE DEF T, p, q
<1>2. SUFFICES ASSUME q + 1 <= p PROVE FALSE
  BY <1>1 DEF p, q
<1>3. T * (q + 1) <= T * p /\ T * (q + 1) = T * q + T
  BY <1>1, <1>2
<1> QED
  BY <1>1, <1>3

\* A step that changes neither what is taken up nor what is open keeps the
\* reservations of a day.
LEMMA ReservedStill ==
    ASSUME Reserved, UNCHANGED <<now, policy, session>>
    PROVE  Reserved'
<1>1. Due' = Due /\ Allowance' = Allowance /\ \A d : BegunOn(d)' = BegunOn(d)
  BY DEF Due, Allowance, BegunOn
<1>2. \A d : Sum(Due, BegunOn(d))' = Sum(Due, BegunOn(d))
  BY <1>1
<1>3. Day(now)' = Day(now)
  OBVIOUS
<1> QED
  BY <1>1, <1>2, <1>3 DEF Reserved

LEMMA ReservedStep ==
    ASSUME AllowInv, [Next]_vars, faults' = {}, policy.limit > 0
    PROVE  Reserved'
<1>0. /\ Reserved /\ Single /\ TypeOK /\ faults = {} /\ \A f : Fault(f) => f = {}
      /\ session \in [Ticket -> Sessions] /\ now \in Nat /\ None \notin Nat
      /\ Due \in [Ticket -> Nat] /\ Allowance \in Nat /\ Allowance' = Allowance
      /\ \A d \in Int : BegunOn(d) \in SUBSET Ticket
      /\ \A t \in Ticket : Recorded(t) /\ Timed(t)
      /\ Day(now) \in Nat /\ TicksPerSecond \in Nat \ {0}
  BY FaultFree, DueType, DayStarts DEF AllowInv, Allowance
<1>c. \A t \in Ticket : session[t].cap \in Nat /\ session[t].begun \in Nat \cup {None}
  BY <1>0, RowTypes
<1>s. \A d \in Nat : Sum(Due, BegunOn(d)) \in Nat /\ Sum(Due, BegunOn(d)) <= Allowance
  BY <1>0, SumType DEF Reserved
<1>1. CASE Tick
  <2>1. /\ now' = now + 1 /\ UNCHANGED session /\ \A t \in Ticket : InTime(t)
        /\ now' \in Nat /\ Day(now') \in Nat /\ Day(now) <= Day(now')
    <3>1. now' = now + 1 /\ UNCHANGED session /\ \A t \in Ticket : InTime(t)
      BY <1>1 DEF Tick
    <3>2. now + 1 \in Nat /\ now <= now + 1
      BY <1>0
    <3>3. Day(now + 1) \in Nat /\ Day(now) <= Day(now + 1)
      BY <1>0, <3>2, DayStarts, DayMono
    <3> QED
      BY <3>1, <3>2, <3>3
  <2>2. Due' = Due /\ \A d : BegunOn(d)' = BegunOn(d)
    BY <2>1 DEF Due, BegunOn
  <2>3. \A d : Sum(Due, BegunOn(d))' = Sum(Due, BegunOn(d))
    BY <2>2
  <2>4. ASSUME NEW t \in Ticket, session[t].state = "issued"
        PROVE  session[t].cap + Sum(Due, BegunOn(Day(now'))) <= Allowance
    <3>1. session[t].cap + Sum(Due, BegunOn(Day(now))) <= Allowance /\ session[t].cap \in Nat
      BY <1>0, <1>c, <2>4 DEF Reserved
    <3>2. CASE Day(now') = Day(now)
      BY <3>1, <3>2
    <3>3. CASE Day(now') # Day(now)
      <4>1. ASSUME NEW s \in Ticket, session[s].begun # None PROVE Day(session[s].begun) # Day(now')
        <5>1. session[s].begun \in Nat /\ session[s].begun <= now
          BY <1>0, <1>c, <4>1 DEF Timed
        <5>2. Day(session[s].begun) <= Day(now) /\ Day(session[s].begun) \in Nat
          BY <1>0, <5>1, DayMono, DayStarts
        <5> QED
          BY <1>0, <2>1, <3>3, <5>2
      <4>2. BegunOn(Day(now')) = {}
        BY <4>1 DEF BegunOn
      <4>3. Sum(Due, BegunOn(Day(now'))) = 0
        BY <1>0, <4>2, SumType
      <4> DEFINE a == session[t].cap
                 b == Sum(Due, BegunOn(Day(now)))
      <4>4. a \in Nat /\ b \in Nat /\ a + b <= Allowance
        BY <1>0, <1>s, <3>1
      <4> HIDE DEF a, b
      <4>5. a + 0 <= Allowance
        BY <1>0, <4>4
      <4> QED
        BY <4>3, <4>5 DEF a
    <3> QED
      BY <3>2, <3>3
  <2>5. ASSUME NEW t \in Ticket, session[t].state = "running"
        PROVE  now' <= session[t].begun + session[t].cap * TicksPerSecond
    <3>1. session[t].cap >= 1 /\ session[t].begun \in Nat /\ session[t].cap \in Nat
      BY <1>0, <1>c, <2>5 DEF Reserved, Recorded
    <3> DEFINE x == session[t].cap * TicksPerSecond
    <3>2. x \in Nat
      <4>1. \A a, b \in Nat : a * b \in Nat
        OBVIOUS
      <4> QED
        BY <1>0, <3>1, <4>1
    <3>3. now < session[t].begun + x
      BY <2>1, <2>5, <3>1 DEF InTime
    <3> HIDE DEF x
    <3>4. now' <= session[t].begun + x
      BY <1>0, <2>1, <3>1, <3>2, <3>3
    <3> QED
      BY <3>4 DEF x
  <2>6. \A t \in Ticket : session[t].state \in {"issued", "running"} => session[t].cap >= 1
    BY <1>0 DEF Reserved
  <2>7. Sum(Due, BegunOn(Day(now)))' = Sum(Due, BegunOn(Day(now')))
    BY <2>2
  <2> QED
    BY <1>0, <1>s, <2>1, <2>3, <2>4, <2>5, <2>6, <2>7 DEF Reserved
<1>2. ASSUME NEW s \in Ticket, Launch(s) PROVE Reserved'
  <2>1. /\ session[s].state = "none" /\ session'[s].state = "issued" /\ Allowed
        /\ session'[s].cap = EffectiveMaxSeconds /\ session'[s].begun = session[s].begun
        /\ now' = now /\ \A t \in Ticket : t # s => session'[t] = session[t]
        /\ \A t \in Ticket : session[t].state \notin {"issued", "running"}
    BY <1>0, <1>2 DEF Launch, Sessions
  <2>2. session' \in [Ticket -> Sessions]
    <3>1. \A r \in Sessions, n \in Nat : [r EXCEPT !.state = "issued", !.cap = n] \in Sessions
      BY DEF Sessions
    <3> QED
      BY <1>0, <1>2, <3>1, LimitType DEF Launch
  <2>3. Due' = Due
    <3>1. \A t \in Ticket : Due[t]' = Due[t]
      <4>1. Due[s]' = 0 /\ Due[s] = 0
        BY <2>1 DEF Due
      <4>2. \A t \in Ticket : t # s => Due[t]' = Due[t]
        BY <2>1 DEF Due
      <4> QED
        BY <4>1, <4>2
    <3> QED
      BY <3>1 DEF Due
  <2>4. \A d : BegunOn(d)' = BegunOn(d)
    BY <2>1 DEF BegunOn
  <2>5. \A d : Sum(Due, BegunOn(d))' = Sum(Due, BegunOn(d))
    BY <2>3, <2>4
  <2>6. /\ EffectiveMaxSeconds \in 1..RemainingSeconds
        /\ RemainingSeconds = Allowance - Sum(Due, BegunOn(Day(now)))
        /\ RemainingSeconds \in Int
    BY <1>0, <2>1, LimitReal, LimitType, UsedIsDue DEF LimitIsReal, RemainingSeconds, Allowance
  <2>7. session'[s].cap >= 1 /\ session'[s].cap + Sum(Due, BegunOn(Day(now))) <= Allowance
    <3> DEFINE b == Sum(Due, BegunOn(Day(now)))
    <3>1. b \in Nat
      BY <1>0, <1>s
    <3> HIDE DEF b
    <3>2. EffectiveMaxSeconds >= 1 /\ EffectiveMaxSeconds + b <= Allowance
      BY <1>0, <2>6, <3>1 DEF b
    <3> QED
      BY <2>1, <3>2 DEF b
  <2>8. Sum(Due, BegunOn(Day(now)))' = Sum(Due, BegunOn(Day(now)))
    BY <2>1, <2>3, <2>4
  <2>9. \A t \in Ticket : session'[t].state # "running" /\ (session'[t].state = "issued" => t = s)
    BY <2>1
  <2> QED
    BY <1>0, <1>s, <2>5, <2>7, <2>8, <2>9 DEF Reserved
<1>3. ASSUME NEW s \in Ticket, Abandon(s) PROVE Reserved'
  <2>1. /\ session[s].state = "issued" /\ session'[s].state = "over"
        /\ session'[s].begun = session[s].begun
        /\ now' = now /\ \A t \in Ticket : t # s => session'[t] = session[t]
    BY <1>0, <1>3 DEF Abandon, Sessions
  <2>2. session[s].begun = None
    BY <1>0, <2>1 DEF Recorded
  <2>3. Due' = Due
    <3>1. \A t \in Ticket : Due[t]' = Due[t]
      <4>1. Due[s]' = 0 /\ Due[s] = 0
        BY <2>1, <2>2 DEF Due
      <4>2. \A t \in Ticket : t # s => Due[t]' = Due[t]
        BY <2>1 DEF Due
      <4> QED
        BY <4>1, <4>2
    <3> QED
      BY <3>1 DEF Due
  <2>4. \A d : BegunOn(d)' = BegunOn(d)
    BY <2>1 DEF BegunOn
  <2>5. \A d : Sum(Due, BegunOn(d))' = Sum(Due, BegunOn(d))
    BY <2>3, <2>4
  <2>6. Sum(Due, BegunOn(Day(now)))' = Sum(Due, BegunOn(Day(now)))
    BY <2>1, <2>3, <2>4
  <2>7. \A t \in Ticket : session'[t].state \in {"issued", "running"} => session'[t] = session[t]
    BY <2>1
  <2> QED
    BY <1>0, <1>s, <2>1, <2>5, <2>6, <2>7 DEF Reserved
<1>4. ASSUME NEW s \in Ticket, Begin(s) PROVE Reserved'
  <2> DEFINE D == Day(now)
             B == BegunOn(D)
             e == [Due EXCEPT ![s] = session[s].cap]
  <2>1. /\ session[s].state = "issued" /\ session'[s].state = "running"
        /\ session'[s].begun = now /\ session'[s].cap = session[s].cap
        /\ now' = now /\ \A t \in Ticket : t # s => session'[t] = session[t]
    BY <1>0, <1>4 DEF Begin, Sessions
  <2>2. session[s].begun = None
    BY <1>0, <2>1 DEF Recorded
  <2>3. Due' = e
    <3>1. \A t \in Ticket : Due[t]' = e[t]
      <4>1. Due[s]' = session[s].cap /\ e[s] = session[s].cap
        BY <1>0, <2>1 DEF Due
      <4>2. \A t \in Ticket : t # s => Due[t]' = Due[t] /\ e[t] = Due[t]
        BY <1>0, <2>1 DEF Due
      <4> QED
        BY <4>1, <4>2
    <3> QED
      BY <1>0, <3>1 DEF Due
  <2>4. e \in [Ticket -> Nat] /\ e[s] = session[s].cap /\ \A t \in Ticket \ {s} : e[t] = Due[t]
    BY <1>0, <1>c
  <2>5. /\ s \in Ticket \ B
        /\ \A d \in Nat : d = D => BegunOn(d)' = B \cup {s}
        /\ \A d \in Nat : d # D => BegunOn(d)' = BegunOn(d)
        /\ \A d \in Nat : s \notin BegunOn(d)
    <3>1. \A d : s \notin BegunOn(d)
      BY <2>2 DEF BegunOn
    <3>2. \A d : \A t \in Ticket : t # s => (t \in BegunOn(d)' <=> t \in BegunOn(d))
      BY <2>1 DEF BegunOn
    <3>3. \A d : s \in BegunOn(d)' <=> d = D
      BY <1>0, <2>1 DEF BegunOn
    <3>4. \A d : BegunOn(d) \subseteq Ticket /\ BegunOn(d)' \subseteq Ticket
      BY DEF BegunOn
    <3>5. ASSUME NEW d \in Nat, d = D PROVE BegunOn(d)' = BegunOn(d) \cup {s}
      BY <3>2, <3>3, <3>4, <3>5
    <3>6. ASSUME NEW d \in Nat, d # D PROVE BegunOn(d)' = BegunOn(d)
      BY <3>1, <3>2, <3>3, <3>4, <3>6
    <3> QED
      BY <3>1, <3>5, <3>6
  <2>6. session[s].cap >= 1 /\ session[s].cap + Sum(Due, B) <= Allowance
    BY <1>0, <2>1 DEF Reserved
  <2> HIDE DEF e, D, B
  <2>7. Sum(e, B \cup {s}) <= Allowance
    <3>1. B \in SUBSET Ticket
      BY <1>0 DEF B, D
    <3>2. Sum(e, B \cup {s}) = e[s] + Sum(e, B)
      BY <2>4, <2>5, <3>1, SumAdd
    <3>3. Sum(e, B) = Sum(Due, B)
      <4>1. \A t \in B : e[t] = Due[t]
        BY <2>4, <2>5, <3>1
      <4> QED
        BY <1>0, <2>4, <3>1, <4>1, SumSame
    <3> QED
      BY <2>4, <2>6, <3>2, <3>3
  <2>8. ASSUME NEW d \in Nat, d # D PROVE Sum(e, BegunOn(d)) = Sum(Due, BegunOn(d))
    <3>1. \A t \in BegunOn(d) : e[t] = Due[t]
      BY <1>0, <2>4, <2>5
    <3>2. BegunOn(d) \in SUBSET Ticket
      BY <1>0
    <3> QED
      BY <1>0, <2>4, <3>1, <3>2, SumSame
  <2>9. ASSUME NEW d \in Nat PROVE Sum(Due, BegunOn(d))' <= Allowance
    <3>1. Sum(Due, BegunOn(d))' = Sum(e, BegunOn(d)')
      BY <2>3
    <3>2. CASE d = D
      BY <2>5, <2>7, <3>1, <3>2
    <3>3. CASE d # D
      BY <1>s, <2>5, <2>8, <3>1, <3>3
    <3> QED
      BY <3>2, <3>3
  <2>10. \A t \in Ticket : session'[t].state \in {"issued", "running"} => t = s
    BY <1>0, <2>1 DEF Single
  <2>11. now' <= session'[s].begun + session'[s].cap * TicksPerSecond
    <3>1. \A a, b \in Nat : a * b \in Nat
      OBVIOUS
    <3>2. session[s].cap * TicksPerSecond \in Nat
      BY <1>0, <1>c, <3>1
    <3> QED
      BY <1>0, <2>1, <3>2
  <2> QED
    BY <1>0, <2>1, <2>6, <2>9, <2>10, <2>11 DEF Reserved
<1>5. ASSUME NEW s \in Ticket, Finish(s) PROVE Reserved'
  <2> DEFINE n == now - session[s].begun
             e == [Due EXCEPT ![s] = n \div TicksPerSecond]
  <2>1. /\ session[s].state = "running" /\ session'[s].state = "over"
        /\ session'[s].begun = session[s].begun /\ session'[s].done = now
        /\ now' = now /\ \A t \in Ticket : t # s => session'[t] = session[t]
    BY <1>0, <1>5 DEF Finish, Sessions
  <2>2. /\ session[s].begun \in Nat /\ session[s].begun <= now /\ session[s].cap \in Nat
        /\ now <= session[s].begun + session[s].cap * TicksPerSecond /\ Due[s] = session[s].cap
    BY <1>0, <1>c, <2>1 DEF Recorded, Timed, Reserved, Due
  <2>3. Due' = e
    <3>1. \A t \in Ticket : Due[t]' = e[t]
      <4>1. Due[s]' = n \div TicksPerSecond /\ e[s] = n \div TicksPerSecond
        BY <1>0, <2>1, <2>2 DEF Due
      <4>2. \A t \in Ticket : t # s => Due[t]' = Due[t] /\ e[t] = Due[t]
        BY <1>0, <2>1 DEF Due
      <4> QED
        BY <4>1, <4>2
    <3> QED
      BY <1>0, <3>1 DEF Due
  <2>4. n \div TicksPerSecond \in Nat /\ n \div TicksPerSecond <= session[s].cap
    <3> DEFINE c == TicksPerSecond
               k == session[s].cap
               q == n \div c
    <3>1. c \in Nat \ {0} /\ n \in Nat /\ k \in Nat /\ n \in Int
      BY <1>0, <2>2
    <3> DEFINE x == k * c
    <3>2. x \in Nat
      <4>1. \A a, b \in Nat : a * b \in Nat
        OBVIOUS
      <4> QED
        BY <3>1, <4>1
    <3>3. now <= session[s].begun + x
      BY <2>2
    <3>4. n <= x
      <4> HIDE DEF x
      <4> QED
        BY <1>0, <2>2, <3>2, <3>3
    <3> HIDE DEF c, k, n
    <3>5. q \in Int /\ n % c \in 0..c - 1 /\ n = c * q + (n % c)
      BY <3>1, DivMod, Zenon
    <3>6. q \in Nat
      BY <3>1
    <3> DEFINE r == n % c
    <3>7. r \in 0..c - 1 /\ n = c * q + r
      BY <3>5
    <3> HIDE DEF q, r
    <3>8. q <= k
      <4> SUFFICES ASSUME k + 1 <= q PROVE FALSE
        BY <3>1, <3>6
      <4>1. c * (k + 1) <= c * q /\ c * (k + 1) = k * c + c
        BY <3>1, <3>6
      <4>2. c * q \in Nat /\ k * c \in Nat
        BY <3>1, <3>6
      <4> QED
        BY <3>1, <3>4, <3>7, <4>1, <4>2
    <3> QED
      BY <3>6, <3>8 DEF q, c, k
  <2>5. e \in [Ticket -> Nat] /\ \A t \in Ticket : e[t] <= Due[t]
    <3>1. e \in [Ticket -> Nat] /\ e[s] = n \div TicksPerSecond
      BY <1>0, <2>4
    <3>2. \A t \in Ticket \ {s} : e[t] = Due[t] /\ Due[t] \in Nat
      BY <1>0
    <3> HIDE DEF e
    <3>3. e[s] <= Due[s]
      BY <2>2, <2>4, <3>1
    <3>4. ASSUME NEW t \in Ticket, t # s PROVE e[t] <= Due[t]
      BY <3>2, <3>4
    <3> QED
      BY <3>1, <3>3, <3>4
  <2>6. \A d : BegunOn(d)' = BegunOn(d)
    BY <2>1 DEF BegunOn
  <2> HIDE DEF e
  <2>7. ASSUME NEW d \in Nat PROVE Sum(Due, BegunOn(d))' <= Allowance
    <3> DEFINE B == BegunOn(d)
    <3>1. Sum(Due, BegunOn(d))' = Sum(e, B)
      BY <2>3, <2>6
    <3>2. B \in SUBSET Ticket
      BY <1>0
    <3>3. \A t \in B : e[t] <= 1 * Due[t] + 0
      <4>1. \A t \in B : e[t] <= Due[t] /\ Due[t] \in Nat
        BY <1>0, <2>5, <3>2
      <4> QED
        BY <4>1
    <3> HIDE DEF B
    <3>4. Sum(e, B) <= 1 * Sum(Due, B) + Cardinality(B) * 0
      BY <1>0, <2>5, <3>2, <3>3, SumBound
    <3>5. /\ Cardinality(B) \in Nat /\ Sum(e, B) \in Nat
          /\ Sum(Due, B) \in Nat /\ Sum(Due, B) <= Allowance
      BY <1>s, <2>5, <3>2, TicketSets, SumType DEF B
    <3> QED
      BY <1>0, <3>1, <3>4, <3>5
  <2>8. \A t \in Ticket : session'[t].state \notin {"issued", "running"}
    BY <1>0, <2>1 DEF Single
  <2> QED
    BY <1>0, <2>7, <2>8 DEF Reserved
<1>6. ASSUME NEW s \in Ticket, SessionStarted(s) \/ SessionExited(s) PROVE Reserved'
  BY <1>0, <1>6, FaultFree, ReservedStill DEF SessionStarted, SessionExited
<1>7. CASE UNCHANGED vars
  BY <1>0, <1>7, ReservedStill DEF vars
<1>8. ~Crash /\ \A s \in Ticket, x \in {"session_started", "session_exited"} : ~Lose(s, x)
  BY <1>0 DEF Crash, Lose
<1> QED
  BY <1>1, <1>2, <1>3, <1>4, <1>5, <1>6, <1>7, <1>8 DEF Next

\* The sessions begun on one day do not run longer than the allowance, up to the
\* fraction of a second lost for each, for any number of sessions, any policy
\* and any length of second, minute and day (PolicyStatus, SessionEvent, run).
THEOREM DayWithinAllowance == Spec => []AllowanceKept
<1>1. Init => AllowInv
  <2> SUFFICES ASSUME Init PROVE AllowInv
    OBVIOUS
  <2>1. RecordInv
    BY UsageAssumption DEF Init, RecordInv, TypeOK, Recorded, NoRow, Sessions
  <2>2. \A t \in Ticket : Timed(t)
    BY DEF Init, Timed, NoRow
  <2>3. Single
    BY DEF Init, Single
  <2>4. Reserved
    <3>1. \A t \in Ticket : session[t].state = "none" /\ session[t].begun = None
      BY DEF Init
    <3>2. Due \in [Ticket -> Nat] /\ \A d : BegunOn(d) = {}
      BY <3>1 DEF Due, BegunOn
    <3>3. Sum(Due, {}) = 0 /\ Allowance \in Nat
      BY <2>1, <3>2, SumType, PolicyType DEF RecordInv, Allowance
    <3> QED
      <4>1. ASSUME NEW d PROVE Sum(Due, BegunOn(d)) <= Allowance
        <5>1. Sum(Due, BegunOn(d)) = 0
          BY <3>2, <3>3
        <5> QED
          BY <3>3, <5>1
      <4>2. \A t \in Ticket : session[t].state \notin {"issued", "running"}
        BY <3>1
      <4> QED
        BY <4>1, <4>2 DEF Reserved
  <2> QED
    BY <2>1, <2>2, <2>3, <2>4 DEF AllowInv
<1>2. AllowInv /\ [Next]_vars => AllowInv'
  <2> SUFFICES ASSUME AllowInv, [Next]_vars PROVE AllowInv'
    OBVIOUS
  <2>1. RecordInv'
    BY RecordStep DEF AllowInv
  <2>2. ASSUME faults' = {} PROVE UNCHANGED policy
    BY <2>2, FaultFree
  <2>3. ASSUME faults' = {} PROVE Single' /\ \A t \in Ticket : Timed(t)'
    BY <2>3, SingleStep, TimedStep
  <2>4. ASSUME faults' = {}, policy.limit > 0 PROVE Reserved'
    BY <2>4, ReservedStep
  <2> QED
    BY <2>1, <2>2, <2>3, <2>4 DEF AllowInv
<1> QED
  BY <1>1, <1>2, AllowanceFollows, PTL DEF Spec
=============================================================================
