---------------------------- MODULE ReadApiProofs ----------------------------
(***************************************************************************)
(* What walks, details and summaries return, for any lists, any pages and  *)
(* any number of writes in between.                                        *)
(***************************************************************************)
EXTENDS ReadApi, FiniteSetTheorems, TLAPS

----------------------------------------------------------------------------
(* Finite sets of keys: ranks, least elements, maxima *)

IsKeys(S) == S \in SUBSET Nat /\ IsFiniteSet(S)
Rank(S, k) == Cardinality({j \in S : j < k})

LEMMA RankType ==
  ASSUME NEW S, IsKeys(S), NEW k
  PROVE  Rank(S, k) \in Nat /\ Cardinality(S) \in Nat /\ IsFiniteSet({j \in S : j < k})
<1>1. {j \in S : j < k} \in SUBSET S
  OBVIOUS
<1>2. IsFiniteSet({j \in S : j < k})
  BY <1>1, FS_Subset DEF IsKeys
<1> QED BY <1>2, FS_CardinalityType DEF IsKeys, Rank

LEMMA RankGrows ==
  ASSUME NEW S, IsKeys(S), NEW j \in S, NEW k \in Nat, j < k
  PROVE  Rank(S, j) < Rank(S, k)
<1> DEFINE A == {i \in S : i < j}
           B == {i \in S : i < k}
<1>1. IsFiniteSet(A) /\ IsFiniteSet(B) /\ Cardinality(A) \in Nat /\ Cardinality(B) \in Nat
  BY RankType DEF Rank
<1>2. \A i \in S : i \in Nat
  BY DEF IsKeys
<1>3. A \in SUBSET B /\ j \in B /\ j \notin A
  BY <1>2
<1> HIDE DEF A, B
<1>4. Cardinality(A) <= Cardinality(B) /\ Cardinality(A) # Cardinality(B)
  BY <1>1, <1>3, FS_Subset
<1> QED BY <1>1, <1>4 DEF Rank, A, B

LEMMA RankBelow ==
  ASSUME NEW S, IsKeys(S), NEW k \in S
  PROVE  Rank(S, k) < Cardinality(S)
<1> DEFINE A == {i \in S : i < k}
<1>1. k \in Nat
  BY DEF IsKeys
<1>2. A \in SUBSET S /\ k \notin A /\ IsFiniteSet(S)
  BY <1>1 DEF IsKeys
<1>3. Cardinality(A) \in Nat /\ Cardinality(S) \in Nat
  BY RankType DEF Rank
<1> HIDE DEF A
<1>4. Cardinality(A) <= Cardinality(S) /\ Cardinality(A) # Cardinality(S)
  BY <1>2, FS_Subset
<1> QED BY <1>3, <1>4 DEF Rank, A

\* Two keys of the same rank are the same key.
LEMMA RankTells ==
  ASSUME NEW S, IsKeys(S), NEW j \in S, NEW k \in S
  PROVE  /\ Rank(S, j) = Rank(S, k) => j = k
         /\ Rank(S, j) < Rank(S, k) <=> j < k
<1>1. j \in Nat /\ k \in Nat /\ Rank(S, j) \in Nat /\ Rank(S, k) \in Nat
  BY RankType DEF IsKeys
<1>2. j < k => Rank(S, j) < Rank(S, k)
  BY <1>1, RankGrows
<1>3. k < j => Rank(S, k) < Rank(S, j)
  BY <1>1, RankGrows
<1> QED BY <1>1, <1>2, <1>3

\* The least n keys: as many as there are, up to n.
LEMMA LeastCardinality ==
  ASSUME NEW S, IsKeys(S), NEW n \in Nat
  PROVE  /\ IsKeys(Least(S, n)) /\ Least(S, n) \subseteq S
         /\ Cardinality(Least(S, n)) = IF n <= Cardinality(S) THEN n ELSE Cardinality(S)
         /\ \A k \in S : k \in Least(S, n) <=> Rank(S, k) < n
<1>1. \A k \in S : k \in Least(S, n) <=> Rank(S, k) < n
  BY DEF Least, Rank
<1>2. Least(S, n) \in SUBSET S
  BY DEF Least
<1>3. IsKeys(Least(S, n)) /\ IsFiniteSet(S)
  BY <1>2, FS_Subset DEF IsKeys
<1> DEFINE c == Cardinality(S)
           f == [k \in S |-> Rank(S, k) + 1]
<1>4. c \in Nat
  BY RankType
<1>5. IsFiniteSet(1 .. c) /\ Cardinality(1 .. c) = c
  BY <1>4, FS_Interval
<1>6. ASSUME NEW k \in S PROVE Rank(S, k) + 1 \in 1 .. c
  <2>1. Rank(S, k) \in Nat /\ Rank(S, k) < c
    BY RankType, RankBelow
  <2> HIDE DEF c
  <2> QED BY <1>4, <2>1
<1>7. f \in Injection(S, 1 .. c)
  <2>1. f \in [S -> 1 .. c]
    BY <1>6
  <2>2. ASSUME NEW j \in S, NEW k \in S, f[j] = f[k] PROVE j = k
    <3>1. Rank(S, j) \in Nat /\ Rank(S, k) \in Nat
      BY RankType
    <3> QED BY <2>2, <3>1, RankTells
  <2> QED BY <2>1, <2>2 DEF Injection, IsInjective
<1>8. f \in Surjection(S, 1 .. c)
  BY <1>3, <1>5, <1>7, FS_Injection
<1> DEFINE m == IF n <= c THEN n ELSE c
           g == [k \in Least(S, n) |-> Rank(S, k) + 1]
<1>9. g \in Bijection(Least(S, n), 1 .. m)
  <2>1. ASSUME NEW k \in Least(S, n) PROVE Rank(S, k) + 1 \in 1 .. m
    <3>1. Rank(S, k) < n /\ Rank(S, k) < c /\ Rank(S, k) \in Nat
      BY <1>1, <1>2, RankType, RankBelow
    <3> QED BY <1>4, <3>1
  <2>2. g \in [Least(S, n) -> 1 .. m]
    BY <2>1
  <2>3. ASSUME NEW j \in Least(S, n), NEW k \in Least(S, n), g[j] = g[k] PROVE j = k
    <3>1. Rank(S, j) \in Nat /\ Rank(S, k) \in Nat
      BY RankType
    <3> QED BY <1>2, <2>3, <3>1, RankTells
  <2>4. ASSUME NEW i \in 1 .. m PROVE \E k \in Least(S, n) : g[k] = i
    <3>1. i \in 1 .. c /\ i <= n
      BY <1>4
    <3>2. PICK k \in S : f[k] = i
      BY <1>8, <3>1 DEF Surjection
    <3>3. Rank(S, k) \in Nat /\ Rank(S, k) + 1 = i
      BY <3>2, RankType
    <3>4. k \in Least(S, n)
      BY <1>1, <3>1, <3>3
    <3> QED BY <3>3, <3>4
  <2> QED BY <2>2, <2>3, <2>4 DEF Bijection, Injection, Surjection, IsInjective
<1>10. Cardinality(Least(S, n)) = m
  <2>1. m \in Nat
    BY <1>4
  <2>2. IsFiniteSet(1 .. m) /\ Cardinality(1 .. m) = m
    BY <2>1, FS_Interval
  <2>3. ExistsBijection(Least(S, n), 1 .. m)
    BY <1>9 DEF ExistsBijection
  <2> HIDE DEF m
  <2> QED BY <1>3, <2>2, <2>3, FS_Bijection DEF IsKeys
<1> QED BY <1>1, <1>2, <1>3, <1>10

LEMMA RankReached ==
  ASSUME NEW S, IsKeys(S), NEW r \in Nat, r < Cardinality(S)
  PROVE  \E k \in S : Rank(S, k) = r
<1> DEFINE A == Least(S, r)
           B == Least(S, r + 1)
<1>1. Cardinality(S) \in Nat
  BY RankType
<1>2. Cardinality(A) = r /\ Cardinality(B) = r + 1
  BY <1>1, LeastCardinality
<1>3. \A k \in S : (k \in A <=> Rank(S, k) < r) /\ (k \in B <=> Rank(S, k) < r + 1)
  BY LeastCardinality
<1>4. A \subseteq S /\ B \subseteq S
  BY LeastCardinality
<1> HIDE DEF A, B
<1>5. PICK k \in B : k \notin A
  <2>1. ASSUME NEW k \in A PROVE k \in B
    <3>1. k \in S /\ Rank(S, k) < r /\ Rank(S, k) \in Nat
      BY <1>3, <1>4, RankType
    <3> QED BY <1>3, <3>1
  <2>2. A # B
    BY <1>2
  <2> QED BY <2>1, <2>2
<1>6. k \in S /\ Rank(S, k) \in Nat /\ ~(Rank(S, k) < r) /\ Rank(S, k) < r + 1
  BY <1>3, <1>4, <1>5, RankType
<1> QED BY <1>6

LEMMA MaxIsGreatest ==
  ASSUME NEW S, IsKeys(S), S # {}
  PROVE  Max(S) \in S /\ \A k \in S : k <= Max(S)
<1>1. Cardinality(S) \in Nat /\ Cardinality(S) # 0
  BY RankType, FS_EmptySet DEF IsKeys
<1>2. PICK m \in S : Rank(S, m) = Cardinality(S) - 1
  BY <1>1, RankReached
<1>3. ASSUME NEW k \in S PROVE k <= m
  <2>1. Rank(S, k) < Cardinality(S) /\ Rank(S, k) \in Nat
    BY RankBelow, RankType
  <2>2. ~(Rank(S, m) < Rank(S, k))
    BY <1>1, <1>2, <2>1
  <2>3. Rank(S, m) < Rank(S, k) <=> m < k
    BY RankTells
  <2>4. k \in Nat /\ m \in Nat
    BY DEF IsKeys
  <2> QED BY <2>2, <2>3, <2>4
<1>4. \A y \in S : m >= y
  BY <1>2, <1>3 DEF IsKeys
<1>5. Max(S) \in S /\ \A y \in S : Max(S) >= y
  BY <1>4 DEF Max
<1> QED BY <1>5 DEF IsKeys

----------------------------------------------------------------------------
(* Pages *)

\* A page is the beginning of the rows that are left, and its cursor is its last row.
Cuts(page, rest) ==
  /\ page.items \subseteq rest
  /\ page.next = None => page.items = rest
  /\ page.next # None =>
       /\ page.next \in page.items
       /\ \A k \in page.items : k <= page.next
       /\ \A k \in rest \ page.items : k > page.next

LEMMA LeastCuts ==
  ASSUME NEW S, IsKeys(S), NEW n \in Nat, n > 0
  PROVE  LET L == Least(S, n) IN
         /\ L \subseteq S /\ IsKeys(L)
         /\ Cardinality(L) < Cardinality(S) <=> L # S
         /\ L # S => /\ L # {} /\ Max(L) \in L
                     /\ \A k \in L : k <= Max(L)
                     /\ \A k \in S \ L : k > Max(L)
<1> DEFINE L == Least(S, n)
<1>1. L \subseteq S /\ IsKeys(L) /\ IsFiniteSet(S) /\ IsFiniteSet(L) /\ Cardinality(S) \in Nat /\ Cardinality(L) \in Nat
  BY LeastCardinality, RankType DEF IsKeys
<1>2. Cardinality(L) = IF n <= Cardinality(S) THEN n ELSE Cardinality(S)
  BY LeastCardinality
<1>3. \A k \in S : k \in L <=> Rank(S, k) < n
  BY LeastCardinality
<1> HIDE DEF L
<1>4. Cardinality(L) <= Cardinality(S) /\ (Cardinality(L) = Cardinality(S) => L = S)
  BY <1>1, FS_Subset
<1>5. Cardinality(L) < Cardinality(S) <=> L # S
  BY <1>1, <1>4
<1>6. ASSUME L # S
      PROVE  /\ L # {} /\ Max(L) \in L
             /\ \A k \in L : k <= Max(L)
             /\ \A k \in S \ L : k > Max(L)
  <2>1. Cardinality(L) = n
    BY <1>1, <1>2, <1>5, <1>6
  <2>2. L # {}
    BY <2>1, FS_EmptySet
  <2>3. Max(L) \in L /\ \A k \in L : k <= Max(L)
    BY <1>1, <2>2, MaxIsGreatest
  <2>4. ASSUME NEW k \in S \ L PROVE k > Max(L)
    <3>1. Rank(S, Max(L)) < n /\ ~(Rank(S, k) < n) /\ Max(L) \in S /\ Rank(S, k) \in Nat /\ Rank(S, Max(L)) \in Nat
      BY <1>1, <1>3, <2>3, RankType
    <3>2. Rank(S, Max(L)) < Rank(S, k)
      BY <3>1
    <3> QED BY <3>1, <3>2, RankTells DEF IsKeys
  <2> QED BY <2>2, <2>3, <2>4
<1> QED BY <1>1, <1>5, <1>6 DEF L

LEMMA BeyondIsKeys ==
  ASSUME NEW S, IsKeys(S), NEW after
  PROVE  IsKeys(Beyond(S, after)) /\ Beyond(S, after) \subseteq S
<1>1. Beyond(S, after) \in SUBSET S
  BY DEF Beyond
<1> QED BY <1>1, FS_Subset DEF IsKeys

\* The rows one more than asked for begin with those asked for.
LEMMA LeastOfLeast ==
  ASSUME NEW S, IsKeys(S), NEW n \in Nat
  PROVE  Least(Least(S, n + 1), n) = Least(S, n)
<1> DEFINE F == Least(S, n + 1)
<1>1. F \subseteq S /\ IsKeys(F) /\ \A k \in S : k \in F <=> Rank(S, k) < n + 1
  BY LeastCardinality
<1>2. \A k \in S : k \in Least(S, n) <=> Rank(S, k) < n
  BY LeastCardinality
<1>3. Least(S, n) \subseteq S
  BY LeastCardinality
<1>4. \A k \in F : k \in Least(F, n) <=> Rank(F, k) < n
  BY <1>1, LeastCardinality
<1>5. Least(F, n) \subseteq F
  BY <1>1, LeastCardinality
<1> HIDE DEF F
<1>6. ASSUME NEW k \in F PROVE Rank(F, k) = Rank(S, k)
  <2>1. ASSUME NEW j \in S, j < k PROVE j \in F
    <3>1. Rank(S, j) < Rank(S, k) /\ Rank(S, k) < n + 1 /\ Rank(S, j) \in Nat /\ Rank(S, k) \in Nat
      BY <1>1, <2>1, RankTells, RankType
    <3> QED BY <1>1, <3>1
  <2>2. {j \in F : j < k} = {j \in S : j < k}
    BY <1>1, <2>1
  <2> QED BY <2>2 DEF Rank
<1>7. ASSUME NEW k \in Least(S, n) PROVE k \in F
  <2>1. Rank(S, k) \in Nat /\ Rank(S, k) < n
    BY <1>2, <1>3, RankType
  <2> QED BY <1>1, <1>3, <2>1
<1>8. \A k : k \in Least(F, n) <=> k \in Least(S, n)
  BY <1>1, <1>2, <1>3, <1>4, <1>5, <1>6, <1>7
<1>9. Least(F, n) = Least(S, n)
  BY <1>8
<1> QED BY <1>9 DEF F

\* The two repositories' pages are the same for the same keys.
LEMMA PagesAgree ==
  ASSUME NEW S, IsKeys(S), NEW limit \in Nat, limit > 0, NEW after
  PROVE  PageInMemory(S, limit, after) = PageInPostgres(S, limit, after)
<1> DEFINE E == Beyond(S, after)
           F == Least(E, limit + 1)
           L == Least(E, limit)
<1>1. IsKeys(E)
  BY BeyondIsKeys
<1>2. Least(F, limit) = L
  BY <1>1, LeastOfLeast
<1>3. Cardinality(E) \in Nat
  BY <1>1, RankType
<1>4. Cardinality(F) > limit <=> Cardinality(E) > limit
  <2>1. Cardinality(F) = IF limit + 1 <= Cardinality(E) THEN limit + 1 ELSE Cardinality(E)
    BY <1>1, LeastCardinality
  <2> QED BY <1>3, <2>1
<1>5. Cardinality(L) < Cardinality(E) <=> Cardinality(E) > limit
  <2>1. Cardinality(L) = IF limit <= Cardinality(E) THEN limit ELSE Cardinality(E)
    BY <1>1, LeastCardinality
  <2> QED BY <1>3, <2>1
<1>6. Cardinality(L) < Cardinality(E) => L # {}
  BY <1>1, LeastCuts
<1> QED BY <1>2, <1>4, <1>5, <1>6 DEF PageInMemory, PageInPostgres

LEMMA MemoryCuts ==
  ASSUME NEW S, IsKeys(S), NEW limit \in Nat, limit > 0, NEW after
  PROVE  Cuts(PageInMemory(S, limit, after), Beyond(S, after))
<1> DEFINE E == Beyond(S, after)
           L == Least(E, limit)
<1>1. IsKeys(E)
  BY BeyondIsKeys
<1>2. /\ L \subseteq E
      /\ Cardinality(L) < Cardinality(E) <=> L # E
      /\ L # E => /\ L # {} /\ Max(L) \in L
                  /\ \A k \in L : k <= Max(L)
                  /\ \A k \in E \ L : k > Max(L)
  BY <1>1, LeastCuts
<1>3. L # E => Max(L) # None
  BY <1>1, <1>2, ReadAssumption DEF IsKeys
<1> HIDE DEF E, L
<1>4. PageInMemory(S, limit, after) =
        [items |-> L, next |-> IF L # E THEN Max(L) ELSE None]
  BY <1>2 DEF PageInMemory, E, L
<1> QED BY <1>2, <1>3, <1>4 DEF Cuts, E

LEMMA RegistryCuts ==
  ASSUME NEW S, IsKeys(S), NEW limit \in Nat, limit > 0, NEW after
  PROVE  Cuts(PageInRegistry(S, limit, after), IF after \in S THEN Beyond(S, after) ELSE S)
<1> DEFINE E == IF after \in S THEN Beyond(S, after) ELSE S
           L == Least(E, limit)
<1>1. IsKeys(E)
  BY BeyondIsKeys
<1>2. /\ L \subseteq E
      /\ Cardinality(L) < Cardinality(E) <=> L # E
      /\ L # E => /\ L # {} /\ Max(L) \in L
                  /\ \A k \in L : k <= Max(L)
                  /\ \A k \in E \ L : k > Max(L)
  BY <1>1, LeastCuts
<1>3. L # E => Max(L) # None
  BY <1>1, <1>2, ReadAssumption DEF IsKeys
<1> HIDE DEF E, L
<1>4. PageInRegistry(S, limit, after) =
        [items |-> L, next |-> IF L # E THEN Max(L) ELSE None]
  BY <1>2 DEF PageInRegistry, E, L
<1> QED BY <1>2, <1>3, <1>4 DEF Cuts, E

----------------------------------------------------------------------------
(* Rows in order *)

Rows(q) == {q[k] : k \in DOMAIN q}
Increasing(q) == \A j, k \in DOMAIN q : j < k => q[j] < q[k]

LEMMA AscendingSorts ==
  ASSUME NEW S, IsKeys(S)
  PROVE  /\ Ascending(S) \in Seq(Nat) /\ Increasing(Ascending(S))
         /\ Rows(Ascending(S)) = S
<1> DEFINE n == Cardinality(S)
           Key(i) == CHOOSE k \in S : Rank(S, k) = i - 1
           p == [i \in 1 .. n |-> Key(i)]
           Sorts(q) == \A i \in DOMAIN q, j \in DOMAIN q : i < j => q[i] < q[j]
<1>1. n \in Nat /\ IsFiniteSet(S) /\ IsFiniteSet(1 .. n) /\ Cardinality(1 .. n) = n
  <2>1. n \in Nat /\ IsFiniteSet(S)
    BY RankType DEF IsKeys
  <2> HIDE DEF n
  <2> QED BY <2>1, FS_Interval
<1>2. ASSUME NEW i \in 1 .. n PROVE Key(i) \in S /\ Rank(S, Key(i)) = i - 1
  <2> HIDE DEF n
  <2>1. i - 1 \in Nat /\ i - 1 < n
    BY <1>1
  <2>2. \E k \in S : Rank(S, k) = i - 1
    BY <2>1, RankReached DEF n
  <2> QED BY <2>2
<1> HIDE DEF Key
<1>3. p \in [1 .. n -> S]
  BY <1>2
<1>4. Sorts(p)
  <2> SUFFICES ASSUME NEW i \in 1 .. n, NEW j \in 1 .. n, i < j
               PROVE  Key(i) < Key(j)
    OBVIOUS
  <2>1. Rank(S, Key(i)) < Rank(S, Key(j))
    BY <1>1, <1>2
  <2> QED BY <1>2, <2>1, RankTells
<1>5. Ascending(S) \in [1 .. n -> S] /\ Sorts(Ascending(S))
  BY <1>3, <1>4 DEF Ascending
<1> DEFINE q == Ascending(S)
<1> HIDE DEF q, n
<1>6. q \in Injection(1 .. n, S)
  <2>1. q \in [1 .. n -> S] /\ \A i, j \in 1 .. n : i < j => q[i] < q[j]
    BY <1>5 DEF q
  <2>2. ASSUME NEW i \in 1 .. n, NEW j \in 1 .. n, q[i] = q[j] PROVE i = j
    <3>1. q[i] \in Nat /\ q[j] \in Nat
      BY <2>1 DEF IsKeys
    <3> QED BY <1>1, <2>1, <2>2, <3>1
  <2> QED BY <2>1, <2>2 DEF Injection, IsInjective
<1>7. q \in Surjection(1 .. n, S)
  BY <1>1, <1>6, FS_Injection DEF n
<1>8. Rows(q) = S
  BY <1>7 DEF Surjection, Rows
<1>9. q \in Seq(Nat)
  <2>1. q \in [1 .. n -> Nat]
    BY <1>5 DEF q, IsKeys
  <2> QED BY <1>1, <2>1
<1>10. Increasing(q)
  BY <1>5 DEF Increasing, q
<1> QED BY <1>8, <1>9, <1>10 DEF q

LEMMA Joined ==
  ASSUME NEW s \in Seq(Nat), NEW t \in Seq(Nat)
  PROVE  /\ s \o t \in Seq(Nat) /\ Rows(s \o t) = Rows(s) \cup Rows(t)
         /\ Increasing(s) /\ Increasing(t) /\ (\A x \in Rows(s), y \in Rows(t) : x < y)
              => Increasing(s \o t)
<1> DEFINE m == Len(s)
           n == Len(t)
           u == s \o t
<1>1. /\ u \in Seq(Nat) /\ m \in Nat /\ n \in Nat /\ DOMAIN s = 1 .. m /\ DOMAIN t = 1 .. n /\ DOMAIN u = 1 .. m + n
      /\ \A k \in 1 .. m : u[k] = s[k]
      /\ \A k \in m + 1 .. m + n : u[k] = t[k - m]
  OBVIOUS
<1> HIDE DEF u, m, n
<1>2. \A k \in DOMAIN u : u[k] \in Rows(s) \cup Rows(t)
  <2> SUFFICES ASSUME NEW k \in DOMAIN u PROVE u[k] \in Rows(s) \cup Rows(t)
    OBVIOUS
  <2>1. k \in 1 .. m \/ (k \in m + 1 .. m + n /\ k - m \in 1 .. n)
    BY <1>1
  <2> QED BY <1>1, <2>1 DEF Rows
<1>3. \A k \in DOMAIN s : s[k] \in Rows(u)
  BY <1>1 DEF Rows
<1>4. \A k \in DOMAIN t : t[k] \in Rows(u)
  <2> SUFFICES ASSUME NEW k \in DOMAIN t PROVE t[k] \in Rows(u)
    OBVIOUS
  <2>1. k + m \in m + 1 .. m + n /\ (k + m) - m = k /\ k + m \in DOMAIN u
    BY <1>1
  <2>2. u[k + m] = t[k]
    BY <1>1, <2>1
  <2> QED BY <2>1, <2>2 DEF Rows
<1>5. Rows(u) = Rows(s) \cup Rows(t)
  BY <1>2, <1>3, <1>4 DEF Rows
<1>6. ASSUME Increasing(s), Increasing(t), \A x \in Rows(s), y \in Rows(t) : x < y
      PROVE  Increasing(u)
  <2> SUFFICES ASSUME NEW j \in DOMAIN u, NEW k \in DOMAIN u, j < k
               PROVE  u[j] < u[k]
    BY DEF Increasing
  <2>1. CASE k \in 1 .. m
    <3>1. j \in 1 .. m
      BY <1>1, <2>1
    <3> QED BY <1>1, <1>6, <2>1, <3>1 DEF Increasing
  <2>2. CASE j \in m + 1 .. m + n
    <3>1. k \in m + 1 .. m + n /\ j - m \in 1 .. n /\ k - m \in 1 .. n /\ j - m < k - m
      <4>1. j \in Int /\ m + 1 <= j
        BY <1>1, <2>2
      <4>2. k \in Int /\ k <= m + n
        BY <1>1
      <4>3. m \in Nat /\ n \in Nat /\ j < k
        BY <1>1
      <4> QED BY <4>1, <4>2, <4>3
    <3>2. t[j - m] < t[k - m]
      BY <1>1, <1>6, <3>1 DEF Increasing
    <3> QED BY <1>1, <2>2, <3>1, <3>2
  <2>3. CASE j \in 1 .. m /\ k \in m + 1 .. m + n
    <3>1. k - m \in DOMAIN t /\ j \in DOMAIN s
      BY <1>1, <2>3
    <3>2. s[j] \in Rows(s) /\ t[k - m] \in Rows(t)
      BY <3>1 DEF Rows
    <3> QED BY <1>1, <1>6, <2>3, <3>2
  <2> QED BY <1>1, <2>1, <2>2, <2>3
<1> QED BY <1>1, <1>5, <1>6 DEF u

----------------------------------------------------------------------------
(* The tables *)

Subjects == {"source", "incident", "monitor"} \X Nat

Tables ==
  [source : [SourceIds -> {"pending", "approved", "revoked"}], public : SUBSET Monitors,
   observed : [Monitors -> Seq({"pass", "fail"})],
   incident : [IncidentIds -> Incident \cup {None}],
   record : [RecordIds -> {"recent", "undated", None}],
   verified : [RecipeIds -> {"current", "stale"}], audit : SUBSET (Nat \X Subjects)]

\* A failure belongs to an incident from the moment it is stored.
FailuresFiled(d) ==
  \A m \in Monitors : \A n \in DOMAIN d.observed[m] : d.observed[m][n] = "fail" =>
    \E i \in Opened(d) : d.incident[i].monitor = m /\ n \in d.incident[i].observations

TablesOk(d) == d \in Tables /\ IsFiniteSet(d.audit) /\ FailuresFiled(d)

\* Observations are only added, and an incident keeps its monitor.
Grows(d, e) ==
  /\ \A m \in Monitors : /\ DOMAIN d.observed[m] \subseteq DOMAIN e.observed[m]
                         /\ \A n \in DOMAIN d.observed[m] : e.observed[m][n] = d.observed[m][n]
  /\ \A i \in Opened(d) : i \in Opened(e) /\ e.incident[i].monitor = d.incident[i].monitor

----------------------------------------------------------------------------
(* Reads under way *)

AnyFilter == UNION {Filters(list) : list \in Lists \cup Registries}
Sources == {SourceOf[m] : m \in Monitors}

Walks ==
  [call : {"walk"}, list : Lists \cup Registries, filter : AnyFilter, principal : Principals,
   limit : 1 .. PageMax, after : Nat \cup {None}, got : Seq(Nat),
   rows : (SUBSET Monitors) \cup {None}, lost : BOOLEAN, steady : SUBSET Nat,
   ever : SUBSET Nat, result : {None, "complete"}]

Details ==
  [call : {"detail"}, monitor : Monitors, view : Views, limit : 1 .. PageMax,
   at : {"observations", "incidents", "latest"}, observations : Seq(Nat),
   incidents : SUBSET [id : IncidentIds, observations : SUBSET Nat], latest : Nat,
   result : {None, "complete"}]

Summaries ==
  [call : {"summary"}, project : {None, Project}, at : {"targets", "outcomes", "incidents"},
   targets : SUBSET Monitors, outcomes : SUBSET {"unknown", "pass", "fail"},
   incidents : SUBSET IncidentIds,
   overall : {None, "operational", "degraded", "major_outage", "unknown"},
   result : {None, "complete"}, fits : BOOLEAN, steady : SUBSET IncidentIds,
   ever : SUBSET IncidentIds, shown : SUBSET Sources]

\* A row that has matched all the time is in a page the client has, or after its cursor.
NothingSkipped(r) ==
  IF r.result = "complete" THEN r.steady \subseteq Rows(r.got)
  ELSE r.after # None => \A k \in r.steady : k \in Rows(r.got) \/ k > r.after

\* What was fetched is in order and before the cursor, unless a registry began again.
InOrder(r) ==
  \/ r.list = "recipes" /\ r.lost = TRUE
  \/ Increasing(r.got) /\ (r.after # None => \A k \in Rows(r.got) : k <= r.after)

WalkSoFar(r, d) ==
  /\ r \in Walks
  /\ NothingSkipped(r) /\ InOrder(r) /\ Rows(r.got) \subseteq r.ever
  /\ r.list = "resources" /\ r.after # None => r.after \in ResourceIds
  /\ r.result = None =>
       /\ r.after = None => r.got = <<>>
       /\ r.steady \subseteq Matching(d, r.list, ViewOf(r.principal), r.filter)
       /\ Possible(d, r.list, ViewOf(r.principal), r.filter) \subseteq r.ever
       /\ r.rows # None => r.list = "targets" /\ r.steady \subseteq r.rows /\ r.rows \subseteq r.ever

\* Observations stay where they are; the incidents read after them have their failures.
DetailSoFar(r, d) ==
  LET o == r.observations IN
  /\ r \in Details
  /\ r.at = "observations" => o = <<>>
  /\ \A k \in DOMAIN o : o[k] = o[1] + 1 - k /\ o[k] \in DOMAIN d.observed[r.monitor]
  /\ r.at = "latest" /\ r.view = "private" =>
       \A k \in DOMAIN o : d.observed[r.monitor][o[k]] = "fail" =>
         \E i \in r.incidents : o[k] \in i.observations
  /\ r.result = "complete" => r.at = "latest" /\ (o # <<>> => o[1] <= r.latest)

SourcesOf(targets) == {SourceOf[m] : m \in targets}

\* The incidents that last are of sources the summary has, and what it has was shown.
SummarySoFar(r, d) ==
  /\ r \in Summaries
  /\ r.incidents \subseteq Opened(d)
  /\ r.at # "targets" => SourcesOf(r.targets) \subseteq r.shown
  /\ r.result = None =>
       /\ r.steady \subseteq Lasting(d, r.project)
       /\ PublicNow(d) \subseteq r.ever
       /\ SourcesShown(d, r.project) \subseteq r.shown
       /\ r.fits = TRUE => Fits(d, r.project)
       /\ r.fits = TRUE /\ r.at # "targets" =>
            \A i \in r.steady : SourceOf[d.incident[i].monitor] \in SourcesOf(r.targets)
  /\ r.result = "complete" /\ r.fits = TRUE =>
       /\ r.steady \subseteq r.incidents /\ r.incidents \subseteq r.ever
       /\ \A i \in r.incidents : SourceOf[d.incident[i].monitor] \in r.shown
       /\ r.incidents # {} => r.overall \in {"degraded", "major_outage"}

ReadSoFar(r, d) == r = None \/ WalkSoFar(r, d) \/ DetailSoFar(r, d) \/ SummarySoFar(r, d)

IInv == backend \in {"memory", "postgres"} /\ TablesOk(db) /\ ReadSoFar(read, db)

----------------------------------------------------------------------------
(* What matches *)

LEMMA IdsAreKeys ==
  /\ IsKeys(SourceIds) /\ IsKeys(Monitors) /\ IsKeys(IncidentIds) /\ IsKeys(RecordIds)
  /\ IsKeys(EventIds) /\ IsKeys(RecipeIds) /\ IsKeys(ResourceIds) /\ IsKeys(Project)
BY ReadAssumption DEF IsKeys

LEMMA PartIsKeys ==
  ASSUME NEW S, IsKeys(S), NEW T, T \subseteq S
  PROVE  IsKeys(T)
<1>1. T \in SUBSET S
  OBVIOUS
<1> QED BY <1>1, FS_Subset DEF IsKeys

\* The image of a finite set is finite.
LEMMA ImageIsFinite ==
  ASSUME NEW S, IsFiniteSet(S), NEW f, DOMAIN f = S
  PROVE  IsFiniteSet({f[x] : x \in S})
<1> DEFINE T == {f[x] : x \in S}
           g == [x \in S |-> f[x]]
<1>1. g \in Surjection(S, T)
  BY DEF Surjection
<1> HIDE DEF T, g
<1>2. IsFiniteSet(T)
  BY <1>1, FS_Surjection
<1> QED BY <1>2 DEF T

\* What a list matches is a finite set of keys, some of what it may return; a registry's
\* rows are the same for everybody.
LEMMA MatchingIsKeys ==
  ASSUME NEW d, TablesOk(d), NEW list \in Lists \cup Registries, NEW view, NEW filter
  PROVE  /\ IsKeys(Matching(d, list, view, filter))
         /\ Matching(d, list, view, filter) \subseteq Possible(d, list, view, filter)
         /\ list \in Registries => \A other : Matching(d, list, other, filter) = Matching(d, list, view, filter)
         /\ list = "targets" => Matching(d, list, view, filter) \subseteq Monitors
         /\ list = "resources" => Matching(d, list, view, filter) = ResourceIds
<1> DEFINE K == Matching(d, list, view, filter)
<1>1. CASE list = "sources"
  <2>1. K \subseteq SourceIds
    BY <1>1 DEF Matching, VisibleSources
  <2>2. IsKeys(K)
    BY <2>1, IdsAreKeys, PartIsKeys
  <2> QED BY <1>1, <2>2 DEF Possible, Registries
<1>2. CASE list = "targets"
  <2>1. d.public \subseteq Monitors
    BY DEF TablesOk, Tables
  <2>2. K \subseteq Monitors
    BY <1>2, <2>1 DEF Matching, VisibleTargets
  <2>3. IsKeys(K)
    BY <2>2, IdsAreKeys, PartIsKeys
  <2>4. K \subseteq Matching(d, list, view, None)
    BY <1>2 DEF Matching
  <2> QED BY <1>2, <2>2, <2>3, <2>4 DEF Possible, Registries
<1>3. CASE list = "incidents"
  <2>1. K \subseteq IncidentIds
    BY <1>3 DEF Matching, VisibleIncidents, Published, Opened
  <2>2. IsKeys(K)
    BY <2>1, IdsAreKeys, PartIsKeys
  <2> QED BY <1>3, <2>2 DEF Possible, Registries
<1>4. CASE list = "records"
  <2>1. K \subseteq RecordIds
    BY <1>4 DEF Matching, Records, Collected
  <2>2. IsKeys(K)
    BY <2>1, IdsAreKeys, PartIsKeys
  <2> QED BY <1>4, <2>2 DEF Possible, Registries
<1>5. CASE list = "events"
  <2>1. K \subseteq EventIds
    BY <1>5 DEF Matching, Events
  <2>2. IsKeys(K)
    BY <2>1, IdsAreKeys, PartIsKeys
  <2> QED BY <1>5, <2>2 DEF Possible, Registries
<1>6. CASE list = "audit"
  <2> DEFINE A == {a \in d.audit : filter \in {None, a[2]}}
             f == [e \in A |-> e[1]]
  <2>1. d.audit \subseteq Nat \X Subjects /\ IsFiniteSet(d.audit)
    BY DEF TablesOk, Tables
  <2>2. A \in SUBSET d.audit
    OBVIOUS
  <2>3. IsFiniteSet(A)
    BY <2>1, <2>2, FS_Subset
  <2>4. K = {f[e] : e \in A}
    BY <1>6 DEF Matching, Entries
  <2>5. K \in SUBSET Nat
    BY <2>1, <2>4
  <2>6. IsFiniteSet({f[e] : e \in A})
    <3>1. DOMAIN f = A
      OBVIOUS
    <3> HIDE DEF A, f
    <3> QED BY <2>3, <3>1, ImageIsFinite
  <2>7. IsKeys(K)
    BY <2>4, <2>5, <2>6 DEF IsKeys
  <2> QED BY <1>6, <2>7 DEF Possible, Registries
<1>7. CASE list = "recipes"
  <2>1. K \subseteq RecipeIds
    BY <1>7 DEF Matching, Recipes
  <2>2. IsKeys(K)
    BY <2>1, IdsAreKeys, PartIsKeys
  <2>3. \A other : Matching(d, list, other, filter) = K
    BY <1>7 DEF Matching
  <2> QED BY <1>7, <2>2, <2>3 DEF Possible, Registries
<1>8. CASE list = "resources"
  <2>1. K = ResourceIds
    BY <1>8 DEF Matching, ProviderResources
  <2>2. \A other : Matching(d, list, other, filter) = K
    BY <1>8 DEF Matching
  <2> QED BY <1>8, <2>1, <2>2, IdsAreKeys DEF Possible, Registries
<1> QED BY <1>1, <1>2, <1>3, <1>4, <1>5, <1>6, <1>7, <1>8 DEF Lists, Registries

\* A caller who is let in sees the same rows on every page.
LEMMA SameRows ==
  ASSUME NEW d, TablesOk(d), NEW list \in Lists \cup Registries, NEW principal \in Principals,
         NEW filter, Authenticated(principal, list) # "refused"
  PROVE  Matching(d, list, Authenticated(principal, list), filter)
           = Matching(d, list, ViewOf(principal), filter)
<1>1. CASE list \in Registries
  BY <1>1, MatchingIsKeys
<1>2. CASE list \notin Registries
  BY <1>2 DEF Authenticated, Answering, ViewOf, Principals
<1> QED BY <1>1, <1>2

----------------------------------------------------------------------------
(* Walks *)

\* The rows a page is cut from: a registry that does not find its cursor begins again.
Rest(list, keys, after) ==
  IF list \in Registries /\ after \notin keys THEN keys ELSE Beyond(keys, after)

LEMMA PageCuts ==
  ASSUME backend \in {"memory", "postgres"}, NEW list \in Lists \cup Registries, NEW keys, IsKeys(keys),
         NEW limit \in 1 .. PageMax, NEW after
  PROVE  Cuts(Page(list, keys, limit, after), Rest(list, keys, after))
<1>1. limit \in Nat /\ limit > 0
  BY ReadAssumption
<1>2. CASE list \in Registries
  <2>1. Page(list, keys, limit, after) = PageInRegistry(keys, limit, after)
    BY <1>2 DEF Page, Registries, Lists
  <2>2. Rest(list, keys, after) = IF after \in keys THEN Beyond(keys, after) ELSE keys
    BY <1>2 DEF Rest
  <2> QED BY <1>1, <2>1, <2>2, RegistryCuts
<1>3. CASE list \notin Registries /\ backend = "memory"
  BY <1>1, <1>3, MemoryCuts DEF Page, Rest
<1>4. CASE list \notin Registries /\ backend = "postgres"
  <2>1. Page(list, keys, limit, after) = PageInPostgres(keys, limit, after)
    BY <1>4 DEF Page
  <2> QED BY <1>1, <1>4, <2>1, MemoryCuts, PagesAgree DEF Rest
<1> QED BY <1>2, <1>3, <1>4

\* A page of rows among which are those that have matched all the time takes the walk on.
LEMMA WalkTurns ==
  ASSUME backend \in {"memory", "postgres"}, NEW d, WalkSoFar(read, d), read.result = None,
         NEW keys, IsKeys(keys), read.steady \subseteq keys, keys \subseteq read.ever,
         read.list = "resources" => keys = ResourceIds
  PROVE  WalkSoFar(WithPage(keys), d)
<1> DEFINE p == Page(read.list, keys, read.limit, read.after)
           a == Ascending(p.items)
           rest == Rest(read.list, keys, read.after)
           r == WithPage(keys)
<1>1. /\ read \in Walks /\ read.list \in Lists \cup Registries /\ read.limit \in 1 .. PageMax
      /\ read.after \in Nat \cup {None} /\ read.got \in Seq(Nat) /\ read.lost \in BOOLEAN
      /\ read.steady \subseteq Nat /\ read.ever \subseteq Nat
  BY DEF WalkSoFar, Walks
<1>2. Cuts(p, rest)
  BY <1>1, PageCuts
<1>3. rest \subseteq keys /\ keys \subseteq Nat
  BY DEF Rest, Beyond, IsKeys
<1>4. p.items \subseteq keys /\ p.next \in Nat \cup {None}
  BY <1>2, <1>3 DEF Cuts
<1>5. IsKeys(p.items)
  BY <1>4, PartIsKeys
<1>6. a \in Seq(Nat) /\ Increasing(a) /\ Rows(a) = p.items
  BY <1>5, AscendingSorts
<1>7. /\ read.got \o a \in Seq(Nat) /\ Rows(read.got \o a) = Rows(read.got) \cup p.items
      /\ Increasing(read.got) /\ (\A x \in Rows(read.got), y \in p.items : x < y)
           => Increasing(read.got \o a)
  BY <1>1, <1>6, Joined
<1> HIDE DEF p, rest
<1>8. /\ r = [read EXCEPT !.got = read.got \o a, !.after = p.next, !.rows = None,
                !.lost = read.lost \/ (read.after # None /\ read.after \notin keys),
                !.result = IF p.next = None THEN "complete" ELSE None]
  BY DEF WithPage, p
<1> HIDE DEF a, r
<1>9. /\ r \in Walks
      /\ r.list = read.list /\ r.steady = read.steady /\ r.ever = read.ever /\ r.filter = read.filter
      /\ r.principal = read.principal
      /\ r.got = read.got \o a /\ r.after = p.next /\ r.rows = None
      /\ r.lost = (read.lost \/ (read.after # None /\ read.after \notin keys))
      /\ r.result = IF p.next = None THEN "complete" ELSE None
  <2> DEFINE lost == read.lost \/ (read.after # None /\ read.after \notin keys)
             got == read.got \o a
             result == IF p.next = None THEN "complete" ELSE None
  <2>1. lost \in BOOLEAN /\ got \in Seq(Nat) /\ p.next \in Nat \cup {None} /\ result \in {None, "complete"}
    BY <1>1, <1>4, <1>7
  <2>2. r = [read EXCEPT !.got = got, !.after = p.next, !.rows = None, !.lost = lost, !.result = result]
    BY <1>8
  <2> HIDE DEF lost, got, result
  <2>3. /\ r \in Walks
        /\ r.list = read.list /\ r.steady = read.steady /\ r.ever = read.ever /\ r.filter = read.filter
        /\ r.principal = read.principal /\ r.rows = None
        /\ r.got = got /\ r.after = p.next /\ r.lost = lost /\ r.result = result
    BY <1>1, <2>1, <2>2 DEF Walks
  <2> QED BY <2>3 DEF lost, got, result
<1>10. Rows(r.got) \subseteq r.ever
  BY <1>4, <1>7, <1>9 DEF WalkSoFar
<1>11. NothingSkipped(r)
  <2>1. ASSUME NEW k \in read.steady
        PROVE  k \in Rows(r.got) \/ (p.next # None /\ k > p.next)
    <3>1. CASE k \in Rows(read.got)
      BY <1>7, <1>9, <3>1
    <3>2. CASE k \notin Rows(read.got)
      <4>1. read.after = None \/ k > read.after
        BY <3>2 DEF WalkSoFar, NothingSkipped
      <4>2. k \in rest
        BY <4>1 DEF rest, Rest, Beyond
      <4> QED BY <1>2, <1>7, <1>9, <4>2 DEF Cuts
    <3> QED BY <3>1, <3>2
  <2>2. CASE p.next = None
    <3>1. r.result = "complete" /\ r.steady \subseteq Rows(r.got)
      BY <1>9, <2>1, <2>2
    <3> QED BY <3>1 DEF NothingSkipped
  <2>3. CASE p.next # None
    <3>1. r.result # "complete" /\ \A k \in r.steady : k \in Rows(r.got) \/ k > r.after
      BY <1>9, <2>1, <2>3, ReadAssumption
    <3> QED BY <3>1 DEF NothingSkipped
  <2> QED BY <2>2, <2>3
<1>12. InOrder(r)
  <2>1. CASE r.list = "recipes" /\ r.lost = TRUE
    BY <2>1 DEF InOrder
  <2>2. CASE ~(r.list = "recipes" /\ r.lost = TRUE)
    <3>1. /\ Increasing(read.got) /\ (read.after # None => \A k \in Rows(read.got) : k <= read.after)
      BY <1>1, <1>9, <2>2 DEF WalkSoFar, InOrder
    <3>2. read.list \in Registries /\ read.after # None => read.after \in keys
      BY <1>1, <1>9, <2>2 DEF WalkSoFar, Registries
    <3>3. \A k \in rest : read.after = None \/ k > read.after
      BY <3>2 DEF rest, Rest, Beyond
    <3>4. read.after = None => Rows(read.got) = {}
      BY DEF WalkSoFar, Rows
    <3>5. Rows(read.got) \subseteq Nat /\ p.items \subseteq rest
      BY <1>1, <1>2 DEF WalkSoFar, Cuts
    <3>6. ASSUME NEW x \in Rows(read.got), NEW y \in p.items PROVE x < y
      <4>1. x \in Nat /\ y \in Nat /\ read.after # None /\ read.after \in Nat
        BY <1>1, <1>3, <1>4, <3>4, <3>5
      <4>2. x <= read.after /\ y > read.after
        BY <3>1, <3>3, <3>5, <4>1
      <4> QED BY <4>1, <4>2
    <3>7. Increasing(r.got)
      BY <1>7, <1>9, <3>1, <3>6
    <3>8. ASSUME p.next # None, NEW k \in Rows(r.got) PROVE k <= p.next
      <4>1. p.next \in p.items /\ p.next \in Nat /\ \A j \in p.items : j <= p.next
        BY <1>2, <1>4, <3>8 DEF Cuts
      <4>2. k \in Rows(read.got) \/ k \in p.items
        BY <1>7, <1>9, <3>8
      <4> QED BY <3>5, <3>6, <4>1, <4>2
    <3> QED BY <1>9, <3>7, <3>8 DEF InOrder
  <2> QED BY <2>1, <2>2
<1>13. r.list = "resources" /\ r.after # None => r.after \in ResourceIds
  BY <1>2, <1>4, <1>9 DEF Cuts
<1>14. r.result = None => r.after # None
  BY <1>9, ReadAssumption
<1>15. /\ r.steady \subseteq Matching(d, r.list, ViewOf(r.principal), r.filter)
       /\ Possible(d, r.list, ViewOf(r.principal), r.filter) \subseteq r.ever
  BY <1>9 DEF WalkSoFar
<1>16. r \in Walks /\ r.rows = None
  BY <1>9
<1>17. r.result = None =>
         /\ r.after = None => r.got = <<>>
         /\ r.rows # None => r.list = "targets" /\ r.steady \subseteq r.rows /\ r.rows \subseteq r.ever
  BY <1>14, <1>16
<1>18. WalkSoFar(r, d)
  BY <1>10, <1>11, <1>12, <1>13, <1>15, <1>16, <1>17 DEF WalkSoFar
<1> QED BY <1>18 DEF r

LEMMA WalkBegins ==
  ASSUME TablesOk(db), NEW list \in Lists \cup Registries, NEW filter \in Filters(list),
         NEW principal \in Principals, NEW limit \in 1 .. PageMax
  PROVE  WalkSoFar(WalkOf(list, filter, principal, limit), db)
<1> DEFINE K == Matching(db, list, ViewOf(principal), filter)
           P == Possible(db, list, ViewOf(principal), filter)
           r == WalkOf(list, filter, principal, limit)
<1>1. K \subseteq Nat /\ P \subseteq Nat
  BY MatchingIsKeys DEF IsKeys, Possible
<1>2. filter \in AnyFilter
  BY DEF AnyFilter
<1>3. r = [call |-> "walk", list |-> list, filter |-> filter, principal |-> principal,
           limit |-> limit, after |-> None, got |-> <<>>, rows |-> None, lost |-> FALSE,
           steady |-> K, ever |-> P, result |-> None]
  BY DEF WalkOf
<1> HIDE DEF r
<1>4. /\ r \in Walks /\ r.list = list /\ r.filter = filter /\ r.principal = principal
      /\ r.after = None /\ r.got = <<>> /\ r.rows = None /\ r.result = None
      /\ r.steady = K /\ r.ever = P
  <2> HIDE DEF K, P
  <2> QED BY <1>1, <1>2, <1>3 DEF Walks
<1>5. Rows(r.got) = {} /\ Increasing(r.got)
  BY <1>4 DEF Rows, Increasing
<1>6. NothingSkipped(r) /\ InOrder(r)
  BY <1>4, <1>5, ReadAssumption DEF NothingSkipped, InOrder
<1>7. WalkSoFar(r, db)
  BY <1>4, <1>5, <1>6, ReadAssumption DEF WalkSoFar
<1> QED BY <1>7 DEF r

LEMMA WalkSteps ==
  ASSUME backend \in {"memory", "postgres"}, TablesOk(db), WalkSoFar(read, db),
         NextPage \/ Reduce \/ SelectTargets \/ FilterTargets
  PROVE  WalkSoFar(read', db)
<1>1. /\ read \in Walks /\ read.result = None /\ read.list \in Lists \cup Registries
      /\ read.principal \in Principals /\ read.limit \in 1 .. PageMax
      /\ read.steady \subseteq Matching(db, read.list, ViewOf(read.principal), read.filter)
      /\ Possible(db, read.list, ViewOf(read.principal), read.filter) \subseteq read.ever
  BY DEF WalkSoFar, Walks, NextPage, Reduce, SelectTargets, FilterTargets, Reading
<1>2. CASE NextPage
  <2> DEFINE view == Authenticated(read.principal, read.list)
             keys == Matching(db, read.list, view, read.filter)
  <2>1. view # "refused" /\ read' = WithPage(keys)
    BY <1>2 DEF NextPage
  <2>2. keys = Matching(db, read.list, ViewOf(read.principal), read.filter)
    BY <1>1, <2>1, SameRows
  <2>3. IsKeys(keys) /\ keys \subseteq read.ever /\ (read.list = "resources" => keys = ResourceIds)
    BY <1>1, <2>2, MatchingIsKeys
  <2>4. read.steady \subseteq keys
    BY <1>1, <2>2
  <2> HIDE DEF keys
  <2> QED BY <1>1, <2>1, <2>3, <2>4, WalkTurns
<1>3. CASE Reduce
  <2>1. read' = [read EXCEPT !.limit = read.limit - 1] /\ read.limit > 1
    BY <1>3 DEF Reduce
  <2>2. read.limit - 1 \in 1 .. PageMax
    BY <1>1, <2>1, ReadAssumption
  <2>3. /\ read' \in Walks /\ read'.list = read.list /\ read'.filter = read.filter
        /\ read'.principal = read.principal /\ read'.after = read.after /\ read'.got = read.got
        /\ read'.rows = read.rows /\ read'.lost = read.lost /\ read'.steady = read.steady
        /\ read'.ever = read.ever /\ read'.result = read.result
    BY <1>1, <2>1, <2>2 DEF Walks
  <2> QED BY <2>3 DEF WalkSoFar, NothingSkipped, InOrder
<1>4. CASE SelectTargets
  <2> DEFINE rows == VisibleTargets(db, Authenticated(read.principal, "targets"))
  <2>1. /\ read' = [read EXCEPT !.rows = rows] /\ read.list = "targets"
        /\ Authenticated(read.principal, "targets") # "refused"
    BY <1>4 DEF SelectTargets
  <2>2. Authenticated(read.principal, "targets") = ViewOf(read.principal)
    BY <1>1, <2>1 DEF Authenticated, ViewOf, Answering, Principals, Registries, Guarded
  <2>3. rows \subseteq Monitors
    BY DEF VisibleTargets, TablesOk, Tables
  <2>4. read.steady \subseteq rows
    BY <1>1, <2>1, <2>2 DEF Matching
  <2>5. rows \subseteq read.ever
    BY <1>1, <2>1, <2>2 DEF Possible, Matching
  <2> HIDE DEF rows
  <2>6. /\ read' \in Walks /\ read'.list = read.list /\ read'.filter = read.filter
        /\ read'.principal = read.principal /\ read'.after = read.after /\ read'.got = read.got
        /\ read'.rows = rows /\ read'.lost = read.lost /\ read'.steady = read.steady
        /\ read'.ever = read.ever /\ read'.result = read.result
    BY <1>1, <2>1, <2>3 DEF Walks
  <2> QED BY <2>1, <2>4, <2>5, <2>6 DEF WalkSoFar, NothingSkipped, InOrder
<1>5. CASE FilterTargets
  <2> DEFINE keys == {m \in read.rows : read.filter \in {None, Outcome(db, m)}}
  <2>1. read' = WithPage(keys) /\ read.rows # None
    BY <1>5 DEF FilterTargets
  <2>2. read.list = "targets" /\ read.steady \subseteq read.rows /\ read.rows \subseteq read.ever
        /\ read.rows \subseteq Monitors
    BY <1>1, <2>1 DEF WalkSoFar, Walks
  <2>3. IsKeys(keys)
    <3>1. keys \subseteq Monitors
      BY <2>2
    <3> QED BY <3>1, IdsAreKeys, PartIsKeys
  <2>4. read.steady \subseteq keys
    BY <1>1, <2>2 DEF Matching
  <2>5. keys \subseteq read.ever
    BY <2>2
  <2> HIDE DEF keys
  <2> QED BY <1>1, <2>1, <2>2, <2>3, <2>4, <2>5, WalkTurns
<1> QED BY <1>2, <1>3, <1>4, <1>5

LEMMA WalkWatches ==
  ASSUME NEW d, WalkSoFar(read, d), NEW e, TablesOk(e), read # None
  PROVE  WalkSoFar(Watched(e), e)
<1>1. CASE read.result # None
  <2>1. Watched(e) = read
    BY <1>1 DEF Watched
  <2> QED BY <1>1, <2>1 DEF WalkSoFar
<1>2. CASE read.result = None
  <2> DEFINE K == Matching(e, read.list, ViewOf(read.principal), read.filter)
             P == Possible(e, read.list, ViewOf(read.principal), read.filter)
             r == Watched(e)
  <2>1. read \in Walks /\ read.list \in Lists \cup Registries /\ read.call = "walk"
    BY DEF WalkSoFar, Walks
  <2>2. K \subseteq Nat /\ P \subseteq Nat /\ K \subseteq P
    BY <2>1, MatchingIsKeys DEF IsKeys, Possible
  <2>3. r = [read EXCEPT !.steady = read.steady \cap K, !.ever = read.ever \cup P]
    BY <1>2, <2>1 DEF Watched
  <2> HIDE DEF r
  <2>4. /\ r \in Walks /\ r.list = read.list /\ r.filter = read.filter /\ r.principal = read.principal
        /\ r.after = read.after /\ r.got = read.got /\ r.rows = read.rows /\ r.lost = read.lost
        /\ r.result = read.result
        /\ r.steady = read.steady \cap K /\ r.ever = read.ever \cup P
    <3> HIDE DEF K, P
    <3> QED BY <2>1, <2>2, <2>3 DEF Walks
  <2>5. r.steady \subseteq read.steady /\ read.ever \subseteq r.ever
    BY <2>4
  <2>6. r.steady \subseteq Matching(e, r.list, ViewOf(r.principal), r.filter)
    BY <2>4
  <2>7. Possible(e, r.list, ViewOf(r.principal), r.filter) \subseteq r.ever
    BY <2>4
  <2>8. NothingSkipped(r) /\ InOrder(r)
    BY <2>4, <2>5 DEF WalkSoFar, NothingSkipped, InOrder
  <2>9. WalkSoFar(r, e)
    BY <1>2, <2>4, <2>5, <2>6, <2>7, <2>8 DEF WalkSoFar
  <2> QED BY <2>9 DEF r
<1> QED BY <1>1, <1>2

----------------------------------------------------------------------------
(* Details *)

\* The newest observations are consecutive and in the table.
LEMMA NewestConsecutive ==
  ASSUME TablesOk(db), NEW m \in Monitors, NEW limit \in 1 .. PageMax
  PROVE  LET o == Newest(m, limit) IN
         /\ o \in Seq(Nat)
         /\ \A k \in DOMAIN o : o[k] = o[1] + 1 - k /\ o[k] \in DOMAIN db.observed[m]
<1> DEFINE n == Len(db.observed[m])
           c == IF n < limit THEN n ELSE limit
           o == Newest(m, limit)
<1>1. n \in Nat /\ DOMAIN db.observed[m] = 1 .. n
  <2>1. db.observed[m] \in Seq({"pass", "fail"})
    BY DEF TablesOk, Tables
  <2> QED BY <2>1
<1>2. c \in Nat /\ c <= n
  BY <1>1, ReadAssumption
<1>3. o = [k \in 1 .. c |-> n + 1 - k]
  BY DEF Newest
<1> HIDE DEF n, c, o
<1>4. ASSUME NEW k \in 1 .. c
      PROVE  n + 1 - k \in 1 .. n /\ n + 1 - k = (n + 1 - 1) + 1 - k /\ 1 \in 1 .. c
  BY <1>1, <1>2
<1>5. o \in [1 .. c -> Nat]
  BY <1>1, <1>3, <1>4
<1>6. o \in Seq(Nat)
  BY <1>2, <1>5
<1>7. \A k \in DOMAIN o : o[k] = o[1] + 1 - k /\ o[k] \in 1 .. n
  BY <1>3, <1>4
<1> QED BY <1>1, <1>6, <1>7 DEF o

LEMMA DetailSteps ==
  ASSUME TablesOk(db), NEW r, DetailSoFar(r, db), r.result = None
  PROVE  /\ DetailSoFar(DetailStep(r), db) /\ DetailStep(r).call = "detail"
         /\ r.at = "observations" => DetailStep(r).at = "incidents" /\ DetailStep(r).result = None
         /\ r.at = "incidents" => DetailStep(r).at = "latest" /\ DetailStep(r).result = None
<1> DEFINE s == DetailStep(r)
           m == r.monitor
<1>1. /\ r \in Details /\ m \in Monitors /\ r.limit \in 1 .. PageMax /\ r.view \in Views
      /\ r.observations \in Seq(Nat)
  BY DEF DetailSoFar, Details
<1>2. db.observed[m] \in Seq({"pass", "fail"})
  BY <1>1 DEF TablesOk, Tables
<1>3. CASE r.at = "observations"
  <2> DEFINE o == Newest(m, r.limit)
  <2>1. s = [r EXCEPT !.observations = o, !.at = "incidents"]
    BY <1>3 DEF DetailStep
  <2>2. o \in Seq(Nat) /\ \A k \in DOMAIN o : o[k] = o[1] + 1 - k /\ o[k] \in DOMAIN db.observed[m]
    BY <1>1, NewestConsecutive
  <2> HIDE DEF s, o
  <2>3. /\ s \in Details /\ s.monitor = m /\ s.at = "incidents" /\ s.result = None
        /\ s.observations = o /\ s.call = "detail"
    BY <1>1, <2>1, <2>2 DEF Details
  <2>4. DetailSoFar(s, db)
    BY <2>2, <2>3, ReadAssumption DEF DetailSoFar
  <2> QED BY <1>3, <2>3, <2>4 DEF s
<1>4. CASE r.at = "incidents"
  <2> DEFINE I == IncidentsOf(m, r.view)
             o == r.observations
  <2>1. s = [r EXCEPT !.incidents = I, !.at = "latest"]
    BY <1>4 DEF DetailStep
  <2>2. I \subseteq [id : IncidentIds, observations : SUBSET Nat]
    <3> SUFFICES ASSUME NEW i \in Opened(db)
                 PROVE  i \in IncidentIds /\ db.incident[i].observations \subseteq Nat
      BY DEF IncidentsOf, VisibleIncidents, Published
    <3> QED BY DEF TablesOk, Tables, Opened, Incident
  <2>3. ASSUME r.view = "private", NEW k \in DOMAIN o, db.observed[m][o[k]] = "fail"
        PROVE  \E i \in I : o[k] \in i.observations
    <3>1. o[k] \in DOMAIN db.observed[m]
      BY DEF DetailSoFar
    <3>2. PICK i \in Opened(db) : db.incident[i].monitor = m /\ o[k] \in db.incident[i].observations
      BY <1>1, <2>3, <3>1 DEF TablesOk, FailuresFiled
    <3>3. [id |-> i, observations |-> db.incident[i].observations] \in I
      BY <2>3, <3>2 DEF IncidentsOf, VisibleIncidents
    <3> QED BY <3>2, <3>3
  <2> HIDE DEF s, I
  <2>4. /\ s \in Details /\ s.monitor = m /\ s.at = "latest" /\ s.result = None /\ s.view = r.view
        /\ s.observations = o /\ s.incidents = I /\ s.call = "detail"
    BY <1>1, <2>1, <2>2 DEF Details
  <2>5. DetailSoFar(s, db)
    BY <2>3, <2>4, ReadAssumption DEF DetailSoFar
  <2> QED BY <1>4, <2>4, <2>5 DEF s
<1>5. CASE r.at = "latest"
  <2> DEFINE o == r.observations
             n == Len(db.observed[m])
  <2>1. s = [r EXCEPT !.latest = n, !.result = "complete"]
    BY <1>5 DEF DetailStep
  <2>2. n \in Nat /\ DOMAIN db.observed[m] = 1 .. n
    BY <1>2
  <2>3. o # <<>> => o[1] <= n
    <3>1. o # <<>> => 1 \in DOMAIN o
      BY <1>1
    <3>2. 1 \in DOMAIN o => o[1] \in 1 .. n
      BY <2>2 DEF DetailSoFar
    <3> QED BY <2>2, <3>1, <3>2
  <2> HIDE DEF s, n
  <2>4. /\ s \in Details /\ s.monitor = m /\ s.at = "latest" /\ s.result = "complete" /\ s.view = r.view
        /\ s.observations = o /\ s.incidents = r.incidents /\ s.latest = n /\ s.call = "detail"
    BY <1>1, <1>5, <2>1, <2>2 DEF Details
  <2>5. DetailSoFar(s, db)
    BY <1>5, <2>3, <2>4 DEF DetailSoFar
  <2> QED BY <1>5, <2>4, <2>5 DEF s
<1> QED BY <1>1, <1>3, <1>4, <1>5 DEF Details

LEMMA DetailBegins ==
  ASSUME TablesOk(db), NEW m \in Monitors, NEW view \in Views, NEW limit \in 1 .. PageMax
  PROVE  DetailSoFar(Begun(DetailOf(m, view, limit)), db)
<1> DEFINE r == DetailOf(m, view, limit)
<1>1. r \in Details /\ r.at = "observations" /\ r.observations = <<>> /\ r.result = None /\ r.call = "detail"
  BY DEF DetailOf, Details
<1>2. DetailSoFar(r, db)
  BY <1>1, ReadAssumption DEF DetailSoFar
<1> HIDE DEF r
<1> DEFINE s == ReadStep(r)
           t == ReadStep(s)
           u == ReadStep(t)
<1>3. DetailSoFar(s, db) /\ s.at = "incidents" /\ s.result = None /\ s.call = "detail"
  BY <1>1, <1>2, DetailSteps DEF ReadStep
<1> HIDE DEF s
<1>4. DetailSoFar(t, db) /\ t.result = None /\ t.call = "detail"
  BY <1>3, DetailSteps DEF ReadStep
<1> HIDE DEF t
<1>5. DetailSoFar(u, db)
  BY <1>4, DetailSteps DEF ReadStep
<1> QED BY <1>2, <1>5 DEF Begun, s, t, r

LEMMA DetailKeeps ==
  ASSUME NEW d, NEW r, DetailSoFar(r, d), NEW e, Grows(d, e)
  PROVE  DetailSoFar(r, e)
<1>1. r \in Details /\ r.monitor \in Monitors
  BY DEF DetailSoFar, Details
<1>2. \A n \in DOMAIN d.observed[r.monitor] :
        n \in DOMAIN e.observed[r.monitor] /\ e.observed[r.monitor][n] = d.observed[r.monitor][n]
  BY <1>1 DEF Grows
<1> QED BY <1>2 DEF DetailSoFar

----------------------------------------------------------------------------
(* Summaries *)

\* The first page has everything that fits in a page.
LEMMA FirstPageOf ==
  ASSUME NEW keys, IsKeys(keys)
  PROVE  /\ FirstPage(keys) \subseteq keys
         /\ backend = "memory" \/ Cardinality(keys) <= PageMax => FirstPage(keys) = keys
<1>1. /\ Least(keys, PageMax) \subseteq keys
      /\ Cardinality(Least(keys, PageMax)) = IF PageMax <= Cardinality(keys) THEN PageMax ELSE Cardinality(keys)
      /\ IsFiniteSet(keys) /\ Cardinality(keys) \in Nat /\ PageMax \in Nat
  BY LeastCardinality, RankType, ReadAssumption DEF IsKeys
<1>2. Cardinality(keys) <= PageMax => Least(keys, PageMax) = keys
  BY <1>1, FS_Subset
<1> QED BY <1>1, <1>2 DEF FirstPage

LEMMA SummarySteps ==
  ASSUME TablesOk(db), NEW r, SummarySoFar(r, db), r.result = None
  PROVE  /\ SummarySoFar(SummaryStep(r), db) /\ SummaryStep(r).call = "summary"
         /\ r.at = "targets" => SummaryStep(r).at = "outcomes" /\ SummaryStep(r).result = None
         /\ r.at = "outcomes" => SummaryStep(r).at = "incidents" /\ SummaryStep(r).result = None
<1> DEFINE s == SummaryStep(r)
<1>1. /\ r \in Summaries /\ r.project \in {None, Project} /\ r.targets \subseteq Monitors /\ r.fits \in BOOLEAN
      /\ r.steady \subseteq IncidentIds /\ r.shown \subseteq Sources
  BY DEF SummarySoFar, Summaries
<1>2. /\ r.incidents \subseteq Opened(db)
      /\ r.steady \subseteq Lasting(db, r.project) /\ PublicNow(db) \subseteq r.ever
      /\ SourcesShown(db, r.project) \subseteq r.shown
      /\ r.fits = TRUE => Fits(db, r.project)
  BY DEF SummarySoFar
<1>3. /\ IsKeys(db.public) /\ db.public \subseteq Monitors
      /\ IsKeys(Published(db)) /\ Published(db) \subseteq Opened(db) /\ Opened(db) \subseteq IncidentIds
  <2>1. db.public \subseteq Monitors
    BY DEF TablesOk, Tables
  <2>2. Published(db) \subseteq Opened(db) /\ Opened(db) \subseteq IncidentIds
    BY DEF Published, Opened
  <2> QED BY <2>1, <2>2, IdsAreKeys, PartIsKeys
<1>4. CASE r.at = "targets"
  <2> DEFINE T == {m \in FirstPage(db.public) : r.project = None \/ SourceOf[m] \in FirstPage(r.project)}
  <2>1. s = [r EXCEPT !.at = "outcomes", !.targets = T]
    BY <1>4 DEF SummaryStep
  <2>2. r.project # None => IsKeys(r.project)
    BY <1>1, IdsAreKeys
  <2>3. T \subseteq db.public /\ (r.project # None => \A m \in T : SourceOf[m] \in r.project)
    BY <1>3, <2>2, FirstPageOf
  <2>4. SourcesOf(T) \subseteq SourcesShown(db, r.project)
    BY <2>3 DEF SourcesOf, SourcesShown
  <2>5. ASSUME r.fits = TRUE PROVE SourcesShown(db, r.project) \subseteq SourcesOf(T)
    <3>1. FirstPage(db.public) = db.public /\ (r.project # None => FirstPage(r.project) = r.project)
      BY <1>2, <1>3, <2>2, <2>5, FirstPageOf DEF Fits
    <3> QED BY <3>1 DEF SourcesOf, SourcesShown
  <2> HIDE DEF s, T
  <2>6. /\ s \in Summaries /\ s.call = "summary" /\ s.at = "outcomes" /\ s.result = None
        /\ s.targets = T /\ s.incidents = r.incidents /\ s.project = r.project /\ s.fits = r.fits
        /\ s.steady = r.steady /\ s.ever = r.ever /\ s.shown = r.shown
    BY <1>1, <1>3, <2>1, <2>3 DEF Summaries
  <2>7. r.fits = TRUE => \A i \in r.steady : SourceOf[db.incident[i].monitor] \in SourcesOf(T)
    BY <1>2, <2>5 DEF Lasting
  <2>8. SourcesOf(T) \subseteq r.shown
    BY <1>2, <2>4
  <2>9. SummarySoFar(s, db)
    BY <1>2, <2>6, <2>7, <2>8, ReadAssumption DEF SummarySoFar
  <2> QED BY <1>4, <2>6, <2>9 DEF s
<1>5. CASE r.at = "outcomes"
  <2> DEFINE O == {Outcome(db, m) : m \in r.targets}
  <2>1. s = [r EXCEPT !.at = "incidents", !.outcomes = O]
    BY <1>5 DEF SummaryStep
  <2>2. O \subseteq {"unknown", "pass", "fail"}
    <3> SUFFICES ASSUME NEW m \in Monitors PROVE Outcome(db, m) \in {"unknown", "pass", "fail"}
      BY <1>1
    <3>1. db.observed[m] \in Seq({"pass", "fail"})
      BY DEF TablesOk, Tables
    <3>2. db.observed[m] # <<>> => db.observed[m][Len(db.observed[m])] \in {"pass", "fail"}
      BY <3>1
    <3> QED BY <3>2 DEF Outcome, Last
  <2> HIDE DEF s, O
  <2>3. /\ s \in Summaries /\ s.call = "summary" /\ s.at = "incidents" /\ s.result = None
        /\ s.targets = r.targets /\ s.incidents = r.incidents /\ s.project = r.project /\ s.fits = r.fits
        /\ s.steady = r.steady /\ s.ever = r.ever /\ s.shown = r.shown
    BY <1>1, <2>1, <2>2 DEF Summaries
  <2>4. SummarySoFar(s, db)
    BY <1>5, <2>3, ReadAssumption DEF SummarySoFar
  <2> QED BY <1>5, <2>3, <2>4 DEF s
<1>6. CASE r.at = "incidents"
  <2> DEFINE I == {i \in FirstPage(Published(db)) \cap Current(db) :
                     SourceOf[db.incident[i].monitor] \in {SourceOf[m] : m \in r.targets}}
             severities == {db.incident[i].severity : i \in I}
             overall == Overall(r.outcomes, severities)
  <2>1. s = [r EXCEPT !.incidents = I, !.result = "complete", !.overall = overall]
    BY <1>6 DEF SummaryStep
  <2>2. I \subseteq PublicNow(db) /\ PublicNow(db) \subseteq Opened(db)
    BY <1>3, FirstPageOf DEF PublicNow
  <2>3. \A i \in I : SourceOf[db.incident[i].monitor] \in SourcesOf(r.targets)
    BY DEF SourcesOf
  <2>4. ASSUME r.fits = TRUE PROVE r.steady \subseteq I
    <3>1. FirstPage(Published(db)) = Published(db)
      BY <1>2, <1>3, <2>4, FirstPageOf DEF Fits
    <3>2. \A i \in r.steady : SourceOf[db.incident[i].monitor] \in SourcesOf(r.targets)
      BY <1>6, <2>4 DEF SummarySoFar
    <3> QED BY <1>2, <3>1, <3>2 DEF Lasting, PublicNow, SourcesOf
  <2>5. SourcesOf(r.targets) \subseteq r.shown
    BY <1>6 DEF SummarySoFar
  <2>6. I # {} => overall \in {"degraded", "major_outage"}
    <3>1. I # {} => severities # {}
      OBVIOUS
    <3> QED BY <3>1 DEF Overall
  <2>7. overall \in {"operational", "degraded", "major_outage", "unknown"}
    BY DEF Overall
  <2> HIDE DEF s, I, overall
  <2>8. /\ s \in Summaries /\ s.call = "summary" /\ s.at = "incidents" /\ s.result = "complete"
        /\ s.targets = r.targets /\ s.incidents = I /\ s.overall = overall /\ s.fits = r.fits
        /\ s.steady = r.steady /\ s.ever = r.ever /\ s.shown = r.shown
    BY <1>1, <1>3, <1>6, <2>1, <2>2, <2>7 DEF Summaries
  <2>9. SummarySoFar(s, db)
    BY <1>2, <2>2, <2>3, <2>4, <2>5, <2>6, <2>8, ReadAssumption DEF SummarySoFar
  <2> QED BY <1>6, <2>8, <2>9 DEF s
<1> QED BY <1>1, <1>4, <1>5, <1>6 DEF Summaries

LEMMA SummaryBegins ==
  ASSUME TablesOk(db), NEW project \in {None, Project}
  PROVE  SummarySoFar(Begun(SummaryOf(project)), db)
<1> DEFINE r == SummaryOf(project)
<1>1. /\ Lasting(db, project) \subseteq IncidentIds /\ PublicNow(db) \subseteq IncidentIds
      /\ SourcesShown(db, project) \subseteq Sources /\ Fits(db, project) \in BOOLEAN
  <2>1. db.public \subseteq Monitors
    BY DEF TablesOk, Tables
  <2> QED BY <2>1 DEF Lasting, PublicNow, Published, Opened, SourcesShown, Sources, Fits
<1>2. /\ r \in Summaries /\ r.at = "targets" /\ r.result = None /\ r.call = "summary"
      /\ r.incidents = {} /\ r.project = project /\ r.fits = Fits(db, project)
      /\ r.steady = Lasting(db, project) /\ r.ever = PublicNow(db) /\ r.shown = SourcesShown(db, project)
  BY <1>1 DEF SummaryOf, Summaries
<1> HIDE DEF r
<1>3. SummarySoFar(r, db)
  BY <1>2, ReadAssumption DEF SummarySoFar
<1> DEFINE s == ReadStep(r)
           t == ReadStep(s)
           u == ReadStep(t)
<1>4. SummarySoFar(s, db) /\ s.at = "outcomes" /\ s.result = None /\ s.call = "summary"
  BY <1>2, <1>3, SummarySteps DEF ReadStep
<1> HIDE DEF s
<1>5. SummarySoFar(t, db) /\ t.result = None /\ t.call = "summary"
  BY <1>4, SummarySteps DEF ReadStep
<1> HIDE DEF t
<1>6. SummarySoFar(u, db)
  BY <1>5, SummarySteps DEF ReadStep
<1> QED BY <1>3, <1>6 DEF Begun, s, t, r

LEMMA SummaryWatches ==
  ASSUME NEW d, SummarySoFar(read, d), NEW e, TablesOk(e), Grows(d, e), read # None
  PROVE  SummarySoFar(Watched(e), e)
<1>1. /\ read \in Summaries /\ read.call = "summary" /\ read.incidents \subseteq Opened(d)
      /\ read.fits \in BOOLEAN
  BY DEF SummarySoFar, Summaries
<1>2. \A i \in Opened(d) : i \in Opened(e) /\ e.incident[i].monitor = d.incident[i].monitor
  BY DEF Grows
<1>3. read.incidents \subseteq Opened(e)
  BY <1>1, <1>2
<1>4. \A i \in read.incidents : e.incident[i].monitor = d.incident[i].monitor
  BY <1>1, <1>2
<1>5. CASE read.result # None
  <2>1. Watched(e) = read
    BY <1>5 DEF Watched
  <2> QED BY <1>3, <1>4, <1>5, <2>1 DEF SummarySoFar
<1>6. CASE read.result = None
  <2> DEFINE r == Watched(e)
             K == Lasting(e, read.project)
             P == PublicNow(e)
             S == SourcesShown(e, read.project)
             fits == read.fits /\ Fits(e, read.project)
  <2>1. r = [read EXCEPT !.steady = read.steady \cap K, !.ever = read.ever \cup P,
                         !.shown = read.shown \cup S, !.fits = fits]
    BY <1>1, <1>6 DEF Watched
  <2>2. e.public \subseteq Monitors
    BY DEF TablesOk, Tables
  <2>3. K \subseteq IncidentIds /\ P \subseteq IncidentIds /\ S \subseteq Sources /\ fits \in BOOLEAN
    BY <2>2 DEF Lasting, PublicNow, Published, Opened, SourcesShown, Sources
  <2>4. fits = TRUE => read.fits = TRUE /\ Fits(e, read.project)
    BY <1>1
  <2> HIDE DEF r, fits, K, P, S
  <2>5. /\ r \in Summaries /\ r.at = read.at /\ r.result = read.result /\ r.project = read.project
        /\ r.incidents = read.incidents /\ r.targets = read.targets /\ r.fits = fits
        /\ r.steady = read.steady \cap K /\ r.ever = read.ever \cup P /\ r.shown = read.shown \cup S
    BY <1>1, <2>1, <2>3 DEF Summaries
  <2>6. r.steady \subseteq read.steady /\ read.shown \subseteq r.shown /\ read.steady \subseteq Opened(d)
    <3>1. read.steady \subseteq Lasting(d, read.project)
      BY <1>6 DEF SummarySoFar
    <3> QED BY <2>5, <3>1 DEF Lasting, PublicNow, Published
  <2>7. /\ r.steady \subseteq Lasting(e, r.project) /\ PublicNow(e) \subseteq r.ever
        /\ SourcesShown(e, r.project) \subseteq r.shown /\ (r.fits = TRUE => Fits(e, r.project))
    BY <2>4, <2>5 DEF K, P, S
  <2>8. r.at # "targets" => SourcesOf(r.targets) \subseteq r.shown
    BY <2>5, <2>6 DEF SummarySoFar
  <2>9. ASSUME r.fits = TRUE, r.at # "targets", NEW i \in r.steady
        PROVE  SourceOf[e.incident[i].monitor] \in SourcesOf(r.targets)
    <3>1. i \in read.steady /\ e.incident[i].monitor = d.incident[i].monitor
      BY <1>2, <2>6
    <3>2. SourceOf[d.incident[i].monitor] \in SourcesOf(read.targets)
      BY <1>6, <2>4, <2>5, <2>9, <3>1 DEF SummarySoFar
    <3> QED BY <2>5, <3>1, <3>2
  <2>10. SummarySoFar(r, e)
    BY <1>3, <1>6, <2>5, <2>7, <2>8, <2>9, ReadAssumption DEF SummarySoFar
  <2> QED BY <2>10 DEF r
<1> QED BY <1>5, <1>6

----------------------------------------------------------------------------
(* Writes *)

LEMMA EntryKeyIsKey ==
  ASSUME NEW of \in Subjects, NEW version \in Nat
  PROVE  EntryKey(of, version) \in Nat
<1>1. IdRank[of[1]] \in Nat /\ of[2] \in Nat
  BY DEF Subjects, IdRank
<1> DEFINE rank == IdRank[of[1]]
           number == of[2]
<1> HIDE DEF rank, number
<1>2. rank \in Nat /\ number \in Nat
  BY <1>1 DEF rank, number
<1>3. (rank * 10 + number) * 10 + version \in Nat
  BY <1>2
<1> QED BY <1>3 DEF EntryKey, Width, rank, number

LEMMA AuditedKeeps ==
  ASSUME NEW audit, audit \subseteq Nat \X Subjects, IsFiniteSet(audit), NEW of \in Subjects
  PROVE  Audited(audit, of) \subseteq Nat \X Subjects /\ IsFiniteSet(Audited(audit, of))
<1> DEFINE version == Cardinality({e \in audit : e[2] = of}) + 1
           key == IF backend = "memory" THEN Cardinality(audit) + 1 ELSE EntryKey(of, version)
<1>1. {e \in audit : e[2] = of} \in SUBSET audit
  OBVIOUS
<1>2. version \in Nat
  BY <1>1, FS_Subset, FS_CardinalityType
<1>3. Cardinality(audit) + 1 \in Nat
  BY FS_CardinalityType
<1>4. key \in Nat
  <2> HIDE DEF version
  <2> QED BY <1>2, <1>3, EntryKeyIsKey
<1>5. Audited(audit, of) = audit \cup {<<key, of>>}
  BY DEF Audited
<1> DEFINE entry == <<key, of>>
<1>6. entry \in Nat \X Subjects
  BY <1>4
<1> HIDE DEF entry
<1>7. IsFiniteSet(audit \cup {entry})
  BY FS_AddElement
<1> QED BY <1>5, <1>6, <1>7 DEF entry

LEMMA TrailIsFinite ==
  ASSUME NEW decided, decided \subseteq Subjects, IsFiniteSet(decided)
  PROVE  Trail(decided) \subseteq Nat \X Subjects /\ IsFiniteSet(Trail(decided))
<1> DEFINE Before(of) == {o \in decided : EntryKey(o, 1) <= EntryKey(of, 1)}
           f == [of \in decided |->
                  <<IF backend = "memory" THEN Cardinality(Before(of)) ELSE EntryKey(of, 1), of>>]
<1>1. Trail(decided) = {f[of] : of \in decided}
  BY DEF Trail
<1>2. ASSUME NEW of \in decided PROVE f[of] \in Nat \X Subjects
  <2>1. Before(of) \in SUBSET decided
    OBVIOUS
  <2> HIDE DEF Before
  <2>2. Cardinality(Before(of)) \in Nat
    BY <2>1, FS_Subset, FS_CardinalityType
  <2>3. EntryKey(of, 1) \in Nat
    BY EntryKeyIsKey
  <2> QED BY <2>2, <2>3
<1>3. IsFiniteSet({f[of] : of \in decided})
  <2>1. DOMAIN f = decided
    OBVIOUS
  <2> HIDE DEF f
  <2> QED BY <2>1, ImageIsFinite
<1> HIDE DEF f
<1> QED BY <1>1, <1>2, <1>3

\* A write that adds no observation keeps every failure in an incident as long as incidents
\* keep their monitors and what they have.
LEMMA QuietWrite ==
  ASSUME NEW d, TablesOk(d), NEW e, e \in Tables, IsFiniteSet(e.audit), e.observed = d.observed,
         \A i \in Opened(d) :
           /\ i \in Opened(e) /\ e.incident[i].monitor = d.incident[i].monitor
           /\ e.incident[i].observations = d.incident[i].observations
  PROVE  TablesOk(e) /\ Grows(d, e)
<1>1. FailuresFiled(e)
  <2> SUFFICES ASSUME NEW m \in Monitors, NEW n \in DOMAIN e.observed[m], e.observed[m][n] = "fail"
               PROVE  \E i \in Opened(e) : e.incident[i].monitor = m /\ n \in e.incident[i].observations
    BY DEF FailuresFiled
  <2>1. PICK i \in Opened(d) : d.incident[i].monitor = m /\ n \in d.incident[i].observations
    BY DEF TablesOk, FailuresFiled
  <2> QED BY <2>1
<1>2. Grows(d, e)
  BY DEF Grows
<1> QED BY <1>1, <1>2 DEF TablesOk

LEMMA AdministratorsKeep ==
  ASSUME TablesOk(db),
         \/ \E s \in SourceIds, decision \in {"approved", "revoked"} : Decide(s, decision)
         \/ \E m \in Monitors, public \in BOOLEAN : ActivateTarget(m, public)
         \/ \E i \in IncidentIds : Publish(i) \/ Resolve(i)
  PROVE  TablesOk(db') /\ Grows(db, db')
<1>1. /\ db \in Tables /\ db.audit \subseteq Nat \X Subjects /\ IsFiniteSet(db.audit)
      /\ db.public \subseteq Monitors
  BY DEF TablesOk, Tables
<1>2. ASSUME NEW s \in SourceIds, NEW decision \in {"approved", "revoked"}, Decide(s, decision)
      PROVE  TablesOk(db') /\ Grows(db, db')
  <2> DEFINE A == Audited(db.audit, <<"source", s>>)
  <2>1. <<"source", s>> \in Subjects
    BY IdsAreKeys DEF IsKeys, Subjects
  <2>2. A \subseteq Nat \X Subjects /\ IsFiniteSet(A)
    BY <1>1, <2>1, AuditedKeeps
  <2>3. db' = [db EXCEPT !.source[s] = decision, !.audit = A]
    BY <1>2 DEF Decide, Write
  <2> HIDE DEF A
  <2>4. db' \in Tables /\ db'.audit = A /\ db'.observed = db.observed /\ db'.incident = db.incident
    BY <1>1, <2>2, <2>3 DEF Tables
  <2> QED BY <2>2, <2>4, QuietWrite DEF Opened
<1>3. ASSUME NEW m \in Monitors, NEW public \in BOOLEAN, ActivateTarget(m, public)
      PROVE  TablesOk(db') /\ Grows(db, db')
  <2> DEFINE A == Audited(db.audit, <<"monitor", m>>)
             P == IF public THEN db.public \cup {m} ELSE db.public \ {m}
  <2>1. <<"monitor", m>> \in Subjects
    BY IdsAreKeys DEF IsKeys, Subjects
  <2>2. A \subseteq Nat \X Subjects /\ IsFiniteSet(A) /\ P \subseteq Monitors
    BY <1>1, <2>1, AuditedKeeps
  <2>3. db' = [db EXCEPT !.public = P, !.audit = A]
    BY <1>3 DEF ActivateTarget, Write
  <2> HIDE DEF A, P
  <2>4. db' \in Tables /\ db'.audit = A /\ db'.observed = db.observed /\ db'.incident = db.incident
    BY <1>1, <2>2, <2>3 DEF Tables
  <2> QED BY <2>2, <2>4, QuietWrite DEF Opened
<1>4. ASSUME NEW i \in Opened(db), NEW entry \in Incident,
             entry.monitor = db.incident[i].monitor, entry.observations = db.incident[i].observations,
             db' = [db EXCEPT !.incident[i] = entry, !.audit = Audited(db.audit, <<"incident", i>>)]
      PROVE  TablesOk(db') /\ Grows(db, db')
  <2> DEFINE A == Audited(db.audit, <<"incident", i>>)
  <2>1. i \in IncidentIds /\ <<"incident", i>> \in Subjects
    BY IdsAreKeys DEF IsKeys, Subjects, Opened
  <2>2. A \subseteq Nat \X Subjects /\ IsFiniteSet(A)
    BY <1>1, <2>1, AuditedKeeps
  <2>3. db' = [db EXCEPT !.incident = [db.incident EXCEPT ![i] = entry], !.audit = A]
    BY <1>4
  <2> HIDE DEF A
  <2>4. /\ db' \in Tables /\ db'.audit = A /\ db'.observed = db.observed
        /\ db'.incident = [db.incident EXCEPT ![i] = entry]
    BY <1>1, <2>1, <2>2, <2>3 DEF Tables
  <2>5. ASSUME NEW j \in Opened(db)
        PROVE  /\ j \in Opened(db') /\ db'.incident[j].monitor = db.incident[j].monitor
               /\ db'.incident[j].observations = db.incident[j].observations
    BY <1>1, <1>4, <2>4, ReadAssumption DEF Opened, Tables
  <2> QED BY <2>2, <2>4, <2>5, QuietWrite
<1>5. ASSUME NEW i \in Opened(db) PROVE db.incident[i] \in Incident
  BY <1>1 DEF Opened, Tables
<1>6. ASSUME NEW i \in IncidentIds, Publish(i)
      PROVE  TablesOk(db') /\ Grows(db, db')
  <2> DEFINE entry == [db.incident[i] EXCEPT !.public = TRUE]
  <2>1. i \in Opened(db)
    BY <1>6 DEF Publish, Current
  <2>2. /\ entry \in Incident /\ entry.monitor = db.incident[i].monitor
        /\ entry.observations = db.incident[i].observations
    BY <1>5, <2>1 DEF Incident
  <2>3. db' = [db EXCEPT !.incident[i] = entry, !.audit = Audited(db.audit, <<"incident", i>>)]
    BY <1>6 DEF Publish, Write
  <2> HIDE DEF entry
  <2> QED BY <1>4, <2>1, <2>2, <2>3
<1>7. ASSUME NEW i \in IncidentIds, Resolve(i)
      PROVE  TablesOk(db') /\ Grows(db, db')
  <2> DEFINE entry == [db.incident[i] EXCEPT !.status = "resolved"]
  <2>1. i \in Opened(db)
    BY <1>7 DEF Resolve, Current
  <2>2. /\ entry \in Incident /\ entry.monitor = db.incident[i].monitor
        /\ entry.observations = db.incident[i].observations
    BY <1>5, <2>1 DEF Incident
  <2>3. db' = [db EXCEPT !.incident[i] = entry, !.audit = Audited(db.audit, <<"incident", i>>)]
    BY <1>7 DEF Resolve, Write
  <2> HIDE DEF entry
  <2> QED BY <1>4, <2>1, <2>2, <2>3
<1> QED BY <1>2, <1>3, <1>6, <1>7

\* So does one that adds an observation, if a failure comes with its incident.
LEMMA ObservingWrite ==
  ASSUME NEW d, TablesOk(d), NEW e, e \in Tables, e.audit = d.audit,
         NEW m \in Monitors, NEW outcome \in {"pass", "fail"},
         e.observed = [d.observed EXCEPT ![m] = Append(d.observed[m], outcome)],
         \A i \in Opened(d) :
           /\ i \in Opened(e) /\ e.incident[i].monitor = d.incident[i].monitor
           /\ d.incident[i].observations \subseteq e.incident[i].observations,
         outcome = "fail" => \E i \in Opened(e) :
           e.incident[i].monitor = m /\ Len(d.observed[m]) + 1 \in e.incident[i].observations
  PROVE  TablesOk(e) /\ Grows(d, e)
<1> DEFINE old == d.observed[m]
           c == Len(old)
<1>1. d \in Tables /\ old \in Seq({"pass", "fail"}) /\ d.observed \in [Monitors -> Seq({"pass", "fail"})]
  BY DEF TablesOk, Tables
<1>2. /\ c \in Nat /\ DOMAIN old = 1 .. c /\ DOMAIN Append(old, outcome) = 1 .. c + 1
      /\ \A n \in 1 .. c : Append(old, outcome)[n] = old[n]
      /\ Append(old, outcome)[c + 1] = outcome
  BY <1>1
<1>3. e.observed[m] = Append(old, outcome)
  BY <1>1
<1>4. \A k \in Monitors : k # m => e.observed[k] = d.observed[k]
  BY <1>1
<1> HIDE DEF old, c
<1>5. ASSUME NEW k \in Monitors, NEW n \in DOMAIN d.observed[k]
      PROVE  n \in DOMAIN e.observed[k] /\ e.observed[k][n] = d.observed[k][n]
  <2>1. CASE k = m
    <3>1. n \in 1 .. c /\ n \in 1 .. c + 1
      BY <1>2, <2>1 DEF old
    <3> QED BY <1>2, <1>3, <2>1, <3>1 DEF old
  <2>2. CASE k # m
    BY <1>4, <2>2
  <2> QED BY <2>1, <2>2
<1>6. Grows(d, e)
  BY <1>5 DEF Grows
<1>7. FailuresFiled(e)
  <2> SUFFICES ASSUME NEW k \in Monitors, NEW n \in DOMAIN e.observed[k], e.observed[k][n] = "fail"
               PROVE  \E i \in Opened(e) : e.incident[i].monitor = k /\ n \in e.incident[i].observations
    BY DEF FailuresFiled
  <2>1. CASE n \in DOMAIN d.observed[k]
    <3>1. d.observed[k][n] = "fail"
      BY <1>5, <2>1
    <3>2. PICK i \in Opened(d) : d.incident[i].monitor = k /\ n \in d.incident[i].observations
      BY <2>1, <3>1 DEF TablesOk, FailuresFiled
    <3> QED BY <3>2
  <2>2. CASE n \notin DOMAIN d.observed[k]
    <3>1. k = m
      BY <1>4, <2>2
    <3>2. n \in 1 .. c + 1 /\ n \notin 1 .. c
      BY <1>2, <1>3, <2>2, <3>1 DEF old
    <3>3. n = c + 1
      BY <1>2, <3>2
    <3>4. outcome = "fail"
      BY <1>2, <1>3, <3>1, <3>3
    <3> QED BY <3>1, <3>3, <3>4 DEF c, old
  <2> QED BY <2>1, <2>2
<1>8. IsFiniteSet(e.audit)
  BY DEF TablesOk
<1> QED BY <1>6, <1>7, <1>8 DEF TablesOk

LEMMA WorkersKeep ==
  ASSUME TablesOk(db),
         \/ \E m \in Monitors : Passed(m)
         \/ \E m \in Monitors, i \in IncidentIds, severity \in {"minor", "major"} : Failed(m, i, severity)
         \/ \E r \in RecordIds, observed \in {"recent", "undated"} : Collect(r, observed)
         \/ \E k \in RecipeIds : Lapse(k)
  PROVE  TablesOk(db') /\ Grows(db, db')
<1>1. /\ db \in Tables /\ db.observed \in [Monitors -> Seq({"pass", "fail"})] /\ IsFiniteSet(db.audit)
      /\ db.incident \in [IncidentIds -> Incident \cup {None}]
  BY DEF TablesOk, Tables
<1>2. ASSUME NEW m \in Monitors, NEW outcome \in {"pass", "fail"}
      PROVE  [db.observed EXCEPT ![m] = Append(db.observed[m], outcome)] \in [Monitors -> Seq({"pass", "fail"})]
  <2>1. Append(db.observed[m], outcome) \in Seq({"pass", "fail"})
    BY <1>1
  <2> QED BY <1>1, <2>1
<1>3. ASSUME NEW m \in Monitors, Passed(m)
      PROVE  TablesOk(db') /\ Grows(db, db')
  <2> DEFINE observed == [db.observed EXCEPT ![m] = Append(db.observed[m], "pass")]
  <2>1. db' = [db EXCEPT !.observed = observed]
    BY <1>3 DEF Passed, Write
  <2>2. observed \in [Monitors -> Seq({"pass", "fail"})]
    BY <1>2
  <2> HIDE DEF observed
  <2>3. /\ db' \in Tables /\ db'.observed = observed /\ db'.incident = db.incident
        /\ db'.audit = db.audit
    BY <1>1, <2>1, <2>2 DEF Tables
  <2> QED BY <2>3, ObservingWrite DEF observed, Opened
<1>4. ASSUME NEW m \in Monitors, NEW i \in IncidentIds, NEW severity \in {"minor", "major"},
             Failed(m, i, severity)
      PROVE  TablesOk(db') /\ Grows(db, db')
  <2> DEFINE active == {j \in Current(db) : db.incident[j].monitor = m}
             number == Len(db.observed[m]) + 1
             joined == [db.incident[i] EXCEPT !.observations = db.incident[i].observations \cup {number}]
             entry == IF active = {} THEN Filed(m, number, severity) ELSE joined
             observed == [db.observed EXCEPT ![m] = Append(db.observed[m], "fail")]
  <2>1. /\ db' = [db EXCEPT !.observed = observed, !.incident = [db.incident EXCEPT ![i] = entry]]
        /\ IF active = {} THEN db.incident[i] = None ELSE i \in active
    BY <1>4 DEF Failed, Write
  <2>2. observed \in [Monitors -> Seq({"pass", "fail"})] /\ number \in Nat
    <3>1. db.observed[m] \in Seq({"pass", "fail"})
      BY <1>1
    <3> QED BY <1>2, <3>1
  <2>3. /\ entry \in Incident /\ entry.monitor = m /\ number \in entry.observations
        /\ db.incident[i] # None => /\ entry.monitor = db.incident[i].monitor
                                    /\ db.incident[i].observations \subseteq entry.observations
    <3> HIDE DEF number
    <3>1. CASE active = {}
      <4>1. entry = [monitor |-> m, observations |-> {number}, status |-> "open", severity |-> severity,
                     public |-> FALSE] /\ db.incident[i] = None
        BY <2>1, <3>1 DEF Filed
      <4>2. {number} \in SUBSET Nat
        BY <2>2
      <4> HIDE DEF entry
      <4>3. entry \in Incident /\ entry.monitor = m /\ entry.observations = {number}
        BY <4>1, <4>2 DEF Incident
      <4> QED BY <4>1, <4>3
    <3>2. CASE active # {}
      <4>1. i \in active /\ entry = joined
        BY <2>1, <3>2
      <4>2. db.incident[i] \in Incident /\ db.incident[i].monitor = m
        BY <1>1, <4>1 DEF Current, Opened
      <4> DEFINE O == db.incident[i].observations \cup {number}
      <4>3. O \in SUBSET Nat /\ entry = [db.incident[i] EXCEPT !.observations = O]
        BY <2>2, <4>1, <4>2 DEF Incident
      <4>4. number \in O /\ db.incident[i].observations \subseteq O
        OBVIOUS
      <4> HIDE DEF O, entry
      <4>5. entry \in Incident /\ entry.monitor = m /\ entry.observations = O
        BY <4>2, <4>3 DEF Incident
      <4> QED BY <4>2, <4>4, <4>5
    <3> QED BY <3>1, <3>2
  <2> HIDE DEF observed, entry, active
  <2>4. /\ db' \in Tables /\ db'.observed = observed /\ db'.audit = db.audit
        /\ db'.incident = [db.incident EXCEPT ![i] = entry]
    BY <1>1, <2>1, <2>2, <2>3 DEF Tables
  <2>5. ASSUME NEW j \in Opened(db)
        PROVE  /\ j \in Opened(db') /\ db'.incident[j].monitor = db.incident[j].monitor
               /\ db.incident[j].observations \subseteq db'.incident[j].observations
    BY <1>1, <2>3, <2>4, ReadAssumption DEF Opened
  <2>6. i \in Opened(db') /\ db'.incident[i].monitor = m /\ number \in db'.incident[i].observations
    BY <1>1, <2>3, <2>4, ReadAssumption DEF Opened
  <2> QED BY <2>4, <2>5, <2>6, ObservingWrite DEF observed
<1>5. ASSUME NEW r \in RecordIds, NEW observed \in {"recent", "undated"}, Collect(r, observed)
      PROVE  TablesOk(db') /\ Grows(db, db')
  <2>1. db' = [db EXCEPT !.record[r] = observed]
    BY <1>5 DEF Collect, Write
  <2>2. /\ db' \in Tables /\ db'.observed = db.observed /\ db'.incident = db.incident
        /\ db'.audit = db.audit
    BY <1>1, <2>1 DEF Tables
  <2> QED BY <1>1, <2>2, QuietWrite DEF Opened
<1>6. ASSUME NEW k \in RecipeIds, Lapse(k)
      PROVE  TablesOk(db') /\ Grows(db, db')
  <2>1. db' = [db EXCEPT !.verified[k] = "stale"]
    BY <1>6 DEF Lapse, Write
  <2>2. /\ db' \in Tables /\ db'.observed = db.observed /\ db'.incident = db.incident
        /\ db'.audit = db.audit
    BY <1>1, <2>1 DEF Tables
  <2> QED BY <1>1, <2>2, QuietWrite DEF Opened
<1> QED BY <1>3, <1>4, <1>5, <1>6

\* A write leaves a read that fits the tables as they are now.
LEMMA WriteWatched ==
  ASSUME ReadSoFar(read, db), TablesOk(db'), Grows(db, db'), read' = Watched(db')
  PROVE  ReadSoFar(read', db')
<1>1. CASE read = None
  BY <1>1 DEF Watched, ReadSoFar
<1>2. CASE read # None /\ WalkSoFar(read, db)
  BY <1>2, WalkWatches DEF ReadSoFar
<1>3. CASE read # None /\ DetailSoFar(read, db)
  <2>1. read.call = "detail"
    BY <1>3 DEF DetailSoFar, Details
  <2>2. read' = read
    BY <2>1 DEF Watched
  <2> QED BY <1>3, <2>2, DetailKeeps DEF ReadSoFar
<1>4. CASE read # None /\ SummarySoFar(read, db)
  BY <1>4, SummaryWatches DEF ReadSoFar
<1> QED BY <1>1, <1>2, <1>3, <1>4 DEF ReadSoFar

----------------------------------------------------------------------------
(* The invariant *)

\* Every deployment starts with tables in order and no read.
LEMMA InitInvariant == Init => IInv
<1> SUFFICES ASSUME Init PROVE IInv
  OBVIOUS
<1>1. PICK activated \in BOOLEAN, filed \in SUBSET {Min(Monitors)} : \E published \in SUBSET filed :
        LET decided == {"source"} \X SourceIds \cup {"monitor"} \X Monitors \cup {"incident"} \X published IN
        db = [source |-> [s \in SourceIds |-> IF activated THEN "approved" ELSE "pending"],
             public |-> IF activated THEN Monitors ELSE {},
             observed |-> [m \in Monitors |-> IF m \in filed THEN <<"fail">> ELSE <<>>],
             incident |-> [i \in IncidentIds |->
               IF i \in filed THEN [Filed(i, 1, "minor") EXCEPT !.public = i \in published] ELSE None],
             record |-> [r \in RecordIds |-> IF r \in filed THEN "undated" ELSE None],
             verified |-> [k \in RecipeIds |-> "current"],
             audit |-> Trail(IF activated THEN decided ELSE {})]
  BY DEF Init
<1>2. PICK published \in SUBSET filed :
        LET decided == {"source"} \X SourceIds \cup {"monitor"} \X Monitors \cup {"incident"} \X published IN
        db = [source |-> [s \in SourceIds |-> IF activated THEN "approved" ELSE "pending"],
             public |-> IF activated THEN Monitors ELSE {},
             observed |-> [m \in Monitors |-> IF m \in filed THEN <<"fail">> ELSE <<>>],
             incident |-> [i \in IncidentIds |->
               IF i \in filed THEN [Filed(i, 1, "minor") EXCEPT !.public = i \in published] ELSE None],
             record |-> [r \in RecordIds |-> IF r \in filed THEN "undated" ELSE None],
             verified |-> [k \in RecipeIds |-> "current"],
             audit |-> Trail(IF activated THEN decided ELSE {})]
  BY <1>1
<1> DEFINE decided == {"source"} \X SourceIds \cup {"monitor"} \X Monitors \cup {"incident"} \X published
           D == IF activated THEN decided ELSE {}
<1>3. filed \subseteq Monitors /\ filed \subseteq IncidentIds /\ published \subseteq filed
  BY ReadAssumption
<1>4. D \subseteq Subjects
  BY <1>3, IdsAreKeys DEF IsKeys, Subjects
<1>5. IsFiniteSet(D)
  <2>1. ASSUME NEW kind, NEW S, IsKeys(S) PROVE IsFiniteSet({kind} \X S)
    <3> DEFINE f == [x \in S |-> <<kind, x>>]
    <3>1. {kind} \X S = {f[x] : x \in S}
      OBVIOUS
    <3>2. DOMAIN f = S /\ IsFiniteSet(S)
      BY <2>1 DEF IsKeys
    <3> HIDE DEF f
    <3> QED BY <3>1, <3>2, ImageIsFinite
  <2>2. IsKeys(published)
    BY <1>3, IdsAreKeys, PartIsKeys
  <2>3. /\ IsFiniteSet({"source"} \X SourceIds) /\ IsFiniteSet({"monitor"} \X Monitors)
        /\ IsFiniteSet({"incident"} \X published)
    BY <2>1, <2>2, IdsAreKeys
  <2>4. IsFiniteSet(decided)
    BY <2>3, FS_Union
  <2> QED BY <2>4, FS_EmptySet
<1> HIDE DEF D
<1>6. Trail(D) \subseteq Nat \X Subjects /\ IsFiniteSet(Trail(D))
  BY <1>4, <1>5, TrailIsFinite
<1>7. /\ db.source = [s \in SourceIds |-> IF activated THEN "approved" ELSE "pending"]
      /\ db.public = (IF activated THEN Monitors ELSE {})
      /\ db.observed = [m \in Monitors |-> IF m \in filed THEN <<"fail">> ELSE <<>>]
      /\ db.incident = [i \in IncidentIds |->
           IF i \in filed THEN [Filed(i, 1, "minor") EXCEPT !.public = i \in published] ELSE None]
      /\ db.record = [r \in RecordIds |-> IF r \in filed THEN "undated" ELSE None]
      /\ db.verified = [k \in RecipeIds |-> "current"]
      /\ db.audit = Trail(D)
      /\ db = [source |-> db.source, public |-> db.public, observed |-> db.observed,
               incident |-> db.incident, record |-> db.record, verified |-> db.verified,
               audit |-> db.audit]
  BY <1>2 DEF D
<1>8. ASSUME NEW i \in filed
      PROVE  /\ db.incident[i] \in Incident /\ db.incident[i].monitor = i
             /\ db.incident[i].observations = {1} /\ i \in Opened(db)
  <2>1. i \in IncidentIds /\ i \in Monitors
    BY <1>3
  <2>2. db.incident[i] = [monitor |-> i, observations |-> {1}, status |-> "open", severity |-> "minor",
                          public |-> i \in published]
    BY <1>7, <2>1 DEF Filed
  <2> DEFINE public == i \in published
  <2>3. public \in BOOLEAN
    OBVIOUS
  <2> HIDE DEF public
  <2>4. db.incident[i] = [monitor |-> i, observations |-> {1}, status |-> "open", severity |-> "minor",
                          public |-> public]
    BY <2>2 DEF public
  <2>5. db.incident[i] \in Incident
    BY <2>1, <2>3, <2>4 DEF Incident
  <2> QED BY <2>1, <2>4, <2>5, ReadAssumption DEF Opened
<1>9. db \in Tables
  <2>1. db.source \in [SourceIds -> {"pending", "approved", "revoked"}] /\ db.public \subseteq Monitors
    BY <1>7
  <2>2. db.observed \in [Monitors -> Seq({"pass", "fail"})]
    <3>1. <<"fail">> \in Seq({"pass", "fail"}) /\ <<>> \in Seq({"pass", "fail"})
      OBVIOUS
    <3>2. \A m \in Monitors : db.observed[m] \in {<<"fail">>, <<>>}
      BY <1>7
    <3> QED BY <1>7, <3>1, <3>2
  <2>3. db.incident \in [IncidentIds -> Incident \cup {None}]
    <3>1. \A i \in IncidentIds : db.incident[i] \in Incident \cup {None}
      BY <1>7, <1>8
    <3> QED BY <1>7, <3>1
  <2>4. /\ db.record \in [RecordIds -> {"recent", "undated", None}]
        /\ db.verified \in [RecipeIds -> {"current", "stale"}]
    BY <1>7
  <2>5. db.audit \in SUBSET (Nat \X Subjects)
    BY <1>6, <1>7
  <2>6. db = [source |-> db.source, public |-> db.public, observed |-> db.observed,
              incident |-> db.incident, record |-> db.record, verified |-> db.verified,
              audit |-> db.audit]
    BY <1>7
  <2> QED BY <2>1, <2>2, <2>3, <2>4, <2>5, <2>6 DEF Tables
<1>10. FailuresFiled(db)
  <2> SUFFICES ASSUME NEW m \in Monitors, NEW n \in DOMAIN db.observed[m], db.observed[m][n] = "fail"
               PROVE  \E i \in Opened(db) : db.incident[i].monitor = m /\ n \in db.incident[i].observations
    BY DEF FailuresFiled
  <2>1. m \in filed /\ n = 1
    BY <1>7
  <2> QED BY <1>8, <2>1
<1>11. backend \in {"memory", "postgres"} /\ read = None
  BY DEF Init
<1> QED BY <1>6, <1>7, <1>9, <1>10, <1>11 DEF IInv, TablesOk, ReadSoFar

\* A deployment keeps its backend, on which it depends what matches and what fits.
LEMMA InvariantNext ==
  ASSUME UNCHANGED backend, backend \in {"memory", "postgres"}, TablesOk(db'), ReadSoFar(read', db')
  PROVE  IInv'
<1>1. \A list, view, filter : Matching(db, list, view, filter)' = Matching(db', list, view, filter)
  BY DEF Matching, Records, Collected, InRange, Events, Recipes, ProviderResources, Entries,
         VisibleSources, VisibleTargets, VisibleIncidents, Published, Opened, Outcome
<1>2. WalkSoFar(read', db') => WalkSoFar(read, db)'
  BY <1>1 DEF WalkSoFar, Possible
<1>3. SummarySoFar(read', db') => SummarySoFar(read, db)'
  BY DEF SummarySoFar, Fits
<1>4. ReadSoFar(read, db)'
  BY <1>2, <1>3 DEF ReadSoFar
<1> QED BY <1>4 DEF IInv

LEMMA ClientKeeps ==
  ASSUME IInv, ClientNext
  PROVE  UNCHANGED <<backend, db>> /\ ReadSoFar(read', db)
<1>1. UNCHANGED <<backend, db>>
  BY DEF ClientNext, BeginWalk, NextPage, Reduce, SelectTargets, FilterTargets, BeginDetail,
         BeginSummary, Continue, EndRead, Unchanged
<1>2. backend \in {"memory", "postgres"} /\ TablesOk(db) /\ ReadSoFar(read, db)
  BY DEF IInv
<1>3. ASSUME NEW call \in {"walk", "detail", "summary"}, Reading(call)
      PROVE  /\ call = "walk" => WalkSoFar(read, db)
             /\ call = "detail" => DetailSoFar(read, db)
             /\ call = "summary" => SummarySoFar(read, db)
             /\ read.result = None /\ read.call = call
  BY <1>2, <1>3 DEF Reading, ReadSoFar, WalkSoFar, Walks, DetailSoFar, Details, SummarySoFar, Summaries
<1>4. ASSUME NEW list \in Lists \cup Registries, NEW principal \in Principals,
             NEW limit \in 1 .. PageMax, NEW filter \in Filters(list),
             BeginWalk(list, filter, principal, limit)
      PROVE  ReadSoFar(read', db)
  BY <1>2, <1>4, WalkBegins DEF BeginWalk, ReadSoFar
<1>5. CASE NextPage \/ Reduce \/ SelectTargets \/ FilterTargets
  <2>1. Reading("walk")
    BY <1>5 DEF NextPage, Reduce, SelectTargets, FilterTargets
  <2> QED BY <1>1, <1>2, <1>3, <1>5, <2>1, WalkSteps DEF ReadSoFar
<1>6. ASSUME NEW m \in Monitors, NEW principal \in Principals, NEW limit \in 1 .. PageMax,
             BeginDetail(m, principal, limit)
      PROVE  ReadSoFar(read', db)
  <2> DEFINE view == Authenticated(principal, "targets")
  <2>1. view # "refused" /\ read' = Begun(DetailOf(m, view, limit))
    BY <1>6 DEF BeginDetail
  <2>2. view \in Views
    BY <2>1 DEF Authenticated, Answering, Registries, Guarded, Views
  <2> HIDE DEF view
  <2> QED BY <1>2, <2>1, <2>2, DetailBegins DEF ReadSoFar
<1>7. ASSUME NEW project \in {None, Project}, BeginSummary(project)
      PROVE  ReadSoFar(read', db)
  BY <1>2, <1>7, SummaryBegins DEF BeginSummary, ReadSoFar
<1>8. CASE Continue
  <2>1. CASE Reading("detail")
    BY <1>1, <1>2, <1>3, <1>8, <2>1, DetailSteps DEF Continue, ReadStep, ReadSoFar
  <2>2. CASE Reading("summary")
    BY <1>1, <1>2, <1>3, <1>8, <2>2, SummarySteps DEF Continue, ReadStep, ReadSoFar
  <2> QED BY <1>8, <2>1, <2>2 DEF Continue
<1>9. CASE EndRead
  BY <1>1, <1>9 DEF EndRead, ReadSoFar
<1> QED BY <1>1, <1>4, <1>5, <1>6, <1>7, <1>8, <1>9 DEF ClientNext

LEMMA WriterKeeps ==
  ASSUME IInv, WriterNext
  PROVE  UNCHANGED backend /\ TablesOk(db') /\ ReadSoFar(read', db')
<1>1. TablesOk(db) /\ ReadSoFar(read, db)
  BY DEF IInv
<1>2. CASE Expire
  BY <1>1, <1>2 DEF Expire
<1>3. CASE ~Expire
  <2>1. UNCHANGED backend /\ read' = Watched(db')
    BY <1>3 DEF WriterNext, Decide, ActivateTarget, Publish, Resolve, Passed, Failed, Collect, Lapse, Write
  <2>2. TablesOk(db') /\ Grows(db, db')
    BY <1>1, <1>3, AdministratorsKeep, WorkersKeep DEF WriterNext
  <2> QED BY <1>1, <2>1, <2>2, WriteWatched
<1> QED BY <1>2, <1>3

LEMMA NextInvariant == IInv /\ [Next]_vars => IInv'
<1> SUFFICES ASSUME IInv, [Next]_vars PROVE IInv'
  OBVIOUS
<1>1. backend \in {"memory", "postgres"} /\ TablesOk(db) /\ ReadSoFar(read, db)
  BY DEF IInv
<1>2. CASE ClientNext
  BY <1>1, <1>2, ClientKeeps, InvariantNext
<1>3. CASE WriterNext
  BY <1>1, <1>3, WriterKeeps, InvariantNext
<1>4. CASE UNCHANGED vars
  BY <1>1, <1>4, InvariantNext DEF vars
<1> QED BY <1>2, <1>3, <1>4 DEF Next

----------------------------------------------------------------------------
(* Theorems *)

\* Whatever is written meanwhile, the tables keep every failure in an incident, and a read
\* under way fits them as they are now: nothing that has matched all the time is behind the
\* cursor of a walk, a detail's observations are where they were, and a summary's targets
\* cover the incidents that last.
THEOREM ReadsFitTheTables == Spec => []IInv
BY InitInvariant, NextInvariant, PTL DEF Spec

\* A walk of any list, of any page size and over any writes, returns every row that matched all
\* along, none twice and none it might not (listAllSources; the MCP tools' next_cursor).
THEOREM WalksAreExact == Spec => []WalkIsExact
<1>1. IInv => WalkIsExact
  <2> SUFFICES ASSUME IInv, Done("walk")
               PROVE  /\ read.steady \subseteq Rows(read.got)
                      /\ Rows(read.got) \subseteq read.ever
                      /\ (read.list = "recipes" /\ read.lost) \/ Increasing(read.got)
    BY DEF WalkIsExact, Rows, Increasing
  <2>1. WalkSoFar(read, db) /\ read.result = "complete" /\ read.lost \in BOOLEAN
    BY DEF IInv, Done, ReadSoFar, WalkSoFar, Walks, DetailSoFar, Details, SummarySoFar, Summaries
  <2> QED BY <2>1 DEF WalkSoFar, NothingSkipped, InOrder
<1> QED BY <1>1, ReadsFitTheTables, PTL

\* For any list, any page and any cursor the memory repository, which counts all that is left, and
\* PostgreSQL, which fetches one row more, answer with the same page and the same next cursor.
THEOREM RepositoriesPageAlike == Spec => []BackendsAgree
<1>1. IInv => BackendsAgree
  <2> SUFFICES ASSUME IInv, NEW list \in Lists, NEW view \in Views, NEW limit \in 1 .. PageMax,
                      NEW after
               PROVE  LET keys == Matching(db, list, view, None) IN
                      PageInMemory(keys, limit, after) = PageInPostgres(keys, limit, after)
    BY DEF BackendsAgree
  <2>1. IsKeys(Matching(db, list, view, None))
    BY MatchingIsKeys DEF IInv
  <2>2. limit \in Nat /\ limit > 0
    BY ReadAssumption
  <2> QED BY <2>1, <2>2, PagesAgree
<1> QED BY <1>1, ReadsFitTheTables, PTL

\* The statements of a detail fit together whatever is committed between them: a caller who may see
\* incidents finds each failure in one.
THEOREM DetailsAreCoherent == Spec => []DetailIsCoherent
<1>1. IInv => DetailIsCoherent
  <2> SUFFICES ASSUME IInv, Done("detail") PROVE DetailIsCoherent
    BY DEF DetailIsCoherent
  <2>1. DetailSoFar(read, db) /\ read.result = "complete"
    BY DEF IInv, Done, ReadSoFar, WalkSoFar, Walks, DetailSoFar, Details, SummarySoFar, Summaries
  <2> QED BY <2>1 DEF DetailSoFar, DetailIsCoherent
<1> QED BY <1>1, ReadsFitTheTables, PTL

\* As long as its lists fit in a page of PostgreSQL, a summary has every public incident that was current all along,
\* nothing that was not public, and never reports better than what it lists.
THEOREM SummariesAreCurrent == Spec => []SummaryIsCurrent
<1>1. IInv => SummaryIsCurrent
  <2> SUFFICES ASSUME IInv, Done("summary"), read.fits PROVE SummaryIsCurrent
    BY DEF SummaryIsCurrent
  <2>1. SummarySoFar(read, db) /\ read.result = "complete" /\ read.fits \in BOOLEAN
    BY DEF IInv, Done, ReadSoFar, WalkSoFar, Walks, DetailSoFar, Details, SummarySoFar, Summaries
  <2> QED BY <2>1 DEF SummarySoFar, SummaryIsCurrent
<1> QED BY <1>1, ReadsFitTheTables, PTL

=============================================================================
