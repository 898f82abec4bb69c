---------------------------- MODULE KernelLemmas ----------------------------
(***************************************************************************)
(* What the proofs about the scheduler and the kernel objects share: lists *)
(* of threads and timers, counters that wrap, and suspend lists.           *)
(***************************************************************************)
EXTENDS Ipc, FiniteSetTheorems, SequenceTheorems, WellFoundedInduction, TLAPS

(* A sequence is empty exactly when it contains nothing.                   *)
LEMMA EmptyContains ==
  ASSUME NEW S, NEW q \in Seq(S)
  PROVE  q = <<>> <=> \A x \in S : ~Contains(q, x)
  <1>1. q = <<>> => \A x \in S : ~Contains(q, x)
    BY DEF Contains
  <1>2. ASSUME q # <<>> PROVE \E x \in S : Contains(q, x)
    <2>1. Len(q) >= 1 /\ q[1] \in S
      BY <1>2
    <2> QED BY <2>1 DEF Contains
  <1> QED BY <1>1, <1>2

(* The head of a non-empty list is one of its elements.                    *)
LEMMA HeadContains ==
  ASSUME NEW S, NEW q \in Seq(S), q # <<>>
  PROVE  Head(q) \in S /\ Contains(q, Head(q))
  <1>1. Len(q) >= 1 /\ Head(q) = q[1] /\ q[1] \in S
    OBVIOUS
  <1> QED BY <1>1 DEF Contains

(* rt_list_insert_before the list head: appending a node that is not there *)
LEMMA AppendContains ==
  ASSUME NEW S, NEW q \in Seq(S), NEW u \in S
  PROVE  /\ Append(q, u) \in Seq(S)
         /\ Append(q, u) # <<>>
         /\ \A x : Contains(Append(q, u), x) <=> Contains(q, x) \/ x = u
         /\ IsInjective(q) /\ ~Contains(q, u) => IsInjective(Append(q, u))
  <1>1. /\ Append(q, u) \in Seq(S) /\ Len(Append(q, u)) = Len(q) + 1
        /\ Append(q, u)[Len(q) + 1] = u
        /\ \A i \in 1 .. Len(q) : Append(q, u)[i] = q[i]
        /\ DOMAIN Append(q, u) = 1 .. Len(q) + 1 /\ DOMAIN q = 1 .. Len(q)
        /\ Len(q) \in Nat
    OBVIOUS
  <1>2. \A x : Contains(Append(q, u), x) <=> Contains(q, x) \/ x = u
    BY <1>1 DEF Contains
  <1>3. IsInjective(q) /\ ~Contains(q, u) => IsInjective(Append(q, u))
    BY <1>1 DEF Contains, IsInjective
  <1>4. Append(q, u) # <<>>
    BY <1>1
  <1> QED BY <1>1, <1>2, <1>3, <1>4

(* rt_list_remove: a list without repetitions loses exactly that node.     *)
LEMMA RemoveContains ==
  ASSUME NEW S, NEW q \in Seq(S), NEW u, IsInjective(q)
  PROVE  /\ RemoveFirst(q, u) \in Seq(S)
         /\ IsInjective(RemoveFirst(q, u))
         /\ \A x : Contains(RemoveFirst(q, u), x) <=> Contains(q, x) /\ x # u
         /\ ~Contains(q, u) => RemoveFirst(q, u) = q
         /\ \A j, k \in 1 .. Len(RemoveFirst(q, u)) : j < k =>
              \E a, b \in 1 .. Len(q) : /\ a < b
                                        /\ RemoveFirst(q, u)[j] = q[a]
                                        /\ RemoveFirst(q, u)[k] = q[b]
  <1>0. Len(q) \in Nat /\ DOMAIN q = 1 .. Len(q)
    OBVIOUS
  <1>1. CASE ~Contains(q, u)
    <2>1. RemoveFirst(q, u) = q
      BY <1>1 DEF RemoveFirst, Contains
    <2> QED BY <1>1, <2>1
  <1>2. CASE Contains(q, u)
    <2>1. PICK i \in 1 .. Len(q) : q[i] = u
      BY <1>2 DEF Contains
    <2>2. {j \in 1 .. Len(q) : q[j] = u} = {i}
      BY <2>1, <1>0 DEF IsInjective
    <2>3. Min({i}) = i
      BY <2>1 DEF Min
    <2>4. SelectInSeq(q, LAMBDA v : v = u) = i
      BY <2>2, <2>3 DEF SelectInSeq
    <2> DEFINE r == SubSeq(q, 1, i - 1) \o SubSeq(q, i + 1, Len(q))
    <2>5. RemoveFirst(q, u) = r
      BY <2>4, <1>2 DEF RemoveFirst, RemoveAt, Contains
    <2> DEFINE a == SubSeq(q, 1, i - 1)
               b == SubSeq(q, i + 1, Len(q))
    <2>a. /\ a \in Seq(S) /\ Len(a) = i - 1
          /\ \A j \in 1 .. i - 1 : a[j] = q[j]
      BY <2>1, <1>0
    <2>b. /\ b \in Seq(S) /\ Len(b) = Len(q) - i
          /\ \A j \in 1 .. Len(q) - i : b[j] = q[j + i]
      <3>0. i + 1 \in Int /\ \A j \in i + 1 .. Len(q) : q[j] \in S
        BY <2>1, <1>0
      <3> HIDE DEF r, a
      <3>1. b \in Seq(S) /\ Len(b) = IF i + 1 <= Len(q) THEN Len(q) - (i + 1) + 1 ELSE 0
        BY ONLY <3>0, <1>0, SubSeqProperties DEF b
      <3>2. ASSUME NEW j \in 1 .. Len(q) - i PROVE b[j] = q[j + i]
        BY <2>1, <1>0, SubSeqProperties
      <3> HIDE DEF b
      <3>3. Len(q) \in Nat /\ Len(b) = Len(q) - i
        <4>1. Len(q) \in Nat
          OBVIOUS
        <4> QED BY <4>1, <3>1
      <3> QED BY <3>1, <3>2, <3>3
    <2>c. r = a \o b
      OBVIOUS
    <2> HIDE DEF r, a, b
    <2>6. /\ r \in Seq(S) /\ Len(r) = Len(q) - 1
          /\ \A j \in 1 .. Len(r) : r[j] = IF j < i THEN q[j] ELSE q[j + 1]
      <3>1. r \in Seq(S) /\ Len(r) = Len(q) - 1
        BY <2>a, <2>b, <2>c, <2>1, <1>0
      <3>2. ASSUME NEW j \in 1 .. Len(r), j < i PROVE r[j] = q[j]
        BY <2>a, <2>b, <2>c, <3>1, <3>2, <2>1, <1>0
      <3>3. ASSUME NEW j \in 1 .. Len(r), ~(j < i) PROVE r[j] = q[j + 1]
        <4>1. r[j] = b[j - (i - 1)]
          BY <2>a, <2>b, <2>c, <3>1, <3>3, <2>1, <1>0
        <4>2. j - (i - 1) \in 1 .. Len(q) - i /\ j - (i - 1) + i = j + 1
          BY <3>1, <3>3, <2>1, <1>0
        <4> QED BY <4>1, <4>2, <2>b
      <3> QED BY <3>1, <3>2, <3>3
    <2>7. DOMAIN r = 1 .. Len(r) /\ Len(r) \in Nat
      BY <2>6
    <2>8. IsInjective(r)
      <3> SUFFICES ASSUME NEW j \in 1 .. Len(r), NEW k \in 1 .. Len(r), r[j] = r[k]
                   PROVE  j = k
        BY <2>7 DEF IsInjective
      <3> DEFINE f(m) == IF m < i THEN m ELSE m + 1
      <3>1. f(j) \in 1 .. Len(q) /\ f(k) \in 1 .. Len(q)
        BY <2>6, <1>0, <2>1
      <3>2. q[f(j)] = q[f(k)]
        BY <2>6
      <3>3. f(j) = f(k)
        BY <3>1, <3>2, <1>0 DEF IsInjective
      <3> QED BY <3>3, <2>1, <2>7, <1>0
    <2>9. ASSUME NEW x PROVE Contains(r, x) <=> Contains(q, x) /\ x # u
      <3>1. ASSUME Contains(r, x) PROVE Contains(q, x) /\ x # u
        BY <3>1, <2>6, <2>7, <2>1, <2>2, <1>0 DEF Contains
      <3>2. ASSUME Contains(q, x), x # u PROVE Contains(r, x)
        <4>1. PICK k \in 1 .. Len(q) : q[k] = x
          BY <3>2 DEF Contains
        <4>2. k # i
          BY <4>1, <3>2, <2>1
        <4>3. CASE k < i
          BY <4>1, <4>3, <2>6, <2>7, <2>1, <1>0 DEF Contains
        <4>4. CASE k > i
          <5>1. k - 1 \in 1 .. Len(r) /\ r[k - 1] = q[k]
            BY <4>1, <4>4, <2>6, <2>7, <2>1, <1>0
          <5> QED BY <5>1, <4>1 DEF Contains
        <4> QED BY <4>2, <4>3, <4>4, <4>1, <2>1
      <3> QED BY <3>1, <3>2
    <2>10. ASSUME NEW j \in 1 .. Len(r), NEW k \in 1 .. Len(r), j < k
           PROVE  \E m, n \in 1 .. Len(q) : m < n /\ r[j] = q[m] /\ r[k] = q[n]
      <3> DEFINE f(m) == IF m < i THEN m ELSE m + 1
      <3>1. f(j) \in 1 .. Len(q) /\ f(k) \in 1 .. Len(q) /\ f(j) < f(k)
        BY <2>6, <2>10, <1>0, <2>1
      <3>2. r[j] = q[f(j)] /\ r[k] = q[f(k)]
        BY <2>6
      <3> HIDE DEF f
      <3> QED BY <3>1, <3>2
    <2>11. RemoveFirst(q, u) \in Seq(S) /\ IsInjective(RemoveFirst(q, u))
      BY <2>5, <2>6, <2>8
    <2>12. \A x : Contains(RemoveFirst(q, u), x) <=> Contains(q, x) /\ x # u
      BY ONLY <2>5, <2>9, Zenon
    <2>13. \A j, k \in 1 .. Len(r) : j < k =>
             \E m, n \in 1 .. Len(q) : m < n /\ r[j] = q[m] /\ r[k] = q[n]
      BY ONLY <2>10
    <2>14. \A j, k \in 1 .. Len(RemoveFirst(q, u)) : j < k =>
             \E m, n \in 1 .. Len(q) : /\ m < n /\ RemoveFirst(q, u)[j] = q[m]
                                       /\ RemoveFirst(q, u)[k] = q[n]
      BY ONLY <2>5, <2>13, ZenonT(60)
    <2> QED BY ONLY <1>2, <2>11, <2>12, <2>14, Zenon
  <1> QED BY <1>1, <1>2

(* rt_list_insert_before the i-th node: a node that is not there.          *)
LEMMA InsertContains ==
  ASSUME NEW S, NEW q \in Seq(S), NEW u \in S, NEW i \in 1 .. Len(q) + 1
  PROVE  /\ InsertAt(q, i, u) \in Seq(S)
         /\ Len(InsertAt(q, i, u)) = Len(q) + 1
         /\ \A j \in 1 .. Len(q) + 1 :
              InsertAt(q, i, u)[j] = IF j < i THEN q[j] ELSE IF j = i THEN u ELSE q[j - 1]
         /\ \A x : Contains(InsertAt(q, i, u), x) <=> Contains(q, x) \/ x = u
         /\ IsInjective(q) /\ ~Contains(q, u) => IsInjective(InsertAt(q, i, u))
  <1> DEFINE a == SubSeq(q, 1, i - 1)
             b == SubSeq(q, i, Len(q))
             r == (a \o <<u>>) \o b
  <1>0. Len(q) \in Nat /\ DOMAIN q = 1 .. Len(q) /\ i \in Nat /\ i >= 1 /\ i <= Len(q) + 1
    OBVIOUS
  <1>1. a \in Seq(S) /\ Len(a) = i - 1 /\ \A j \in 1 .. i - 1 : a[j] = q[j]
    BY <1>0
  <1>2. /\ b \in Seq(S) /\ Len(b) = Len(q) - i + 1
        /\ \A j \in 1 .. Len(q) - i + 1 : b[j] = q[j + i - 1]
    BY <1>0, SubSeqProperties
  <1>3. InsertAt(q, i, u) = r
    BY DEF InsertAt
  <1> HIDE DEF a, b
  <1>4. /\ a \o <<u>> \in Seq(S) /\ Len(a \o <<u>>) = i
        /\ \A j \in 1 .. i : (a \o <<u>>)[j] = IF j < i THEN q[j] ELSE u
    BY <1>0, <1>1
  <1> DEFINE c == a \o <<u>>
  <1> HIDE DEF c
  <1>5. c \in Seq(S) /\ Len(c) = i /\ \A j \in 1 .. i : c[j] = IF j < i THEN q[j] ELSE u
    BY <1>4 DEF c
  <1>6. r = c \o b
    BY DEF c
  <1> HIDE DEF r
  <1>7. r \in Seq(S) /\ Len(r) = Len(q) + 1
    <2>1. c \o b \in Seq(S) /\ Len(c \o b) = Len(c) + Len(b)
      BY <1>2, <1>5, ConcatProperties
    <2> QED BY <1>0, <1>2, <1>5, <1>6, <2>1
  <1>8. ASSUME NEW j \in 1 .. Len(q) + 1
        PROVE  r[j] = IF j < i THEN q[j] ELSE IF j = i THEN u ELSE q[j - 1]
    <2>1. CASE j <= i
      <3>1. r[j] = c[j] /\ j \in 1 .. i
        BY <1>0, <1>2, <1>5, <1>6, <2>1
      <3> QED BY <1>0, <1>5, <2>1, <3>1
    <2>2. CASE j > i
      <3>1. r[j] = b[j - i] /\ j - i \in 1 .. Len(q) - i + 1 /\ (j - i) + i - 1 = j - 1
        BY <1>0, <1>2, <1>5, <1>6, <2>2
      <3> QED BY <1>0, <1>2, <2>2, <3>1
    <2> QED BY <1>0, <2>1, <2>2
  <1>9. ASSUME NEW x PROVE Contains(r, x) <=> Contains(q, x) \/ x = u
    <2>1. ASSUME Contains(r, x) PROVE Contains(q, x) \/ x = u
      <3>1. PICK j \in 1 .. Len(q) + 1 : r[j] = x
        BY <1>7, <2>1 DEF Contains
      <3>2. CASE j < i
        BY <1>0, <1>8, <3>1, <3>2 DEF Contains
      <3>3. CASE j > i
        <4>1. j - 1 \in 1 .. Len(q) /\ q[j - 1] = x
          BY <1>0, <1>8, <3>1, <3>3
        <4> QED BY <4>1 DEF Contains
      <3> QED BY <1>0, <1>8, <3>1, <3>2, <3>3
    <2>2. ASSUME Contains(q, x) PROVE Contains(r, x)
      <3>1. PICK j \in 1 .. Len(q) : q[j] = x
        BY <2>2 DEF Contains
      <3>2. CASE j < i
        BY <1>0, <1>7, <1>8, <3>1, <3>2 DEF Contains
      <3>3. CASE j >= i
        <4>1. j + 1 \in 1 .. Len(q) + 1 /\ r[j + 1] = q[(j + 1) - 1] /\ (j + 1) - 1 = j
          BY <1>0, <1>8, <3>1, <3>3
        <4> QED BY <1>7, <3>1, <4>1 DEF Contains
      <3> QED BY <1>0, <3>1, <3>2, <3>3
    <2>3. i \in 1 .. Len(r) /\ r[i] = u
      BY <1>0, <1>7, <1>8
    <2> QED BY <2>1, <2>2, <2>3 DEF Contains
  <1>10. ASSUME IsInjective(q), ~Contains(q, u) PROVE IsInjective(r)
    <2>0. DOMAIN r = 1 .. Len(q) + 1
      BY <1>7
    <2> SUFFICES ASSUME NEW j \in 1 .. Len(q) + 1, NEW k \in 1 .. Len(q) + 1, r[j] = r[k]
                 PROVE  j = k
      BY <2>0 DEF IsInjective
    <2> DEFINE f(m) == IF m < i THEN m ELSE m - 1
    <2>1. ASSUME NEW m \in 1 .. Len(q) + 1, m # i
          PROVE  f(m) \in 1 .. Len(q) /\ r[m] = q[f(m)] /\ r[m] # u
      <3>1. f(m) \in 1 .. Len(q) /\ r[m] = q[f(m)]
        BY <1>0, <1>8, <2>1
      <3> QED BY <1>10, <3>1 DEF Contains
    <2>2. r[i] = u
      BY <1>0, <1>8
    <2>3. CASE j # i /\ k # i
      <3>1. f(j) = f(k)
        BY <1>0, <1>10, <2>1, <2>3 DEF IsInjective
      <3> QED BY <1>0, <2>3, <3>1
    <2> QED BY <2>1, <2>2, <2>3
  <1> QED BY <1>3, <1>7, <1>8, <1>9, <1>10

(* rt_list_insert_after the list head: a node that is not there.           *)
LEMMA ConsContains ==
  ASSUME NEW S, NEW q \in Seq(S), NEW u \in S
  PROVE  /\ <<u>> \o q \in Seq(S)
         /\ \A x : Contains(<<u>> \o q, x) <=> Contains(q, x) \/ x = u
         /\ IsInjective(q) /\ ~Contains(q, u) => IsInjective(<<u>> \o q)
  <1> DEFINE r == <<u>> \o q
  <1>1. /\ r \in Seq(S) /\ Len(r) = Len(q) + 1 /\ r[1] = u
        /\ \A i \in 2 .. Len(q) + 1 : r[i] = q[i - 1]
        /\ \A i \in 1 .. Len(q) : r[i + 1] = q[i]
        /\ DOMAIN r = 1 .. Len(q) + 1 /\ DOMAIN q = 1 .. Len(q)
        /\ Len(q) \in Nat
    OBVIOUS
  <1> HIDE DEF r
  <1>2. ASSUME NEW x PROVE Contains(r, x) <=> Contains(q, x) \/ x = u
    <2>1. ASSUME Contains(r, x), x # u PROVE Contains(q, x)
      <3>1. PICK i \in 1 .. Len(q) + 1 : r[i] = x
        BY <2>1, <1>1 DEF Contains
      <3>2. i - 1 \in 1 .. Len(q) /\ q[i - 1] = x
        BY <3>1, <2>1, <1>1
      <3> QED BY <3>2 DEF Contains
    <2>2. ASSUME Contains(q, x) PROVE Contains(r, x)
      <3>1. PICK i \in 1 .. Len(q) : q[i] = x
        BY <2>2 DEF Contains
      <3>2. i + 1 \in 1 .. Len(r) /\ r[i + 1] = x
        BY <3>1, <1>1
      <3> QED BY <3>2 DEF Contains
    <2>3. Contains(r, u)
      BY <1>1 DEF Contains
    <2> QED BY <2>1, <2>2, <2>3
  <1>3. ASSUME IsInjective(q), ~Contains(q, u) PROVE IsInjective(r)
    <2> SUFFICES ASSUME NEW i \in 1 .. Len(q) + 1, NEW j \in 1 .. Len(q) + 1,
                        r[i] = r[j]
                 PROVE  i = j
      BY <1>1 DEF IsInjective
    <2>1. CASE i = 1 \/ j = 1
      BY <2>1, <1>1, <1>3 DEF Contains
    <2>2. CASE i # 1 /\ j # 1
      BY <2>2, <1>1, <1>3 DEF IsInjective
    <2> QED BY <2>1, <2>2
  <1> QED BY <1>1, <1>2, <1>3 DEF r

(* Taking the first node of a list without repetitions.                    *)
LEMMA TailContains ==
  ASSUME NEW S, NEW q \in Seq(S), q # <<>>, IsInjective(q)
  PROVE  /\ Tail(q) \in Seq(S) /\ IsInjective(Tail(q))
         /\ \A x : Contains(Tail(q), x) <=> Contains(q, x) /\ x # Head(q)
  <1> DEFINE r == Tail(q)
  <1>1. /\ r \in Seq(S) /\ Len(r) = Len(q) - 1 /\ Head(q) = q[1]
        /\ \A i \in 1 .. Len(q) - 1 : r[i] = q[i + 1]
        /\ DOMAIN r = 1 .. Len(q) - 1 /\ DOMAIN q = 1 .. Len(q)
        /\ Len(q) \in Nat /\ Len(q) >= 1
    OBVIOUS
  <1> HIDE DEF r
  <1>2. IsInjective(r)
    BY <1>1 DEF IsInjective
  <1>3. ASSUME NEW x PROVE Contains(r, x) <=> Contains(q, x) /\ x # Head(q)
    <2>1. ASSUME Contains(r, x) PROVE Contains(q, x) /\ x # Head(q)
      BY <2>1, <1>1 DEF Contains, IsInjective
    <2>2. ASSUME Contains(q, x), x # Head(q) PROVE Contains(r, x)
      <3>1. PICK i \in 1 .. Len(q) : q[i] = x
        BY <2>2 DEF Contains
      <3>2. i - 1 \in 1 .. Len(r) /\ r[i - 1] = x
        BY <3>1, <2>2, <1>1
      <3> QED BY <3>2 DEF Contains
    <2> QED BY <2>1, <2>2
  <1> QED BY <1>1, <1>2, <1>3 DEF r

(* Enumerating a finite set: each element once.                            *)
LEMMA SetToSeqContains ==
  ASSUME NEW S, IsFiniteSet(S)
  PROVE  /\ SetToSeq(S) \in Seq(S) /\ IsInjective(SetToSeq(S))
         /\ \A x : Contains(SetToSeq(S), x) <=> x \in S
  <1> DEFINE n == Cardinality(S)
             f == SetToSeq(S)
  <1>1. n \in Nat /\ ExistsBijection(1 .. n, S)
    BY FS_CardinalityType
  <1>2. PICK g \in Bijection(1 .. n, S) : TRUE
    BY <1>1 DEF ExistsBijection
  <1>3. g \in [1 .. n -> S] /\ IsInjective(g)
    BY <1>2 DEF Bijection, Injection
  <1>4. f \in [1 .. n -> S] /\ IsInjective(f)
    BY <1>3 DEF SetToSeq
  <1>5. f \in Seq(S) /\ Len(f) = n /\ DOMAIN f = 1 .. n
    BY <1>1, <1>4
  <1>6. f \in Injection(1 .. n, S)
    BY <1>4 DEF Injection
  <1>7. f \in Surjection(1 .. n, S)
    <2>1. IsFiniteSet(1 .. n) /\ Cardinality(1 .. n) = n
      BY <1>1, FS_Interval
    <2> QED BY <2>1, <1>6, FS_Injection
  <1> HIDE DEF f
  <1>8. \A x : Contains(f, x) <=> x \in S
    BY <1>4, <1>5, <1>7, <1>1 DEF Contains, Surjection
  <1> QED BY <1>4, <1>5, <1>8 DEF f

-----------------------------------------------------------------------------
(* The arithmetic of unsigned counters *)

(* x % M is the only value of its range that differs from x by a multiple. *)
LEMMA ModUnique ==
  ASSUME NEW M \in Nat \ {0}, NEW x \in Int, NEW k \in Int,
         NEW r \in 0 .. M - 1, x = M * k + r
  PROVE  x % M = r
  OBVIOUS

LEMMA ModQuotient ==
  ASSUME NEW M \in Nat \ {0}, NEW x \in Int
  PROVE  x % M \in 0 .. M - 1 /\ \E k \in Int : x = M * k + (x % M)
  <1>1. x % M \in 0 .. M - 1
    OBVIOUS
  <1>2. x = M * (x \div M) + (x % M) /\ x \div M \in Int
    OBVIOUS
  <1> QED BY <1>1, <1>2

(* Truncating early changes nothing.                                       *)
LEMMA ModAdd ==
  ASSUME NEW M \in Nat \ {0}, NEW x \in Int, NEW y \in Int
  PROVE  ((x % M) + y) % M = (x + y) % M
  <1> DEFINE r == x % M
             s == (r + y) % M
  <1>1. PICK k \in Int : x = M * k + r
    BY ModQuotient
  <1>2. r \in Int /\ r + y \in Int
    BY ModQuotient
  <1>3. s \in 0 .. M - 1 /\ \E l \in Int : r + y = M * l + s
    BY <1>2, ModQuotient
  <1>4. PICK l \in Int : r + y = M * l + s
    BY <1>3
  <1> HIDE DEF r, s
  <1>5. x + y = M * k + M * l + s
    BY <1>1, <1>2, <1>3, <1>4
  <1>6. M * k + M * l = M * (k + l) /\ k + l \in Int /\ x + y \in Int
    OBVIOUS
  <1>7. x + y = M * (k + l) + s
    BY <1>3, <1>5, <1>6
  <1>8. (x + y) % M = s
    BY ONLY <1>3, <1>6, <1>7, ModUnique, M \in Nat \ {0}
  <1> QED BY <1>8 DEF r, s

LEMMA ModSmall ==
  ASSUME NEW M \in Nat \ {0}, NEW x \in 0 .. M - 1
  PROVE  x % M = x
  OBVIOUS

(* Adding M - 1 counts one down.                                           *)
LEMMA ModBack ==
  ASSUME NEW M \in Nat \ {0}, NEW x \in Nat, x - 1 \in 0 .. M - 1
  PROVE  (x + M - 1) % M = x - 1
  <1>1. x + M - 1 = M * 1 + (x - 1)
    OBVIOUS
  <1> QED BY <1>1, ModUnique

(* An offset of a ring wraps at most once.                                 *)
LEMMA ModRing ==
  ASSUME NEW M \in Nat \ {0}, NEW x \in 0 .. M - 1, NEW k \in 0 .. M
  PROVE  (x + k) % M = IF x + k < M THEN x + k ELSE x + k - M
  <1>1. CASE x + k < M
    <2>1. x + k \in 0 .. M - 1
      BY <1>1
    <2> QED BY <1>1, <2>1, ModSmall
  <1>2. CASE ~(x + k < M)
    <2>1. x + k - M \in 0 .. M - 1 /\ x + k = M * 1 + (x + k - M) /\ x + k \in Int
      BY <1>2
    <2>2. (x + k) % M = x + k - M
      BY <2>1, ModUnique
    <2> QED BY <1>2, <2>2
  <1> QED BY <1>1, <1>2

-----------------------------------------------------------------------------
(* Counting threads *)

(* A set that keeps all but one of the members has lost at most one.       *)
LEMMA CardDrop ==
  ASSUME NEW A, NEW B, NEW t, IsFiniteSet(A), IsFiniteSet(B), A \ {t} \subseteq B
  PROVE  Cardinality(A) <= Cardinality(B) + 1
  <1>1. /\ Cardinality(A) \in Nat /\ Cardinality(B) \in Nat
    BY FS_CardinalityType
  <1>2. /\ IsFiniteSet(A \ {t})
        /\ Cardinality(A \ {t}) = IF t \in A THEN Cardinality(A) - 1 ELSE Cardinality(A)
    BY FS_RemoveElement
  <1>3. Cardinality(A \ {t}) <= Cardinality(B)
    BY FS_Subset
  <1> QED BY <1>1, <1>2, <1>3

(* A set that keeps all members and has one more is larger.                *)
LEMMA CardGrow ==
  ASSUME NEW A, NEW B, NEW t, IsFiniteSet(A), IsFiniteSet(B),
         t \notin A, t \in B, A \subseteq B
  PROVE  Cardinality(A) + 1 <= Cardinality(B)
  <1>1. Cardinality(A) \in Nat /\ Cardinality(B) \in Nat
    BY FS_CardinalityType
  <1>2. Cardinality(A \cup {t}) = Cardinality(A) + 1
    BY FS_AddElement
  <1>3. Cardinality(A \cup {t}) <= Cardinality(B)
    BY FS_Subset
  <1> QED BY <1>1, <1>2, <1>3

-----------------------------------------------------------------------------
(* Sorted lists: waiting threads by priority, timers by time *)

Sorted(q, f) == \A i, j \in 1 .. Len(q) : i < j => f[q[i]] <= f[q[j]]

(* Taking a node off a sorted list leaves it sorted.                       *)
LEMMA RemoveSorted ==
  ASSUME NEW S, NEW q \in Seq(S), NEW u, IsInjective(q), NEW f, Sorted(q, f)
  PROVE  Sorted(RemoveFirst(q, u), f)
  <1> DEFINE r == RemoveFirst(q, u)
  <1>1. \A j, k \in 1 .. Len(r) : j < k =>
          \E a, b \in 1 .. Len(q) : a < b /\ r[j] = q[a] /\ r[k] = q[b]
    BY RemoveContains
  <1> HIDE DEF r
  <1>2. Sorted(r, f)
    BY <1>1 DEF Sorted
  <1> QED BY <1>2 DEF r

(* Only the values of the listed nodes matter.                             *)
LEMMA SortedSame ==
  ASSUME NEW S, NEW q \in Seq(S), NEW f, NEW g, Sorted(q, f),
         \A x \in S : Contains(q, x) => g[x] = f[x]
  PROVE  Sorted(q, g)
  <1>1. \A i \in 1 .. Len(q) : g[q[i]] = f[q[i]]
    BY DEF Contains
  <1> QED BY <1>1 DEF Sorted

(* A node goes before the first one that is greater, or to the end.       *)
LEMMA InsertSorted ==
  ASSUME NEW S, NEW q \in Seq(S), NEW f \in [S -> Int], Sorted(q, f), NEW t \in S,
         NEW i \in 0 .. Len(q),
         \A k \in 1 .. Len(q) : i = 0 \/ k < i => f[q[k]] <= f[t],
         i # 0 => f[t] < f[q[i]]
  PROVE  Sorted(IF i = 0 THEN Append(q, t) ELSE InsertAt(q, i, t), f)
  <1>0. \A k \in 1 .. Len(q) : q[k] \in S /\ f[q[k]] \in Int
    OBVIOUS
  <1>1. CASE i = 0
    <2> DEFINE r == Append(q, t)
    <2>1. /\ Len(r) = Len(q) + 1 /\ r[Len(q) + 1] = t
          /\ \A k \in 1 .. Len(q) : r[k] = q[k]
      OBVIOUS
    <2> HIDE DEF r
    <2>2. Sorted(r, f)
      <3> SUFFICES ASSUME NEW j \in 1 .. Len(r), NEW k \in 1 .. Len(r), j < k
                   PROVE  f[r[j]] <= f[r[k]]
        BY DEF Sorted
      <3>1. Len(q) \in Nat /\ j \in 1 .. Len(q) /\ r[j] = q[j] /\ f[q[j]] <= f[t]
        BY <1>1, <2>1
      <3>2. CASE k = Len(q) + 1
        BY <2>1, <3>1, <3>2
      <3>3. CASE k # Len(q) + 1
        <4>1. k \in 1 .. Len(q) /\ r[k] = q[k]
          BY <2>1, <3>1, <3>3
        <4> QED BY <3>1, <4>1 DEF Sorted
      <3> QED BY <3>2, <3>3
    <2> QED BY <1>1, <2>2 DEF r
  <1>2. CASE i # 0
    <2> DEFINE r == InsertAt(q, i, t)
    <2>0. i \in 1 .. Len(q) + 1
      BY <1>2
    <2>1. /\ Len(r) = Len(q) + 1
          /\ \A j \in 1 .. Len(q) + 1 :
               r[j] = IF j < i THEN q[j] ELSE IF j = i THEN t ELSE q[j - 1]
      BY <2>0, InsertContains
    <2> HIDE DEF r
    <2>2. \A k \in i .. Len(q) : f[t] < f[q[k]]
      BY <1>0, <1>2 DEF Sorted
    <2>3. ASSUME NEW j \in 1 .. Len(r), NEW k \in 1 .. Len(r), j < k
          PROVE  f[r[j]] <= f[r[k]]
      <3>0. \A x, y \in 1 .. Len(q) : x < y => f[q[x]] <= f[q[y]]
        BY DEF Sorted
      <3>1. CASE k < i
        <4>1. r[j] = q[j] /\ r[k] = q[k] /\ j \in 1 .. Len(q) /\ k \in 1 .. Len(q)
          BY <1>2, <2>1, <2>3, <3>1
        <4> QED BY <2>3, <3>0, <4>1
      <3>2. CASE k = i
        BY <1>2, <2>1, <2>3, <3>2 DEF Sorted
      <3>3. CASE k > i /\ j < i
        <4>1. r[j] = q[j] /\ r[k] = q[k - 1] /\ j \in 1 .. Len(q) /\ k - 1 \in 1 .. Len(q)
              /\ j < k - 1
          BY <1>2, <2>1, <2>3, <3>3
        <4> QED BY <3>0, <4>1
      <3>4. CASE k > i /\ j = i
        <4>1. r[j] = t /\ r[k] = q[k - 1] /\ k - 1 \in i .. Len(q)
          BY <1>2, <2>1, <2>3, <3>4
        <4>2. f[q[k - 1]] \in Int /\ f[t] \in Int
          BY <1>0, <1>2, <4>1
        <4> QED BY <2>2, <4>1, <4>2
      <3>5. CASE k > i /\ j > i
        <4>1. r[j] = q[j - 1] /\ r[k] = q[k - 1] /\ j - 1 \in 1 .. Len(q)
              /\ k - 1 \in 1 .. Len(q) /\ j - 1 < k - 1
          BY <1>2, <2>1, <2>3, <3>5
        <4> QED BY <3>0, <4>1
      <3> QED BY <1>2, <2>1, <2>3, <3>1, <3>2, <3>3, <3>4, <3>5
    <2>4. Sorted(r, f)
      BY <2>3 DEF Sorted
    <2> QED BY <1>2, <2>4 DEF r
  <1> QED BY <1>1, <1>2

-----------------------------------------------------------------------------
(* The list of waiting threads *)

LEMMA RangeContains ==
  ASSUME NEW S, NEW q \in Seq(S)
  PROVE  \A x : x \in Range(q) <=> Contains(q, x)
  BY DEF Range, Contains

(* A set of natural numbers has a least one.                               *)
LEMMA MinNat ==
  ASSUME NEW I \in SUBSET Nat, I # {}
  PROVE  Min(I) \in I /\ \A k \in I : Min(I) <= k
  <1>1. PICK x \in I : \A y \in I : ~(<<y, x>> \in OpToRel(<, Nat))
    BY NatLessThanWellFounded, WFMin
  <1>2. \A y \in I : ~(y < x)
    BY <1>1 DEF OpToRel
  <1>3. \A y \in I : x <= y
    BY <1>2
  <1> QED BY <1>3 DEF Min

(* Induction, from the least counterexample                                *)
LEMMA UpTo ==
  ASSUME NEW N \in Nat, NEW G \in SUBSET (0 .. N), 0 \in G,
         \A i \in 1 .. N : i - 1 \in G => i \in G
  PROVE  G = 0 .. N
  <1> DEFINE B == (0 .. N) \ G
  <1>1. B \in SUBSET Nat
    OBVIOUS
  <1>2. ASSUME B # {} PROVE FALSE
    <2>1. PICK m \in B : \A k \in B : m <= k
      BY <1>1, <1>2, MinNat
    <2>2. m \in 1 .. N /\ m - 1 \in 0 .. N /\ m - 1 \notin B
      BY <2>1
    <2> QED BY <2>1, <2>2
  <1> QED BY <1>2

(* A first value, and a step from each value to the next one, determine a  *)
(* function: what a recursive definition needs.                            *)
Closed(S, N, base, step) ==
  N \in Nat /\ base \in S /\ \A i \in 1 .. N, x \in S : step[i][x] \in S

Iterates(f, S, N, base, step) ==
  /\ f \in [0 .. N -> S] /\ f[0] = base
  /\ \A i \in 1 .. N : f[i] = step[i][f[i - 1]]

LEMMA Recursion ==
  ASSUME NEW S, NEW N, NEW base, NEW step, Closed(S, N, base, step)
  PROVE  \E f : Iterates(f, S, N, base, step)
  <1> USE DEF Closed
  <1> DEFINE Good(m) == \E f \in [0 .. m -> S] :
                          f[0] = base /\ \A i \in 1 .. m : f[i] = step[i][f[i - 1]]
             G == {m \in 0 .. N : Good(m)}
  <1>1. Good(0)
    <2> DEFINE g == [i \in 0 .. 0 |-> base]
    <2>1. g \in [0 .. 0 -> S] /\ g[0] = base /\ \A i \in 1 .. 0 : g[i] = step[i][g[i - 1]]
      OBVIOUS
    <2> HIDE DEF g
    <2> QED BY <2>1
  <1>2. ASSUME NEW m \in 1 .. N, Good(m - 1) PROVE Good(m)
    <2>1. PICK f \in [0 .. m - 1 -> S] :
            f[0] = base /\ \A i \in 1 .. m - 1 : f[i] = step[i][f[i - 1]]
      BY <1>2
    <2> DEFINE g == [i \in 0 .. m |-> IF i = m THEN step[m][f[m - 1]] ELSE f[i]]
    <2>2. f[m - 1] \in S /\ step[m][f[m - 1]] \in S
      OBVIOUS
    <2>3. g \in [0 .. m -> S] /\ g[m] = step[m][f[m - 1]] /\ \A i \in 0 .. m - 1 : g[i] = f[i]
      BY <2>2
    <2> HIDE DEF g
    <2>4. ASSUME NEW i \in 1 .. m PROVE g[i] = step[i][g[i - 1]]
      <3>1. CASE i = m
        BY <2>3, <3>1
      <3>2. CASE i # m
        <4>1. i \in 1 .. m - 1 /\ i - 1 \in 0 .. m - 1 /\ i \in 0 .. m - 1
          BY <3>2
        <4> QED BY <2>1, <2>3, <4>1
      <3> QED BY <3>1, <3>2
    <2>5. g[0] = base
      BY <2>1, <2>3
    <2> QED BY <2>3, <2>4, <2>5
  <1> HIDE DEF Good
  <1>3. G = 0 .. N
    <2>1. G \in SUBSET (0 .. N) /\ 0 \in G
      BY <1>1
    <2>2. \A i \in 1 .. N : i - 1 \in G => i \in G
      BY <1>2
    <2> QED BY <2>1, <2>2, UpTo
  <1>4. Good(N)
    BY <1>3
  <1> QED BY <1>4 DEF Good, Iterates

(* rt_ipc_list_suspend, in either order, adds the thread and no other.     *)
LEMMA ListSuspendContains ==
  ASSUME NEW S, NEW q \in Seq(S), IsInjective(q), NEW t \in S, ~Contains(q, t),
         NEW flag, NEW pr
  PROVE  LET r == ListSuspend(q, t, flag, pr)
         IN  /\ r \in Seq(S) /\ IsInjective(r)
             /\ \A x : Contains(r, x) <=> Contains(q, x) \/ x = t
  <1> DEFINE I == {k \in 1 .. Len(q) : pr[t] < pr[q[k]]}
             i == SelectInSeq(q, LAMBDA u : pr[t] < pr[u])
             r == ListSuspend(q, t, flag, pr)
  <1>1. i = IF I # {} THEN Min(I) ELSE 0
    BY DEF SelectInSeq
  <1>2. r = IF flag = "PRIO" /\ i # 0 THEN InsertAt(q, i, t) ELSE Append(q, t)
    BY DEF ListSuspend
  <1>3. i # 0 => i \in 1 .. Len(q)
    <2>1. I \in SUBSET Nat
      OBVIOUS
    <2>2. I # {} => Min(I) \in I
      BY <2>1, MinNat
    <2> QED BY <1>1, <2>2
  <1> HIDE DEF I, i, r
  <1>4. CASE r = Append(q, t)
    BY <1>4, AppendContains DEF r
  <1>5. CASE r = InsertAt(q, i, t) /\ i \in 1 .. Len(q)
    <2>0. i \in 1 .. Len(q) + 1
      BY <1>5
    <2>1. InsertAt(q, i, t) \in Seq(S)
      BY <2>0, InsertContains
    <2>2. /\ \A x : Contains(InsertAt(q, i, t), x) <=> Contains(q, x) \/ x = t
          /\ IsInjective(InsertAt(q, i, t))
      BY <2>0, InsertContains, Zenon
    <2> QED BY <1>5, <2>1, <2>2 DEF r
  <1> QED BY <1>2, <1>3, <1>4, <1>5

(* With RT_IPC_FLAG_PRIO it keeps the list sorted, the oldest first among  *)
(* equals.                                                                 *)
LEMMA ListSuspendSorted ==
  ASSUME NEW S, NEW q \in Seq(S), NEW t \in S, NEW pr \in [S -> Int], Sorted(q, pr)
  PROVE  Sorted(ListSuspend(q, t, "PRIO", pr), pr)
  <1> DEFINE I == {k \in 1 .. Len(q) : pr[t] < pr[q[k]]}
             i == SelectInSeq(q, LAMBDA u : pr[t] < pr[u])
  <1>0. Len(q) \in Nat /\ pr[t] \in Int /\ \A k \in 1 .. Len(q) : pr[q[k]] \in Int
    OBVIOUS
  <1>1. i = IF I # {} THEN Min(I) ELSE 0
    BY DEF SelectInSeq
  <1>2. ListSuspend(q, t, "PRIO", pr) = IF i = 0 THEN Append(q, t) ELSE InsertAt(q, i, t)
    BY DEF ListSuspend
  <1>3. I # {} => Min(I) \in I /\ \A k \in I : Min(I) <= k
    <2>1. I \in SUBSET Nat
      OBVIOUS
    <2> QED BY <2>1, MinNat
  <1>4. \A k \in 1 .. Len(q) : k \in I <=> pr[t] < pr[q[k]]
    OBVIOUS
  <1>5. \A k \in I : k \in 1 .. Len(q)
    OBVIOUS
  <1> HIDE DEF I, i
  <1>6. i \in 0 .. Len(q) /\ (i # 0 => pr[t] < pr[q[i]])
    <2>1. CASE I = {}
      BY <1>0, <1>1, <2>1
    <2>2. CASE I # {}
      <3>1. i \in I /\ i \in 1 .. Len(q)
        BY <1>1, <1>3, <1>5, <2>2
      <3> QED BY <1>0, <1>4, <3>1
    <2> QED BY <2>1, <2>2
  <1>7. \A k \in 1 .. Len(q) : i = 0 \/ k < i => pr[q[k]] <= pr[t]
    <2> SUFFICES ASSUME NEW k \in 1 .. Len(q), i = 0 \/ k < i PROVE k \notin I
      BY <1>0, <1>4
    <2>1. CASE I = {}
      BY <2>1
    <2>2. CASE I # {}
      <3>1. i \in 1 .. Len(q) /\ \A n \in I : i <= n
        BY <1>1, <1>3, <1>5, <2>2
      <3> QED BY <1>0, <3>1
    <2> QED BY <2>1, <2>2
  <1> QED BY <1>0, <1>2, <1>6, <1>7, InsertSorted
=============================================================================
