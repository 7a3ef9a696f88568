----------------------------- MODULE Delivery_proofs -----------------------------
(***************************************************************************)
(* Theorems about Delivery and their proofs: a result is announced at most *)
(* once, what is called delivered was heard, and a result that waits for a *)
(* pause does not begin over another announcement.                         *)
(*                                                                         *)
(* The queue is computed by recursion.  What it holds is proved by         *)
(* induction on its length, from the well-ordering of the numbers.         *)
(***************************************************************************)
EXTENDS Delivery, FiniteSetTheorems, FunctionTheorems, SequenceTheorems, TLAPS

-----------------------------------------------------------------------------
(***************************************************************************)
(* Induction.                                                              *)
(***************************************************************************)
\* A set of numbers has a least one.
LEMMA LeastNumber ==
  ASSUME NEW S, NEW n \in Nat, n \in S
  PROVE  \E m \in Nat : m \in S /\ \A k \in Nat : k < m => k \notin S
<1> DEFINE T == {0..m : m \in S \cap Nat}
<1>1. T \subseteq FiniteSubsetsOf(Nat)
  <2>1. \A m \in Nat : IsFiniteSet(0..m) /\ 0..m \subseteq Nat
    BY FS_Interval
  <2>2. QED
    BY <2>1 DEF FiniteSubsetsOf
<1>2. T # {}
  OBVIOUS
<1>3. \E x \in T : \A y \in T : <<y, x>> \notin StrictSubsetOrdering(Nat)
  <2> HIDE DEF T
  <2>1. QED
    BY <1>1, <1>2, FS_StrictSubsetOrderingWellFounded, WFMin
<1>4. PICK m \in S \cap Nat : \A y \in T : <<y, 0..m>> \notin StrictSubsetOrdering(Nat)
  BY <1>3
<1>5. ASSUME NEW k \in Nat, k \in S, k < m
      PROVE  FALSE
  <2>1. 0..k \in T
    BY <1>5
  <2>2. 0..k \subseteq 0..m /\ 0..k # 0..m /\ 0..k \subseteq Nat /\ 0..m \subseteq Nat
    <3>1. m \in 0..m /\ m \notin 0..k
      BY <1>5
    <3>2. QED
      BY <1>5, <3>1
  <2>3. QED
    BY <1>4, <2>1, <2>2 DEF StrictSubsetOrdering
<1>6. QED
  BY <1>4, <1>5

\* A set that holds 0, and with a number its successor, holds every number.
LEMMA Induction ==
  ASSUME NEW S, 0 \in S, \A n \in Nat : n \in S => n + 1 \in S
  PROVE  \A n \in Nat : n \in S
<1> SUFFICES ASSUME NEW n \in Nat, n \notin S
             PROVE  FALSE
  OBVIOUS
<1> DEFINE C == Nat \ S
<1>1. n \in C
  OBVIOUS
<1>2. PICK m \in Nat : m \in C /\ \A k \in Nat : k < m => k \notin C
  <2> HIDE DEF C
  <2>1. QED
    BY <1>1, LeastNumber
<1>3. m # 0
  BY <1>2
<1>4. m - 1 \in Nat /\ m - 1 < m
  BY <1>3
<1>5. m - 1 \in S
  BY <1>2, <1>4
<1>6. QED
  BY <1>2, <1>4, <1>5

-----------------------------------------------------------------------------
(***************************************************************************)
(* Queues.                                                                 *)
(***************************************************************************)
\* What is in a queue, by positions.
LEMMA InQueue ==
  ASSUME NEW D, NEW q \in Seq(D)
  PROVE  /\ ToSet(q) = {q[i] : i \in 1..Len(q)}
         /\ ToSet(q) \subseteq D
         /\ IsInjective(q) <=> \A i, j \in 1..Len(q) : q[i] = q[j] => i = j
  BY DEF ToSet, IsInjective

\* One more at the end.
LEMMA Appended ==
  ASSUME NEW D, NEW q \in Seq(D), NEW e \in D
  PROVE  /\ Append(q, e) \in Seq(D)
         /\ ToSet(Append(q, e)) = ToSet(q) \cup {e}
         /\ IsInjective(q) /\ e \notin ToSet(q) => IsInjective(Append(q, e))
<1>1. /\ Append(q, e) \in Seq(D) /\ Len(Append(q, e)) = Len(q) + 1 /\ Len(q) \in Nat
      /\ \A i \in 1..Len(q) : Append(q, e)[i] = q[i]
      /\ Append(q, e)[Len(q) + 1] = e
  OBVIOUS
<1>2. 1..(Len(q) + 1) = 1..Len(q) \cup {Len(q) + 1}
  BY <1>1
<1> DEFINE a == Append(q, e)
<1>3. /\ ToSet(a) = {a[i] : i \in 1..(Len(q) + 1)}
      /\ IsInjective(a) <=> \A i, j \in 1..(Len(q) + 1) : a[i] = a[j] => i = j
  BY <1>1, InQueue
<1>4. /\ ToSet(q) = {q[i] : i \in 1..Len(q)}
      /\ IsInjective(q) <=> \A i, j \in 1..Len(q) : q[i] = q[j] => i = j
  BY InQueue
<1> HIDE DEF a
<1>5. a \in Seq(D) /\ a[Len(q) + 1] = e /\ \A i \in 1..Len(q) : a[i] = q[i]
  BY <1>1 DEF a
<1>6. ToSet(a) = ToSet(q) \cup {e}
  <2>1. ToSet(a) \subseteq ToSet(q) \cup {e}
    BY <1>2, <1>3, <1>4, <1>5
  <2>2. \A i \in 1..Len(q) : i \in 1..(Len(q) + 1)
    BY <1>1
  <2>3. Len(q) + 1 \in 1..(Len(q) + 1)
    BY <1>1
  <2>4. ToSet(q) \subseteq ToSet(a)
    BY <1>3, <1>4, <1>5, <2>2
  <2>5. e \in ToSet(a)
    BY <1>3, <1>5, <2>3
  <2>6. QED
    BY <2>1, <2>4, <2>5
<1>7. ASSUME IsInjective(q), e \notin ToSet(q)
      PROVE  IsInjective(a)
  <2>1. \A i \in 1..Len(q) : a[i] # e
    BY <1>4, <1>5, <1>7
  <2>2. ASSUME NEW i \in 1..(Len(q) + 1), NEW j \in 1..(Len(q) + 1), a[i] = a[j]
        PROVE  i = j
    BY <1>1, <1>2, <1>4, <1>5, <1>7, <2>1, <2>2
  <2>3. QED
    BY <1>3, <2>2
<1>8. QED
  BY <1>5, <1>6, <1>7 DEF a

\* One queue after another.
LEMMA Concatenated ==
  ASSUME NEW D, NEW q \in Seq(D), NEW r \in Seq(D)
  PROVE  /\ q \o r \in Seq(D)
         /\ ToSet(q \o r) = ToSet(q) \cup ToSet(r)
         /\ IsInjective(q) /\ IsInjective(r) /\ ToSet(q) \cap ToSet(r) = {}
              => IsInjective(q \o r)
<1> DEFINE c == q \o r
           n == Len(q)
           m == Len(r)
<1>1. /\ c \in Seq(D) /\ Len(c) = n + m /\ n \in Nat /\ m \in Nat
      /\ \A i \in 1..(n + m) : c[i] = IF i <= n THEN q[i] ELSE r[i - n]
  OBVIOUS
<1>2. /\ ToSet(c) = {c[i] : i \in 1..(n + m)}
      /\ IsInjective(c) <=> \A i, j \in 1..(n + m) : c[i] = c[j] => i = j
  BY <1>1, InQueue
<1>3. /\ ToSet(q) = {q[i] : i \in 1..n} /\ ToSet(r) = {r[i] : i \in 1..m}
      /\ IsInjective(q) <=> \A i, j \in 1..n : q[i] = q[j] => i = j
      /\ IsInjective(r) <=> \A i, j \in 1..m : r[i] = r[j] => i = j
  BY InQueue
<1> HIDE DEF c, n, m
<1>4. \A i \in 1..(n + m) : \/ i \in 1..n /\ c[i] = q[i]
                            \/ i - n \in 1..m /\ c[i] = r[i - n]
  BY <1>1
<1>5. ToSet(c) = ToSet(q) \cup ToSet(r)
  <2>1. ToSet(c) \subseteq ToSet(q) \cup ToSet(r)
    BY <1>2, <1>3, <1>4
  <2>2. ASSUME NEW i \in 1..n
        PROVE  q[i] \in ToSet(c)
    <3>1. i \in 1..(n + m) /\ c[i] = q[i]
      BY <1>1
    <3>2. QED
      BY <1>2, <3>1
  <2>3. ASSUME NEW i \in 1..m
        PROVE  r[i] \in ToSet(c)
    <3>1. n + i \in 1..(n + m) /\ c[n + i] = r[i]
      BY <1>1
    <3>2. QED
      BY <1>2, <3>1
  <2>4. QED
    BY <1>3, <2>1, <2>2, <2>3
<1>6. ASSUME IsInjective(q), IsInjective(r), ToSet(q) \cap ToSet(r) = {}
      PROVE  IsInjective(c)
  <2>1. \A i \in 1..n, j \in 1..m : q[i] # r[j]
    BY <1>3, <1>6
  <2>2. ASSUME NEW i \in 1..(n + m), NEW j \in 1..(n + m), c[i] = c[j]
        PROVE  i = j
    <3>1. CASE i \in 1..n /\ c[i] = q[i]
      <4>1. j \in 1..n /\ c[j] = q[j]
        BY <1>4, <2>1, <2>2, <3>1
      <4>2. QED
        BY <1>3, <1>6, <2>2, <3>1, <4>1
    <3>2. CASE i - n \in 1..m /\ c[i] = r[i - n]
      <4>1. j - n \in 1..m /\ c[j] = r[j - n]
        BY <1>4, <2>1, <2>2, <3>2
      <4>2. i - n = j - n
        BY <1>3, <1>6, <2>2, <3>2, <4>1
      <4>3. QED
        BY <1>1, <4>2
    <3>3. QED
      BY <1>4, <3>1, <3>2
  <2>3. QED
    BY <1>2, <2>2
<1>7. QED
  BY <1>1, <1>5, <1>6 DEF c

\* One step of the recursion in Without.
Keeping(q, S, i, before) ==
    IF i = 0 THEN <<>> ELSE IF q[i] \in S THEN before ELSE Append(before, q[i])

\* What the recursion computes for every prefix of the queue.
Computes(f, q, S) ==
    /\ \A i \in 0..Len(q) : f[i] = Keeping(q, S, i, f[i - 1])
    /\ Without(q, S) = f[Len(q)]

\* The recursion defines a function.
LEMMA WithoutIsDefined ==
  ASSUME NEW D, NEW q \in Seq(D), NEW S
  PROVE  \E f \in [0..Len(q) -> Seq(D)] : Computes(f, q, S)
<1> DEFINE N == Len(q)
           Defined(n) == \E f \in [0..n -> Seq(D)] :
                            \A i \in 0..n : f[i] = Keeping(q, S, i, f[i - 1])
           G == {n \in Nat : n <= N => Defined(n)}
<1>1. 0 \in G
  <2> DEFINE f == [i \in 0..0 |-> <<>>]
  <2>1. f \in [0..0 -> Seq(D)] /\ \A i \in 0..0 : f[i] = Keeping(q, S, i, f[i - 1])
    BY DEF Keeping
  <2>2. Defined(0)
    BY <2>1
  <2>3. QED
    BY <2>2
<1>2. ASSUME NEW n \in Nat, n \in G
      PROVE  n + 1 \in G
  <2>1. SUFFICES ASSUME n + 1 <= N
                 PROVE  Defined(n + 1)
    <3> HIDE DEF Defined
    <3>1. QED
      OBVIOUS
  <2>2. N \in Nat /\ n <= N /\ n + 1 \in 1..N
    BY <2>1
  <2>3. PICK f \in [0..n -> Seq(D)] : \A i \in 0..n : f[i] = Keeping(q, S, i, f[i - 1])
    BY <1>2, <2>2
  <2>4. Keeping(q, S, n + 1, f[n]) \in Seq(D)
    BY <2>2, <2>3 DEF Keeping
  <2> DEFINE g == [i \in 0..(n + 1) |-> IF i <= n THEN f[i] ELSE Keeping(q, S, n + 1, f[n])]
  <2>5. g \in [0..(n + 1) -> Seq(D)]
    BY <2>3, <2>4
  <2>6. ASSUME NEW i \in 0..(n + 1)
        PROVE  g[i] = Keeping(q, S, i, g[i - 1])
    <3>1. CASE i = 0
      BY <2>3, <3>1 DEF Keeping
    <3>2. CASE i \in 1..n
      <4>1. g[i] = f[i] /\ g[i - 1] = f[i - 1] /\ i \in 0..n
        BY <3>2
      <4>2. QED
        BY <2>3, <4>1
    <3>3. CASE i = n + 1
      <4>1. g[i] = Keeping(q, S, n + 1, f[n]) /\ g[i - 1] = f[n]
        BY <3>3
      <4>2. QED
        BY <3>3, <4>1
    <3>4. QED
      BY <3>1, <3>2, <3>3
  <2>7. QED
    BY <2>5, <2>6
<1>3. Defined(N)
  <2>1. \A n \in Nat : n \in G
    <3> HIDE DEF G
    <3>1. QED
      BY <1>1, <1>2, Induction
  <2> HIDE DEF Defined
  <2>2. N \in Nat
    OBVIOUS
  <2>3. QED
    BY <2>1, <2>2
<1> DEFINE Rec(f) == f = [i \in 0..N |-> IF i = 0 THEN <<>>
                                         ELSE IF q[i] \in S THEN f[i - 1]
                                         ELSE Append(f[i - 1], q[i])]
<1>4. \E f : Rec(f)
  <2>1. PICK f \in [0..N -> Seq(D)] : \A i \in 0..N : f[i] = Keeping(q, S, i, f[i - 1])
    BY <1>3
  <2>2. Rec(f)
    BY <2>1 DEF Keeping
  <2>3. QED
    BY <2>2
<1>5. Without(q, S) = (CHOOSE f : Rec(f))[N]
  BY DEF Without
<1> DEFINE kept == CHOOSE f : Rec(f)
<1>6. Rec(kept)
  <2> HIDE DEF Rec
  <2>1. QED
    BY <1>4
<1>7. \A i \in 0..N : kept[i] = Keeping(q, S, i, kept[i - 1])
  <2> HIDE DEF kept
  <2>1. QED
    BY <1>6 DEF Keeping
<1>8. kept \in [0..N -> Seq(D)]
  <2> HIDE DEF kept
  <2>1. PICK f \in [0..N -> Seq(D)] : \A i \in 0..N : f[i] = Keeping(q, S, i, f[i - 1])
    BY <1>3
  <2> DEFINE E == {n \in Nat : n <= N => kept[n] = f[n]}
  <2>2. 0 \in E
    BY <1>7, <2>1 DEF Keeping
  <2>3. ASSUME NEW n \in Nat, n \in E
        PROVE  n + 1 \in E
    <3>1. SUFFICES ASSUME n + 1 <= N
                   PROVE  kept[n + 1] = f[n + 1]
      OBVIOUS
    <3>2. n + 1 \in 0..N /\ (n + 1) - 1 = n /\ kept[n] = f[n]
      BY <2>3, <3>1
    <3>3. QED
      BY <1>7, <2>1, <3>2
  <2>4. \A n \in Nat : n \in E
    <3> HIDE DEF E
    <3>1. QED
      BY <2>2, <2>3, Induction
  <2>5. \A i \in 0..N : kept[i] = f[i]
    BY <2>4
  <2>6. kept = [i \in 0..N |-> kept[i]]
    BY <1>6
  <2>7. QED
    BY <2>1, <2>5, <2>6
<1>9. QED
  <2>1. Computes(kept, q, S)
    <3> HIDE DEF Rec
    <3>1. QED
      BY <1>5, <1>7 DEF Computes
  <2> HIDE DEF Rec, kept
  <2>2. QED
    BY <1>8, <2>1

\* What is left of a queue without some deliveries is what is in it and not among
\* them, each once if each was in it once.
LEMMA WithoutKeeps ==
  ASSUME NEW D, NEW q \in Seq(D), NEW S
  PROVE  /\ Without(q, S) \in Seq(D)
         /\ ToSet(Without(q, S)) = ToSet(q) \ S
         /\ IsInjective(q) => IsInjective(Without(q, S))
<1>0. PICK f \in [0..Len(q) -> Seq(D)] : Computes(f, q, S)
  BY WithoutIsDefined
<1> DEFINE N == Len(q)
           First(n) == {q[j] : j \in 1..n}
<1>1. /\ f \in [0..N -> Seq(D)]
      /\ \A i \in 0..N : f[i] = Keeping(q, S, i, f[i - 1])
      /\ Without(q, S) = f[N]
  BY <1>0 DEF Computes
<1>2. /\ N \in Nat /\ ToSet(q) = First(N) /\ ToSet(q) \subseteq D
      /\ IsInjective(q) <=> \A i, j \in 1..N : q[i] = q[j] => i = j
      /\ \A i \in 1..N : q[i] \in D
  BY InQueue
<1> DEFINE G == {n \in Nat : n <= N => /\ ToSet(f[n]) = First(n) \ S
                                       /\ IsInjective(q) => IsInjective(f[n])}
<1>3. 0 \in G
  <2>1. f[0] = <<>>
    BY <1>1, <1>2 DEF Keeping
  <2>2. ToSet(f[0]) = {} /\ IsInjective(f[0])
    BY <2>1, InQueue DEF ToSet, IsInjective
  <2>3. First(0) = {}
    OBVIOUS
  <2>4. QED
    BY <2>2, <2>3
<1>4. ASSUME NEW n \in Nat, n \in G
      PROVE  n + 1 \in G
  <2>1. SUFFICES ASSUME n + 1 <= N
                 PROVE  /\ ToSet(f[n + 1]) = First(n + 1) \ S
                        /\ IsInjective(q) => IsInjective(f[n + 1])
    OBVIOUS
  <2>2. /\ n \in 0..N /\ n + 1 \in 0..N /\ n + 1 \in 1..N /\ n + 1 # 0 /\ (n + 1) - 1 = n
        /\ ToSet(f[n]) = First(n) \ S
        /\ IsInjective(q) => IsInjective(f[n])
    BY <1>2, <1>4, <2>1
  <2>3. First(n + 1) = First(n) \cup {q[n + 1]}
    <3>1. \A j \in 1..(n + 1) : j \in 1..n \/ j = n + 1
      OBVIOUS
    <3>2. n + 1 \in 1..(n + 1) /\ \A j \in 1..n : j \in 1..(n + 1)
      OBVIOUS
    <3>3. QED
      BY <3>1, <3>2
  <2>4. IsInjective(q) => q[n + 1] \notin First(n)
    <3>1. \A j \in 1..n : j \in 1..N /\ j # n + 1
      BY <1>2, <2>1
    <3>2. QED
      BY <1>2, <2>2, <3>1
  <2>5. f[n + 1] = IF q[n + 1] \in S THEN f[n] ELSE Append(f[n], q[n + 1])
    BY <1>1, <2>2 DEF Keeping
  <2>6. f[n] \in Seq(D) /\ q[n + 1] \in D
    BY <1>1, <1>2, <2>2
  <2> HIDE DEF First
  <2>7. CASE q[n + 1] \in S
    BY <2>2, <2>3, <2>5, <2>7
  <2>8. CASE q[n + 1] \notin S
    <3>1. f[n + 1] = Append(f[n], q[n + 1])
      BY <2>5, <2>8
    <3>2. ToSet(f[n + 1]) = ToSet(f[n]) \cup {q[n + 1]}
      BY <2>6, <3>1, Appended
    <3>3. IsInjective(q) => IsInjective(f[n + 1])
      BY <2>2, <2>4, <2>6, <3>1, Appended
    <3>4. QED
      BY <2>2, <2>3, <2>8, <3>2, <3>3
  <2>9. QED
    BY <2>7, <2>8
<1>5. \A n \in Nat : n \in G
  <2> HIDE DEF G
  <2>1. QED
    BY <1>3, <1>4, Induction
<1>6. ToSet(f[N]) = First(N) \ S /\ (IsInjective(q) => IsInjective(f[N]))
  <2> HIDE DEF First
  <2>1. QED
    BY <1>2, <1>5
<1>7. f[N] \in Seq(D)
  BY <1>1, <1>2
<1>8. QED
  BY <1>1, <1>2, <1>6, <1>7

\* A finite set as a queue.
LEMMA SetAsQueue ==
  ASSUME NEW D, NEW R \in SUBSET D, IsFiniteSet(R)
  PROVE  SetToSeq(R) \in Seq(D) /\ ToSet(SetToSeq(R)) = R /\ IsInjective(SetToSeq(R))
<1> DEFINE n == Cardinality(R)
           s == SetToSeq(R)
<1>1. n \in Nat
  BY FS_CardinalityType
<1>2. PICK f : f \in Bijection(1..n, R)
  BY FS_CardinalityType DEF ExistsBijection
<1>3. f \in [1..n -> R] /\ IsInjective(f)
  BY <1>2 DEF Bijection, Injection, IsInjective
<1>4. s \in [1..n -> R] /\ IsInjective(s)
  BY <1>3 DEF SetToSeq
<1>5. s \in Seq(D) /\ Len(s) = n
  BY <1>1, <1>4
<1>6. \A y \in R : \E i \in 1..n : s[i] = y
  <2>1. s \in Injection(1..n, R)
    BY <1>4 DEF Injection, IsInjective
  <2>2. IsFiniteSet(1..n) /\ Cardinality(1..n) = n
    BY <1>1, FS_Interval
  <2>3. s \in Surjection(1..n, R)
    BY <2>1, <2>2, FS_Injection
  <2>4. QED
    BY <2>3 DEF Surjection
<1>7. ToSet(s) = R
  <2> HIDE DEF s
  <2>1. QED
    BY <1>4, <1>5, <1>6, InQueue
<1>8. QED
  BY <1>4, <1>5, <1>7

-----------------------------------------------------------------------------
(***************************************************************************)
(* The inductive invariant.                                                *)
(***************************************************************************)
Pending(l)   == {d \in Deliveries : l[d] = "pending"}
Written(l)   == {d \in Deliveries : l[d] # "none"}
LedgerState  == {"none", "pending", "claimed", "delivered", "cancelled"}

\* The ledger's records and the queue of those that are pending.
Kept(l, q) == /\ l \in [Deliveries -> LedgerState]
              /\ q \in Seq(Deliveries) /\ ToSet(q) = Pending(l) /\ IsInjective(q)
              /\ IsFiniteSet(Written(l))

\* The loop holds one delivery from its claim to its injection, and until then none
\* that it injected is under way.
LaneInv ==
    /\ lane.pc = "closed" <=> session = "closed"
    /\ lane.cur # Nothing <=> lane.pc \in {"start", "cut", "feed"}
    /\ lane.pc = "cut" => lane.cur \in Alerts
    /\ lane.pc \in {"pause", "start", "cut"} => pending = {}
    /\ lane.pc = "feed" => lane.cur \in pending
    /\ lane.cur # Nothing => voice[lane.cur] = "none"

\* Whatever was injected is still pending as an output until it is settled; it was
\* heard once when the socket took it.
OnTheWay == {"model", "queued", "sending"}
VoiceOf(d) ==
    /\ voice[d] \in OnTheWay => d \in pending \/ session = "closed"
    /\ voice[d] # "none" =>
          d \in pending \/ ledger[d] \in {"delivered", "cancelled"} \/ session = "closed"
    /\ voice[d] \in OnTheWay \cup {"none"} => spoken[d] = 0
    /\ voice[d] \in {"sent", "finished", "cancelled"} => spoken[d] = 1
    /\ spoken[d] \in {0, 1}
    /\ ledger[d] = "delivered" => spoken[d] = 1 /\ (ackRequired => voice[d] = "finished")
VoiceInv == \A d \in Deliveries : VoiceOf(d)

\* The loop waits for the talker to drain only when no announcement is played.
PauseInv == lane.pc = "pause" => \A d \in Deliveries : playing[d] # "waiting"

DeliveryInv == TypeOK /\ Kept(ledger, queue) /\ LaneInv /\ VoiceInv /\ PauseInv

-----------------------------------------------------------------------------
(***************************************************************************)
(* What the ledger's operations do to records and queue.                   *)
(***************************************************************************)
\* Records and queue are kept, what is settled stays so, and only those of S are
\* claimed or delivered.
Keeps(l, q, S) ==
    /\ Kept(l, q)
    /\ \A d \in Deliveries :
         /\ ledger[d] \in {"delivered", "cancelled"} => l[d] = ledger[d]
         /\ l[d] = ledger[d] \/ l[d] \in {"pending", "cancelled"} \/ d \in S

\* No step.
LEMMA KeptSame ==
  ASSUME DeliveryInv
  PROVE  Keeps(ledger, queue, {})
  BY DEF DeliveryInv, Keeps

\* acknowledge_consumed and the expiry of a lease: to the end of the queue.
LEMMA RequeueKeeps ==
  ASSUME DeliveryInv, NEW S \in SUBSET Deliveries
  PROVE  Keeps(LedgerWith(S), QueueWith(S), {})
<1> DEFINE R == {d \in S : Finishable(d)}
           l == LedgerWith(S)
           w == Without(queue, R)
           q == QueueWith(S)
<1>1. Kept(ledger, queue)
  BY DEF DeliveryInv
<1>2. l \in [Deliveries -> LedgerState] /\ Pending(l) = Pending(ledger) \cup R
      /\ Written(l) = Written(ledger)
  BY <1>1 DEF Kept, LedgerWith, LedgerState, Pending, Written, Finishable
<1>3. R \in SUBSET Deliveries /\ IsFiniteSet(R)
  <2>1. R \subseteq Written(ledger)
    BY DEF Finishable, Written
  <2>2. QED
    BY <1>1, <2>1, FS_Subset DEF Kept
<1>4. w \in Seq(Deliveries) /\ ToSet(w) = Pending(ledger) \ R /\ IsInjective(w)
  <2> HIDE DEF R
  <2>1. QED
    BY <1>1, WithoutKeeps DEF Kept
<1>5. /\ SetToSeq(R) \in Seq(Deliveries) /\ ToSet(SetToSeq(R)) = R
      /\ IsInjective(SetToSeq(R))
  <2> HIDE DEF R
  <2>1. QED
    BY <1>3, SetAsQueue
<1>6. q = w \o SetToSeq(R)
  BY DEF QueueWith
<1>7. q \in Seq(Deliveries) /\ ToSet(q) = Pending(l) /\ IsInjective(q)
  <2>1. q \in Seq(Deliveries) /\ ToSet(q) = ToSet(w) \cup ToSet(SetToSeq(R))
    <3> HIDE DEF w, q, R
    <3>1. QED
      BY <1>4, <1>5, <1>6, Concatenated
  <2>2. IsInjective(q)
    <3> HIDE DEF w, q, R
    <3>1. ToSet(w) \cap ToSet(SetToSeq(R)) = {}
      BY <1>4, <1>5
    <3>2. QED
      BY <1>4, <1>5, <1>6, <3>1, Concatenated
  <2>3. QED
    BY <1>2, <1>4, <1>5, <2>1, <2>2
<1>8. Kept(l, q)
  BY <1>1, <1>2, <1>7 DEF Kept
<1>9. \A d \in Deliveries :
        /\ ledger[d] \in {"delivered", "cancelled"} => l[d] = ledger[d]
        /\ l[d] = ledger[d] \/ l[d] = "pending"
  BY DEF LedgerWith, Finishable
<1>10. QED
  <2> HIDE DEF l, q
  <2>1. QED
    BY <1>8, <1>9 DEF Keeps, l, q

\* A record that is taken from the queue, or was not in it.
LEMMA TakeKeeps ==
  ASSUME NEW l, NEW q, Kept(l, q), NEW d \in Deliveries, NEW v \in LedgerState,
         v \notin {"none", "pending"}
  PROVE  Kept([l EXCEPT ![d] = v], Without(q, {d}))
<1> DEFINE k == [l EXCEPT ![d] = v]
           w == Without(q, {d})
<1>1. k \in [Deliveries -> LedgerState] /\ Pending(k) = Pending(l) \ {d}
      /\ Written(k) = Written(l) \cup {d}
  BY DEF Kept, Pending, Written
<1>2. w \in Seq(Deliveries) /\ ToSet(w) = Pending(l) \ {d} /\ IsInjective(w)
  BY WithoutKeeps DEF Kept
<1>3. IsFiniteSet(Written(k))
  <2> HIDE DEF k
  <2>1. QED
    BY <1>1, FS_AddElement DEF Kept
<1>4. QED
  <2> HIDE DEF k, w
  <2>1. QED
    BY <1>1, <1>2, <1>3 DEF Kept, k, w

\* finish_delivery: a record that is delivered.
LEMMA DeliverKeeps ==
  ASSUME DeliveryInv, NEW d \in Deliveries, Finishable(d), Deliver(d)
  PROVE  Keeps(ledger', queue', {d}) /\ ledger' = [ledger EXCEPT ![d] = "delivered"]
<1>1. Kept(ledger, queue)
  BY DEF DeliveryInv
<1>2. Kept(ledger', queue')
  BY <1>1, TakeKeeps DEF Deliver, LedgerState
<1>3. QED
  BY <1>1, <1>2 DEF Keeps, Kept, Deliver, Finishable

\* claim_delivery: a pending record, an alert if there is one.
LEMMA ClaimKeeps ==
  ASSUME NEW l, NEW q, Kept(l, q), q # <<>>, Claim(l, q)
  PROVE  \E d \in Deliveries :
            /\ l[d] = "pending" /\ ledger' = [l EXCEPT ![d] = "claimed"]
            /\ Kept(ledger', queue')
            /\ lane' = [pc |-> "start", cur |-> d]
            /\ ToSet(q) \cap Alerts # {} => d \in Alerts
<1> DEFINE urgent == Without(q, Results)
           d == IF urgent = <<>> THEN Head(q) ELSE Head(urgent)
<1>1. /\ ledger' = [l EXCEPT ![d] = "claimed"]
      /\ queue' = Without(q, {d})
      /\ lane' = [pc |-> "start", cur |-> d]
  BY DEF Claim
<1>2. /\ urgent \in Seq(Deliveries) /\ ToSet(urgent) = ToSet(q) \ Results
  BY WithoutKeeps DEF Kept
<1>3. \A s \in Seq(Deliveries) : s # <<>> => Head(s) \in ToSet(s)
  <2> SUFFICES ASSUME NEW s \in Seq(Deliveries), s # <<>>
               PROVE  Head(s) \in ToSet(s)
    OBVIOUS
  <2>1. Len(s) \in Nat /\ 1 \in 1..Len(s) /\ Head(s) = s[1]
    OBVIOUS
  <2>2. QED
    BY <2>1, InQueue
<1>4. q \in Seq(Deliveries) /\ ToSet(q) = Pending(l)
  BY DEF Kept
<1>5. urgent = <<>> => ToSet(q) \ Results = {}
  BY <1>2, InQueue DEF ToSet
<1>6. d \in ToSet(q) /\ (ToSet(q) \cap Alerts # {} => d \notin Results)
  <2> HIDE DEF urgent
  <2>1. CASE urgent = <<>>
    <3>1. Alerts \cap Results = {}
      BY DeliveriesAssumption
    <3>2. QED
      BY <1>3, <1>4, <1>5, <2>1, <3>1
  <2>2. CASE urgent # <<>>
    BY <1>2, <1>3, <2>2
  <2>3. QED
    BY <2>1, <2>2
<1> HIDE DEF d
<1>7. d \in Deliveries /\ l[d] = "pending"
  BY <1>4, <1>6 DEF Pending
<1>8. Kept(ledger', queue')
  BY <1>1, <1>7, TakeKeeps DEF LedgerState
<1>9. QED
  BY <1>1, <1>6, <1>7, <1>8 DEF Deliveries

-----------------------------------------------------------------------------
(***************************************************************************)
(* Steps.                                                                  *)
(***************************************************************************)
\* The types of what is not the ledger's.
RestTypes ==
    /\ gate \in [Deliveries -> GateState]
    /\ playing \in [Deliveries -> {"no", "waiting", "late"}]
    /\ expired \subseteq Deliveries
    /\ speaking \in BOOLEAN
    /\ lane \in Lane
    /\ pending \subseteq Deliveries /\ acks \subseteq Deliveries
    /\ voice \in [Deliveries -> Voice]
    /\ sender \in BOOLEAN
    /\ session \in {"open", "parked", "closed"}
    /\ ackRequired \in BOOLEAN
    /\ turns \in 0..MaxTurns /\ failures \in 0..MaxFailures /\ drops \in 0..MaxDrops
    /\ current \subseteq Deliveries
    /\ spoken \in [Deliveries -> Nat]

\* The types, in the two parts the proof handles apart.
LEMMA Types ==
  /\ DeliveryInv => RestTypes /\ Kept(ledger, queue)
  /\ RestTypes /\ Kept(ledger, queue) => TypeOK
  BY DEF DeliveryInv, TypeOK, RestTypes, Kept, Pending, LedgerState

\* The invariant of the next state, by its parts.
LEMMA Parts ==
  ASSUME RestTypes', Kept(ledger', queue'), LaneInv', VoiceInv', PauseInv'
  PROVE  DeliveryInv'
<1>1. (RestTypes /\ Kept(ledger, queue) => TypeOK)'
  BY Types, PTL
<1>2. QED
  BY <1>1 DEF DeliveryInv

\* A result that waits for a pause is claimed only when none is being played.
Waits == \A d \in Results : ledger[d] = "pending" /\ ledger'[d] = "claimed" =>
             \A e \in Deliveries : playing[e] # "waiting"

\* A step that claims nothing.
LEMMA NoneClaimed ==
  ASSUME NEW S, Keeps(ledger', queue', S), \A d \in S : ledger'[d] # "claimed"
  PROVE  Waits
  BY DEF Waits, Keeps, Deliveries

\* What is said does not change, and nothing that was injected is forgotten.
LEMMA VoiceKept ==
  ASSUME DeliveryInv, NEW S, Keeps(ledger', queue', S),
         \A d \in S : ledger'[d] # "delivered",
         UNCHANGED <<voice, ackRequired, spoken>>,
         \A d \in pending : d \in pending' \/ voice[d] = "none",
         session = "closed" => session' = "closed"
  PROVE  VoiceInv'
<1>1. ASSUME NEW d \in Deliveries
      PROVE  VoiceOf(d)'
  <2>1. VoiceOf(d)
    BY DEF DeliveryInv, VoiceInv
  <2>2. ledger'[d] = "delivered" => ledger[d] = "delivered"
    BY DEF Keeps
  <2>3. ledger[d] \in {"delivered", "cancelled"} => ledger'[d] = ledger[d]
    BY DEF Keeps
  <2>4. QED
    BY <2>1, <2>2, <2>3 DEF VoiceOf, OnTheWay
<1>2. QED
  BY <1>1 DEF VoiceInv

\* A step beside the loop and the socket.
LEMMA AsideKeeps ==
  ASSUME DeliveryInv, Keeps(ledger', queue', {}), RestTypes',
         UNCHANGED <<lane, pending, voice, ackRequired, spoken>>,
         session' = session \/ (session = "parked" /\ session' = "open"),
         \A d \in Deliveries : playing'[d] = "waiting" => playing[d] = "waiting"
  PROVE  DeliveryInv' /\ Waits
<1>1. LaneInv'
  BY DEF DeliveryInv, LaneInv
<1>2. PauseInv'
  BY DEF DeliveryInv, PauseInv
<1>3. VoiceInv'
  BY VoiceKept
<1>4. Kept(ledger', queue')
  BY DEF Keeps
<1>5. DeliveryInv'
  BY <1>1, <1>2, <1>3, <1>4, Parts
<1>6. Waits
  BY NoneClaimed
<1>7. QED
  BY <1>5, <1>6

\* A new result, an answered question, a lease that expired.
LEMMA LedgerStep ==
  ASSUME DeliveryInv, NEW d \in Deliveries, Enqueue(d) \/ Resolve(d) \/ LeaseExpires(d)
  PROVE  DeliveryInv' /\ Waits
<1>0. RestTypes /\ Kept(ledger, queue)
  BY Types
<1>1. CASE Enqueue(d)
  <2>1. ledger' = [ledger EXCEPT ![d] = "pending"] /\ ledger[d] = "none"
        /\ queue' = Append(queue, d)
    BY <1>1 DEF Enqueue
  <2>2. /\ ledger' \in [Deliveries -> LedgerState]
        /\ Pending(ledger') = Pending(ledger) \cup {d}
        /\ Written(ledger') = Written(ledger) \cup {d}
        /\ d \notin Pending(ledger)
    BY <1>0, <2>1 DEF Kept, LedgerState, Pending, Written
  <2>3. queue' \in Seq(Deliveries) /\ ToSet(queue') = Pending(ledger') /\ IsInjective(queue')
    <3>1. queue \in Seq(Deliveries) /\ ToSet(queue) = Pending(ledger) /\ IsInjective(queue)
      BY <1>0 DEF Kept
    <3>2. /\ Append(queue, d) \in Seq(Deliveries)
          /\ ToSet(Append(queue, d)) = ToSet(queue) \cup {d}
          /\ IsInjective(queue) /\ d \notin ToSet(queue) => IsInjective(Append(queue, d))
      BY <3>1, Appended
    <3>3. QED
      BY <2>1, <2>2, <3>1, <3>2
  <2>4. IsFiniteSet(Written(ledger'))
    BY <1>0, <2>2, FS_AddElement DEF Kept
  <2>5. Keeps(ledger', queue', {})
    BY <1>0, <2>1, <2>2, <2>3, <2>4 DEF Keeps, Kept
  <2>6. QED
    BY <1>0, <1>1, <2>5, AsideKeeps DEF Enqueue, gating, bounds, history, RestTypes
<1>2. CASE Resolve(d)
  <2>1. ledger' = [ledger EXCEPT ![d] = "cancelled"] /\ Finishable(d)
        /\ queue' = Without(queue, {d})
    BY <1>2 DEF Resolve
  <2>2. Kept(ledger', queue')
    BY <1>0, <2>1, TakeKeeps DEF LedgerState
  <2>3. Keeps(ledger', queue', {})
    BY <1>0, <2>1, <2>2 DEF Keeps, Kept, Finishable
  <2>4. QED
    BY <1>0, <1>2, <2>3, AsideKeeps DEF Resolve, gating, bounds, history, RestTypes
<1>3. CASE LeaseExpires(d)
  <2>1. Keeps(ledger', queue', {})
    BY <1>3, RequeueKeeps DEF LeaseExpires, Requeue
  <2>2. QED
    BY <1>0, <1>3, <2>1, AsideKeeps DEF LeaseExpires, gating, bounds, history, RestTypes
<1>4. QED
  BY <1>1, <1>2, <1>3

\* The user's turns, an overdue ACK, and a client that comes back.
LEMMA WorldStep ==
  ASSUME DeliveryInv, Speak \/ Quiet \/ Break \/ Resume \/ \E d \in Deliveries : AckLate(d)
  PROVE  DeliveryInv' /\ Waits
<1>0. RestTypes /\ Kept(ledger, queue) /\ Keeps(ledger, queue, {})
  BY Types, KeptSame
<1>1. CASE Speak \/ Quiet \/ Resume
  <2>1. Keeps(ledger', queue', {})
    BY <1>0, <1>1 DEF Speak, Quiet, Resume
  <2>2. /\ UNCHANGED <<ledger, queue, gate, playing, expired, lane, pending, acks, voice,
                       ackRequired, failures, drops, current, spoken>>
        /\ speaking' \in BOOLEAN /\ sender' \in BOOLEAN
        /\ turns' \in 0..MaxTurns
        /\ session' = session \/ (session = "parked" /\ session' = "open")
    <3>1. CASE Speak
      BY <1>0, <3>1, SettingsAssumption DEF Speak, gating, bounds, history, RestTypes
    <3>2. CASE Quiet
      BY <1>0, <3>2 DEF Quiet, gating, bounds, history, RestTypes
    <3>3. CASE Resume
      BY <1>0, <3>3 DEF Resume, gating, bounds, history, RestTypes
    <3>4. QED
      BY <1>1, <3>1, <3>2, <3>3
  <2>3. RestTypes'
    BY <1>0, <2>2 DEF RestTypes
  <2>4. QED
    BY <2>1, <2>2, <2>3, AsideKeeps
<1>2. CASE Break
  <2>1. Keeps(ledger', queue', {})
    BY <1>0, <1>2 DEF Break
  <2>2. RestTypes'
    BY <1>0, <1>2, SettingsAssumption
       DEF Break, NewEpoch, RestTypes, GateState, GateTerminal
  <2>3. \A d \in Deliveries : playing'[d] # "waiting"
    BY <1>2 DEF Break, NewEpoch
  <2>4. QED
    BY <1>2, <2>1, <2>2, <2>3, AsideKeeps DEF Break
<1>3. ASSUME NEW d \in Deliveries, AckLate(d)
      PROVE  DeliveryInv' /\ Waits
  <2>1. Keeps(ledger', queue', {})
    BY <1>0, <1>3 DEF AckLate
  <2>2. RestTypes'
    BY <1>0, <1>3 DEF AckLate, RestTypes, bounds, history
  <2>3. \A e \in Deliveries : playing'[e] = "waiting" => playing[e] = "waiting"
    BY <1>0, <1>3 DEF AckLate, RestTypes
  <2>4. QED
    BY <1>3, <2>1, <2>2, <2>3, AsideKeeps DEF AckLate, bounds, history
<1>4. QED
  BY <1>1, <1>2, <1>3

\* A claim: the loop holds a delivery nobody has heard of yet, and one that waits
\* for a pause only when there is no alert.
LEMMA ClaimStep ==
  ASSUME DeliveryInv, NEW l, NEW q, Keeps(l, q, {}), q # <<>>, Claim(l, q),
         pending = {}, session # "closed", lane.pc # "closed",
         UNCHANGED <<pending, session, voice, ackRequired, spoken>>,
         ToSet(q) \cap Alerts # {} \/ \A e \in Deliveries : playing[e] # "waiting"
  PROVE  /\ Kept(ledger', queue') /\ lane' \in Lane
         /\ LaneInv' /\ VoiceInv' /\ PauseInv' /\ Waits
<1>1. Kept(l, q)
  BY DEF Keeps
<1>2. PICK d \in Deliveries :
            /\ l[d] = "pending" /\ ledger' = [l EXCEPT ![d] = "claimed"]
            /\ Kept(ledger', queue')
            /\ lane' = [pc |-> "start", cur |-> d]
            /\ ToSet(q) \cap Alerts # {} => d \in Alerts
  BY <1>1, ClaimKeeps
<1>3. /\ \A e \in Deliveries : ledger[e] \in {"delivered", "cancelled"} => l[e] = ledger[e]
      /\ \A e \in Deliveries : l[e] = ledger[e] \/ l[e] \in {"pending", "cancelled"}
  BY DEF Keeps
<1>4. ledger[d] \notin {"delivered", "cancelled"}
  BY <1>2, <1>3
<1>5. ledger'[d] = "claimed" /\ \A e \in Deliveries : e # d => ledger'[e] = l[e]
  BY <1>1, <1>2 DEF Kept
<1>6. Keeps(ledger', queue', {d})
  BY <1>2, <1>3, <1>4, <1>5 DEF Keeps
<1>7. VoiceInv'
  <2>1. \A e \in {d} : ledger'[e] # "delivered"
    BY <1>5
  <2>2. QED
    BY <1>6, <2>1, VoiceKept
<1>8. lane' \in Lane
  BY <1>2 DEF Lane
<1>9. LaneInv'
  <2>1. voice[d] = "none"
    BY <1>4 DEF DeliveryInv, VoiceInv, VoiceOf
  <2>2. d # Nothing
    BY DeliveriesAssumption
  <2>3. QED
    BY <1>2, <2>1, <2>2 DEF LaneInv
<1>10. PauseInv'
  BY <1>2 DEF PauseInv
<1>11. Waits
  <2>1. ASSUME NEW e \in Results, ledger[e] = "pending", ledger'[e] = "claimed"
        PROVE  e = d
    <3>1. e \in Deliveries
      BY DEF Deliveries
    <3>2. QED
      BY <1>3, <1>5, <2>1, <3>1
  <2>2. Results \cap Alerts = {}
    BY DeliveriesAssumption
  <2>3. QED
    BY <1>2, <2>1, <2>2 DEF Waits
<1>12. QED
  BY <1>2, <1>7, <1>8, <1>9, <1>10, <1>11

\* The loop looks at the queue.
LEMMA PollStep ==
  ASSUME DeliveryInv, Poll
  PROVE  DeliveryInv' /\ Waits
<1> DEFINE quiet == \A d \in Deliveries : playing[d] # "waiting"
           first == Head(queue)
           lost  == {d \in expired \cap acks : Finishable(d)}
           asks  == gate[first] \notin GateTerminal /\ first \notin lost /\ ~speaking
           waits == asks /\ ~Preempts(first)
<1>1. /\ lane.pc = "poll" /\ queue # <<>> /\ pending = {}
      /\ acks' = acks \ expired
      /\ gate' = [d \in Deliveries |->
                    IF d \in lost THEN Note(d, "failed")
                    ELSE IF d = first /\ gate[d] = "none" THEN "awaiting_delivery" ELSE gate[d]]
      /\ expired' = IF waits THEN Late ELSE {}
      /\ playing' = IF waits THEN [d \in Deliveries |-> IF d \in Late THEN "no" ELSE playing[d]]
                             ELSE playing
      /\ IF asks /\ Preempts(first) THEN Claim(LedgerWith(lost), QueueWith(lost))
         ELSE /\ Requeue(lost)
              /\ lane' = IF waits /\ quiet THEN [Idle EXCEPT !.pc = "pause"] ELSE Idle
      /\ UNCHANGED <<speaking, pending, voice, sender, session, bounds, history>>
  BY DEF Poll, Look
<1> HIDE DEF quiet, first, lost, asks, waits
<1>2. RestTypes /\ Kept(ledger, queue)
  BY Types
<1>3. session # "closed"
  BY <1>1 DEF DeliveryInv, LaneInv
<1>4. lost \in SUBSET Deliveries
  BY <1>2 DEF lost, RestTypes
<1>5. Keeps(LedgerWith(lost), QueueWith(lost), {})
  BY <1>4, RequeueKeeps
<1>6. lane' \in Lane => RestTypes'
  <2>1. gate' \in [Deliveries -> GateState]
    BY <1>1, <1>2 DEF RestTypes, GateState, GateTerminal, Note
  <2>2. playing' \in [Deliveries -> {"no", "waiting", "late"}] /\ expired' \subseteq Deliveries
    BY <1>1, <1>2 DEF RestTypes, Late
  <2>3. QED
    BY <1>1, <1>2, <2>1, <2>2 DEF RestTypes, bounds, history
<1>7. UNCHANGED <<pending, session, voice, ackRequired, spoken>>
  BY <1>1 DEF bounds, history
<1>8. CASE asks /\ Preempts(first)
  <2>1. Claim(LedgerWith(lost), QueueWith(lost))
    BY <1>1, <1>8
  <2>2. first \in ToSet(QueueWith(lost)) /\ first \in Alerts
    <3>1. first \in ToSet(queue) /\ first \in Deliveries
      <4>1. queue \in Seq(Deliveries)
        BY <1>2 DEF Kept
      <4>2. Len(queue) \in Nat /\ 1 \in 1..Len(queue) /\ first = queue[1]
        BY <1>1, <4>1 DEF first
      <4>3. QED
        BY <4>1, <4>2, InQueue
    <3>2. ledger[first] = "pending"
      BY <1>2, <3>1 DEF Kept, Pending
    <3>3. LedgerWith(lost)[first] = "pending"
      BY <3>1, <3>2 DEF LedgerWith
    <3>4. ToSet(QueueWith(lost)) = Pending(LedgerWith(lost))
      BY <1>5 DEF Keeps, Kept
    <3>5. QED
      BY <1>8, <3>1, <3>3, <3>4 DEF Pending, Preempts
  <2>3. QueueWith(lost) # <<>>
    BY <2>2 DEF ToSet
  <2>4. /\ Kept(ledger', queue') /\ lane' \in Lane
        /\ LaneInv' /\ VoiceInv' /\ PauseInv' /\ Waits
    BY <1>1, <1>3, <1>5, <1>7, <2>1, <2>2, <2>3, ClaimStep
  <2>5. QED
    BY <1>6, <2>4, Parts
<1>9. CASE ~(asks /\ Preempts(first))
  <2>1. Keeps(ledger', queue', {})
    BY <1>1, <1>5, <1>9 DEF Requeue
  <2>2. lane' = Idle \/ (waits /\ quiet /\ lane' = [Idle EXCEPT !.pc = "pause"])
    BY <1>1, <1>9
  <2>3. lane' \in Lane /\ LaneInv'
    BY <1>1, <1>3, <2>2 DEF Idle, Lane, LaneInv
  <2>4. VoiceInv'
    BY <1>7, <1>1, <2>1, VoiceKept
  <2>5. PauseInv'
    BY <1>1, <2>2 DEF PauseInv, Idle, quiet
  <2>6. Waits
    BY <2>1, NoneClaimed
  <2>7. Kept(ledger', queue')
    BY <2>1 DEF Keeps
  <2>8. QED
    BY <1>6, <2>3, <2>4, <2>5, <2>6, <2>7, Parts
<1>10. QED
  BY <1>8, <1>9

\* The loop learns that the talker is drained, or that it is not.
LEMMA PauseStep ==
  ASSUME DeliveryInv, PauseIs \/ PauseIsNot
  PROVE  DeliveryInv' /\ Waits
<1>1. RestTypes /\ Kept(ledger, queue) /\ Keeps(ledger, queue, {})
  BY Types, KeptSame
<1>2. /\ lane.pc = "pause" /\ pending = {} /\ session # "closed"
      /\ \A d \in Deliveries : playing[d] # "waiting"
  BY DEF PauseIs, PauseIsNot, DeliveryInv, LaneInv, PauseInv
<1>3. UNCHANGED <<gate, playing, expired, speaking, pending, acks, voice, sender, session,
                  ackRequired, turns, failures, drops, current, spoken>>
  BY DEF PauseIs, PauseIsNot, gating, bounds, history
<1>4. lane' \in Lane => RestTypes'
  BY <1>1, <1>3 DEF RestTypes
<1>5. CASE queue # <<>> /\ Claim(ledger, queue)
  <2>1. /\ Kept(ledger', queue') /\ lane' \in Lane
        /\ LaneInv' /\ VoiceInv' /\ PauseInv' /\ Waits
    BY <1>1, <1>2, <1>3, <1>5, ClaimStep
  <2>2. QED
    BY <1>4, <2>1, Parts
<1>6. CASE lane' = Idle /\ UNCHANGED <<ledger, queue>>
  <2>1. Keeps(ledger', queue', {}) /\ Kept(ledger', queue')
    BY <1>1, <1>6
  <2>2. lane' \in Lane /\ LaneInv' /\ PauseInv'
    BY <1>2, <1>3, <1>6 DEF Idle, Lane, LaneInv, PauseInv
  <2>3. VoiceInv'
    BY <1>3, <2>1, VoiceKept
  <2>4. Waits
    BY <2>1, NoneClaimed
  <2>5. QED
    BY <1>4, <2>1, <2>2, <2>3, <2>4, Parts
<1>7. QED
  BY <1>5, <1>6 DEF PauseIs, PauseIsNot

\* What is being said is cut off.
LEMMA InterruptStep ==
  ASSUME DeliveryInv, Interrupt
  PROVE  DeliveryInv' /\ Waits
<1>1. RestTypes /\ Kept(ledger, queue) /\ Keeps(ledger, queue, {})
  BY Types, KeptSame
<1>2. /\ lane.pc = "start" /\ lane.cur \in Alerts /\ lane' = [lane EXCEPT !.pc = "cut"]
      /\ UNCHANGED <<ledger, queue, expired, speaking, pending, acks, voice, sender, session,
                     ackRequired, turns, failures, drops, spoken>>
  BY DEF Interrupt, bounds
<1>3. RestTypes'
  BY <1>1, <1>2 DEF Interrupt, NewEpoch, RestTypes, GateState, GateTerminal, Lane
<1>4. Keeps(ledger', queue', {}) /\ Kept(ledger', queue')
  BY <1>1, <1>2
<1>5. lane.pc' = "cut" /\ lane.cur' = lane.cur
  BY <1>1, <1>2 DEF RestTypes, Lane
<1>6. LaneInv' /\ PauseInv'
  BY <1>2, <1>5 DEF DeliveryInv, LaneInv, PauseInv
<1>7. VoiceInv'
  BY <1>2, <1>4, VoiceKept
<1>8. QED
  BY <1>3, <1>4, <1>6, <1>7, NoneClaimed, Parts

\* An injection that did not happen.
LEMMA AbandonStep ==
  ASSUME DeliveryInv, lane.pc \in {"start", "cut", "feed"}, Abandon(lane.cur),
         UNCHANGED <<playing, expired, speaking, acks, voice, sender, session, ackRequired,
                     turns, drops, current, spoken>>,
         failures' \in 0..MaxFailures
  PROVE  DeliveryInv' /\ Waits
<1> DEFINE d == lane.cur
<1>1. RestTypes /\ Kept(ledger, queue)
  BY Types
<1>2. d \in Deliveries /\ voice[d] = "none" /\ session # "closed"
  BY <1>1 DEF DeliveryInv, LaneInv, RestTypes, Lane
<1> HIDE DEF d
<1>3. /\ gate' = [gate EXCEPT ![d] = Note(d, "failed")] /\ pending' = pending \ {d}
      /\ Requeue({d}) /\ lane' = Idle
  BY DEF Abandon, d
<1>4. Keeps(ledger', queue', {})
  BY <1>2, <1>3, RequeueKeeps DEF Requeue
<1>5. Note(d, "failed") \in GateState
  BY <1>1, <1>2 DEF Note, GateState, GateTerminal, RestTypes
<1>6. RestTypes'
  BY <1>1, <1>3, <1>5 DEF RestTypes, Idle, Lane
<1>7. LaneInv' /\ PauseInv'
  BY <1>2, <1>3 DEF LaneInv, PauseInv, Idle
<1>8. VoiceInv'
  BY <1>2, <1>3, <1>4, VoiceKept
<1>9. Kept(ledger', queue')
  BY <1>4 DEF Keeps
<1>10. Waits
  BY <1>4, NoneClaimed
<1>11. QED
  BY <1>6, <1>7, <1>8, <1>9, <1>10, Parts

\* The injection is prepared, or it fails.
LEMMA PrepareStep ==
  ASSUME DeliveryInv, Prepare \/ FailInjection
  PROVE  DeliveryInv' /\ Waits
<1> DEFINE d == lane.cur
<1>1. RestTypes /\ Kept(ledger, queue) /\ Keeps(ledger, queue, {})
  BY Types, KeptSame
<1>2. CASE FailInjection
  <2>1. lane.pc \in {"start", "cut", "feed"} /\ Abandon(lane.cur)
    BY <1>2 DEF FailInjection
  <2>2. failures' \in 0..MaxFailures
    BY <1>1, <1>2, SettingsAssumption DEF FailInjection, RestTypes
  <2>3. QED
    BY <1>2, <2>1, <2>2, AbandonStep DEF FailInjection, history
<1>3. CASE Prepare
  <2> HIDE DEF d
  <2>1. /\ lane.pc \in {"start", "cut"}
        /\ gate' = [gate EXCEPT ![d] = Note(d, "delivering")]
        /\ pending' = pending \cup {d}
        /\ lane' = [lane EXCEPT !.pc = "feed"]
        /\ UNCHANGED <<ledger, queue, playing, expired, speaking, acks, voice, sender, session,
                       ackRequired, turns, failures, drops, current, spoken>>
    BY <1>3 DEF Prepare, bounds, history, d
  <2>2. d \in Deliveries /\ lane.pc' = "feed" /\ lane.cur' = d /\ lane' \in Lane
    BY <1>1, <2>1 DEF DeliveryInv, LaneInv, RestTypes, Lane, d
  <2>3. Note(d, "delivering") \in GateState
    BY <1>1, <2>2 DEF Note, GateState, GateTerminal, RestTypes
  <2>4. RestTypes'
    BY <1>1, <2>1, <2>2, <2>3 DEF RestTypes
  <2>5. Keeps(ledger', queue', {}) /\ Kept(ledger', queue')
    BY <1>1, <2>1
  <2>6. LaneInv' /\ PauseInv'
    BY <2>1, <2>2 DEF DeliveryInv, LaneInv, PauseInv, d
  <2>7. VoiceInv'
    BY <2>1, <2>5, VoiceKept
  <2>8. QED
    BY <2>4, <2>5, <2>6, <2>7, NoneClaimed, Parts
<1>4. QED
  BY <1>2, <1>3

\* Every announcement but one is where it was.
LEMMA VoiceOfOthers ==
  ASSUME DeliveryInv, NEW d \in Deliveries, NEW S, Keeps(ledger', queue', S), S \subseteq {d},
         ackRequired' = ackRequired, session' = session,
         NEW v \in Voice, NEW n \in Nat,
         voice' = [voice EXCEPT ![d] = v], spoken' = [spoken EXCEPT ![d] = n],
         pending \subseteq pending' \cup {d},
         VoiceOf(d)'
  PROVE  VoiceInv'
<1>1. RestTypes
  BY Types
<1>2. ASSUME NEW e \in Deliveries, e # d
      PROVE  VoiceOf(e)'
  <2>1. VoiceOf(e) /\ voice'[e] = voice[e] /\ spoken'[e] = spoken[e]
    BY <1>1, <1>2 DEF DeliveryInv, VoiceInv, RestTypes
  <2>2. ledger'[e] = "delivered" => ledger[e] = "delivered"
    BY <1>2 DEF Keeps
  <2>3. ledger[e] \in {"delivered", "cancelled"} => ledger'[e] = ledger[e]
    BY DEF Keeps
  <2>4. e \in pending => e \in pending'
    BY <1>2
  <2>5. QED
    BY <2>1, <2>2, <2>3, <2>4 DEF VoiceOf, OnTheWay
<1>3. QED
  BY <1>2 DEF VoiceInv

\* The announcement is fed to the model, or leaves for the socket.
LEMMA FeedStep ==
  ASSUME DeliveryInv, Feed \/ \E d \in Deliveries : Emit(d)
  PROVE  DeliveryInv' /\ Waits
<1>1. RestTypes /\ Kept(ledger, queue) /\ Keeps(ledger, queue, {})
  BY Types, KeptSame
<1>2. /\ UNCHANGED <<ledger, queue, gate, playing, expired, speaking, pending, acks, sender,
                     session, ackRequired, turns, failures, drops, current, spoken>>
      /\ lane' = lane \/ lane' = Idle
  BY DEF Feed, Emit, gating, bounds, history
<1>3. PICK d \in Deliveries, v \in OnTheWay :
            /\ voice' = [voice EXCEPT ![d] = v]
            /\ \/ lane.pc = "feed" /\ d = lane.cur /\ lane' = Idle
               \/ lane' = lane /\ voice[d] \in OnTheWay
  <2>1. CASE Feed
    <3>1. lane.cur \in Deliveries
      BY <1>1, <2>1 DEF Feed, DeliveryInv, LaneInv, RestTypes, Lane
    <3>2. QED
      BY <2>1, <3>1 DEF Feed, OnTheWay
  <2>2. ASSUME NEW d \in Deliveries, Emit(d)
        PROVE  voice' = [voice EXCEPT ![d] = "sending"] /\ lane' = lane /\ voice[d] \in OnTheWay
    BY <2>2 DEF Emit, OnTheWay
  <2>3. QED
    BY <2>1, <2>2 DEF OnTheWay
<1>4. RestTypes'
  BY <1>1, <1>2, <1>3 DEF RestTypes, Idle, Lane, OnTheWay, Voice
<1>5. Keeps(ledger', queue', {}) /\ Kept(ledger', queue')
  BY <1>1, <1>2
<1>6. LaneInv' /\ PauseInv'
  <2>1. CASE lane' = Idle
    BY <1>2, <1>3, <2>1 DEF DeliveryInv, LaneInv, PauseInv, Idle
  <2>2. CASE lane' = lane /\ voice[d] \in OnTheWay
    <3>1. lane.cur # Nothing => voice'[lane.cur] = "none"
      BY <1>1, <1>3, <2>2 DEF DeliveryInv, LaneInv, OnTheWay, RestTypes, Lane
    <3>2. QED
      BY <1>2, <2>2, <3>1 DEF DeliveryInv, LaneInv, PauseInv
  <2>3. QED
    BY <1>3, <2>1, <2>2
<1>7. VoiceOf(d)'
  <2>1. VoiceOf(d) /\ voice'[d] = v /\ spoken'[d] = spoken[d]
    BY <1>1, <1>2, <1>3 DEF DeliveryInv, VoiceInv, RestTypes
  <2>2. voice[d] \in OnTheWay \/ (voice[d] = "none" /\ d \in pending)
    BY <1>3 DEF DeliveryInv, LaneInv
  <2>3. QED
    BY <1>2, <2>1, <2>2 DEF VoiceOf, OnTheWay
<1>8. VoiceInv'
  <2>1. spoken' = [spoken EXCEPT ![d] = spoken[d]] /\ spoken[d] \in Nat
    BY <1>1, <1>2 DEF RestTypes
  <2>2. v \in Voice
    BY DEF OnTheWay, Voice
  <2>3. PICK S : S \subseteq {d} /\ Keeps(ledger', queue', S)
    BY <1>5
  <2>4. /\ pending \subseteq pending' \cup {d}
        /\ ackRequired' = ackRequired /\ session' = session
        /\ voice' = [voice EXCEPT ![d] = v]
    BY <1>2, <1>3
  <2>5. QED
    BY <1>7, <2>1, <2>2, <2>3, <2>4, VoiceOfOthers
<1>9. QED
  BY <1>4, <1>5, <1>6, <1>8, NoneClaimed, Parts

\* The socket takes an announcement; without device ACKs that settles its delivery.
LEMMA SentStep ==
  ASSUME DeliveryInv, NEW d \in Deliveries, Sent(d)
  PROVE  DeliveryInv' /\ Waits
<1>1. RestTypes /\ Kept(ledger, queue) /\ Keeps(ledger, queue, {})
  BY Types, KeptSame
<1>2. /\ voice[d] = "sending" /\ session = "open"
      /\ voice' = [voice EXCEPT ![d] = "sent"]
      /\ spoken' = [spoken EXCEPT ![d] = spoken[d] + 1]
      /\ playing' = [playing EXCEPT ![d] = "waiting"]
      /\ current' = current \cup {d}
      /\ Finalize(d)
      /\ UNCHANGED <<expired, speaking, lane, session, ackRequired, turns, failures, drops>>
  BY DEF Sent, bounds
<1>3. /\ d \in pending /\ spoken[d] = 0 /\ ledger[d] # "delivered"
  BY <1>2 DEF DeliveryInv, VoiceInv, VoiceOf, OnTheWay
<1>4. lane.pc \notin {"pause", "start", "cut", "closed"}
  BY <1>2, <1>3 DEF DeliveryInv, LaneInv
<1>5. \/ /\ UNCHANGED <<ledger, queue, gate, pending>>
         /\ acks' = acks \cup {d} \/ acks' = acks
         /\ sender' \in {sender, FALSE}
         /\ ackRequired \/ ~Finishable(d)
      \/ /\ Deliver(d) /\ Finishable(d) /\ ~ackRequired
         /\ pending' = pending \ {d} /\ acks' = acks \ {d}
         /\ gate' = [gate EXCEPT ![d] = Note(d, "delivered")]
         /\ sender' = sender
  BY <1>2, <1>3 DEF Finalize
<1>6. \/ Keeps(ledger', queue', {d}) /\ ledger'[d] # "claimed"
      \/ UNCHANGED <<ledger, queue>>
  <2>1. CASE Deliver(d) /\ Finishable(d)
    <3>1. Keeps(ledger', queue', {d}) /\ ledger' = [ledger EXCEPT ![d] = "delivered"]
      BY <2>1, DeliverKeeps
    <3>2. QED
      BY <1>1, <3>1 DEF Kept
  <2>2. QED
    BY <1>5, <2>1
<1>7. PICK S \in SUBSET {d} : Keeps(ledger', queue', S) /\ \A e \in S : ledger'[e] # "claimed"
  BY <1>1, <1>6
<1>8. RestTypes'
  <2>1. Note(d, "delivered") \in GateState
    BY <1>1 DEF Note, GateState, GateTerminal, RestTypes
  <2>2. gate' \in [Deliveries -> GateState] /\ pending' \subseteq Deliveries
        /\ acks' \subseteq Deliveries /\ sender' \in BOOLEAN
    BY <1>1, <1>5, <2>1 DEF RestTypes
  <2>3. /\ voice' \in [Deliveries -> Voice] /\ spoken' \in [Deliveries -> Nat]
        /\ playing' \in [Deliveries -> {"no", "waiting", "late"}]
    BY <1>1, <1>2, <1>3 DEF RestTypes, Voice
  <2>4. QED
    BY <1>1, <1>2, <2>2, <2>3 DEF RestTypes
<1>9. pending \subseteq pending' \cup {d} /\ pending' \subseteq pending
  BY <1>5
<1>10. LaneInv'
  <2>1. lane.cur # Nothing => lane.cur # d /\ voice'[lane.cur] = "none"
    BY <1>1, <1>2 DEF DeliveryInv, LaneInv, RestTypes, Lane
  <2>2. QED
    BY <1>2, <1>4, <1>9, <2>1 DEF DeliveryInv, LaneInv
<1>11. PauseInv'
  BY <1>2, <1>4 DEF PauseInv
<1>12. VoiceOf(d)'
  <2>1. voice'[d] = "sent" /\ spoken'[d] = 1
    BY <1>1, <1>2, <1>3 DEF RestTypes
  <2>2. CASE UNCHANGED <<ledger, pending>>
    BY <1>3, <2>1, <2>2 DEF VoiceOf, OnTheWay
  <2>3. CASE Deliver(d) /\ ~ackRequired
    <3>1. ledger'[d] = "delivered"
      BY <1>1, <2>3 DEF Deliver, Kept
    <3>2. QED
      BY <1>2, <2>1, <2>3, <3>1 DEF VoiceOf, OnTheWay
  <2>4. QED
    BY <1>5, <2>2, <2>3
<1>13. VoiceInv'
  <2>1. "sent" \in Voice /\ spoken[d] + 1 \in Nat
    BY <1>3 DEF Voice
  <2>2. QED
    BY <1>2, <1>7, <1>9, <1>12, <2>1, VoiceOfOthers
<1>14. Kept(ledger', queue')
  BY <1>7 DEF Keeps
<1>15. Waits
  BY <1>7, NoneClaimed
<1>16. QED
  BY <1>8, <1>10, <1>11, <1>13, <1>14, <1>15, Parts

\* The device reports of an announcement it had.
LEMMA DeviceAckStep ==
  ASSUME DeliveryInv, NEW d \in Deliveries, NEW phase \in {"finished", "cancelled"},
         NEW tagged \in BOOLEAN, DeviceAck(d, phase, tagged)
  PROVE  DeliveryInv' /\ Waits
<1>1. RestTypes /\ Kept(ledger, queue) /\ Keeps(ledger, queue, {})
  BY Types, KeptSame
<1>2. /\ voice[d] = "sent" /\ session = "open"
      /\ voice' = [voice EXCEPT ![d] = phase]
      /\ UNCHANGED <<expired, speaking, lane, pending, sender, session, ackRequired, turns,
                     failures, drops, current, spoken>>
  BY DEF DeviceAck, bounds, history
<1>3. VoiceOf(d)
  BY DEF DeliveryInv, VoiceInv
<1>4. /\ playing' \in {playing, [playing EXCEPT ![d] = "no"]}
      /\ acks' \in {acks, acks \ {d}}
      /\ gate' \in {gate, [gate EXCEPT ![d] = Note(d, "delivered")]}
      /\ \/ UNCHANGED <<ledger, queue>>
         \/ Finishable(d) /\ phase = "finished" /\ Deliver(d)
         \/ Finishable(d) /\ Requeue({d})
  BY DEF DeviceAck
<1>5. \E S \in SUBSET {d} :
         /\ Keeps(ledger', queue', S)
         /\ \A e \in S : ledger'[e] = "delivered" /\ phase = "finished"
  <2>1. CASE UNCHANGED <<ledger, queue>>
    BY <1>1, <2>1
  <2>2. CASE Finishable(d) /\ phase = "finished" /\ Deliver(d)
    <3>1. Keeps(ledger', queue', {d}) /\ ledger' = [ledger EXCEPT ![d] = "delivered"]
      BY <2>2, DeliverKeeps
    <3>2. ledger'[d] = "delivered"
      BY <1>1, <3>1 DEF Kept
    <3>3. QED
      BY <2>2, <3>1, <3>2
  <2>3. CASE Requeue({d})
    <3>1. Keeps(ledger', queue', {})
      BY <2>3, RequeueKeeps DEF Requeue
    <3>2. QED
      BY <3>1
  <2>4. QED
    BY <1>4, <2>1, <2>2, <2>3
<1>6. PICK S \in SUBSET {d} :
         /\ Keeps(ledger', queue', S)
         /\ \A e \in S : ledger'[e] = "delivered" /\ phase = "finished"
  BY <1>5
<1>7. RestTypes'
  <2>1. Note(d, "delivered") \in GateState
    BY <1>1 DEF Note, GateState, GateTerminal, RestTypes
  <2>2. /\ gate' \in [Deliveries -> GateState] /\ acks' \subseteq Deliveries
        /\ playing' \in [Deliveries -> {"no", "waiting", "late"}]
    BY <1>1, <1>4, <2>1 DEF RestTypes
  <2>3. QED
    BY <1>1, <1>2, <2>2 DEF RestTypes, Voice
<1>8. LaneInv'
  <2>1. lane.cur # Nothing => lane.cur # d /\ voice'[lane.cur] = "none"
    BY <1>1, <1>2 DEF DeliveryInv, LaneInv, RestTypes, Lane
  <2>2. QED
    BY <1>2, <2>1 DEF DeliveryInv, LaneInv
<1>9. PauseInv'
  <2>1. \A e \in Deliveries : playing'[e] = "waiting" => playing[e] = "waiting"
    BY <1>1, <1>4 DEF RestTypes
  <2>2. QED
    BY <1>2, <2>1 DEF DeliveryInv, PauseInv
<1>10. VoiceOf(d)'
  <2>1. voice'[d] = phase /\ spoken'[d] = 1 /\ spoken[d] = 1
    BY <1>1, <1>2, <1>3 DEF RestTypes, VoiceOf
  <2>2. ledger[d] \in {"delivered", "cancelled"} => ledger'[d] = ledger[d]
    BY <1>6 DEF Keeps
  <2>3. ledger'[d] = "delivered" => ledger[d] = "delivered" \/ phase = "finished"
    BY <1>6 DEF Keeps
  <2>4. ledger[d] = "delivered" => ~ackRequired
    BY <1>2, <1>3 DEF VoiceOf
  <2>5. QED
    BY <1>2, <1>3, <2>1, <2>2, <2>3, <2>4 DEF VoiceOf, OnTheWay
<1>11. VoiceInv'
  <2>1. spoken' = [spoken EXCEPT ![d] = spoken[d]] /\ spoken[d] \in Nat
    BY <1>1, <1>2 DEF RestTypes
  <2>2. phase \in Voice
    BY DEF Voice
  <2>3. pending \subseteq pending' \cup {d}
    BY <1>2
  <2>4. QED
    BY <1>2, <1>6, <1>10, <2>1, <2>2, <2>3, VoiceOfOthers
<1>12. Kept(ledger', queue')
  BY <1>6 DEF Keeps
<1>13. Waits
  <2>1. \A e \in S : ledger'[e] # "claimed"
    BY <1>6
  <2>2. QED
    BY <1>6, <2>1, NoneClaimed
<1>14. QED
  BY <1>7, <1>8, <1>9, <1>11, <1>12, <1>13, Parts

\* The socket drops: what was on its way reached the client, or not.
LEMMA DropStep ==
  ASSUME DeliveryInv, Drop
  PROVE  DeliveryInv' /\ Waits
<1>1. RestTypes /\ Kept(ledger, queue) /\ Keeps(ledger, queue, {})
  BY Types, KeptSame
<1>2. PICK S \in SUBSET {d \in Deliveries : voice[d] = "sending"} :
        spoken' = [d \in Deliveries |-> IF d \in S THEN spoken[d] + 1 ELSE spoken[d]]
  BY DEF Drop
<1>3. /\ session = "open" /\ session' = "parked" /\ sender' = FALSE
      /\ voice' = [d \in Deliveries |-> IF voice[d] = "sending" THEN "lost" ELSE voice[d]]
      /\ UNCHANGED <<ledger, queue, gate, playing, expired, speaking, lane, pending, acks,
                     ackRequired, turns, failures, current>>
  BY DEF Drop, gating
<1>4. RestTypes'
  <2>1. drops' \in 0..MaxDrops
    BY <1>1, SettingsAssumption DEF Drop, RestTypes
  <2>2. voice' \in [Deliveries -> Voice] /\ spoken' \in [Deliveries -> Nat]
    BY <1>1, <1>2, <1>3 DEF RestTypes, Voice
  <2>3. QED
    BY <1>1, <1>3, <2>1, <2>2 DEF RestTypes
<1>5. Keeps(ledger', queue', {}) /\ Kept(ledger', queue')
  BY <1>1, <1>3
<1>6. LaneInv' /\ PauseInv'
  <2>1. lane.cur # Nothing => voice'[lane.cur] = "none"
    BY <1>1, <1>3 DEF DeliveryInv, LaneInv, RestTypes, Lane
  <2>2. QED
    BY <1>3, <2>1 DEF DeliveryInv, LaneInv, PauseInv
<1>7. ASSUME NEW d \in Deliveries
      PROVE  VoiceOf(d)'
  <2>1. VoiceOf(d)
    BY DEF DeliveryInv, VoiceInv
  <2>2. CASE voice[d] = "sending"
    <3>1. voice'[d] = "lost" /\ spoken[d] = 0 /\ spoken'[d] \in {0, 1} /\ d \in pending
      BY <1>2, <1>3, <2>1, <2>2 DEF VoiceOf, OnTheWay
    <3>2. ledger[d] # "delivered"
      BY <2>1, <3>1 DEF VoiceOf
    <3>3. QED
      BY <1>3, <3>1, <3>2 DEF VoiceOf, OnTheWay
  <2>3. CASE voice[d] # "sending"
    <3>1. voice'[d] = voice[d] /\ spoken'[d] = spoken[d]
      BY <1>2, <1>3, <2>3
    <3>2. QED
      BY <1>3, <2>1, <3>1 DEF VoiceOf, OnTheWay
  <2>4. QED
    BY <2>2, <2>3
<1>8. VoiceInv'
  BY <1>7 DEF VoiceInv
<1>9. QED
  BY <1>4, <1>5, <1>6, <1>8, NoneClaimed, Parts

\* The session closes.
LEMMA CloseStep ==
  ASSUME DeliveryInv, Close
  PROVE  DeliveryInv' /\ Waits
<1> DEFINE cut == IF lane.cur = Nothing THEN {} ELSE {lane.cur}
<1>1. RestTypes
  BY Types
<1>2. /\ session' = "closed" /\ lane' = [Idle EXCEPT !.pc = "closed"]
      /\ gate' = [d \in Deliveries |-> IF d \in cut THEN Note(d, "cancelled") ELSE gate[d]]
      /\ Requeue(pending \cup cut)
      /\ pending' = {d \in pending \ cut : ~Finishable(d)}
      /\ UNCHANGED <<playing, expired, speaking, acks, voice, sender, ackRequired, turns,
                     failures, drops, current, spoken>>
  BY DEF Close, bounds, history
<1>3. cut \in SUBSET Deliveries
  BY <1>1 DEF RestTypes, Lane
<1> HIDE DEF cut
<1>4. Keeps(ledger', queue', {}) /\ Kept(ledger', queue')
  <2>1. Keeps(ledger', queue', {})
    BY <1>1, <1>2, <1>3, RequeueKeeps DEF Requeue, RestTypes
  <2>2. QED
    BY <2>1 DEF Keeps
<1>5. RestTypes'
  <2>1. gate' \in [Deliveries -> GateState]
    BY <1>1, <1>2 DEF RestTypes, GateState, GateTerminal, Note
  <2>2. lane' \in Lane
    BY <1>2 DEF Idle, Lane
  <2>3. QED
    BY <1>1, <1>2, <2>1, <2>2 DEF RestTypes
<1>6. LaneInv' /\ PauseInv'
  BY <1>2 DEF LaneInv, PauseInv, Idle
<1>7. ASSUME NEW d \in Deliveries
      PROVE  VoiceOf(d)'
  <2>1. VoiceOf(d)
    BY DEF DeliveryInv, VoiceInv
  <2>2. ledger'[d] = "delivered" => ledger[d] = "delivered"
    BY <1>4 DEF Keeps
  <2>3. QED
    BY <1>2, <2>1, <2>2 DEF VoiceOf
<1>8. VoiceInv'
  BY <1>7 DEF VoiceInv
<1>9. QED
  BY <1>4, <1>5, <1>6, <1>8, NoneClaimed, Parts

-----------------------------------------------------------------------------
(***************************************************************************)
(* The theorems.                                                           *)
(***************************************************************************)
\* Nothing is written, queued or said when a session begins.
LEMMA InitInv ==
  ASSUME Init
  PROVE  DeliveryInv
<1>1. Kept(ledger, queue)
  <2>1. ledger \in [Deliveries -> LedgerState] /\ queue \in Seq(Deliveries)
    BY DEF Init, LedgerState
  <2>2. Pending(ledger) = {} /\ Written(ledger) = {}
    BY DEF Init, Pending, Written
  <2>3. ToSet(queue) = {} /\ IsInjective(queue)
    BY DEF Init, ToSet, IsInjective
  <2>4. IsFiniteSet(Written(ledger))
    BY <2>2, FS_EmptySet
  <2>5. QED
    BY <2>1, <2>2, <2>3, <2>4 DEF Kept
<1>2. RestTypes
  <2>1. lane \in Lane
    BY DEF Init, Idle, Lane
  <2>2. ackRequired \in BOOLEAN /\ turns \in 0..MaxTurns /\ failures \in 0..MaxFailures
        /\ drops \in 0..MaxDrops
    BY SettingsAssumption DEF Init
  <2>3. QED
    BY <2>1, <2>2 DEF Init, RestTypes, GateState, Voice
<1>3. LaneInv /\ PauseInv /\ VoiceInv
  BY DEF Init, LaneInv, PauseInv, VoiceInv, VoiceOf, OnTheWay, Idle
<1>4. QED
  BY <1>1, <1>2, <1>3, Types DEF DeliveryInv

\* Every step keeps the invariant and claims nothing over an announcement.
LEMMA NextInv ==
  ASSUME DeliveryInv, [Next]_vars
  PROVE  DeliveryInv' /\ (Waits \/ UNCHANGED vars)
<1>1. CASE Loop \/ FailInjection
  BY <1>1, PollStep, PauseStep, InterruptStep, PrepareStep, FeedStep DEF Loop
<1>2. CASE Speak \/ Quiet \/ Break \/ Resume
  BY <1>2, WorldStep
<1>3. CASE Drop \/ Close
  BY <1>3, DropStep, CloseStep
<1>4. ASSUME NEW d \in Deliveries,
             \/ Enqueue(d) \/ Resolve(d) \/ LeaseExpires(d)
             \/ Emit(d) \/ Sent(d) \/ AckLate(d)
             \/ \E phase \in {"finished", "cancelled"}, tagged \in BOOLEAN :
                   DeviceAck(d, phase, tagged)
      PROVE  DeliveryInv' /\ Waits
  <2>1. CASE Enqueue(d) \/ Resolve(d) \/ LeaseExpires(d)
    BY <2>1, LedgerStep
  <2>2. CASE Emit(d)
    BY <2>2, FeedStep
  <2>3. CASE Sent(d)
    BY <2>3, SentStep
  <2>4. CASE AckLate(d)
    BY <2>4, WorldStep
  <2>5. ASSUME NEW phase \in {"finished", "cancelled"}, NEW tagged \in BOOLEAN,
               DeviceAck(d, phase, tagged)
        PROVE  DeliveryInv' /\ Waits
    BY <2>5, DeviceAckStep
  <2>6. QED
    BY <1>4, <2>1, <2>2, <2>3, <2>4, <2>5
<1>5. CASE UNCHANGED vars
  BY <1>5 DEF vars, gating, bounds, history, DeliveryInv, TypeOK, Kept, Pending, Written,
              LaneInv, PauseInv, VoiceInv, VoiceOf
<1>6. QED
  BY <1>1, <1>2, <1>3, <1>4, <1>5 DEF Next

\* The inductive invariant holds in every state of the lane, with any number of
\* deliveries, interruptions, failures and drops.
THEOREM LaneIsKept == Spec => []DeliveryInv
<1>1. Init => DeliveryInv
  BY InitInv
<1>2. DeliveryInv /\ [Next]_vars => DeliveryInv'
  BY NextInv
<1>3. QED
  BY <1>1, <1>2, PTL DEF Spec

\* A result is announced at most once: an announcement reaches the client only from
\* the socket, and its delivery is claimed again only when nothing was said of it.
THEOREM AnnouncedOnce == Spec => []SpokenOnce
<1>1. DeliveryInv => SpokenOnce
  BY DEF DeliveryInv, VoiceInv, VoiceOf, SpokenOnce
<1>2. QED
  BY <1>1, LaneIsKept, PTL

\* What the ledger calls delivered was heard, and with device ACKs heard to its end.
THEOREM DeliveredIsHeard == Spec => []DeliveredWasHeard
<1>1. DeliveryInv => DeliveredWasHeard
  BY DEF DeliveryInv, VoiceInv, VoiceOf, DeliveredWasHeard
<1>2. QED
  BY <1>1, LaneIsKept, PTL

\* A result that waits for a pause is never claimed while another is being played.
THEOREM ResultsWait == Spec => NoOverlap
<1>1. DeliveryInv /\ [Next]_vars => [Waits]_vars
  BY NextInv
<1>2. Spec => [][Waits]_vars
  BY <1>1, LaneIsKept, PTL DEF Spec
<1>3. QED
  BY <1>2 DEF NoOverlap, Waits
=============================================================================
