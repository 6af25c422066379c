--------------------------- MODULE RedisMgetProofs ---------------------------
(***************************************************************************)
(* Proofs about module RedisMget, for every MGET, any number of backends   *)
(* and wherever the replies are cut: the client gets the values in the     *)
(* order of its keys, a backend counts as completely received exactly when *)
(* it is, and no assert on the queue of the backends fails.                *)
(*                                                                         *)
(* Every action keeps the invariant (module RedisMgetSteps).  That it      *)
(* holds at first takes induction over the keys, for the queue that the    *)
(* constructor builds, and the cardinality of sets, for the counting of    *)
(* keys.                                                                   *)
(***************************************************************************)
EXTENDS RedisMgetSteps, FiniteSetTheorems

-----------------------------------------------------------------------------
(* The constructor's loop.                                                 *)

\* Induction up to m, for a set.
LEMMA InductionUpTo ==
  ASSUME NEW m \in Nat, NEW T, 0 \in T,
         \A n \in 0..m : n < m /\ n \in T => n + 1 \in T
  PROVE  \A n \in 0..m : n \in T
<1> DEFINE U == {n \in 0..m : n \notin T}
<1> SUFFICES ASSUME U # {} PROVE FALSE
  BY Zenon
<1>1. U \subseteq Nat
  OBVIOUS
<1>2. PICK k \in U : \A j \in U : ~ (<<j, k>> \in OpToRel(<, Nat))
  <2> HIDE DEF U
  <2> QED  BY <1>1, WFMin, NatLessThanWellFounded, Zenon
<1>3. \A j \in U : ~ (j < k)
  BY <1>1, <1>2, Zenon DEF OpToRel
<1>4. k \in 0..m /\ k \notin T /\ k # 0
  BY Zenon
<1>5. k - 1 \in 0..m /\ k - 1 < m /\ k - 1 < k /\ (k - 1) + 1 = k
  BY <1>4
<1>6. k - 1 \in T
  BY <1>3, <1>5
<1> QED  BY <1>4, <1>5, <1>6

\* t is s with one key of backend b more.
OneMore(s, b, t) ==
  IF s # <<>> /\ s[Len(s)].b = b
  THEN /\ Len(t) = Len(s)
       /\ \A j \in 1..Len(s) :
            /\ t[j].b = s[j].b
            /\ t[j].n = IF j = Len(s) THEN s[j].n + 1 ELSE s[j].n
  ELSE /\ Len(t) = Len(s) + 1
       /\ \A j \in 1..Len(s) : t[j] = s[j]
       /\ t[Len(s) + 1] = [b |-> b, n |-> 1]

LEMMA QueuedType ==
  ASSUME NEW keys, NEW i \in DOMAIN keys, NEW s \in Seq(RunsOf(keys))
  PROVE  /\ Queued(s, keys[i]) \in Seq(RunsOf(keys))
         /\ OneMore(s, keys[i], Queued(s, keys[i]))
<1> DEFINE R == RunsOf(keys)
           new == [b |-> keys[i], n |-> 1]
           last == [s[Len(s)] EXCEPT !.n = @ + 1]
<1>1. new \in R
  BY Zenon DEF RunsOf
<1>2. \A j \in 1..Len(s) : s[j] \in R
  BY SeqElement, Zenon
<1>3. CASE s # <<>> /\ s[Len(s)].b = keys[i]
  <2>1. Len(s) \in 1..Len(s)
    BY <1>3
  <2>2. s[Len(s)] \in R
    BY <1>2, <2>1
  <2>3. last \in R /\ last.b = s[Len(s)].b /\ last.n = s[Len(s)].n + 1
    BY <2>2 DEF RunsOf
  <2>4. Queued(s, keys[i]) = [s EXCEPT ![Len(s)] = last]
    BY <1>3, Zenon DEF Queued
  <2> HIDE DEF R, last
  <2>5. /\ [s EXCEPT ![Len(s)] = last] \in Seq(R)
        /\ Len([s EXCEPT ![Len(s)] = last]) = Len(s)
        /\ \A j \in 1..Len(s) :
             [s EXCEPT ![Len(s)] = last][j] = IF j = Len(s) THEN last ELSE s[j]
    BY <2>1, <2>3 DEF R
  <2> QED  BY <1>3, <2>3, <2>4, <2>5, Zenon DEF R, OneMore
<1>4. CASE ~(s # <<>> /\ s[Len(s)].b = keys[i])
  <2>1. Queued(s, keys[i]) = Append(s, new)
    BY <1>4, Zenon DEF Queued
  <2> HIDE DEF R, new
  <2>2. /\ Append(s, new) \in Seq(R) /\ Len(Append(s, new)) = Len(s) + 1
        /\ \A j \in 1..Len(s) : Append(s, new)[j] = s[j]
        /\ Append(s, new)[Len(s) + 1] = new
    BY <1>1, SeqAppend DEF R
  <2> QED  BY <1>4, <2>1, <2>2 DEF R, new, OneMore
<1> QED  BY <1>3, <1>4

\* The queue after each of the first n keys.
Builds(g, keys, n) ==
  /\ g \in [0..n -> Seq(RunsOf(keys))] /\ g[0] = <<>>
  /\ \A i \in 1..n : g[i] = Queued(g[i - 1], keys[i])

LEMMA Buildable ==
  ASSUME NEW keys, NEW m \in Nat, DOMAIN keys = 1..m
  PROVE  \E g : Builds(g, keys, m)
<1> DEFINE T == {n \in 0..m : \E g : Builds(g, keys, n)}
<1>1. 0 \in T
  <2>1. Builds([i \in 0..0 |-> <<>>], keys, 0)
    BY DEF Builds
  <2> QED  BY <2>1
<1>2. ASSUME NEW n \in 0..m, n < m, n \in T
      PROVE  n + 1 \in T
  <2>1. PICK g : Builds(g, keys, n)
    BY <1>2, Zenon
  <2>2. n + 1 \in DOMAIN keys /\ n \in 0..n /\ n + 1 \in 0..m
    BY <1>2
  <2>3. g[n] \in Seq(RunsOf(keys))
    BY <2>1, <2>2, Zenon DEF Builds
  <2> DEFINE new == Queued(g[n], keys[n + 1])
             h == [i \in 0..(n + 1) |-> IF i = n + 1 THEN new ELSE g[i]]
  <2>4. new \in Seq(RunsOf(keys))
    BY <2>2, <2>3, QueuedType
  <2>5. Builds(h, keys, n + 1)
    <3> HIDE DEF new
    <3>1. \A i \in 0..(n + 1) : i # n + 1 => i \in 0..n
      OBVIOUS
    <3>2. h \in [0..(n + 1) -> Seq(RunsOf(keys))]
      BY <2>1, <2>4, <3>1, Zenon DEF Builds
    <3>3. h[0] = <<>>
      BY <2>1 DEF Builds
    <3>4. ASSUME NEW i \in 1..(n + 1)
          PROVE  h[i] = Queued(h[i - 1], keys[i])
      <4>1. i - 1 \in 0..(n + 1) /\ i - 1 # n + 1 /\ i \in 0..(n + 1)
        OBVIOUS
      <4>2. h[i - 1] = g[i - 1]
        BY <4>1, Zenon
      <4>3. CASE i = n + 1
        <5>1. i - 1 = n
          BY <4>3
        <5> QED  BY <4>1, <4>2, <4>3, <5>1 DEF new
      <4>4. CASE i # n + 1
        <5>1. i \in 1..n
          BY <4>4
        <5> QED  BY <2>1, <4>1, <4>2, <4>4, <5>1 DEF Builds
      <4> QED  BY <4>3, <4>4, Zenon
    <3> HIDE DEF h
    <3> QED  BY <3>2, <3>3, <3>4, Zenon DEF Builds
  <2> QED  BY <2>2, <2>5, Zenon
<1>3. m \in 0..m
  OBVIOUS
<1> HIDE DEF T
<1>4. m \in T
  BY <1>1, <1>2, <1>3, InductionUpTo, Zenon
<1> QED  BY <1>4, Zenon DEF T

\* The queue that the loop builds of the keys in front of it stands for them.
LEMMA OneMoreKey ==
  ASSUME NEW keys, NEW m \in Nat, DOMAIN keys = 1..m,
         NEW n \in 0..m, n < m,
         NEW s \in Seq(RunsOf(keys)), NEW e, EndsAt(s, e, keys, n), e[0] = 0,
         \A j \in 1..Len(s) : s[j].n >= 1
  PROVE  \E f : /\ EndsAt(Queued(s, keys[n + 1]), f, keys, n + 1) /\ f[0] = 0
                /\ \A j \in 1..Len(Queued(s, keys[n + 1])) :
                     Queued(s, keys[n + 1])[j].n >= 1
<1> DEFINE i == n + 1
           t == Queued(s, keys[i])
<1>1. i \in DOMAIN keys /\ n \in Nat /\ Len(s) \in Nat
  OBVIOUS
<1>7. e \in [0..Len(s) -> 0..n]
  BY Zenon DEF EndsAt
<1>2. /\ e \in [0..Len(s) -> Nat] /\ e[Len(s)] = n
      /\ \A j \in 1..Len(s) : e[j] = e[j - 1] + s[j].n
      /\ \A j \in 1..Len(s) : \A k \in (e[j - 1] + 1)..e[j] : keys[k] = s[j].b
  BY <1>7 DEF EndsAt
<1>3. \A j \in 1..Len(s) : s[j].n \in Nat
  <2>1. \A j \in 1..Len(s) : s[j] \in RunsOf(keys)
    BY SeqElement, Zenon
  <2> QED  BY <2>1, Zenon DEF RunsOf
<1>6. OneMore(s, keys[i], t)
  BY <1>1, QueuedType, Zenon
<1> HIDE DEF t
<1>4. CASE s # <<>> /\ s[Len(s)].b = keys[i]
  <2> DEFINE f == [e EXCEPT ![Len(s)] = i]
  <2>1. /\ Len(t) = Len(s)
        /\ \A j \in 1..Len(s) : /\ t[j].b = s[j].b
                                /\ t[j].n = IF j = Len(s) THEN s[j].n + 1 ELSE s[j].n
    BY <1>4, <1>6, Zenon DEF OneMore
  <2>2. Len(s) >= 1
    BY <1>4
  <2>6. f \in [0..Len(t) -> 0..i]
    BY <1>1, <1>7, <2>1, <2>2
  <2>3. /\ f \in [0..Len(t) -> Nat] /\ f[Len(t)] = i /\ f[0] = 0
        /\ \A j \in 0..Len(s) : j # Len(s) => f[j] = e[j]
    BY <1>1, <1>2, <2>1, <2>2
  <2> HIDE DEF f
  <2>4. ASSUME NEW j \in 1..Len(t)
        PROVE  /\ f[j] = f[j - 1] + t[j].n
               /\ \A k \in (f[j - 1] + 1)..f[j] : keys[k] = t[j].b
               /\ t[j].n >= 1
    <3>1. j \in 1..Len(s) /\ j \in 0..Len(s) /\ j - 1 \in 0..Len(s) /\ j - 1 # Len(s)
      BY <2>1
    <3>5. f[j - 1] = e[j - 1]
      BY <2>3, <3>1, Zenon
    <3>6. e[j - 1] \in Nat /\ e[j] \in Nat /\ e[j] = e[j - 1] + s[j].n
      BY <1>2, <3>1, Zenon
    <3>2. t[j].b = s[j].b /\ s[j].n \in Nat /\ s[j].n >= 1
      BY <1>3, <2>1, <3>1
    <3>3. CASE j = Len(s)
      <4>1. e[j] = n /\ f[j] = n + 1 /\ t[j].n = s[j].n + 1 /\ keys[n + 1] = t[j].b
        BY <1>2, <1>4, <2>1, <2>3, <3>1, <3>3, SMTT(30)
      <4>2. \A k \in (f[j - 1] + 1)..f[j] : k = n + 1 \/ k \in (e[j - 1] + 1)..e[j]
        BY <3>5, <3>6, <4>1, SMTT(30)
      <4>3. \A k \in (f[j - 1] + 1)..f[j] : keys[k] = t[j].b
        BY <1>2, <3>1, <3>2, <4>1, <4>2, SMTT(30)
      <4>4. f[j] = f[j - 1] + t[j].n /\ t[j].n >= 1
        <5>2. n = e[j - 1] + s[j].n /\ e[j - 1] \in Nat /\ s[j].n \in Nat
          BY <3>2, <3>6, <4>1, SMTT(30)
        <5>3. \A x, y \in Nat : n = x + y => n + 1 = x + (y + 1) /\ y + 1 >= 1
          OBVIOUS
        <5>1. n + 1 = e[j - 1] + (s[j].n + 1) /\ s[j].n + 1 >= 1
          BY <5>2, <5>3, Zenon
        <5> QED  BY <3>5, <4>1, <5>1, SMTT(30)
      <4> QED  BY <4>3, <4>4, Zenon
    <3>4. CASE j # Len(s)
      <4>1. f[j] = e[j] /\ t[j].n = s[j].n
        BY <2>1, <2>3, <3>1, <3>4, SMTT(30)
      <4>2. \A k \in (f[j - 1] + 1)..f[j] : keys[k] = t[j].b
        BY <1>2, <3>1, <3>2, <3>5, <4>1, SMTT(30)
      <4> QED  BY <3>2, <3>5, <3>6, <4>1, <4>2, SMTT(30)
    <3> QED  BY <3>3, <3>4, Zenon
  <2>5. EndsAt(t, f, keys, n + 1)
    BY <2>3, <2>4, <2>6, Zenon DEF EndsAt
  <2> QED  BY <2>3, <2>4, <2>5 DEF t
<1>5. CASE ~(s # <<>> /\ s[Len(s)].b = keys[i])
  <2> DEFINE f == [j \in 0..(Len(s) + 1) |-> IF j = Len(s) + 1 THEN i ELSE e[j]]
  <2>1. /\ Len(t) = Len(s) + 1
        /\ \A j \in 1..Len(s) : t[j] = s[j]
        /\ t[Len(s) + 1] = [b |-> keys[i], n |-> 1]
    BY <1>5, <1>6, Zenon DEF OneMore
  <2>2. \A j \in 0..(Len(s) + 1) : j # Len(s) + 1 => j \in 0..Len(s)
    BY <1>1
  <2>6. f \in [0..Len(t) -> 0..i]
    BY <1>1, <1>7, <2>1, <2>2, SMTT(30)
  <2>3. /\ f \in [0..Len(t) -> Nat] /\ f[Len(t)] = i /\ f[0] = 0
        /\ \A j \in 0..Len(s) : f[j] = e[j]
    BY <1>1, <1>2, <2>1, <2>2
  <2> HIDE DEF f
  <2>4. ASSUME NEW j \in 1..Len(t)
        PROVE  /\ f[j] = f[j - 1] + t[j].n
               /\ \A k \in (f[j - 1] + 1)..f[j] : keys[k] = t[j].b
               /\ t[j].n >= 1
    <3>1. j - 1 \in 0..Len(s)
      BY <1>1, <2>1
    <3>2. f[j - 1] = e[j - 1] /\ e[j - 1] \in Nat
      BY <1>2, <2>3, <3>1, Zenon
    <3>3. CASE j = Len(s) + 1
      <4>1. j - 1 = Len(s)
        BY <1>1, <3>3
      <4>2. e[j - 1] = n /\ f[j] = n + 1 /\ t[j].n = 1 /\ t[j].b = keys[n + 1]
        BY <1>2, <2>1, <2>3, <3>3, <4>1
      <4>3. \A k \in (f[j - 1] + 1)..f[j] : k = n + 1
        BY <1>1, <3>2, <4>2, SMTT(30)
      <4> QED  BY <1>1, <3>2, <4>2, <4>3, SMTT(30)
    <3>4. CASE j # Len(s) + 1
      <4>1. j \in 1..Len(s) /\ j \in 0..Len(s)
        BY <1>1, <2>1, <3>4
      <4>2. f[j] = e[j] /\ t[j] = s[j]
        BY <2>1, <2>3, <4>1, Zenon
      <4> QED  BY <1>2, <3>2, <4>1, <4>2, SMTT(30)
    <3> QED  BY <3>3, <3>4, Zenon
  <2>5. EndsAt(t, f, keys, n + 1)
    BY <2>3, <2>4, <2>6, SMTT(30) DEF EndsAt
  <2> QED  BY <2>3, <2>4, <2>5, Zenon DEF t
<1> QED  BY <1>4, <1>5, Zenon

\* The constructor's queue stands for the keys of the MGET.
LEMMA RunsStandForKeys ==
  ASSUME NEW keys, keys \in Seq({keys[i] : i \in DOMAIN keys})
  PROVE  /\ Runs(keys) \in Seq(RunsOf(keys))
         /\ \E e : /\ EndsAt(Runs(keys), e, keys, Len(keys)) /\ e[0] = 0
                   /\ \A j \in 1..Len(Runs(keys)) : Runs(keys)[j].n >= 1
<1> DEFINE m == Len(keys)
           f == CHOOSE g : g = [i \in 0..m |-> IF i = 0 THEN <<>>
                                               ELSE Queued(g[i - 1], keys[i])]
<1>1. m \in Nat /\ DOMAIN keys = 1..m
  OBVIOUS
<1>2. f = [i \in 0..m |-> IF i = 0 THEN <<>> ELSE Queued(f[i - 1], keys[i])]
  <2>1. PICK g : Builds(g, keys, m)
    BY <1>1, Buildable, Zenon
  <2>2. \A i \in 0..m : g[i] = IF i = 0 THEN <<>> ELSE Queued(g[i - 1], keys[i])
    BY <1>1, <2>1 DEF Builds
  <2>3. g = [i \in 0..m |-> g[i]]
    BY <2>1, Zenon DEF Builds
  <2>4. g = [i \in 0..m |-> IF i = 0 THEN <<>> ELSE Queued(g[i - 1], keys[i])]
    BY <2>2, <2>3, Zenon
  <2> QED  BY <2>4, Zenon
<1>3. Runs(keys) = f[m]
  BY Zenon DEF Runs
<1> HIDE DEF f
<1> DEFINE Good(n) ==
             /\ f[n] \in Seq(RunsOf(keys))
             /\ \E e : /\ EndsAt(f[n], e, keys, n) /\ e[0] = 0
                       /\ \A j \in 1..Len(f[n]) : f[n][j].n >= 1
           T == {n \in 0..m : Good(n)}
<1>4. 0 \in T
  <2>1. f[0] = <<>>
    BY <1>1, <1>2
  <2>2. EndsAt(<<>>, [j \in 0..0 |-> 0], keys, 0)
    BY DEF EndsAt
  <2>3. \E e : /\ EndsAt(f[0], e, keys, 0) /\ e[0] = 0
               /\ \A j \in 1..Len(f[0]) : f[0][j].n >= 1
    <3>1. [j \in 0..0 |-> 0][0] = 0 /\ 1..Len(<<>>) = {}
      OBVIOUS
    <3> QED  BY <2>1, <2>2, <3>1, Zenon
  <2>4. f[0] \in Seq(RunsOf(keys)) /\ 0 \in 0..m
    BY <1>1, <2>1
  <2> QED  BY <2>3, <2>4, Zenon
<1>5. ASSUME NEW n \in 0..m, n < m, n \in T
      PROVE  n + 1 \in T
  <2>1. n + 1 \in 0..m /\ n + 1 # 0 /\ (n + 1) - 1 = n /\ n + 1 \in DOMAIN keys
    BY <1>1, <1>5
  <2>2. f[n + 1] = Queued(f[n], keys[n + 1])
    BY <1>2, <2>1, Zenon
  <2>3. f[n] \in Seq(RunsOf(keys))
    BY <1>5, Zenon
  <2>4. PICK e : /\ EndsAt(f[n], e, keys, n) /\ e[0] = 0
                 /\ \A j \in 1..Len(f[n]) : f[n][j].n >= 1
    BY <1>5, Zenon
  <2>5. f[n + 1] \in Seq(RunsOf(keys))
    <3>1. Queued(f[n], keys[n + 1]) \in Seq(RunsOf(keys))
      BY <2>1, <2>3, QueuedType
    <3> QED  BY <2>2, <3>1, Zenon
  <2>6. \E h : /\ EndsAt(Queued(f[n], keys[n + 1]), h, keys, n + 1) /\ h[0] = 0
               /\ \A j \in 1..Len(Queued(f[n], keys[n + 1])) :
                    Queued(f[n], keys[n + 1])[j].n >= 1
    BY <1>1, <1>5, <2>3, <2>4, OneMoreKey, Zenon
  <2> QED  BY <2>1, <2>2, <2>5, <2>6, Zenon
<1>6. m \in 0..m
  BY <1>1
<1>7. m \in T
  <2> HIDE DEF T
  <2> QED  BY <1>1, <1>4, <1>5, <1>6, InductionUpTo, Zenon
<1> QED  BY <1>3, <1>7, Zenon

-----------------------------------------------------------------------------
(* Counting keys.                                                          *)

LEMMA CountType ==
  ASSUME NEW b, NEW i \in Nat
  PROVE  /\ IsFiniteSet({h \in 1..i : owners[h] = b}) /\ Cnt(b, i) \in Nat
<1>1. IsFiniteSet(1..i)
  <2>1. 1 \in Int /\ i \in Int
    OBVIOUS
  <2> QED  BY <2>1, FS_Interval, Zenon
<1>2. {h \in 1..i : owners[h] = b} \subseteq 1..i
  BY Zenon
<1>3. IsFiniteSet({h \in 1..i : owners[h] = b})
  BY <1>1, <1>2, FS_Subset, Zenon
<1> QED  BY <1>3, FS_CardinalityType, Zenon DEF Cnt, CountIn

LEMMA CntZero ==
  ASSUME NEW b
  PROVE  Cnt(b, 0) = 0
<1>1. {h \in 1..0 : owners[h] = b} = {}
  OBVIOUS
<1> QED  BY <1>1, FS_EmptySet, Zenon DEF Cnt, CountIn

\* The next k keys are of backend b.
LEMMA CountAdds ==
  ASSUME NEW b, NEW p \in Nat, NEW k \in Nat,
         \A i \in (p + 1)..(p + k) : owners[i] = b
  PROVE  /\ Cnt(b, p + k) = Cnt(b, p) + k
         /\ \A c : c # b => Cnt(c, p + k) = Cnt(c, p)
<1> DEFINE S == {h \in 1..p : owners[h] = b}
           I == (p + 1)..(p + k)
<1>1. {h \in 1..(p + k) : owners[h] = b} = S \cup I
  <2>1. \A h \in 1..(p + k) : h \in 1..p \/ h \in I
    OBVIOUS
  <2>2. 1..p \subseteq 1..(p + k) /\ I \subseteq 1..(p + k)
    OBVIOUS
  <2> QED  BY <2>1, <2>2, Zenon
<1>2. S \cap I = {}
  OBVIOUS
<1>3. IsFiniteSet(S) /\ Cardinality(S) \in Nat
  BY CountType, Zenon DEF Cnt, CountIn
<1>4. IsFiniteSet(I) /\ Cardinality(I) = k
  <2>1. p + 1 \in Int /\ p + k \in Int
    OBVIOUS
  <2>2. /\ IsFiniteSet(I)
        /\ Cardinality(I) = IF p + 1 > p + k THEN 0 ELSE (p + k) - (p + 1) + 1
    BY <2>1, FS_Interval, Zenon
  <2> QED  BY <2>2
<1> HIDE DEF S, I
<1>5. Cardinality(S \cup I) = Cardinality(S) + k
  <2>1. Cardinality(S \cup I)
          = Cardinality(S) + Cardinality(I) - Cardinality(S \cap I)
    BY <1>3, <1>4, FS_Union, Zenon
  <2>2. Cardinality(S \cap I) = 0
    BY <1>2, FS_EmptySet, Zenon
  <2> QED  BY <1>3, <1>4, <2>1, <2>2, SMTT(30)
<1>6. Cnt(b, p + k) = Cnt(b, p) + k
  BY <1>1, <1>5, Zenon DEF Cnt, CountIn, S
<1>7. ASSUME NEW c, c # b
      PROVE  Cnt(c, p + k) = Cnt(c, p)
  <2>1. {h \in 1..(p + k) : owners[h] = c} = {h \in 1..p : owners[h] = c}
    <3>1. \A h \in 1..(p + k) : h \in 1..p \/ h \in (p + 1)..(p + k)
      OBVIOUS
    <3>2. 1..p \subseteq 1..(p + k)
      OBVIOUS
    <3> QED  BY <1>7, <3>1, <3>2, Zenon
  <2> QED  BY <2>1, Zenon DEF Cnt, CountIn
<1> QED  BY <1>6, <1>7, Zenon

LEMMA CountBounds ==
  ASSUME owners \in Seq(Backends), NEW b \in Backends, NEW p \in 0..Len(owners)
  PROVE  /\ key_count(b) \in Nat \ {0} /\ Cnt(b, Len(owners)) = key_count(b)
         /\ Cnt(b, p) <= key_count(b)
<1> DEFINE N == Len(owners)
           S == {h \in 1..p : owners[h] = b}
           A == {h \in 1..N : owners[h] = b}
<1>1. N \in Nat /\ DOMAIN owners = 1..N
  BY SeqLen, Zenon
<1>2. key_count(b) = Cnt(b, N)
  BY <1>1, Zenon DEF key_count, Cnt, CountIn
<1>3. /\ IsFiniteSet(A) /\ Cardinality(A) \in Nat
      /\ IsFiniteSet(S) /\ Cardinality(S) \in Nat
  <2>1. p \in Nat
    BY <1>1
  <2> QED  BY <1>1, <2>1, CountType, Zenon DEF Cnt, CountIn
<1>4. S \subseteq A
  BY <1>1
<1>5. A # {}
  BY <1>1, Zenon DEF Backends
<1> HIDE DEF S, A
<1>6. Cardinality(S) <= Cardinality(A) /\ Cardinality(A) # 0
  BY <1>3, <1>4, <1>5, FS_Subset, FS_EmptySet, Zenon
<1>7. Cnt(b, p) = Cardinality(S) /\ key_count(b) = Cardinality(A)
  BY <1>2, Zenon DEF S, A, Cnt, CountIn
<1> QED  BY <1>2, <1>3, <1>6, <1>7

LEMMA CountsHold ==
  ASSUME owners \in Seq(Backends)
  PROVE  CountsUp(owners, Backends)
<1>1. \A b : \A i \in Nat : Cnt(b, i) \in Nat
  BY CountType, Zenon
<1>2. \A b : \A p, k \in Nat :
        (\A i \in (p + 1)..(p + k) : owners[i] = b) =>
          /\ Cnt(b, p + k) = Cnt(b, p) + k
          /\ \A c : c # b => Cnt(c, p + k) = Cnt(c, p)
  BY CountAdds, Zenon
<1>3. \A b \in Backends :
        /\ Cnt(b, Len(owners)) # 0
        /\ \A p \in 0..Len(owners) : Cnt(b, p) <= Cnt(b, Len(owners))
  <2>1. 0 \in 0..Len(owners)
    BY SeqLen
  <2> QED  BY <2>1, CountBounds, Zenon
<1> QED  BY <1>1, <1>2, <1>3, Zenon DEF CountsUp, Cnt

-----------------------------------------------------------------------------
(* At first.                                                               *)

LEMMA InitHolds ==
  ASSUME Init
  PROVE  MgetInv
<1>1. /\ owners \in Queries /\ first \in BOOLEAN
      /\ prefix = (IF first THEN "writing" ELSE "no")
  BY Zenon DEF Init
<1>2. /\ owners \in Seq(Backends) /\ owners # <<>>
      /\ \A i \in DOMAIN owners : owners[i] # "none"
  BY <1>1, QueriesAssumption, Zenon DEF Backends
<1>3. Keyed
  <2>1. "none" \notin Backends
    BY <1>2, Zenon DEF Backends
  <2>2. CountsUp(owners, Backends)
    BY <1>2, CountsHold, Zenon
  <2> QED  BY <1>2, <2>1, <2>2 DEF Keyed
<1>4. /\ Runs(owners) \in Seq(RunsOf(owners))
      /\ \E e : /\ EndsAt(Runs(owners), e, owners, Len(owners)) /\ e[0] = 0
                /\ \A j \in 1..Len(Runs(owners)) : Runs(owners)[j].n >= 1
  BY <1>2, RunsStandForKeys, Zenon DEF Backends
<1>5. PICK e : /\ EndsAt(Runs(owners), e, owners, Len(owners)) /\ e[0] = 0
               /\ \A j \in 1..Len(Runs(owners)) : Runs(owners)[j].n >= 1
  BY <1>4, Zenon
<1>6. /\ World.io = [b \in Backends |-> "query"]
      /\ World.rcv = [b \in Backends |-> 0] /\ World.par = [b \in Backends |-> 0]
      /\ World.pro = [b \in Backends |-> 0] /\ World.absent = [b \in Backends |-> 0]
      /\ World.complete = {} /\ World.bad = {} /\ World.writing = NoWrite
      /\ World.replying = "none" /\ World.waiting = Runs(owners)
      /\ World.over = "no" /\ World.failed = FALSE
  BY WorldIs, Zenon DEF Init
<1>7. World \in Worlds
  <2>1. World.io \in Ios /\ World.rcv \in Counts /\ World.par \in Counts
        /\ World.pro \in Counts /\ World.absent \in Counts
    BY <1>6 DEF Ios, Counts
  <2>2. World.writing \in Writes /\ World.waiting \in Queues
    BY <1>4, <1>6 DEF NoWrite, Writes, Queues
  <2>3. World.complete \in SUBSET Backends /\ World.bad \in SUBSET Backends
        /\ World.replying \in Backends \cup {"none"}
        /\ World.over \in {"no", "done", "aborted"} /\ World.failed \in BOOLEAN
    BY <1>6, Zenon
  <2> QED  BY <2>1, <2>2, <2>3, WorldIs, SMTT(30) DEF World, Worlds
<1>8. Len(owners) \in Nat /\ Len(owners) # 0 /\ Len(Runs(owners)) \in Nat
  BY <1>3, <1>4, KeysOf, SeqLen, Zenon
<1>9. Runs(owners) # <<>>
  <2> SUFFICES ASSUME Runs(owners) = <<>> PROVE FALSE
    BY Zenon
  <2>1. Len(Runs(owners)) = 0
    BY SeqEmpty, Zenon
  <2> QED  BY <1>5, <1>8, <2>1, Zenon DEF EndsAt
<1>10. Lined(World, e)
  BY <1>5, <1>6, <1>8 DEF Lined
<1>11. ASSUME NEW b \in Backends
       PROVE  Account(World, e[0], b) /\ Level(World, e[0], b)
  <2>1. Cnt(b, e[0]) = 0
    BY <1>5, CntZero, Zenon
  <2>2. Full(b) \in Nat /\ Full(b) # 0
    <3>1. Full(b) = 2 * key_count(b) + 1 /\ key_count(b) \in Nat
      BY <1>3, <1>8, CntBounds, SMTT(30)
    <3> QED  BY <3>1
  <2>3. /\ World.rcv[b] = 0 /\ World.par[b] = 0 /\ World.pro[b] = 0
        /\ World.absent[b] = 0 /\ World.io[b] = "query" /\ b \notin World.complete
    BY <1>6, Zenon
  <2> QED  BY <2>1, <2>2, <2>3 DEF Account, Tallied, Level
<1>12. FrontBusy(World)
  <2>1. World.waiting[1].n > 0
    <3>1. 1 \in 1..Len(Runs(owners)) /\ Runs(owners)[1] \in RunsOf(owners)
      BY <1>4, <1>8, <1>9, SeqEmpty, SeqElement, SMTT(30)
    <3>2. Runs(owners)[1].n >= 1 /\ Runs(owners)[1].n \in Nat
      BY <1>5, <3>1, Zenon DEF RunsOf
    <3> QED  BY <1>6, <3>2
  <2> QED  BY <2>1, Zenon DEF FrontBusy
<1>13. Ending(World) /\ out = <<>>
  BY <1>6, <1>9, Zenon DEF Ending, Init
<1>14. Written(World, e[0], out) /\ Given(World, out)
  <2>1. Len(out) = 0 /\ DOMAIN out = {} /\ out \in Seq(Units)
    BY <1>13
  <2>2. \A b \in Backends : World.par[b] = 0 /\ World.rcv[b] = 0
    BY <1>6, Zenon
  <2>3. Idle(World, e[0], out)
    BY <1>5, <2>1, <2>2, SMTT(30) DEF Idle
  <2> QED  BY <1>6, <2>1, <2>3, Zenon DEF Written, Given
<1>15. Sound(World, e, out)
  BY <1>6, <1>7, <1>10, <1>11, <1>12, <1>13, <1>14, SMTT(30) DEF Sound
<1>16. Began(World, prefix)
  BY <1>6, Zenon DEF Began
<1> QED  BY <1>1, <1>3, <1>15, <1>16, Zenon DEF MgetInv

-----------------------------------------------------------------------------
(* What the invariant says.                                                *)

\* With an empty queue every key has been parsed, and to its end.
LEMMA AllParsedAtEnd ==
  ASSUME Keyed, NEW w, NEW e, NEW o, Sound(w, e, o), w.over = "done"
  PROVE  /\ e[0] = Len(owners) /\ w.writing = NoWrite
         /\ \A b \in Backends : w.par[b] <= w.rcv[b]
<1>1. w.waiting = <<>> /\ w.writing = NoWrite
  BY Zenon DEF Sound, Ending
<1>2. Len(w.waiting) = 0
  BY <1>1
<1>3. e[0] = Len(owners)
  BY <1>2, Zenon DEF Sound, Lined, EndsAt
<1>4. \A b \in Backends : ~InFront(w, b)
  BY <1>1, Zenon DEF InFront
<1>5. \A b \in Backends : w.par[b] <= w.rcv[b]
  BY <1>4, Zenon DEF Sound, Level
<1> QED  BY <1>1, <1>3, <1>5, Zenon

\* The client has at most the units of the keys that are parsed.
LEMMA GotBounded ==
  ASSUME Keyed, NEW w, NEW e, NEW o, Sound(w, e, o)
  PROVE  Len(o) <= 2 * e[0]
<1>1. e[0] \in Nat /\ w \in Worlds
  BY PlaceType, Zenon DEF Sound
<1>2. CASE w.writing = NoWrite
  <2>1. Idle(w, e[0], o)
    BY <1>2, Zenon DEF Sound, Written
  <2>2. CASE \A b \in Backends : w.par[b] <= w.rcv[b]
    BY <1>1, <2>1, <2>2 DEF Idle
  <2>3. CASE \E b \in Backends : ~(w.par[b] <= w.rcv[b])
    <3>1. PICK b \in Backends : ~(w.par[b] <= w.rcv[b])
      BY <2>3, Zenon
    <3>2. w.par[b] > w.rcv[b]
      BY <1>1, <3>1, Numbers
    <3>3. Len(o) = 2 * e[0] - 1
      BY <2>1, <3>2, Zenon DEF Idle
    <3> QED  BY <1>1, <3>3
  <2> QED  BY <2>2, <2>3, Zenon
<1>3. CASE w.writing # NoWrite
  <2> DEFINE b == w.writing.from
  <2>1. Busy(w, e[0], o, b)
    BY <1>3, Zenon DEF Sound, Written
  <2> HIDE DEF b
  <2>2. /\ b \in Backends /\ w.writing.lo \in 2..w.writing.hi
        /\ w.writing.hi = w.pro[b]
        /\ Len(o) = 2 * e[0] - w.par[b] + w.writing.lo - 1
    BY <2>1, Zenon DEF Busy
  <2>3. w.rcv[b] \in Nat /\ w.par[b] \in Nat /\ w.pro[b] \in Nat
    BY <1>1, <2>2, Numbers, Zenon
  <2>4. Level(w, e[0], b)
    BY <2>2, Zenon DEF Sound
  <2>5. w.pro[b] <= w.par[b]
    BY <2>3, <2>4 DEF Level
  <2>6. w.writing.lo \in Nat /\ w.writing.lo <= w.par[b]
    <3>1. w.writing.lo \in 2..w.pro[b]
      BY <2>2, Zenon
    <3> QED  BY <2>3, <2>5, <3>1
  <2>7. \A x, y, z \in Nat : y <= x => 2 * z - x + y - 1 <= 2 * z
    OBVIOUS
  <2> QED  BY <1>1, <2>2, <2>3, <2>6, <2>7, SMTT(30)
<1> QED  BY <1>2, <1>3, Zenon

LEMMA InOrder ==
  ASSUME MgetInv
  PROVE  ValuesInKeyOrder
<1> DEFINE N == Len(owners)
<1>1. Keyed
  BY Zenon DEF MgetInv
<1>2. PICK e : Sound(World, e, out)
  BY Zenon DEF MgetInv
<1>3. N \in Nat /\ e[0] \in 0..N /\ e[0] \in Nat
  BY <1>1, <1>2, KeysOf, PlaceType
<1>4. Given(World, out) /\ Len(out) <= 2 * e[0]
  BY <1>1, <1>2, GotBounded, Zenon DEF Sound
<1>5. out \in Seq(Units) /\ Len(out) \in Nat /\ DOMAIN out = 1..Len(out)
  BY <1>4 DEF Given
<1> HIDE DEF N
<1>6. Len(Expected) = 2 * N
  <2>1. 2 * N \in Nat /\ DOMAIN Expected = 1..(2 * N)
    BY <1>3 DEF Expected, N
  <2>2. Expected = [k \in 1..(2 * N) |-> Expected[k]]
    BY <2>1, Zenon DEF Expected, N
  <2> HIDE DEF N
  <2> QED  BY <2>1, <2>2
<1>7. Len(out) <= Len(Expected)
  BY <1>3, <1>4, <1>5, <1>6
<1>8. ASSUME over = "done" PROVE Len(out) = Len(Expected)
  <2>1. /\ e[0] = N /\ World.writing = NoWrite
        /\ \A b \in Backends : World.par[b] <= World.rcv[b]
    BY <1>1, <1>2, <1>8, WorldIs, AllParsedAtEnd, SMTT(30) DEF N
  <2>2. Len(out) = 2 * e[0]
    BY <1>2, <2>1, SMTT(30) DEF Sound, Written, Idle
  <2> QED  BY <1>6, <2>1, <2>2
<1>9. ASSUME NEW k \in DOMAIN out, k % 2 = 0
      PROVE  out[k].nil = out[k - 1].nil
  <2>1. k \in Nat /\ k >= 1 /\ k <= 2 * N
    BY <1>3, <1>4, <1>5, <1>9
  <2>2. PICK i \in Nat : k = 2 * i
    <3>1. k \div 2 \in Nat /\ k = 2 * (k \div 2) + (k % 2)
      BY <2>1
    <3> QED  BY <1>9, <2>1, <3>1
  <2>3. i >= 1 /\ i <= N
    BY <1>3, <2>1, <2>2
  <2>4. k - 1 \in DOMAIN out /\ k - 1 \in 1..(2 * N) /\ k \in 1..(2 * N)
    BY <1>3, <1>5, <1>9, <2>1, <2>2, <2>3, SMTT(30)
  <2>5. (k + 1) \div 2 = i /\ (k - 1 + 1) \div 2 = i
    <3>1. \A x \in Nat : (2 * x + 1) \div 2 = x /\ (2 * x) \div 2 = x
      OBVIOUS
    <3>2. k + 1 = 2 * i + 1 /\ k - 1 + 1 = 2 * i
      BY <2>2
    <3> QED  BY <3>1, <3>2, Zenon
  <2>6. Expected[k][1] = owners[i] /\ Expected[k - 1][1] = owners[i]
    BY <2>4, <2>5, Zenon DEF Expected, N
  <2>7. out[k].b = owners[i] /\ out[k - 1].b = owners[i]
    <3>1. <<out[k].b, out[k].unit>> = Expected[k]
          /\ <<out[k - 1].b, out[k - 1].unit>> = Expected[k - 1]
      BY <1>4, <1>9, <2>4, Zenon DEF Given
    <3> QED  BY <2>6, <3>1
  <2> QED  BY <1>4, <1>9, <2>4, <2>7, SMTT(30) DEF Given
<1>10. \A k \in DOMAIN out : <<out[k].b, out[k].unit>> = Expected[k]
  BY <1>4, Zenon DEF Given
<1> QED  BY <1>7, <1>8, <1>9, <1>10 DEF ValuesInKeyOrder

LEMMA Exact ==
  ASSUME MgetInv
  PROVE  CompleteIsExact
<1>1. Keyed
  BY Zenon DEF MgetInv
<1>2. PICK e : Sound(World, e, out)
  BY Zenon DEF MgetInv
<1>3. ASSUME NEW b \in Backends
      PROVE  b \in complete => rcv[b] = Full(b)
  <2>1. Account(World, e[0], b)
    BY <1>2, Zenon DEF Sound
  <2> QED  BY <2>1, WorldIs, Zenon DEF Account
<1>4. ASSUME NEW b \in Backends, over = "done"
      PROVE  b \in complete
  <2>1. e[0] = Len(owners) /\ World.par[b] <= World.rcv[b]
    BY <1>1, <1>2, <1>4, WorldIs, AllParsedAtEnd, SMTT(30)
  <2>2. Account(World, e[0], b) /\ World \in Worlds
    BY <1>2, Zenon DEF Sound
  <2>3. /\ Cnt(b, e[0]) = key_count(b) /\ key_count(b) \in Nat /\ key_count(b) >= 1
        /\ Full(b) = 2 * key_count(b) + 1
    BY <1>1, <1>2, <2>1, PlaceType, CntBounds, Zenon
  <2>4. World.par[b] = Full(b) /\ World.rcv[b] \in 0..Full(b)
    BY <2>2, <2>3 DEF Account, Tallied
  <2>5. World.rcv[b] = Full(b)
    BY <2>1, <2>3, <2>4
  <2> QED  BY <2>2, <2>4, <2>5, WorldIs, Zenon DEF Account
<1> QED  BY <1>3, <1>4, Zenon DEF CompleteIsExact

\* The inductive invariant of an MGET: the runs in waiting_reply_queue_ cover
\* the keys that are left, each backend has been parsed up to the keys before
\* them, and the client has got the units of those keys, for MGETs of any
\* keys and replies cut anywhere.
THEOREM MgetInvariant == Spec => []MgetInv
<1>1. Init => MgetInv
  BY InitHolds, Zenon
<1>2. MgetInv /\ [Next]_vars => MgetInv'
  BY NextKeeps
<1> QED  BY <1>1, <1>2, PTL DEF Spec

\* The asserts of OnWriteReplyFinished, NextBackendStartReply and ParseReply
\* on the queue of backends never fail.
THEOREM QueueAssertsHold == Spec => []NoAssertFails
<1>1. MgetInv => NoAssertFails
  BY WorldIs, SMTT(30) DEF MgetInv, Sound, NoAssertFails
<1> QED  BY <1>1, MgetInvariant, PTL

\* The client gets each value from the backend that owns its key, in the order
\* of the keys, no value is half a nil bulk of the proxy's, and a command that
\* RotateReplyingBackend finds at its end has answered every key.
THEOREM MgetValuesInOrder == Spec => []ValuesInKeyOrder
<1>1. MgetInv => ValuesInKeyOrder
  BY InOrder, SMTT(30)
<1> QED  BY <1>1, MgetInvariant, PTL

\* ParseReply sets reply_recv_complete_ with a backend's last unit, never
\* before, and has set it for every backend when the command ends.
THEOREM MgetCompleteExact == Spec => []CompleteIsExact
<1>1. MgetInv => CompleteIsExact
  BY Exact
<1> QED  BY <1>1, MgetInvariant, PTL
=============================================================================
