--------------------------- MODULE RedisDelProofs ---------------------------
(***************************************************************************)
(* DEL, EXISTS and TOUCH for every sequence of backends: the asserts hold, *)
(* the client's buffer is locked for what is being sent from it, and the   *)
(* reply goes out when everything is settled.                              *)
(***************************************************************************)
EXTENDS RedisDel, FiniteSetTheorems, WellFoundedInduction, TLAPS

-----------------------------------------------------------------------------
(* The inductive invariant.                                                *)

Subqueries == [keys : SUBSET Nat, io : {"query", "reply", "none", "released"},
               answer : Nat]

Worlds == [reading : BOOLEAN, received : Nat, parsed : Nat,
           subs : Seq(Subqueries), total : Nat, lock : Int, replying : Nat,
           writing : Nat, count : Nat, over : {"no", "done", "aborted"},
           failed : BOOLEAN]

QuerySet(w) == {b \in DOMAIN w.subs : w.subs[b].io = "query"}

KeysOf(s) == UNION {s[b].keys : b \in DOMAIN s}

\* The keys that have arrived have been sent, and the client is read only
\* for more of them.
Reading(w) ==
  /\ w.received \in 2..(2 * Len(owners)) /\ w.parsed = w.received \div 2
  /\ w.reading => w.parsed < Len(owners)
  /\ KeysOf(w.subs) = 1..w.parsed

\* Subquery b has the reply, and there is nothing else to wait for.
Carries(w, b, f) ==
  /\ w.parsed = Len(owners) /\ w.count = w.total
  /\ \A c \in DOMAIN w.subs : c # b => w.subs[c].io = "released"
  /\ (IF f THEN w.writing ELSE w.replying) = b

\* Only the subquery that has the reply is written or waits for its turn.
Replying(w, f) ==
  w.over # "done" =>
    /\ w.writing # 0 =>
         f /\ w.writing \in DOMAIN w.subs /\ w.subs[w.writing].io = "none"
    /\ w.replying # 0 =>
         w.replying \in DOMAIN w.subs /\ w.subs[w.replying].io = "none"
    /\ \A b \in DOMAIN w.subs : w.subs[b].io = "none" => Carries(w, b, f)

Sound(w, f) ==
  /\ w \in Worlds /\ Reading(w) /\ Replying(w, f)
  /\ ~w.failed /\ (w.over = "done" => w.writing = 0)

DelInv ==
  /\ owners \in Queries /\ first \in BOOLEAN /\ ahead \in BOOLEAN
  /\ Sound(World, first)
  /\ lock = Cardinality(QuerySet(World))

-----------------------------------------------------------------------------
(* Sequences.                                                              *)

LEMMA SeqElement ==
  ASSUME NEW S, NEW s \in Seq(S), NEW i \in 1..Len(s)
  PROVE  s[i] \in S
OBVIOUS

LEMMA SeqLen ==
  ASSUME NEW S, NEW s \in Seq(S)
  PROVE  /\ Len(s) \in Nat /\ s \in [1..Len(s) -> S] /\ DOMAIN s = 1..Len(s)
         /\ s # <<>> => Len(s) # 0
OBVIOUS

LEMMA SeqConcat ==
  ASSUME NEW S, NEW s \in Seq(S), NEW t \in Seq(S)
  PROVE  /\ s \o t \in Seq(S) /\ Len(s \o t) = Len(s) + Len(t)
         /\ \A i \in 1..(Len(s) + Len(t)) :
              (s \o t)[i] = IF i <= Len(s) THEN s[i] ELSE t[i - Len(s)]
OBVIOUS

LEMMA SeqExcept ==
  ASSUME NEW S, NEW s \in Seq(S), NEW i \in 1..Len(s), NEW x \in S
  PROVE  /\ [s EXCEPT ![i] = x] \in Seq(S) /\ Len([s EXCEPT ![i] = x]) = Len(s)
         /\ \A j \in 1..Len(s) : [s EXCEPT ![i] = x][j] = IF j = i THEN x ELSE s[j]
OBVIOUS

LEMMA SeqFunction ==
  ASSUME NEW S, NEW n \in Nat, NEW f \in [1..n -> S]
  PROVE  f \in Seq(S) /\ Len(f) = n /\ DOMAIN f = 1..n
OBVIOUS

-----------------------------------------------------------------------------
(* Lemmas about data.                                                      *)

LEMMA OwnersFacts ==
  ASSUME owners \in Queries
  PROVE  Len(owners) \in Nat \ {0} /\ DOMAIN owners = 1..Len(owners)
<1>1. owners \in Seq({owners[i] : i \in DOMAIN owners}) /\ owners # <<>>
  BY QueriesAssumption, Zenon
<1> QED  BY <1>1, SeqLen, Zenon

\* Listed lists a finite set.
LEMMA ListedIs ==
  ASSUME NEW S, IsFiniteSet(S)
  PROVE  /\ Cardinality(S) \in Nat
         /\ Listed(S) \in [1..Cardinality(S) -> S]
         /\ \A i, j \in 1..Cardinality(S) : Listed(S)[i] = Listed(S)[j] => i = j
         /\ \A x \in S : \E i \in 1..Cardinality(S) : Listed(S)[i] = x
<1> DEFINE n == Cardinality(S)
<1>1. n \in Nat /\ ExistsBijection(1..n, S)
  BY FS_CardinalityType, Zenon
<1>2. PICK f : f \in Bijection(1..n, S)
  BY <1>1, Zenon DEF ExistsBijection
<1>3. f \in [1..n -> S] /\ \A i, j \in 1..n : f[i] = f[j] => i = j
  BY <1>2, Zenon DEF Bijection, Injection, IsInjective
<1>4. /\ Listed(S) \in [1..n -> S]
      /\ \A i, j \in 1..n : Listed(S)[i] = Listed(S)[j] => i = j
  <2> DEFINE T == [1..n -> S]
             P(q) == \A i, j \in DOMAIN q : q[i] = q[j] => i = j
  <2>1. f \in T /\ P(f)
    BY <1>3
  <2>2. Listed(S) = CHOOSE q \in T : P(q)
    BY Zenon DEF Listed
  <2>3. \A q \in T : DOMAIN q = 1..n
    OBVIOUS
  <2> HIDE DEF T, P
  <2>4. Listed(S) \in T /\ P(Listed(S))
    BY <2>1, <2>2, Zenon
  <2> QED  BY <2>3, <2>4, Zenon DEF T, P
<1>5. Listed(S) \in Injection(1..n, S)
  BY <1>4, Zenon DEF Injection, IsInjective
<1>6. IsFiniteSet(1..n) /\ Cardinality(1..n) = n
  BY <1>1, FS_Interval
<1>7. Listed(S) \in Surjection(1..n, S)
  BY <1>1, <1>5, <1>6, FS_Injection, Zenon
<1> QED  BY <1>1, <1>4, <1>7, Zenon DEF Surjection

\* The subqueries that write are finitely many, and one that stops writing
\* is one less.
LEMMA QuerySetFacts ==
  ASSUME NEW w, w.subs \in Seq(Subqueries)
  PROVE  /\ IsFiniteSet(QuerySet(w)) /\ Cardinality(QuerySet(w)) \in Nat
         /\ IsFiniteSet(pending_subqueries(w))
         /\ \A b \in QuerySet(w) :
              Cardinality(QuerySet(w) \ {b}) = Cardinality(QuerySet(w)) - 1
<1>1. DOMAIN w.subs = 1..Len(w.subs) /\ Len(w.subs) \in Nat
  BY SeqLen, Zenon
<1>2. IsFiniteSet(1..Len(w.subs))
  BY <1>1, FS_Interval
<1>3. QuerySet(w) \in SUBSET (1..Len(w.subs))
       /\ pending_subqueries(w) \in SUBSET (1..Len(w.subs))
  BY <1>1, Zenon DEF QuerySet, pending_subqueries
<1>4. IsFiniteSet(QuerySet(w)) /\ IsFiniteSet(pending_subqueries(w))
  BY <1>2, <1>3, FS_Subset, Zenon
<1> QED  BY <1>4, FS_CardinalityType, FS_RemoveElement, Zenon

LEMMA Becomes ==
  ASSUME NEW w \in Worlds, Become(w)
  PROVE  World' = w
BY Zenon DEF Become, World, Worlds

-----------------------------------------------------------------------------
(* What the functions of the command do to a sound state.                  *)

\* While a subquery is at work none has the reply.
LEMMA NoneCarries ==
  ASSUME NEW w, NEW f \in BOOLEAN, Sound(w, f), w.over # "done",
         NEW b \in DOMAIN w.subs, w.subs[b].io \in {"query", "reply"}
  PROVE  /\ w.writing = 0 /\ w.replying = 0
         /\ \A c \in DOMAIN w.subs : w.subs[c].io # "none"
<1>1. \A c \in DOMAIN w.subs : w.subs[c].io # "none"
  BY Zenon DEF Sound, Replying, Carries
<1> QED  BY <1>1, Zenon DEF Sound, Replying

LEMMA ReadSound ==
  ASSUME NEW w, NEW f \in BOOLEAN, Sound(w, f), owners \in Queries, NEW isAhead
  PROVE  LET v == ReadIfUnlocked(w, isAhead) IN
         Sound(v, f) /\ v.subs = w.subs /\ v.lock = w.lock
<1> DEFINE v == ReadIfUnlocked(w, isAhead)
<1>1. Len(owners) \in Nat
  BY OwnersFacts, Zenon
<1>2. CASE v = w
  BY <1>2, Zenon
<1>3. CASE v = [w EXCEPT !.reading = TRUE] /\ w.parsed # Len(owners)
  <2>1. v \in Worlds
    BY <1>3, Zenon DEF Sound, Worlds
  <2>2. /\ v.subs = w.subs /\ v.lock = w.lock /\ v.received = w.received
        /\ v.parsed = w.parsed /\ v.over = w.over /\ v.writing = w.writing
        /\ v.replying = w.replying /\ v.count = w.count /\ v.total = w.total
        /\ v.failed = w.failed
    BY <1>3, Zenon DEF Sound, Worlds
  <2> HIDE DEF v
  <2>3. Reading(v)
    BY <1>1, <1>3, <2>2 DEF Sound, Reading
  <2>4. Replying(v, f)
    BY <2>2 DEF Sound, Replying, Carries
  <2>5. Sound(v, f) /\ v.subs = w.subs /\ v.lock = w.lock
    BY <2>1, <2>2, <2>3, <2>4, Zenon DEF Sound
  <2> QED  BY <2>5, Zenon DEF v
<1> QED  BY <1>2, <1>3, Zenon DEF ReadIfUnlocked, query_recv_complete

\* A change of one subquery that keeps its keys.
LEMMA SubChanged ==
  ASSUME NEW s \in Seq(Subqueries), NEW b \in DOMAIN s,
         NEW e \in Subqueries, e.keys = s[b].keys
  PROVE  LET t == [s EXCEPT ![b] = e] IN
         /\ t \in Seq(Subqueries) /\ DOMAIN t = DOMAIN s
         /\ \A c \in DOMAIN s : t[c] = IF c = b THEN e ELSE s[c]
         /\ KeysOf(t) = KeysOf(s)
<1> DEFINE t == [s EXCEPT ![b] = e]
<1>1. /\ t \in Seq(Subqueries) /\ DOMAIN t = DOMAIN s
      /\ \A c \in DOMAIN s : t[c] = IF c = b THEN e ELSE s[c]
  BY SeqLen, SeqExcept
<1>2. \A c \in DOMAIN s : t[c].keys = s[c].keys
  BY <1>1, Zenon
<1> HIDE DEF t
<1>3. {t[c].keys : c \in DOMAIN t} = {s[c].keys : c \in DOMAIN s}
  BY <1>1, <1>2, Zenon
<1>4. KeysOf(t) = KeysOf(s)
  BY <1>3, Zenon DEF KeysOf
<1> QED  BY <1>1, <1>4, Zenon DEF t

\* Settling a subquery that is at work.
LEMMA SettleSound ==
  ASSUME NEW w, first \in BOOLEAN, Sound(w, first), w.over = "no",
         owners \in Queries,
         NEW b \in DOMAIN w.subs, w.subs[b].io \in {"query", "reply"}
  PROVE  LET v == Settle(w, b) IN
         /\ Sound(v, first) /\ v.lock = w.lock
         /\ QuerySet(v) = QuerySet(w) \ {b}
<1> DEFINE v == Settle(w, b)
           io == IF IsLast(w) THEN "none" ELSE "released"
           e == [w.subs[b] EXCEPT !.io = io]
<1>1. /\ w.writing = 0 /\ w.replying = 0
      /\ \A c \in DOMAIN w.subs : w.subs[c].io # "none"
  BY NoneCarries, Zenon
<1>2. w \in Worlds /\ w.subs \in Seq(Subqueries)
  BY Zenon DEF Sound, Worlds
<1>3. w.subs[b] \in Subqueries
  BY <1>2, SeqElement, SeqLen, Zenon
<1>4. e \in Subqueries /\ e.keys = w.subs[b].keys /\ e.io = io
  BY <1>3, Zenon DEF Subqueries
<1>5. /\ v.subs = [w.subs EXCEPT ![b] = e] /\ v.lock = w.lock
      /\ v.reading = w.reading /\ v.received = w.received
      /\ v.parsed = w.parsed /\ v.over = w.over /\ v.failed = w.failed
      /\ v.total = w.total
      /\ v.count = (IF IsLast(w) THEN w.total ELSE w.count)
      /\ v.writing = (IF IsLast(w) /\ first THEN b ELSE 0)
      /\ v.replying = (IF IsLast(w) /\ ~first THEN b ELSE 0)
  BY <1>1, <1>2, Zenon DEF Settle, TryWriteReply, Worlds
<1>6. b \in Nat \ {0}
  BY <1>2, SeqLen
<1>7. /\ v.subs \in Seq(Subqueries) /\ DOMAIN v.subs = DOMAIN w.subs
      /\ \A c \in DOMAIN w.subs : v.subs[c] = IF c = b THEN e ELSE w.subs[c]
      /\ KeysOf(v.subs) = KeysOf(w.subs)
  <2> HIDE DEF e, v
  <2> QED  BY <1>2, <1>4, <1>5, SubChanged
<1>8. \A c \in DOMAIN w.subs : v.subs[c].io = IF c = b THEN io ELSE w.subs[c].io
  BY <1>4, <1>7, Zenon
<1>9. v \in Worlds
  <2> DEFINE t == [w.subs EXCEPT ![b] = e]
  <2>1. \/ v = [w EXCEPT !.subs = t, !.count = w.total, !.writing = b]
        \/ v = [w EXCEPT !.subs = t, !.count = w.total, !.replying = b]
        \/ v = [w EXCEPT !.subs = t]
    BY <1>1, <1>2, Zenon DEF Settle, TryWriteReply, Worlds
  <2>2. t \in Seq(Subqueries) /\ w.total \in Nat /\ b \in Nat
    BY <1>2, <1>5, <1>6, <1>7, Zenon DEF Worlds
  <2> HIDE DEF v, t
  <2>3. CASE v = [w EXCEPT !.subs = t, !.count = w.total, !.writing = b]
    BY <1>2, <2>2, <2>3, Zenon DEF Worlds
  <2>4. CASE v = [w EXCEPT !.subs = t, !.count = w.total, !.replying = b]
    BY <1>2, <2>2, <2>4, Zenon DEF Worlds
  <2>5. CASE v = [w EXCEPT !.subs = t]
    BY <1>2, <2>2, <2>5, Zenon DEF Worlds
  <2> QED  BY <2>1, <2>3, <2>4, <2>5, Zenon
<1> HIDE DEF v, e, io
<1>10. Reading(v)
  BY <1>5, <1>7, Zenon DEF Sound, Reading
<1>11. QuerySet(v) = QuerySet(w) \ {b}
  BY <1>7, <1>8, Zenon DEF QuerySet, io
<1>12. ASSUME IsLast(w)
       PROVE  /\ w.parsed = Len(owners)
              /\ \A c \in DOMAIN w.subs : c # b => w.subs[c].io = "released"
  <2>1. IsFiniteSet(pending_subqueries(w))
    BY <1>2, QuerySetFacts, Zenon
  <2>2. PICK x : pending_subqueries(w) = {x}
    BY <1>12, <2>1, FS_Singleton, Zenon DEF IsLast
  <2>3. b \in pending_subqueries(w)
    BY Zenon DEF pending_subqueries
  <2> QED  BY <1>12, <2>2, <2>3 DEF IsLast, query_recv_complete, pending_subqueries
<1>13. Replying(v, first)
  <2>1. CASE IsLast(w)
    <3>1. Carries(v, b, first)
      BY <1>5, <1>7, <1>8, <1>12, <2>1 DEF Carries
    <3> QED  BY <1>1, <1>5, <1>7, <1>8, <2>1, <3>1 DEF Replying, io
  <2>2. CASE ~IsLast(w)
    BY <1>1, <1>5, <1>7, <1>8, <2>2 DEF Replying, io
  <2> QED  BY <2>1, <2>2, Zenon
<1>14. Sound(v, first) /\ v.lock = w.lock
  BY <1>5, <1>9, <1>10, <1>13, Zenon DEF Sound
<1> QED  BY <1>11, <1>14, Zenon DEF v

\* Adding up an answer.
LEMMA ParseSound ==
  ASSUME NEW w, first \in BOOLEAN, Sound(w, first), w.over = "no",
         owners \in Queries,
         NEW b \in DOMAIN w.subs, w.subs[b].io = "reply", NEW n \in Nat
  PROVE  LET v == ParseReply(w, b, n) IN
         /\ Sound(v, first) /\ v.lock = w.lock /\ v.over = "no"
         /\ DOMAIN v.subs = DOMAIN w.subs /\ v.subs[b].io = "reply"
         /\ QuerySet(v) = QuerySet(w)
<1> DEFINE v == ParseReply(w, b, n)
           e == [w.subs[b] EXCEPT !.answer = n]
<1>1. /\ w.writing = 0 /\ w.replying = 0
      /\ \A c \in DOMAIN w.subs : w.subs[c].io # "none"
  BY NoneCarries, Zenon
<1>2. w \in Worlds /\ w.subs \in Seq(Subqueries)
  BY Zenon DEF Sound, Worlds
<1>3. w.subs[b] \in Subqueries
  BY <1>2, SeqElement, SeqLen, Zenon
<1>4. e \in Subqueries /\ e.keys = w.subs[b].keys /\ e.io = "reply"
  BY <1>3, Zenon DEF Subqueries
<1>5. v = [w EXCEPT !.total = w.total + n, !.subs = [w.subs EXCEPT ![b] = e]]
  BY <1>2, Zenon DEF ParseReply, Worlds
<1> HIDE DEF v, e
<1>6. /\ v.subs = [w.subs EXCEPT ![b] = e] /\ v.lock = w.lock
      /\ v.reading = w.reading /\ v.received = w.received
      /\ v.parsed = w.parsed /\ v.over = w.over /\ v.failed = w.failed
      /\ v.writing = 0 /\ v.replying = 0
  BY <1>1, <1>2, <1>5, Zenon DEF Worlds
<1>7. /\ v.subs \in Seq(Subqueries) /\ DOMAIN v.subs = DOMAIN w.subs
      /\ \A c \in DOMAIN w.subs : v.subs[c] = IF c = b THEN e ELSE w.subs[c]
      /\ KeysOf(v.subs) = KeysOf(w.subs)
  BY <1>2, <1>4, <1>6, SubChanged
<1>8. \A c \in DOMAIN w.subs : v.subs[c].io = w.subs[c].io
  BY <1>4, <1>7, Zenon
<1>9. v \in Worlds
  <2>1. w.total + n \in Nat
    BY <1>2 DEF Worlds
  <2> QED  BY <1>2, <1>5, <1>6, <1>7, <2>1, Zenon DEF Worlds
<1>10. Reading(v)
  BY <1>6, <1>7, Zenon DEF Sound, Reading
<1>11. QuerySet(v) = QuerySet(w)
  BY <1>7, <1>8, Zenon DEF QuerySet
<1>12. Replying(v, first)
  BY <1>1, <1>6, <1>7, <1>8, Zenon DEF Replying
<1>13. Sound(v, first)
  BY <1>6, <1>9, <1>10, <1>12, Zenon DEF Sound
<1> QED  BY <1>6, <1>7, <1>8, <1>11, <1>13, Zenon DEF v

\* New keys get new subqueries, which write from the client's buffer.
LEMMA PushSound ==
  ASSUME NEW w \in Worlds, NEW f \in BOOLEAN, owners \in Queries,
         w.received \in 2..(2 * Len(owners)), w.parsed < w.received \div 2,
         ~w.reading, ~w.failed, w.over = "no", w.writing = 0, w.replying = 0,
         KeysOf(w.subs) = 1..w.parsed,
         \A c \in DOMAIN w.subs : w.subs[c].io # "none",
         w.lock = Cardinality(QuerySet(w))
  PROVE  LET v == PushSubqueries(w, w.received \div 2) IN
         Sound(v, f) /\ v.lock = Cardinality(QuerySet(v))
<1> DEFINE upto == w.received \div 2
           new == (w.parsed + 1)..upto
           S == {owners[k] : k \in new}
           eps == Listed(S)
           n == Cardinality(S)
           m == Len(w.subs)
           add == [i \in DOMAIN eps |->
                     [keys |-> {k \in new : owners[k] = eps[i]},
                      io |-> "query", answer |-> 0]]
           v == PushSubqueries(w, upto)
<1>1. /\ Len(owners) \in Nat \ {0} /\ DOMAIN owners = 1..Len(owners)
      /\ w.parsed \in Nat /\ upto \in 1..Len(owners) /\ w.subs \in Seq(Subqueries)
      /\ w.lock \in Int
  BY OwnersFacts DEF Worlds
<1>2. IsFiniteSet(S)
  <2>1. IsFiniteSet(new)
    <3>1. w.parsed + 1 \in Int /\ upto \in Int
      BY <1>1
    <3> HIDE DEF upto
    <3> QED  BY <3>1, FS_Interval, Zenon
  <2>2. [k \in new |-> owners[k]] \in Surjection(new, S)
    BY Zenon DEF Surjection
  <2> QED  BY <2>1, <2>2, FS_Surjection
<1>3. /\ n \in Nat /\ eps \in [1..n -> S]
      /\ \A x \in S : \E i \in 1..n : eps[i] = x
  <2> HIDE DEF S
  <2> QED  BY <1>2, ListedIs, Zenon
<1> HIDE DEF S, n, eps
<1>4. DOMAIN eps = 1..n /\ Len(eps) = n
  BY <1>3, SeqLen
<1>5. add \in Seq(Subqueries) /\ Len(add) = n
  <2>1. add \in [1..n -> Subqueries]
    BY <1>1, <1>4 DEF Subqueries
  <2> QED  BY <1>3, <2>1
<1>6. v = [w EXCEPT !.parsed = upto, !.lock = w.lock + n, !.subs = w.subs \o add]
  BY <1>4, Zenon DEF PushSubqueries, eps, S, Worlds
<1>7. \A i \in 1..n : add[i].io = "query"
                      /\ add[i].keys = {k \in new : owners[k] = eps[i]}
  BY <1>4, Zenon
<1> HIDE DEF add, v, upto, new
<1>8. /\ v.subs = w.subs \o add /\ v.lock = w.lock + n /\ v.parsed = upto
      /\ v.reading = FALSE /\ v.received = w.received /\ v.over = "no"
      /\ v.failed = FALSE /\ v.writing = 0 /\ v.replying = 0
  BY <1>6, Zenon DEF Worlds
<1>9. /\ v.subs \in Seq(Subqueries) /\ Len(v.subs) = m + n /\ m \in Nat
      /\ DOMAIN v.subs = 1..(m + n) /\ DOMAIN w.subs = 1..m
      /\ \A c \in 1..m : v.subs[c] = w.subs[c]
      /\ \A i \in 1..n : v.subs[m + i] = add[i]
  <2>1. Len(w.subs) = m /\ m \in Nat /\ DOMAIN w.subs = 1..m
    BY <1>1, SeqLen
  <2> HIDE DEF m
  <2>2. /\ v.subs \in Seq(Subqueries) /\ Len(v.subs) = m + n
        /\ \A i \in 1..(m + n) :
             v.subs[i] = IF i <= m THEN w.subs[i] ELSE add[i - m]
    <3> DEFINE t == w.subs \o add
    <3>1. /\ t \in Seq(Subqueries) /\ Len(t) = Len(w.subs) + Len(add)
          /\ \A i \in 1..(Len(w.subs) + Len(add)) :
               t[i] = IF i <= Len(w.subs) THEN w.subs[i] ELSE add[i - Len(w.subs)]
      BY <1>1, <1>5, SeqConcat, ZenonT(60)
    <3>2. v.subs = t /\ Len(add) = n /\ Len(w.subs) = m
      BY <1>5, <1>8, <2>1, Zenon
    <3> HIDE DEF t
    <3> QED  BY <3>1, <3>2, Zenon
  <2>3. DOMAIN v.subs = 1..(m + n)
    BY <2>2, SeqLen, Zenon
  <2>4. /\ \A c \in 1..m : c \in 1..(m + n) /\ c <= m
        /\ \A i \in 1..n : m + i \in 1..(m + n) /\ ~(m + i <= m) /\ (m + i) - m = i
    BY <1>3, <2>1
  <2> QED  BY <2>1, <2>2, <2>3, <2>4
<1>10. v \in Worlds
  <2>1. upto \in Nat /\ w.lock + n \in Int /\ w.subs \o add \in Seq(Subqueries)
    BY <1>1, <1>3, <1>8, <1>9
  <2> QED  BY <1>6, <2>1, Zenon DEF Worlds
<1> HIDE DEF m
<1>11. KeysOf(v.subs) = 1..upto
  <2>1. ASSUME NEW k \in KeysOf(v.subs)  PROVE k \in 1..upto
    <3>1. PICK c \in 1..(m + n) : k \in v.subs[c].keys
      BY <1>9, Zenon DEF KeysOf
    <3>2. CASE c \in 1..m
      <4>1. k \in KeysOf(w.subs)
        BY <1>9, <3>1, <3>2, Zenon DEF KeysOf
      <4> QED  BY <1>1, <4>1 DEF upto
    <3>3. CASE c \notin 1..m
      <4>1. PICK i \in 1..n : c = m + i
        BY <1>3, <1>9, <3>1, <3>3
      <4>2. k \in new
        BY <1>7, <1>9, <3>1, <4>1, Zenon
      <4> QED  BY <1>1, <4>2 DEF new
    <3> QED  BY <3>2, <3>3, Zenon
  <2>2. ASSUME NEW k \in 1..upto  PROVE k \in KeysOf(v.subs)
    <3>1. CASE k <= w.parsed
      <4>1. k \in KeysOf(w.subs)
        BY <1>1, <3>1
      <4>2. PICK c \in 1..m : k \in w.subs[c].keys
        BY <1>9, <4>1, Zenon DEF KeysOf
      <4>3. c \in 1..(m + n) /\ v.subs[c] = w.subs[c]
        BY <1>3, <1>9, <4>2
      <4> QED  BY <1>9, <4>2, <4>3, Zenon DEF KeysOf
    <3>2. CASE k > w.parsed
      <4>1. k \in new
        BY <1>1, <3>2 DEF new
      <4>2. owners[k] \in S
        BY <4>1, Zenon DEF S, new
      <4>3. PICK i \in 1..n : eps[i] = owners[k]
        BY <1>3, <4>2, Zenon
      <4>4. k \in v.subs[m + i].keys
        BY <1>7, <1>9, <4>1, <4>3, Zenon
      <4>5. m + i \in 1..(m + n)
        BY <1>3, <1>9
      <4> QED  BY <1>9, <4>4, <4>5, Zenon DEF KeysOf
    <3> QED  BY <1>1, <3>1, <3>2
  <2> QED  BY <2>1, <2>2, Zenon
<1>12. Reading(v)
  BY <1>1, <1>8, <1>11, Zenon DEF Reading, upto
<1>13. Replying(v, f)
  <2>1. ASSUME NEW c \in 1..(m + n)  PROVE v.subs[c].io # "none"
    <3>1. CASE c \in 1..m
      BY <1>9, <3>1, Zenon
    <3>2. CASE c \notin 1..m
      <4>1. PICK i \in 1..n : c = m + i
        BY <1>3, <1>9, <3>2
      <4> QED  BY <1>7, <1>9, <4>1, Zenon
    <3> QED  BY <3>1, <3>2, Zenon
  <2> QED  BY <1>8, <1>9, <2>1, Zenon DEF Replying
<1>14. v.lock = Cardinality(QuerySet(v))
  <2> DEFINE N == (m + 1)..(m + n)
  <2>1. IsFiniteSet(N) /\ Cardinality(N) = n
    BY <1>3, <1>9, FS_Interval
  <2>2. QuerySet(v) = QuerySet(w) \cup N
    <3>1. ASSUME NEW c \in 1..m  PROVE c \in QuerySet(v) <=> c \in QuerySet(w) \cup N
      <4>1. c \in 1..(m + n) /\ c \notin N
        BY <1>3, <1>9
      <4> QED  BY <1>9, <4>1, Zenon DEF QuerySet
    <3>2. ASSUME NEW c \in N  PROVE c \in QuerySet(v)
      <4>1. m \in Nat /\ n \in Nat
        BY <1>3, <1>9, Zenon
      <4>2. c - m \in 1..n /\ c = m + (c - m)
        BY <4>1
      <4>3. PICK i \in 1..n : c = m + i
        BY <4>2, Zenon
      <4>4. v.subs[c].io = "query"
        BY <1>7, <1>9, <4>3, Zenon
      <4>5. c \in 1..(m + n)
        BY <1>3, <1>9, <4>3
      <4> QED  BY <1>9, <4>4, <4>5, Zenon DEF QuerySet
    <3>3. QuerySet(v) \subseteq 1..(m + n) /\ QuerySet(w) \subseteq 1..m
      BY <1>9, Zenon DEF QuerySet
    <3>4. \A c \in 1..(m + n) : c \in 1..m \/ c \in N
      BY <1>3, <1>9
    <3>5. \A c \in 1..m : c \in 1..(m + n)
      BY <1>3, <1>9
    <3> HIDE DEF N
    <3>6. ASSUME NEW c \in QuerySet(v)  PROVE c \in QuerySet(w) \cup N
      BY <3>1, <3>3, <3>4, Zenon
    <3>7. ASSUME NEW c \in QuerySet(w) \cup N  PROVE c \in QuerySet(v)
      BY <3>1, <3>2, <3>3, Zenon
    <3> QED  BY <3>6, <3>7, Zenon
  <2>3. QuerySet(w) \cap N = {}
    BY <1>3, <1>9 DEF QuerySet
  <2>4. IsFiniteSet(QuerySet(w)) /\ Cardinality(QuerySet(w)) \in Nat
    BY <1>1, QuerySetFacts, Zenon
  <2> HIDE DEF N
  <2>5. Cardinality(QuerySet(w) \cup N) = Cardinality(QuerySet(w)) + n - 0
    BY <2>1, <2>3, <2>4, FS_Union, FS_EmptySet
  <2> QED  BY <1>1, <1>3, <1>8, <2>2, <2>4, <2>5
<1>15. Sound(v, f)
  BY <1>8, <1>10, <1>12, <1>13, Zenon DEF Sound
<1> QED  BY <1>14, <1>15, Zenon DEF v, upto

-----------------------------------------------------------------------------
(* Every state of the command is sound.                                    *)

LEMMA InitInv == Init => DelInv
<1> SUFFICES ASSUME Init PROVE DelInv
  BY Zenon
<1> DEFINE w0(n) == [reading |-> FALSE, received |-> n, parsed |-> 0,
                     subs |-> <<>>, total |-> 0, lock |-> 0, replying |-> 0,
                     writing |-> 0, count |-> 0, over |-> "no", failed |-> FALSE]
<1>1. owners \in Queries /\ first \in BOOLEAN /\ ahead \in BOOLEAN
  BY Zenon DEF Init
<1>2. PICK n \in 2..(2 * Len(owners)) :
        LET w == PushSubqueries(w0(n), n \div 2)
        IN /\ reading = w.reading /\ received = w.received /\ parsed = w.parsed
           /\ subs = w.subs /\ total_del_count = w.total /\ lock = w.lock
           /\ replying_backend = w.replying /\ writing = w.writing
           /\ count = w.count /\ over = w.over /\ failed = w.failed
  BY Zenon DEF Init
<1>3. Len(owners) \in Nat /\ n \in Nat
  BY <1>1, OwnersFacts
<1> DEFINE w == w0(n)
           v == PushSubqueries(w, n \div 2)
<1>4. <<>> \in Seq(Subqueries) /\ DOMAIN <<>> = {}
  OBVIOUS
<1>5. w \in Worlds /\ w.received = n /\ w.subs = <<>> /\ w.parsed = 0
      /\ ~w.reading /\ ~w.failed /\ w.over = "no" /\ w.writing = 0
      /\ w.replying = 0 /\ w.lock = 0
  BY <1>3, <1>4 DEF Worlds
<1> HIDE DEF w0, w
<1>6. 0 < n \div 2
  BY <1>3
<1>7. QuerySet(w) = {} /\ KeysOf(w.subs) = 1..w.parsed
  BY <1>4, <1>5 DEF QuerySet, KeysOf
<1>8. w.lock = Cardinality(QuerySet(w))
  BY <1>5, <1>7, FS_EmptySet, Zenon
<1>9. Sound(v, first) /\ v.lock = Cardinality(QuerySet(v))
  BY <1>1, <1>4, <1>5, <1>6, <1>7, <1>8, PushSound, Zenon
<1>10. World = v
  <2>1. v \in Worlds
    BY <1>9, Zenon DEF Sound
  <2> HIDE DEF v
  <2>2. /\ reading = v.reading /\ received = v.received /\ parsed = v.parsed
        /\ subs = v.subs /\ total_del_count = v.total /\ lock = v.lock
        /\ replying_backend = v.replying /\ writing = v.writing
        /\ count = v.count /\ over = v.over /\ failed = v.failed
    BY <1>2, Zenon DEF v, w
  <2> QED  BY <2>1, <2>2, Zenon DEF World, Worlds
<1>11. lock = v.lock
  BY <1>10 DEF World
<1> QED  BY <1>1, <1>9, <1>10, <1>11, Zenon DEF DelInv

\* A step that leads to a sound state of the same query.
LEMMA StepInv ==
  ASSUME DelInv, NEW w, Sound(w, first'), Become(w), owners' = owners,
         first' \in BOOLEAN, ahead' \in BOOLEAN,
         w.lock = Cardinality(QuerySet(w))
  PROVE  DelInv'
<1>1. w \in Worlds
  BY Zenon DEF Sound
<1>2. World' = w
  BY <1>1, Becomes, Zenon
<1>3. Reading(World)'
  BY <1>2, Zenon DEF Sound, Reading
<1>4. Replying(World, first)'
  BY <1>2 DEF Sound, Replying, Carries
<1>5. Sound(World, first)'
  BY <1>1, <1>2, <1>3, <1>4, Zenon DEF Sound
<1>6. lock' = w.lock
  BY Zenon DEF Become
<1>7. (lock = Cardinality(QuerySet(World)))'
  BY <1>2, <1>6, Zenon
<1> QED  BY <1>5, <1>7, Zenon DEF DelInv

\* The command or its connection is given up: nothing else changes.
LEMMA AbortSound ==
  ASSUME NEW w, NEW f \in BOOLEAN, Sound(w, f), w.over = "no"
  PROVE  /\ Sound(Abort(w), f) /\ Abort(w).lock = w.lock
         /\ QuerySet(Abort(w)) = QuerySet(w)
<1> DEFINE v == Abort(w)
<1>1. /\ v \in Worlds /\ v.subs = w.subs /\ v.lock = w.lock
      /\ v.received = w.received /\ v.parsed = w.parsed /\ v.over = "aborted"
      /\ v.reading = w.reading /\ v.writing = w.writing
      /\ v.replying = w.replying /\ v.count = w.count /\ v.total = w.total
      /\ v.failed = w.failed
  BY Zenon DEF Sound, Worlds, Abort
<1> HIDE DEF v
<1>2. Reading(v)
  BY <1>1, Zenon DEF Sound, Reading
<1>3. Replying(v, f)
  BY <1>1 DEF Sound, Replying, Carries
<1>4. QuerySet(v) = QuerySet(w)
  BY <1>1, Zenon DEF QuerySet
<1>5. Sound(v, f) /\ v.lock = w.lock
  BY <1>1, <1>2, <1>3, Zenon DEF Sound
<1> QED  BY <1>4, <1>5, Zenon DEF v

LEMMA NextInv == DelInv /\ [Next]_vars => DelInv'
<1> SUFFICES ASSUME DelInv, [Next]_vars PROVE DelInv'
  BY Zenon
<1>1. /\ owners \in Queries /\ first \in BOOLEAN /\ ahead \in BOOLEAN
      /\ Sound(World, first) /\ World \in Worlds
      /\ World.lock = Cardinality(QuerySet(World))
      /\ Len(owners) \in Nat \ {0}
  BY OwnersFacts, Zenon DEF DelInv, Sound, World
<1>2. /\ World.subs = subs /\ World.over = over /\ World.lock = lock
      /\ World.writing = writing /\ World.reading = reading
      /\ World.parsed = parsed /\ World.received = received
      /\ World.replying = replying_backend /\ World.failed = failed
  BY Zenon DEF World
<1>3. subs \in Seq(Subqueries) /\ \A b \in DOMAIN subs : subs[b] \in Subqueries
  BY <1>1, <1>2, SeqElement, SeqLen DEF Worlds
<1>4. \A b \in QuerySet(World) :
        Cardinality(QuerySet(World) \ {b}) = Cardinality(QuerySet(World)) - 1
  BY <1>1, <1>2, <1>3, QuerySetFacts, Zenon
<1>5. ASSUME over = "no", NEW b \in DOMAIN subs, QueryWritten(b)
      PROVE  DelInv'
  <2> DEFINE e == [subs[b] EXCEPT !.io = "reply"]
             v == [World EXCEPT !.subs = [subs EXCEPT ![b] = e], !.lock = lock - 1]
  <2>1. subs[b].io = "query" /\ Become(v) /\ owners' = owners
        /\ first' = first /\ ahead' = ahead
    BY <1>5, Zenon DEF QueryWritten, World
  <2>2. /\ writing = 0 /\ replying_backend = 0
        /\ \A c \in DOMAIN subs : subs[c].io # "none"
    BY <1>1, <1>2, <1>5, <2>1, NoneCarries, Zenon
  <2>3. e \in Subqueries /\ e.keys = subs[b].keys /\ e.io = "reply"
    BY <1>3, Zenon DEF Subqueries
  <2> HIDE DEF e
  <2>4. /\ [subs EXCEPT ![b] = e] \in Seq(Subqueries)
        /\ DOMAIN [subs EXCEPT ![b] = e] = DOMAIN subs
        /\ \A c \in DOMAIN subs : [subs EXCEPT ![b] = e][c] = IF c = b THEN e ELSE subs[c]
        /\ KeysOf([subs EXCEPT ![b] = e]) = KeysOf(subs)
    BY <1>3, <2>3, SubChanged
  <2>5. /\ v \in Worlds /\ v.subs = [subs EXCEPT ![b] = e] /\ v.lock = lock - 1
        /\ v.reading = reading /\ v.received = received /\ v.parsed = parsed
        /\ v.over = over /\ v.failed = failed /\ v.writing = 0 /\ v.replying = 0
    <3>1. lock - 1 \in Int
      BY <1>1, <1>2 DEF Worlds
    <3> QED  BY <1>1, <1>2, <2>2, <2>4, <3>1, Zenon DEF Worlds
  <2> HIDE DEF v
  <2>6. \A c \in DOMAIN subs : v.subs[c].io = IF c = b THEN "reply" ELSE subs[c].io
    BY <2>3, <2>4, <2>5, Zenon
  <2>7. DOMAIN v.subs = DOMAIN subs /\ KeysOf(v.subs) = KeysOf(subs)
    BY <2>4, <2>5, Zenon
  <2>8. Reading(v)
    BY <1>1, <1>2, <2>5, <2>7, Zenon DEF Sound, Reading
  <2>9. Replying(v, first)
    BY <2>2, <2>5, <2>6, <2>7, Zenon DEF Replying
  <2>10. QuerySet(v) = QuerySet(World) \ {b} /\ b \in QuerySet(World)
    BY <1>2, <2>1, <2>6, <2>7, Zenon DEF QuerySet
  <2>11. v.lock = Cardinality(QuerySet(v))
    BY <1>1, <1>2, <1>4, <2>5, <2>10, Zenon
  <2>12. Sound(v, first)
    BY <1>1, <1>2, <1>5, <2>5, <2>8, <2>9, Zenon DEF Sound
  <2> QED  BY <1>1, <2>1, <2>11, <2>12, StepInv, Zenon
<1>6. ASSUME over = "no", NEW b \in DOMAIN subs, ConnectFailed(b)
      PROVE  DelInv'
  <2> DEFINE w == Settle(World, b)
             w1 == [w EXCEPT !.lock = w.lock - 1]
             v == ReadIfUnlocked(w1, ahead)
  <2>1. /\ subs[b].io = "query" /\ owners' = owners
        /\ first' = first /\ ahead' = ahead
    BY <1>6, Zenon DEF ConnectFailed
  <2>2. Become(v)
    BY <1>6, Zenon DEF ConnectFailed
  <2>3. Sound(w, first) /\ w.lock = lock /\ QuerySet(w) = QuerySet(World) \ {b}
    BY <1>1, <1>2, <1>6, <2>1, SettleSound
  <2>4. b \in QuerySet(World)
    BY <1>2, <2>1, Zenon DEF QuerySet
  <2> HIDE DEF w
  <2>5. /\ w1 \in Worlds /\ w1.subs = w.subs /\ w1.lock = lock - 1
        /\ w1.received = w.received /\ w1.parsed = w.parsed /\ w1.over = w.over
        /\ w1.reading = w.reading /\ w1.writing = w.writing
        /\ w1.replying = w.replying /\ w1.count = w.count /\ w1.total = w.total
        /\ w1.failed = w.failed
    <3>1. w \in Worlds /\ w.lock \in Int
      BY <2>3, Zenon DEF Sound, Worlds
    <3>2. lock - 1 \in Int
      BY <2>3, <3>1
    <3>3. w1 = [w EXCEPT !.lock = lock - 1]
      BY <2>3, Zenon
    <3> HIDE DEF w1
    <3> QED  BY <3>1, <3>2, <3>3, Zenon DEF Worlds
  <2> HIDE DEF w1
  <2>6. Reading(w1) /\ Replying(w1, first)
    BY <2>3, <2>5 DEF Sound, Reading, Replying, Carries
  <2>7. Sound(w1, first)
    BY <2>3, <2>5, <2>6, Zenon DEF Sound
  <2>8. Sound(v, first) /\ v.subs = w1.subs /\ v.lock = w1.lock
    BY <1>1, <2>7, ReadSound, Zenon
  <2> HIDE DEF v
  <2>9. QuerySet(v) = QuerySet(World) \ {b}
    BY <2>3, <2>5, <2>8, Zenon DEF QuerySet
  <2>10. v.lock = Cardinality(QuerySet(v))
    BY <1>1, <1>2, <1>4, <2>4, <2>5, <2>8, <2>9, Zenon
  <2> QED  BY <1>1, <2>1, <2>2, <2>8, <2>10, StepInv, Zenon
<1>7. ASSUME over = "no", Become(Abort(World)), UNCHANGED <<owners, first, ahead>>
      PROVE  DelInv'
  <2>1. /\ Sound(Abort(World), first)
        /\ Abort(World).lock = Cardinality(QuerySet(Abort(World)))
    BY <1>1, <1>2, <1>7, AbortSound, Zenon
  <2> QED  BY <1>1, <1>7, <2>1, StepInv, Zenon
<1>8. ASSUME over = "no", NEW b \in DOMAIN subs, NEW n \in 0..Len(owners),
             OnBackendReplyReceived(b, n)
      PROVE  DelInv'
  <2> DEFINE u == ParseReply(World, b, n)
             w == Settle(u, b)
             v == ReadIfUnlocked(w, ahead)
  <2>1. /\ subs[b].io = "reply" /\ owners' = owners
        /\ first' = first /\ ahead' = ahead /\ n \in Nat
    BY <1>1, <1>8 DEF OnBackendReplyReceived
  <2>2. Become(v)
    BY <1>8, Zenon DEF OnBackendReplyReceived
  <2>3. /\ Sound(u, first) /\ u.lock = lock /\ u.over = "no"
        /\ b \in DOMAIN u.subs /\ u.subs[b].io = "reply"
        /\ QuerySet(u) = QuerySet(World)
    BY <1>1, <1>2, <1>8, <2>1, ParseSound
  <2> HIDE DEF u
  <2>4. /\ Sound(w, first) /\ w.lock = lock /\ QuerySet(w) = QuerySet(u) \ {b}
    BY <1>1, <2>3, SettleSound
  <2> HIDE DEF w
  <2>5. /\ Sound(v, first) /\ v.subs = w.subs /\ v.lock = lock
    BY <1>1, <2>4, ReadSound, Zenon
  <2> HIDE DEF v
  <2>6. QuerySet(v) = QuerySet(World)
    BY <1>2, <2>1, <2>3, <2>4, <2>5, Zenon DEF QuerySet
  <2> QED  BY <1>1, <1>2, <2>1, <2>2, <2>5, <2>6, StepInv, Zenon
<1>9. ASSUME over = "no", NEW n \in 1..(2 * Len(owners)), HandleRead(n)
      PROVE  DelInv'
  <2> DEFINE w == [World EXCEPT !.reading = FALSE, !.received = received + n]
             upto == w.received \div 2
  <2>1. /\ reading /\ n \in 1..(2 * Len(owners) - received) /\ owners' = owners
        /\ first' = first /\ ahead' = ahead
        /\ Become(IF upto = parsed THEN ReadIfUnlocked(w, ahead)
                                   ELSE PushSubqueries(w, upto))
    BY <1>9, Zenon DEF HandleRead, World
  <2>2. /\ received \in 2..(2 * Len(owners)) /\ parsed = received \div 2
        /\ parsed < Len(owners) /\ KeysOf(subs) = 1..parsed /\ parsed \in Nat
    BY <1>1, <1>2, <2>1, Zenon DEF Sound, Reading, Worlds
  <2>3. received + n \in 2..(2 * Len(owners)) /\ received + n \in Nat
    BY <1>1, <2>1, <2>2
  <2>4. /\ w \in Worlds /\ w.subs = subs /\ w.lock = lock /\ w.reading = FALSE
        /\ w.received = received + n /\ w.parsed = parsed /\ w.over = over
        /\ w.writing = writing /\ w.replying = replying_backend
        /\ w.failed = failed
    BY <1>1, <1>2, <2>3, Zenon DEF Worlds
  <2> HIDE DEF w
  <2>5. /\ writing = 0 /\ replying_backend = 0 /\ ~failed
        /\ \A c \in DOMAIN subs : subs[c].io # "none"
    BY <1>1, <1>2, <1>9, <2>2 DEF Sound, Replying, Carries
  <2>6. QuerySet(w) = QuerySet(World)
    BY <1>2, <2>4, Zenon DEF QuerySet
  <2>7. CASE upto = parsed
    <3>1. Reading(w)
      BY <2>2, <2>3, <2>4, <2>7, Zenon DEF Reading
    <3>2. Replying(w, first)
      BY <2>4, <2>5, Zenon DEF Replying
    <3>3. Sound(w, first)
      BY <1>9, <2>4, <2>5, <3>1, <3>2, Zenon DEF Sound
    <3> DEFINE v == ReadIfUnlocked(w, ahead)
    <3>4. Sound(v, first) /\ v.subs = w.subs /\ v.lock = w.lock
      BY <1>1, <3>3, ReadSound, Zenon
    <3>5. Become(v)
      BY <2>1, <2>7, Zenon
    <3> HIDE DEF v
    <3>6. v.lock = Cardinality(QuerySet(v))
      BY <1>1, <1>2, <2>4, <2>6, <3>4, Zenon DEF QuerySet
    <3> QED  BY <1>1, <2>1, <3>4, <3>5, <3>6, StepInv, Zenon
  <2>8. CASE upto # parsed
    <3>1. w.parsed < w.received \div 2
      BY <2>1, <2>2, <2>3, <2>4, <2>8
    <3>2. w.lock = Cardinality(QuerySet(w))
      BY <1>1, <1>2, <2>4, <2>6, Zenon
    <3> DEFINE v == PushSubqueries(w, w.received \div 2)
    <3>3. Sound(v, first) /\ v.lock = Cardinality(QuerySet(v))
      BY <1>1, <1>9, <2>2, <2>3, <2>4, <2>5, <3>1, <3>2, PushSound, Zenon
    <3>4. Become(v)
      BY <2>1, <2>8, Zenon
    <3> HIDE DEF v
    <3> QED  BY <1>1, <2>1, <3>3, <3>4, StepInv, Zenon
  <2> QED  BY <2>7, <2>8, Zenon
<1>10. CASE AheadWritten
  <2>1. Become(World) /\ owners' = owners /\ first' = first /\ ahead' \in BOOLEAN
    BY <1>10, Zenon DEF AheadWritten
  <2> QED  BY <1>1, <2>1, StepInv, Zenon
<1>11. ASSUME over = "no", StartWriteReply  PROVE DelInv'
  <2> DEFINE w == IF query_recv_complete(World) /\ replying_backend # 0
                  THEN TryWriteReply(World, replying_backend) ELSE World
             v == ReadIfUnlocked(w, FALSE)
  <2>1. /\ ~first /\ first' = TRUE /\ owners' = owners /\ ahead' = ahead
    BY <1>11, Zenon DEF StartWriteReply
  <2>2. Become(v)
    BY <1>11, Zenon DEF StartWriteReply
  <2>3. writing = 0
    BY <1>1, <1>2, <1>11, <2>1, Zenon DEF Sound, Replying
  <2>4. /\ w \in Worlds /\ w.subs = subs /\ w.lock = lock /\ w.reading = reading
        /\ w.received = received /\ w.parsed = parsed /\ w.over = over
        /\ w.replying = replying_backend /\ w.failed = failed
        /\ w.count = World.count /\ w.total = World.total
        /\ w.writing = IF parsed = Len(owners) THEN replying_backend ELSE 0
    <3> DEFINE x == IF parsed = Len(owners) THEN replying_backend ELSE 0
    <3>1. w = [World EXCEPT !.writing = x]
      BY <1>1, <1>2, <2>3, Zenon DEF TryWriteReply, query_recv_complete, Worlds
    <3>2. x \in Nat
      BY <1>1, <1>2, Zenon DEF Worlds
    <3> HIDE DEF w, x
    <3>3. w.writing = x
      BY <1>1, <3>1, Zenon DEF Worlds
    <3> QED  BY <1>1, <1>2, <3>1, <3>2, <3>3, Zenon DEF Worlds, x
  <2> HIDE DEF w
  <2>5. Reading(w)
    BY <1>1, <1>2, <2>4, Zenon DEF Sound, Reading
  <2>6. Replying(w, TRUE)
    BY <1>1, <1>2, <1>11, <2>1, <2>4 DEF Sound, Replying, Carries
  <2>7. Sound(w, TRUE)
    BY <1>1, <1>2, <1>11, <2>4, <2>5, <2>6, Zenon DEF Sound
  <2>8. Sound(v, TRUE) /\ v.subs = w.subs /\ v.lock = w.lock
    BY <1>1, <2>7, ReadSound, Zenon
  <2> HIDE DEF v
  <2>9. v.lock = Cardinality(QuerySet(v))
    BY <1>1, <1>2, <2>4, <2>8, Zenon DEF QuerySet
  <2> QED  BY <1>1, <2>1, <2>2, <2>8, <2>9, StepInv, Zenon
<1>12. ASSUME over = "no", OnWriteReplyFinished  PROVE DelInv'
  <2> DEFINE a == query_recv_complete(World)
                   /\ Cardinality(pending_subqueries(World)) = 1
             v == [Check(World, a) EXCEPT !.writing = 0, !.over = "done"]
  <2>1. writing # 0 /\ owners' = owners /\ first' = first /\ ahead' = ahead
    BY <1>12, Zenon DEF OnWriteReplyFinished
  <2>2. Become(v)
    BY <1>12, Zenon DEF OnWriteReplyFinished
  <2>3. /\ first /\ writing \in DOMAIN subs /\ subs[writing].io = "none"
        /\ Carries(World, writing, first)
    BY <1>1, <1>2, <1>12, <2>1, Zenon DEF Sound, Replying
  <2>4. pending_subqueries(World) = {writing}
    BY <1>2, <2>3, Zenon DEF pending_subqueries, Carries
  <2>5. a
    BY <2>3, <2>4, FS_Singleton, Zenon DEF query_recv_complete, Carries
  <2> HIDE DEF a
  <2>6. /\ v \in Worlds /\ v.subs = subs /\ v.lock = lock /\ v.reading = reading
        /\ v.received = received /\ v.parsed = parsed /\ v.over = "done"
        /\ v.writing = 0 /\ v.failed = failed
    BY <1>1, <1>2, <2>5, Zenon DEF Check, Worlds
  <2> HIDE DEF v
  <2>7. Reading(v) /\ Replying(v, first)
    BY <1>1, <1>2, <2>6, Zenon DEF Sound, Reading, Replying
  <2>8. Sound(v, first)
    BY <1>1, <1>2, <2>6, <2>7, Zenon DEF Sound
  <2>9. v.lock = Cardinality(QuerySet(v))
    BY <1>1, <1>2, <2>6, Zenon DEF QuerySet
  <2> QED  BY <1>1, <2>1, <2>2, <2>8, <2>9, StepInv, Zenon
<1>13. CASE UNCHANGED vars
  <2>1. Become(World) /\ UNCHANGED <<owners, first, ahead>>
    BY <1>13, Zenon DEF vars, Become, World
  <2> QED  BY <1>1, <2>1, StepInv, Zenon
<1>14. ASSUME Next  PROVE DelInv'
  <2>1. over = "no"
    BY <1>14, Zenon DEF Next
  <2>2. ASSUME NEW b \in DOMAIN subs, WriteFailed(b) \/ ReplyFailed(b)
        PROVE  DelInv'
    BY <1>7, <2>1, <2>2, Zenon DEF WriteFailed, ReplyFailed
  <2>3. CASE ClientFails
    BY <1>7, <2>1, <2>3, Zenon DEF ClientFails
  <2> QED  BY <1>5, <1>6, <1>8, <1>9, <1>10, <1>11, <1>12, <1>14, <2>1, <2>2, <2>3,
    Zenon
           DEF Next
<1> QED  BY <1>13, <1>14, Zenon

-----------------------------------------------------------------------------
(* The theorems.                                                           *)

\* All states of the command are sound.
THEOREM DelInvariant == Spec => []DelInv
<1> QED  BY InitInv, NextInv, PTL DEF Spec

\* The asserts of the destructor and of OnWriteReplyFinished hold: the reply
\* ends when the query has been received and one subquery is pending.
THEOREM DelAssertsHold == Spec => []NoAssertFails
<1>1. DelInv => NoAssertFails
  BY Zenon DEF DelInv, Sound, World, NoAssertFails
<1> QED  BY <1>1, DelInvariant, PTL

\* inc_recycle_lock of PushSubquery and dec_recycle_lock of
\* OnWriteQueryFinished are in balance.
THEOREM DelLockIsPerQuery == Spec => []LockPerQuery
<1>1. DelInv => LockPerQuery
  BY Zenon DEF DelInv, QuerySet, World, LockPerQuery
<1> QED  BY <1>1, DelInvariant, PTL

\* The reply is written when all keys have been sent and all subqueries are
\* settled, with the last total.
THEOREM DelReplyIsLast == Spec => []ReplyIsLast
<1>1. DelInv => ReplyIsLast
  <2> SUFFICES ASSUME DelInv, writing # 0 PROVE ReplyIsLast
    BY Zenon DEF ReplyIsLast
  <2>1. Sound(World, first) /\ World.writing = writing /\ World.subs = subs
        /\ World.parsed = parsed /\ World.over = over /\ World.count = count
        /\ World.total = total_del_count
    BY Zenon DEF DelInv, World
  <2>2. /\ writing \in DOMAIN subs /\ subs[writing].io = "none"
        /\ Carries(World, writing, first)
    BY <2>1, Zenon DEF Sound, Replying
  <2>3. KeysOf(subs) = 1..Len(owners)
    BY <2>1, <2>2, Zenon DEF Sound, Reading, Carries
  <2> QED  BY <2>1, <2>2, <2>3, Zenon DEF Carries, KeysOf, ReplyIsLast
<1> QED  BY <1>1, DelInvariant, PTL

-----------------------------------------------------------------------------
(* The sum.                                                                *)

\* f[b] is the sum of the answers of the first b subqueries.
Adds(s, f) ==
  /\ f \in [0..Len(s) -> Nat] /\ f[0] = 0
  /\ \A b \in 1..Len(s) : f[b] = f[b - 1] + s[b].answer

AddsUp(s, n) == \E f : Adds(s, f) /\ f[Len(s)] = n

\* The answer of a subquery at work is still to come.
Unanswered(s) ==
  \A b \in DOMAIN s : s[b].io \in {"query", "reply"} => s[b].answer = 0

Tallied(s, n) == AddsUp(s, n) /\ Unanswered(s)

\* Induction up to m, for a set.
LEMMA InductionUpTo ==
  ASSUME NEW m \in Nat, NEW T, 0 \in T,
         \A n \in 0..m : n < m /\ n \in T => n + 1 \in T
  PROVE  \A n \in 0..m : n \in T
<1> DEFINE U == {n \in 0..m : n \notin T}
<1> SUFFICES ASSUME U # {} PROVE FALSE
  BY Zenon
<1>1. U \subseteq Nat
  OBVIOUS
<1>2. PICK k \in U : \A j \in U : ~ (<<j, k>> \in OpToRel(<, Nat))
  <2> HIDE DEF U
  <2> QED  BY <1>1, WFMin, NatLessThanWellFounded, Zenon
<1>3. \A j \in U : ~ (j < k)
  BY <1>1, <1>2, Zenon DEF OpToRel
<1>4. k \in 0..m /\ k \notin T /\ k # 0
  BY Zenon
<1>5. k - 1 \in 0..m /\ k - 1 < m /\ k - 1 < k /\ (k - 1) + 1 = k
  BY <1>4
<1>6. k - 1 \in T
  BY <1>3, <1>5, Zenon
<1> QED  BY <1>4, <1>5, <1>6, Zenon

\* What the recursive definition computes.
LEMMA SumIs ==
  ASSUME NEW s \in Seq(Subqueries), NEW n, AddsUp(s, n)
  PROVE  SumOfAnswers(s) = n
<1> DEFINE m == Len(s)
           g == CHOOSE h : h = [b \in 0..m |-> IF b = 0 THEN 0
                                               ELSE h[b - 1] + s[b].answer]
<1>1. PICK f : Adds(s, f) /\ f[m] = n
  BY Zenon DEF AddsUp
<1>2. m \in Nat
  BY SeqLen, Zenon
<1>3. g = [b \in 0..m |-> IF b = 0 THEN 0 ELSE g[b - 1] + s[b].answer]
  <2>1. \A b \in 0..m : f[b] = IF b = 0 THEN 0 ELSE f[b - 1] + s[b].answer
    BY <1>1, <1>2 DEF Adds
  <2>2. f = [b \in 0..m |-> f[b]]
    BY <1>1, Zenon DEF Adds
  <2>3. f = [b \in 0..m |-> IF b = 0 THEN 0 ELSE f[b - 1] + s[b].answer]
    BY <2>1, <2>2, Zenon
  <2> QED  BY <2>3, Zenon
<1>4. SumOfAnswers(s) = g[m]
  BY Zenon DEF SumOfAnswers
<1> HIDE DEF g
<1> DEFINE T == {b \in 0..m : g[b] = f[b]}
<1>5. 0 \in T
  BY <1>1, <1>2, <1>3 DEF Adds
<1>6. ASSUME NEW b \in 0..m, b < m, b \in T
      PROVE  b + 1 \in T
  <2>1. b + 1 \in 0..m /\ b + 1 \in 1..m /\ b + 1 # 0 /\ (b + 1) - 1 = b
    BY <1>2, <1>6
  <2>2. g[b + 1] = g[b] + s[b + 1].answer
    BY <1>3, <2>1, Zenon
  <2>3. f[b + 1] = f[b] + s[b + 1].answer
    BY <1>1, <2>1, Zenon DEF Adds
  <2> QED  BY <1>6, <2>1, <2>2, <2>3, Zenon
<1>7. m \in T
  <2>1. m \in 0..m
    BY <1>2
  <2> HIDE DEF T
  <2> QED  BY <1>2, <1>5, <1>6, <2>1, InductionUpTo, Zenon
<1> QED  BY <1>1, <1>4, <1>7, Zenon

\* A subquery changes; it is answered with n, or was answered before.
LEMMA OneTallied ==
  ASSUME NEW s \in Seq(Subqueries), NEW b \in DOMAIN s, NEW e \in Subqueries,
         NEW total, Tallied(s, total), NEW n \in Nat,
         e.answer = s[b].answer + n, e.io \in {"query", "reply"} => e.answer = 0
  PROVE  Tallied([s EXCEPT ![b] = e], total + n)
<1> DEFINE m == Len(s)
           t == [s EXCEPT ![b] = e]
<1>1. /\ m \in Nat /\ DOMAIN s = 1..m /\ b \in 1..m
      /\ \A c \in 1..m : s[c] \in Subqueries
  BY SeqLen, SeqElement, Zenon
<1>2. /\ t \in Seq(Subqueries) /\ Len(t) = m /\ DOMAIN t = 1..m
      /\ t[b] = e /\ \A c \in 1..m : c # b => t[c] = s[c]
  <2>1. t \in [1..m -> Subqueries]
    BY <1>1, Zenon
  <2> QED  BY <1>1, <2>1
<1>3. \A c \in 1..m : s[c].answer \in Nat
  BY <1>1, Zenon DEF Subqueries
<1> HIDE DEF t, m
<1>4. PICK f : Adds(s, f) /\ f[m] = total
  BY Zenon DEF Tallied, AddsUp, m
<1>5. /\ f \in [0..m -> Nat] /\ f[0] = 0
      /\ \A c \in 1..m : f[c] = f[c - 1] + s[c].answer
  BY <1>4, Zenon DEF Adds, m
<1> DEFINE h == [c \in 0..m |-> IF c >= b THEN f[c] + n ELSE f[c]]
<1>6. h \in [0..m -> Nat] /\ h[0] = 0 /\ h[m] = total + n
  <2>1. 0 \in 0..m /\ m \in 0..m /\ ~(0 >= b) /\ m >= b
    BY <1>1
  <2>2. \A c \in 0..m : f[c] + n \in Nat /\ f[c] \in Nat
    BY <1>5
  <2> QED  BY <1>4, <1>5, <2>1, <2>2, Zenon
<1>7. ASSUME NEW c \in 1..m
      PROVE  h[c] = h[c - 1] + t[c].answer
  <2>1. c \in 0..m /\ c - 1 \in 0..m /\ b \in Nat /\ c \in Nat
    BY <1>1, <1>7
  <2>2. f[c] = f[c - 1] + s[c].answer /\ f[c - 1] \in Nat /\ s[c].answer \in Nat
    BY <1>3, <1>5, <2>1, Zenon
  <2>3. CASE c > b
    <3>1. h[c] = f[c] + n /\ h[c - 1] = f[c - 1] + n /\ t[c] = s[c]
      BY <1>2, <2>1, <2>3
    <3> HIDE DEF h
    <3> QED  BY <2>2, <3>1
  <2>4. CASE c = b
    <3>1. h[c] = f[c] + n /\ h[c - 1] = f[c - 1] /\ t[c].answer = s[c].answer + n
      BY <1>2, <2>1, <2>4
    <3> HIDE DEF h
    <3> QED  BY <2>2, <3>1
  <2>5. CASE c < b
    <3>1. h[c] = f[c] /\ h[c - 1] = f[c - 1] /\ t[c] = s[c]
      BY <1>1, <1>2, <2>1, <2>5
    <3> HIDE DEF h
    <3> QED  BY <2>2, <3>1, Zenon
  <2> QED  BY <2>1, <2>3, <2>4, <2>5
<1> HIDE DEF h
<1>8. AddsUp(t, total + n)
  BY <1>2, <1>6, <1>7, Zenon DEF Adds, AddsUp
<1>9. Unanswered(t)
  BY <1>1, <1>2, Zenon DEF Tallied, Unanswered
<1> QED  BY <1>8, <1>9, Zenon DEF Tallied, t

\* New subqueries have no answers.
LEMMA MoreTallied ==
  ASSUME NEW s \in Seq(Subqueries), NEW add \in Seq(Subqueries),
         \A i \in 1..Len(add) : add[i].answer = 0,
         NEW total, Tallied(s, total)
  PROVE  Tallied(s \o add, total)
<1> DEFINE m == Len(s)
           k == Len(add)
           t == s \o add
<1>1. /\ m \in Nat /\ k \in Nat /\ DOMAIN s = 1..m /\ DOMAIN add = 1..k
      /\ t \in Seq(Subqueries) /\ Len(t) = m + k /\ DOMAIN t = 1..(m + k)
      /\ \A i \in 1..(m + k) : t[i] = IF i <= m THEN s[i] ELSE add[i - m]
  BY SeqLen, SeqConcat
<1> HIDE DEF t
<1>2. \A i \in 1..(m + k) : i > m => t[i].answer = 0
  <2>1. \A i \in 1..(m + k) : i > m => i - m \in 1..k /\ ~(i <= m)
    BY <1>1
  <2> QED  BY <1>1, <2>1, Zenon
<1>3. PICK f : Adds(s, f) /\ f[m] = total
  BY Zenon DEF Tallied, AddsUp
<1> HIDE DEF m, k
<1>4. /\ f \in [0..m -> Nat] /\ f[0] = 0
      /\ \A c \in 1..m : f[c] = f[c - 1] + s[c].answer
  BY <1>3, Zenon DEF Adds, m
<1> DEFINE h == [c \in 0..(m + k) |-> IF c <= m THEN f[c] ELSE f[m]]
<1>5. h \in [0..(m + k) -> Nat] /\ h[0] = 0 /\ h[m + k] = total
  <2>1. 0 \in 0..(m + k) /\ m + k \in 0..(m + k) /\ m \in 0..m /\ 0 <= m
        /\ (m + k <= m => m + k = m)
    BY <1>1
  <2>2. \A c \in 0..(m + k) : c <= m => c \in 0..m
    BY <1>1
  <2> QED  BY <1>3, <1>4, <2>1, <2>2, Zenon
<1>6. ASSUME NEW c \in 1..(m + k)
      PROVE  h[c] = h[c - 1] + t[c].answer
  <2>1. c \in 0..(m + k) /\ c - 1 \in 0..(m + k) /\ c \in Nat
    BY <1>1, <1>6
  <2>2. CASE c <= m
    <3>1. c \in 1..m /\ c - 1 <= m
      BY <1>1, <2>1, <2>2, <1>6
    <3>2. h[c] = f[c] /\ h[c - 1] = f[c - 1] /\ t[c] = s[c]
      BY <1>1, <2>1, <2>2, <3>1, Zenon
    <3> QED  BY <1>4, <3>1, <3>2, Zenon
  <2>3. CASE c > m
    <3>1. c - 1 = m \/ c - 1 > m
      BY <1>1, <2>1, <2>3
    <3>2. h[c] = f[m] /\ h[c - 1] = f[m]
      BY <1>1, <2>1, <2>3, <3>1
    <3>3. f[m] \in Nat /\ t[c].answer = 0
      BY <1>1, <1>2, <1>4, <2>3
    <3> HIDE DEF h
    <3> QED  BY <3>2, <3>3
  <2> QED  BY <1>1, <2>1, <2>2, <2>3
<1> HIDE DEF h
<1>7. AddsUp(t, total)
  BY <1>1, <1>5, <1>6, Zenon DEF Adds, AddsUp
<1>8. Unanswered(t)
  <2> SUFFICES ASSUME NEW c \in 1..(m + k), t[c].io \in {"query", "reply"}
               PROVE  t[c].answer = 0
    BY <1>1, Zenon DEF Unanswered
  <2>1. CASE c <= m
    <3>1. c \in DOMAIN s /\ t[c] = s[c]
      BY <1>1, <2>1
    <3> QED  BY <3>1, Zenon DEF Tallied, Unanswered
  <2>2. CASE c > m
    BY <1>2, <2>2, Zenon
  <2> QED  BY <1>1, <2>1, <2>2
<1> QED  BY <1>7, <1>8, Zenon DEF Tallied, t

\* What a handler does to subqueries and total.
LEMMA SettleIs ==
  ASSUME NEW w \in Worlds, NEW b \in DOMAIN w.subs
  PROVE  /\ Settle(w, b).total = w.total
         /\ \E x \in {"none", "released"} :
              Settle(w, b).subs = [w.subs EXCEPT ![b] = [w.subs[b] EXCEPT !.io = x]]
<1>1. CASE IsLast(w)
  BY <1>1, Zenon DEF Settle, TryWriteReply, Worlds
<1>2. CASE ~IsLast(w)
  BY <1>2, Zenon DEF Settle, Worlds
<1> QED  BY <1>1, <1>2, Zenon

LEMMA ReadIs ==
  ASSUME NEW w \in Worlds, NEW isAhead
  PROVE  /\ ReadIfUnlocked(w, isAhead).subs = w.subs
         /\ ReadIfUnlocked(w, isAhead).total = w.total
BY Zenon DEF ReadIfUnlocked, Worlds

LEMMA PushIs ==
  ASSUME NEW w \in Worlds, owners \in Queries, NEW upto \in 0..Len(owners)
  PROVE  /\ PushSubqueries(w, upto).total = w.total
         /\ \E add \in Seq(Subqueries) :
              /\ \A i \in 1..Len(add) : add[i].answer = 0
              /\ PushSubqueries(w, upto).subs = w.subs \o add
<1> DEFINE new == (w.parsed + 1)..upto
           S == {owners[k] : k \in new}
           eps == Listed(S)
           n == Cardinality(S)
           add == [i \in DOMAIN eps |->
                     [keys |-> {k \in new : owners[k] = eps[i]},
                      io |-> "query", answer |-> 0]]
<1>1. w.parsed \in Nat /\ upto \in Nat
  BY OwnersFacts DEF Worlds
<1>2. IsFiniteSet(S)
  <2>1. IsFiniteSet(new)
    <3>1. w.parsed + 1 \in Int /\ upto \in Int
      BY <1>1
    <3> QED  BY <3>1, FS_Interval, Zenon
  <2>2. [k \in new |-> owners[k]] \in Surjection(new, S)
    BY Zenon DEF Surjection
  <2> QED  BY <2>1, <2>2, FS_Surjection
<1>3. n \in Nat /\ eps \in [1..n -> S]
  BY <1>2, ListedIs, Zenon
<1> HIDE DEF S, n, eps
<1>4. DOMAIN eps = 1..n /\ new \subseteq Nat
  BY <1>1, <1>3
<1>5. add \in Seq(Subqueries) /\ \A i \in 1..Len(add) : add[i].answer = 0
  <2>1. add \in [1..n -> Subqueries]
    BY <1>4, Zenon DEF Subqueries
  <2>2. add \in Seq(Subqueries) /\ Len(add) = n
    BY <1>3, <2>1
  <2> QED  BY <1>4, <2>2, Zenon
<1>6. /\ PushSubqueries(w, upto).total = w.total
      /\ PushSubqueries(w, upto).subs = w.subs \o add
  BY Zenon DEF PushSubqueries, eps, S, Worlds
<1> QED  BY <1>5, <1>6, Zenon

DelSum == Tallied(subs, total_del_count)

LEMMA SumInit == Init => DelSum
<1> SUFFICES ASSUME Init PROVE DelSum
  BY Zenon
<1> DEFINE w0(n) == [reading |-> FALSE, received |-> n, parsed |-> 0,
                     subs |-> <<>>, total |-> 0, lock |-> 0, replying |-> 0,
                     writing |-> 0, count |-> 0, over |-> "no", failed |-> FALSE]
<1>1. PICK n \in 2..(2 * Len(owners)) :
        /\ subs = PushSubqueries(w0(n), n \div 2).subs
        /\ total_del_count = PushSubqueries(w0(n), n \div 2).total
  BY Zenon DEF Init
<1>2. owners \in Queries /\ Len(owners) \in Nat
  BY OwnersFacts, Zenon DEF Init
<1> DEFINE w == w0(n)
           upto == n \div 2
<1>3. w \in Worlds /\ w.subs = <<>> /\ w.total = 0
  <2>1. n \in Nat /\ 0 \in Nat /\ 0 \in Int /\ <<>> \in Seq(Subqueries)
    BY <1>2
  <2> QED  BY <2>1, Zenon DEF Worlds
<1>4. upto \in 0..Len(owners)
  BY <1>2
<1>5. subs = PushSubqueries(w, upto).subs
      /\ total_del_count = PushSubqueries(w, upto).total
  BY <1>1, Zenon
<1> HIDE DEF w, upto
<1>6. PICK add \in Seq(Subqueries) :
        /\ \A i \in 1..Len(add) : add[i].answer = 0
        /\ PushSubqueries(w, upto).subs = w.subs \o add
  BY <1>2, <1>3, <1>4, PushIs, Zenon
<1>7. PushSubqueries(w, upto).total = w.total
  BY <1>2, <1>3, <1>4, PushIs, Zenon
<1>8. Tallied(<<>>, 0)
  <2>1. Adds(<<>>, [b \in 0..0 |-> 0])
    BY DEF Adds
  <2>2. [b \in 0..0 |-> 0][Len(<<>>)] = 0
    OBVIOUS
  <2> QED  BY <2>1, <2>2 DEF Tallied, AddsUp, Unanswered
<1>9. <<>> \in Seq(Subqueries)
  OBVIOUS
<1>10. Tallied(<<>> \o add, 0)
  BY <1>6, <1>8, <1>9, MoreTallied, Zenon
<1> QED  BY <1>3, <1>5, <1>6, <1>7, <1>10, Zenon DEF DelSum

LEMMA SettledEntry ==
  ASSUME NEW e \in Subqueries, NEW x \in {"none", "released"}
  PROVE  /\ [e EXCEPT !.io = x] \in Subqueries
         /\ [e EXCEPT !.io = x].answer = e.answer + 0
         /\ [e EXCEPT !.io = x].io \notin {"query", "reply"}
<1>1. e.answer \in Nat
  BY Zenon DEF Subqueries
<1>2. [e EXCEPT !.io = x].io = x /\ [e EXCEPT !.io = x].answer = e.answer
  BY Zenon DEF Subqueries
<1>3. [e EXCEPT !.io = x] \in Subqueries
  BY Zenon DEF Subqueries
<1>4. x \notin {"query", "reply"} /\ e.answer = e.answer + 0
  BY <1>1
<1> QED  BY <1>2, <1>3, <1>4, Zenon

LEMMA SumNext == DelInv /\ DelSum /\ [Next]_vars => DelSum'
<1> SUFFICES ASSUME DelInv, DelSum, [Next]_vars PROVE DelSum'
  BY Zenon
<1>1. /\ owners \in Queries /\ first \in BOOLEAN /\ Sound(World, first)
      /\ World \in Worlds /\ Len(owners) \in Nat \ {0}
      /\ World.subs = subs /\ World.total = total_del_count /\ World.over = over
  BY OwnersFacts, Zenon DEF DelInv, Sound, World
<1>2. /\ subs \in Seq(Subqueries) /\ \A b \in DOMAIN subs : subs[b] \in Subqueries
      /\ total_del_count \in Nat /\ total_del_count + 0 = total_del_count
  BY <1>1, SeqElement, SeqLen DEF Worlds
<1>3. /\ Tallied(subs, total_del_count)
      /\ \A b \in DOMAIN subs : subs[b].io \in {"query", "reply"} => subs[b].answer = 0
  BY Zenon DEF DelSum, Tallied, Unanswered
<1>4. CASE subs' = subs /\ total_del_count' = total_del_count
  BY <1>3, <1>4, Zenon DEF DelSum
<1>5. ASSUME over = "no", NEW b \in DOMAIN subs, QueryWritten(b)
      PROVE  DelSum'
  <2> DEFINE e == [subs[b] EXCEPT !.io = "reply"]
  <2>1. subs[b].io = "query" /\ subs' = [subs EXCEPT ![b] = e]
        /\ total_del_count' = total_del_count
    BY <1>1, <1>5, Zenon DEF QueryWritten, Become, World
  <2>2. e \in Subqueries /\ e.answer = subs[b].answer + 0 /\ e.answer = 0
    <3>1. subs[b] \in Subqueries /\ subs[b].answer = 0
      BY <1>2, <1>3, <2>1, Zenon
    <3> QED  BY <3>1 DEF Subqueries
  <2> HIDE DEF e
  <2>3. Tallied([subs EXCEPT ![b] = e], total_del_count + 0)
    BY <1>2, <1>3, <2>2, OneTallied
  <2> QED  BY <1>2, <2>1, <2>3, Zenon DEF DelSum
<1>6. ASSUME over = "no", NEW b \in DOMAIN subs, ConnectFailed(b)
      PROVE  DelSum'
  <2> DEFINE w == Settle(World, b)
             w1 == [w EXCEPT !.lock = w.lock - 1]
  <2>1. subs[b].io = "query" /\ Become(ReadIfUnlocked(w1, ahead))
    BY <1>6, Zenon DEF ConnectFailed
  <2>2. Sound(w, first)
    BY <1>1, <1>6, <2>1, SettleSound
  <2>3. w.total = total_del_count
    BY <1>1, SettleIs, Zenon
  <2>4. PICK x \in {"none", "released"} :
          w.subs = [subs EXCEPT ![b] = [subs[b] EXCEPT !.io = x]]
    BY <1>1, SettleIs, Zenon
  <2> HIDE DEF w
  <2>5. w1 \in Worlds /\ w1.subs = w.subs /\ w1.total = w.total
    <3>1. w \in Worlds /\ w.lock - 1 \in Int
      BY <2>2 DEF Sound, Worlds
    <3> QED  BY <3>1, Zenon DEF Worlds
  <2> HIDE DEF w1
  <2>6. subs' = w.subs /\ total_del_count' = total_del_count
    BY <2>1, <2>3, <2>5, ReadIs, Zenon DEF Become
  <2> DEFINE e == [subs[b] EXCEPT !.io = x]
  <2>7. e \in Subqueries /\ e.answer = subs[b].answer + 0
        /\ e.io \notin {"query", "reply"}
    <3>1. subs[b] \in Subqueries
      BY <1>2, Zenon
    <3> QED  BY <3>1, SettledEntry, Zenon
  <2>8. subs' = [subs EXCEPT ![b] = e]
    BY <2>4, <2>6, Zenon
  <2> HIDE DEF e
  <2>9. Tallied([subs EXCEPT ![b] = e], total_del_count + 0)
    BY <1>2, <1>3, <2>7, OneTallied, Zenon
  <2> QED  BY <1>2, <2>6, <2>8, <2>9, Zenon DEF DelSum
<1>7. ASSUME over = "no", NEW b \in DOMAIN subs, NEW n \in 0..Len(owners),
             OnBackendReplyReceived(b, n)
      PROVE  DelSum'
  <2> DEFINE u == ParseReply(World, b, n)
             w == Settle(u, b)
             e1 == [subs[b] EXCEPT !.answer = n]
  <2>1. subs[b].io = "reply" /\ n \in Nat /\ Become(ReadIfUnlocked(w, ahead))
    BY <1>1, <1>7 DEF OnBackendReplyReceived
  <2>2. /\ Sound(u, first) /\ u.over = "no" /\ b \in DOMAIN u.subs
        /\ u.subs[b].io = "reply"
    BY <1>1, <1>7, <2>1, ParseSound
  <2>3. u.subs = [subs EXCEPT ![b] = e1] /\ u.total = total_del_count + n
    BY <1>1, Zenon DEF ParseReply, Worlds
  <2> HIDE DEF u
  <2>4. u \in Worlds /\ Sound(w, first) /\ w \in Worlds
    BY <1>1, <2>2, SettleSound DEF Sound
  <2>5. w.total = u.total
    BY <2>2, <2>4, SettleIs, Zenon
  <2>6. PICK x \in {"none", "released"} :
          w.subs = [u.subs EXCEPT ![b] = [u.subs[b] EXCEPT !.io = x]]
    BY <2>2, <2>4, SettleIs, Zenon
  <2> HIDE DEF w
  <2>7. subs' = w.subs /\ total_del_count' = total_del_count + n
    BY <2>1, <2>3, <2>4, <2>5, ReadIs, Zenon DEF Become
  <2> DEFINE e == [e1 EXCEPT !.io = x]
  <2>8. e \in Subqueries /\ e.answer = subs[b].answer + n
        /\ e.io \notin {"query", "reply"}
    <3>1. subs[b] \in Subqueries /\ subs[b].answer = 0
      BY <1>2, <1>3, <2>1, Zenon
    <3>2. e1 \in Subqueries /\ e1.answer = n
      BY <2>1, <3>1, Zenon DEF Subqueries
    <3> HIDE DEF e1
    <3>3. e \in Subqueries /\ e.answer = e1.answer + 0
          /\ e.io \notin {"query", "reply"}
      BY <3>2, SettledEntry, Zenon
    <3>4. e1.answer + 0 = subs[b].answer + n
      BY <2>1, <3>1, <3>2
    <3> QED  BY <3>3, <3>4, Zenon
  <2>9. subs' = [subs EXCEPT ![b] = e]
    <3>1. u.subs[b] = e1
      BY <1>2, <2>3, Zenon
    <3> HIDE DEF e1
    <3>2. w.subs = [[subs EXCEPT ![b] = e1] EXCEPT ![b] = e]
      BY <2>3, <2>6, <3>1, Zenon
    <3> HIDE DEF e
    <3> QED  BY <1>2, <2>7, <3>2, Zenon
  <2> HIDE DEF e
  <2>10. Tallied([subs EXCEPT ![b] = e], total_del_count + n)
    BY <1>2, <1>3, <2>1, <2>8, OneTallied, Zenon
  <2> QED  BY <2>7, <2>9, <2>10, Zenon DEF DelSum
<1>8. ASSUME over = "no", NEW n \in 1..(2 * Len(owners)), HandleRead(n)
      PROVE  DelSum'
  <2> DEFINE w == [World EXCEPT !.reading = FALSE, !.received = received + n]
             upto == w.received \div 2
  <2>1. /\ reading /\ n \in 1..(2 * Len(owners) - received)
        /\ Become(IF upto = parsed THEN ReadIfUnlocked(w, ahead)
                                   ELSE PushSubqueries(w, upto))
    BY <1>8, Zenon DEF HandleRead, World
  <2>2. received \in 2..(2 * Len(owners)) /\ World.received = received
    BY <1>1, Zenon DEF Sound, Reading, World
  <2>3. received + n \in 2..(2 * Len(owners)) /\ received + n \in Nat
    BY <1>1, <2>1, <2>2
  <2>4. /\ w \in Worlds /\ w.subs = subs /\ w.total = total_del_count
        /\ w.received = received + n
    BY <1>1, <2>3, Zenon DEF Worlds
  <2>5. upto \in 0..Len(owners)
    BY <1>1, <2>3, <2>4
  <2> HIDE DEF w, upto
  <2>6. CASE upto = parsed
    <3>1. subs' = subs /\ total_del_count' = total_del_count
      BY <2>1, <2>4, <2>6, ReadIs, Zenon DEF Become
    <3> QED  BY <1>4, <3>1, Zenon
  <2>7. CASE upto # parsed
    <3>1. Become(PushSubqueries(w, upto))
      BY <2>1, <2>7, Zenon
    <3>2. PushSubqueries(w, upto).total = total_del_count
      BY <1>1, <2>4, <2>5, PushIs, Zenon
    <3>3. PICK add \in Seq(Subqueries) :
            /\ \A i \in 1..Len(add) : add[i].answer = 0
            /\ PushSubqueries(w, upto).subs = subs \o add
      BY <1>1, <2>4, <2>5, PushIs, Zenon
    <3>4. subs' = subs \o add /\ total_del_count' = total_del_count
      BY <3>1, <3>2, <3>3, Zenon DEF Become
    <3>5. Tallied(subs \o add, total_del_count)
      BY <1>2, <1>3, <3>3, MoreTallied, Zenon
    <3> QED  BY <3>4, <3>5, Zenon DEF DelSum
  <2> QED  BY <2>6, <2>7, Zenon
<1>9. CASE StartWriteReply
  <2> DEFINE w == IF query_recv_complete(World) /\ replying_backend # 0
                  THEN TryWriteReply(World, replying_backend) ELSE World
  <2>1. Become(ReadIfUnlocked(w, FALSE))
    BY <1>9, Zenon DEF StartWriteReply
  <2>2. w \in Worlds /\ w.subs = subs /\ w.total = total_del_count
    <3>1. replying_backend \in Nat
      BY <1>1, Zenon DEF World, Worlds
    <3> QED  BY <1>1, <3>1, Zenon DEF TryWriteReply, Worlds
  <2> HIDE DEF w
  <2>3. subs' = subs /\ total_del_count' = total_del_count
    BY <2>1, <2>2, ReadIs, Zenon DEF Become
  <2> QED  BY <1>4, <2>3, Zenon
<1>10. CASE OnWriteReplyFinished
  <2>1. subs' = subs /\ total_del_count' = total_del_count
    BY <1>1, <1>10, Zenon DEF OnWriteReplyFinished, Become, Check, World
  <2> QED  BY <1>4, <2>1, Zenon
<1>11. CASE AheadWritten \/ ClientFails \/ \E b \in DOMAIN subs : WriteFailed(b) \/ ReplyFailed(b)
  <2>1. subs' = subs /\ total_del_count' = total_del_count
    BY <1>11, Zenon
      DEF AheadWritten, ClientFails, WriteFailed, ReplyFailed, Become, Abort, World
  <2> QED  BY <1>4, <2>1, Zenon
<1>12. CASE UNCHANGED vars
  BY <1>4, <1>12, Zenon DEF vars
<1>13. CASE Next
  BY <1>5, <1>6, <1>7, <1>8, <1>9, <1>10, <1>11, <1>13, Zenon DEF Next
<1> QED  BY <1>12, <1>13, Zenon

\* The integer that SetBackendReplyCount puts into the reply is the sum of the
\* answers of all subqueries, whatever order they come in and however the
\* query is cut, and no subquery can still be answered.
THEOREM DelSumIsComplete == Spec => []SumIsComplete
<1>1. DelInv /\ DelSum /\ DelInv' /\ [Next]_vars => DelSum'
  BY SumNext, Zenon
<1>2. DelInv /\ DelSum /\ ReplyIsLast => SumIsComplete
  <2> SUFFICES ASSUME DelInv, DelSum, ReplyIsLast, writing # 0
               PROVE  count = SumOfAnswers(subs)
    BY Zenon DEF SumIsComplete
  <2>1. subs \in Seq(Subqueries)
    BY Zenon DEF DelInv, Sound, Worlds, World
  <2>2. SumOfAnswers(subs) = total_del_count
    BY <2>1, SumIs, Zenon DEF DelSum, Tallied
  <2> QED  BY <2>2, Zenon DEF ReplyIsLast
<1> QED  BY <1>1, <1>2, SumInit, DelInvariant, DelReplyIsLast, PTL DEF Spec
=============================================================================
