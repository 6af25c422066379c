-------------------------- MODULE RedisMsetProofs ---------------------------
(***************************************************************************)
(* MSET for every sequence of backends: the asserts hold, the reply goes   *)
(* out when everything is received and settled, and the subquery that      *)
(* lacks data waits for them.                                              *)
(***************************************************************************)
EXTENDS RedisMset, FiniteSetTheorems, TLAPS

-----------------------------------------------------------------------------
(* The inductive invariant.                                                *)

Subqueries == [pairs : SUBSET Nat, whole : BOOLEAN, error : BOOLEAN,
               io : {"query", "more", "rest", "reply", "none", "released"}]

Worlds == [reading : BOOLEAN, received : Nat, parsed : Nat,
           subs : Seq(Subqueries), tail : Nat, lock : Int, replying : Nat,
           writing : Nat, over : {"no", "done", "aborted"}, failed : BOOLEAN]

\* The subqueries that write from the client's buffer.
Busy(w) == {b \in DOMAIN w.subs : w.subs[b].io \in {"query", "rest"}}

PairsOf(s) == UNION {s[b].pairs : b \in DOMAIN s}

\* The pairs whose value's length is known have been sent, and nothing is
\* read while something is written.
Progress(w) ==
  /\ w.received \in 2..(4 * Len(owners))
  /\ w.parsed \in 0..Len(owners) /\ 4 * w.parsed <= w.received + 2
  /\ PairsOf(w.subs) = 1..w.parsed
  /\ w.reading => Busy(w) = {}

\* The tail lacks data, and no other.
Tails(w) ==
  /\ w.tail \in DOMAIN w.subs
  /\ \A b \in DOMAIN w.subs : ~w.subs[b].whole <=> b = w.tail /\ Unreceived(w)

\* Subquery b has the reply, and there is nothing else to wait for.
Carries(w, b, f) ==
  /\ w.parsed = Len(owners) /\ ~Unreceived(w)
  /\ \A c \in DOMAIN w.subs : c # b => w.subs[c].io = "released"
  /\ (IF f THEN w.writing ELSE w.replying) = b

\* What a subquery does fits with the data it has.
SubSound(w, b, f) ==
  LET s == w.subs[b] IN
  /\ s.io \in {"query", "rest", "reply", "more"} => ~s.error
  /\ s.io = "more" => ~s.whole
  /\ s.io \in {"reply", "released"} => s.whole
  /\ s.io = "none" =>
       IF s.whole THEN w.over = "done" \/ Carries(w, b, f) ELSE s.error

HasReply(w, b) ==
  b \in DOMAIN w.subs /\ w.subs[b].io = "none" /\ w.subs[b].whole

\* Only the subquery that has the reply is written or waits for its turn.
Replying(w, f) ==
  w.over # "done" =>
    /\ w.writing # 0 => f /\ HasReply(w, w.writing)
    /\ w.replying # 0 => HasReply(w, w.replying)

Sound(w, f) ==
  /\ w \in Worlds /\ Progress(w) /\ Tails(w) /\ Replying(w, f)
  /\ \A b \in DOMAIN w.subs : SubSound(w, b, f)
  /\ ~w.failed /\ (w.over = "done" => w.writing = 0)

MsetInv ==
  /\ owners \in Queries /\ first \in BOOLEAN /\ ahead \in BOOLEAN
  /\ Sound(World, first)
  /\ lock = Cardinality(Busy(World))

-----------------------------------------------------------------------------
(* Sequences.                                                              *)

LEMMA SeqElement ==
  ASSUME NEW S, NEW s \in Seq(S), NEW i \in 1..Len(s)
  PROVE  s[i] \in S
OBVIOUS

LEMMA SeqLen ==
  ASSUME NEW S, NEW s \in Seq(S)
  PROVE  /\ Len(s) \in Nat /\ s \in [1..Len(s) -> S] /\ DOMAIN s = 1..Len(s)
         /\ s # <<>> => Len(s) # 0
OBVIOUS

LEMMA SeqConcat ==
  ASSUME NEW S, NEW s \in Seq(S), NEW t \in Seq(S)
  PROVE  /\ s \o t \in Seq(S) /\ Len(s \o t) = Len(s) + Len(t)
         /\ \A i \in 1..(Len(s) + Len(t)) :
              (s \o t)[i] = IF i <= Len(s) THEN s[i] ELSE t[i - Len(s)]
OBVIOUS

LEMMA SeqExcept ==
  ASSUME NEW S, NEW s \in Seq(S), NEW i \in 1..Len(s), NEW x \in S
  PROVE  /\ [s EXCEPT ![i] = x] \in Seq(S) /\ Len([s EXCEPT ![i] = x]) = Len(s)
         /\ \A j \in 1..Len(s) : [s EXCEPT ![i] = x][j] = IF j = i THEN x ELSE s[j]
OBVIOUS

LEMMA SeqFunction ==
  ASSUME NEW S, NEW n \in Nat, NEW f \in [1..n -> S]
  PROVE  f \in Seq(S) /\ Len(f) = n /\ DOMAIN f = 1..n
OBVIOUS

-----------------------------------------------------------------------------
(* Lemmas about data.                                                      *)

LEMMA OwnersFacts ==
  ASSUME owners \in Queries
  PROVE  Len(owners) \in Nat \ {0} /\ DOMAIN owners = 1..Len(owners)
<1>1. owners \in Seq({owners[i] : i \in DOMAIN owners}) /\ owners # <<>>
  BY QueriesAssumption, Zenon
<1> QED  BY <1>1, SeqLen, Zenon

\* Listed lists a finite set.
LEMMA ListedIs ==
  ASSUME NEW S, IsFiniteSet(S)
  PROVE  /\ Cardinality(S) \in Nat
         /\ Listed(S) \in [1..Cardinality(S) -> S]
         /\ \A i, j \in 1..Cardinality(S) : Listed(S)[i] = Listed(S)[j] => i = j
         /\ \A x \in S : \E i \in 1..Cardinality(S) : Listed(S)[i] = x
<1> DEFINE n == Cardinality(S)
<1>1. n \in Nat /\ ExistsBijection(1..n, S)
  BY FS_CardinalityType, Zenon
<1>2. PICK f : f \in Bijection(1..n, S)
  BY <1>1, Zenon DEF ExistsBijection
<1>3. f \in [1..n -> S] /\ \A i, j \in 1..n : f[i] = f[j] => i = j
  BY <1>2, Zenon DEF Bijection, Injection, IsInjective
<1>4. /\ Listed(S) \in [1..n -> S]
      /\ \A i, j \in 1..n : Listed(S)[i] = Listed(S)[j] => i = j
  <2> DEFINE T == [1..n -> S]
             P(q) == \A i, j \in DOMAIN q : q[i] = q[j] => i = j
  <2>1. f \in T /\ P(f)
    BY <1>3
  <2>2. Listed(S) = CHOOSE q \in T : P(q)
    BY Zenon DEF Listed
  <2>3. \A q \in T : DOMAIN q = 1..n
    OBVIOUS
  <2> HIDE DEF T, P
  <2>4. Listed(S) \in T /\ P(Listed(S))
    BY <2>1, <2>2, Zenon
  <2> QED  BY <2>3, <2>4, Zenon DEF T, P
<1>5. Listed(S) \in Injection(1..n, S)
  BY <1>4, Zenon DEF Injection, IsInjective
<1>6. IsFiniteSet(1..n) /\ Cardinality(1..n) = n
  BY <1>1, FS_Interval
<1>7. Listed(S) \in Surjection(1..n, S)
  BY <1>1, <1>5, <1>6, FS_Injection, Zenon
<1> QED  BY <1>1, <1>4, <1>7, Zenon DEF Surjection

LEMMA BusyFacts ==
  ASSUME NEW w, w.subs \in Seq(Subqueries)
  PROVE  /\ IsFiniteSet(Busy(w)) /\ Cardinality(Busy(w)) \in Nat
         /\ Cardinality(Busy(w)) = 0 <=> Busy(w) = {}
         /\ IsFiniteSet(pending_subqueries(w))
         /\ \A b \in Busy(w) : Cardinality(Busy(w) \ {b}) = Cardinality(Busy(w)) - 1
         /\ \A b : b \notin Busy(w) =>
              Cardinality(Busy(w) \cup {b}) = Cardinality(Busy(w)) + 1
<1>1. DOMAIN w.subs = 1..Len(w.subs) /\ Len(w.subs) \in Nat
  BY SeqLen, Zenon
<1>2. IsFiniteSet(1..Len(w.subs))
  BY <1>1, FS_Interval
<1>3. Busy(w) \in SUBSET (1..Len(w.subs))
       /\ pending_subqueries(w) \in SUBSET (1..Len(w.subs))
  BY <1>1, Zenon DEF Busy, pending_subqueries
<1>4. IsFiniteSet(Busy(w)) /\ IsFiniteSet(pending_subqueries(w))
  BY <1>2, <1>3, FS_Subset, Zenon
<1>5. \A b \in Busy(w) : Cardinality(Busy(w) \ {b}) = Cardinality(Busy(w)) - 1
  BY <1>4, FS_RemoveElement, Zenon
<1>6. \A b : b \notin Busy(w) =>
        Cardinality(Busy(w) \cup {b}) = Cardinality(Busy(w)) + 1
  BY <1>4, FS_AddElement, Zenon
<1> QED  BY <1>4, <1>5, <1>6, FS_CardinalityType, FS_EmptySet, Zenon

LEMMA Becomes ==
  ASSUME NEW w \in Worlds, Become(w)
  PROVE  World' = w
BY Zenon DEF Become, World, Worlds

\* A change of one subquery that keeps its pairs.
LEMMA SubChanged ==
  ASSUME NEW s \in Seq(Subqueries), NEW b \in DOMAIN s,
         NEW e \in Subqueries, e.pairs = s[b].pairs
  PROVE  LET t == [s EXCEPT ![b] = e] IN
         /\ t \in Seq(Subqueries) /\ DOMAIN t = DOMAIN s
         /\ \A c \in DOMAIN s : t[c] = IF c = b THEN e ELSE s[c]
         /\ PairsOf(t) = PairsOf(s)
<1> DEFINE t == [s EXCEPT ![b] = e]
<1>1. /\ t \in Seq(Subqueries) /\ DOMAIN t = DOMAIN s
      /\ \A c \in DOMAIN s : t[c] = IF c = b THEN e ELSE s[c]
  BY SeqLen, SeqExcept
<1>2. \A c \in DOMAIN s : t[c].pairs = s[c].pairs
  BY <1>1, Zenon
<1> HIDE DEF t
<1>3. {t[c].pairs : c \in DOMAIN t} = {s[c].pairs : c \in DOMAIN s}
  BY <1>1, <1>2, Zenon
<1>4. PairsOf(t) = PairsOf(s)
  BY <1>3, Zenon DEF PairsOf
<1> QED  BY <1>1, <1>4, Zenon DEF t

-----------------------------------------------------------------------------
(* States in which no subquery has the reply.                              *)

QuietSub(s) ==
  /\ s.io \in {"query", "rest", "reply", "more"} => ~s.error
  /\ s.io = "more" => ~s.whole
  /\ s.io \in {"reply", "released"} => s.whole
  /\ s.io = "none" => ~s.whole /\ s.error

Quiet(w) ==
  /\ w.writing = 0 /\ w.replying = 0
  /\ \A c \in DOMAIN w.subs : QuietSub(w.subs[c])

\* If one is at work or waits for data there is no reply.
LEMMA AllQuiet ==
  ASSUME NEW w, NEW f \in BOOLEAN, Sound(w, f), w.over # "done",
         NEW b \in DOMAIN w.subs, w.subs[b].io # "released",
         ~HasReply(w, b)
  PROVE  Quiet(w)
<1>1. ASSUME NEW c \in DOMAIN w.subs  PROVE ~HasReply(w, c) /\ QuietSub(w.subs[c])
  <2>1. SubSound(w, c, f)
    BY Zenon DEF Sound
  <2>2. ~HasReply(w, c)
    BY <2>1 DEF HasReply, SubSound, Carries
  <2> QED  BY <2>1, <2>2, Zenon DEF HasReply, SubSound, QuietSub
<1>2. w.writing = 0 /\ w.replying = 0
  BY <1>1, Zenon DEF Sound, Replying, HasReply
<1> QED  BY <1>1, <1>2, Zenon DEF Quiet

\* A quiet state is sound if its subqueries have the data they should.
LEMMA QuietSound ==
  ASSUME NEW w \in Worlds, NEW f \in BOOLEAN, Progress(w), Tails(w), Quiet(w),
         ~w.failed, w.over = "no"
  PROVE  Sound(w, f)
<1>1. \A b \in DOMAIN w.subs : SubSound(w, b, f)
  BY Zenon DEF Quiet, QuietSub, SubSound
<1>2. Replying(w, f)
  BY Zenon DEF Quiet, Replying
<1> QED  BY <1>1, <1>2, Zenon DEF Sound, Quiet

LEMMA ReadSound ==
  ASSUME NEW w, NEW f \in BOOLEAN, Sound(w, f), Busy(w) = {}
  PROVE  LET v == TryReadMoreQuery(w) IN
         Sound(v, f) /\ v.subs = w.subs /\ v.lock = w.lock
<1> DEFINE v == TryReadMoreQuery(w)
<1>1. w \in Worlds
  BY Zenon DEF Sound
<1>2. v \in Worlds
  BY <1>1, Zenon DEF TryReadMoreQuery, Worlds
<1>3. /\ v.subs = w.subs /\ v.lock = w.lock /\ v.received = w.received
      /\ v.parsed = w.parsed /\ v.over = w.over /\ v.writing = w.writing
      /\ v.replying = w.replying /\ v.failed = w.failed /\ v.tail = w.tail
  BY <1>1, Zenon DEF TryReadMoreQuery, Worlds
<1> HIDE DEF v
<1>4. Busy(v) = {}
  BY <1>3, Zenon DEF Busy
<1>5. Progress(v) /\ Tails(v)
  BY <1>3, <1>4, Zenon DEF Sound, Progress, Tails, Unreceived
<1>6. Replying(v, f)
  BY <1>3, Zenon DEF Sound, Replying, HasReply
<1>7. \A b \in DOMAIN v.subs : SubSound(v, b, f)
  BY <1>3 DEF Sound, SubSound, Carries, Unreceived
<1>8. Sound(v, f)
  BY <1>2, <1>3, <1>5, <1>6, <1>7, Zenon DEF Sound
<1> QED  BY <1>3, <1>8, Zenon DEF v

LEMMA ReadIfUnlockedSound ==
  ASSUME NEW w, NEW f \in BOOLEAN, Sound(w, f), NEW isAhead,
         w.lock = Cardinality(Busy(w))
  PROVE  LET v == ReadIfUnlocked(w, isAhead) IN
         Sound(v, f) /\ v.subs = w.subs /\ v.lock = w.lock
<1>1. w.subs \in Seq(Subqueries)
  BY Zenon DEF Sound, Worlds
<1>2. Cardinality(Busy(w)) \in Nat /\ (Cardinality(Busy(w)) = 0 <=> Busy(w) = {})
  BY <1>1, BusyFacts, Zenon
<1>3. CASE recycle_locked(w, isAhead)
  BY <1>3, Zenon DEF ReadIfUnlocked
<1>4. CASE ~recycle_locked(w, isAhead)
  <2>1. Busy(w) = {}
    BY <1>2, <1>4 DEF recycle_locked
  <2>2. ReadIfUnlocked(w, isAhead) = TryReadMoreQuery(w)
    BY <1>4, Zenon DEF ReadIfUnlocked
  <2> QED  BY <2>1, <2>2, ReadSound, Zenon
<1> QED  BY <1>3, <1>4, Zenon

\* The lock count is not part of what makes a state sound.
LEMMA LockSound ==
  ASSUME NEW w, NEW f \in BOOLEAN, Sound(w, f), NEW n \in Int
  PROVE  LET v == [w EXCEPT !.lock = n] IN
         /\ Sound(v, f) /\ v.subs = w.subs /\ v.lock = n
         /\ v.tail = w.tail /\ v.parsed = w.parsed
<1> DEFINE v == [w EXCEPT !.lock = n]
<1>1. w \in Worlds
  BY Zenon DEF Sound
<1>2. v \in Worlds
  BY <1>1, Zenon DEF Worlds
<1>3. /\ v.subs = w.subs /\ v.lock = n /\ v.received = w.received
      /\ v.parsed = w.parsed /\ v.over = w.over /\ v.writing = w.writing
      /\ v.replying = w.replying /\ v.failed = w.failed /\ v.tail = w.tail
      /\ v.reading = w.reading
  BY <1>1, Zenon DEF Worlds
<1> HIDE DEF v
<1>4. Busy(v) = Busy(w)
  BY <1>3, Zenon DEF Busy
<1>5. Progress(v) /\ Tails(v)
  BY <1>3, <1>4, Zenon DEF Sound, Progress, Tails, Unreceived
<1>6. Replying(v, f)
  BY <1>3, Zenon DEF Sound, Replying, HasReply
<1>7. \A b \in DOMAIN v.subs : SubSound(v, b, f)
  BY <1>3 DEF Sound, SubSound, Carries, Unreceived
<1>8. Sound(v, f)
  BY <1>2, <1>3, <1>5, <1>6, <1>7, Zenon DEF Sound
<1> QED  BY <1>3, <1>8, Zenon DEF v

-----------------------------------------------------------------------------
(* What the functions of the command do to a sound state.                  *)

\* v is w but for subquery b, the reply's way, the lock and is_reading_query_.
Updated(w, v, b, e) ==
  /\ v \in Worlds /\ v.subs = [w.subs EXCEPT ![b] = e]
  /\ v.received = w.received /\ v.parsed = w.parsed /\ v.tail = w.tail
  /\ v.over = "no" /\ v.failed = FALSE /\ v.reading = w.reading

\* The other subqueries are quiet and have the data they should.
OthersSound(w, b) ==
  /\ w \in Worlds /\ Progress(w) /\ w.over = "no" /\ ~w.failed
  /\ w.tail \in DOMAIN w.subs
  /\ w.writing = 0 /\ w.replying = 0
  /\ \A c \in DOMAIN w.subs : c # b =>
       /\ QuietSub(w.subs[c])
       /\ ~w.subs[c].whole <=> c = w.tail /\ Unreceived(w)

LEMMA QuietOthers ==
  ASSUME NEW w, NEW f \in BOOLEAN, Sound(w, f), Quiet(w), w.over = "no", NEW b
  PROVE  OthersSound(w, b)
BY Zenon DEF Sound, Quiet, Tails, OthersSound

\* One subquery changes to something that fits the data it has.
LEMMA UpdatedSound ==
  ASSUME NEW w, NEW v, NEW f \in BOOLEAN, NEW b \in DOMAIN w.subs,
         NEW e \in Subqueries, OthersSound(w, b), Updated(w, v, b, e),
         e.pairs = w.subs[b].pairs, v.reading => Busy(v) = {},
         ~e.whole <=> b = w.tail /\ Unreceived(w),
         \/ QuietSub(e) /\ v.writing = 0 /\ v.replying = 0
         \/ /\ e.io = "none" /\ e.whole /\ Carries(v, b, f)
            /\ v.writing = (IF f THEN b ELSE 0)
            /\ v.replying = (IF f THEN 0 ELSE b)
  PROVE  Sound(v, f)
<1>1. w.subs \in Seq(Subqueries) /\ v \in Worlds
  BY Zenon DEF OthersSound, Updated, Worlds
<1>2. /\ DOMAIN v.subs = DOMAIN w.subs
      /\ \A c \in DOMAIN w.subs : v.subs[c] = IF c = b THEN e ELSE w.subs[c]
      /\ PairsOf(v.subs) = PairsOf(w.subs)
  BY <1>1, SubChanged DEF Updated
<1>3. /\ v.received = w.received /\ v.parsed = w.parsed /\ v.tail = w.tail
      /\ v.over = "no" /\ v.failed = FALSE
  BY Zenon DEF Updated
<1>4. Progress(v)
  BY <1>2, <1>3, Zenon DEF OthersSound, Progress
<1>5. Unreceived(v) <=> Unreceived(w)
  BY <1>3, Zenon DEF Unreceived
<1>6. Tails(v)
  BY <1>2, <1>3, <1>5 DEF OthersSound, Tails
<1>7. CASE QuietSub(e) /\ v.writing = 0 /\ v.replying = 0
  <2>1. Quiet(v)
    BY <1>2, <1>7, Zenon DEF OthersSound, Quiet
  <2> QED  BY <1>1, <1>3, <1>4, <1>6, <2>1, QuietSound, Zenon
<1>8. CASE /\ e.io = "none" /\ e.whole /\ Carries(v, b, f)
           /\ v.writing = (IF f THEN b ELSE 0)
           /\ v.replying = (IF f THEN 0 ELSE b)
  <2>1. ASSUME NEW c \in DOMAIN v.subs  PROVE SubSound(v, c, f)
    <3>1. CASE c = b
      BY <1>2, <1>8, <3>1, Zenon DEF SubSound
    <3>2. CASE c # b
      <4>1. QuietSub(v.subs[c])
        BY <1>2, <3>2, Zenon DEF OthersSound
      <4> QED  BY <4>1, Zenon DEF QuietSub, SubSound
    <3> QED  BY <3>1, <3>2, Zenon
  <2>2. HasReply(v, b)
    BY <1>2, <1>8, Zenon DEF HasReply
  <2>3. Replying(v, f)
    BY <1>8, <2>2, Zenon DEF Replying
  <2> QED  BY <1>1, <1>3, <1>4, <1>6, <2>1, <2>3, Zenon DEF Sound
<1> QED  BY <1>7, <1>8, Zenon

\* Settling a subquery that has all its data.
Settled(w, b, v) ==
  /\ Sound(v, first) /\ v.lock = w.lock /\ v.parsed = w.parsed
  /\ v.received = w.received /\ v.over = "no" /\ v.reading = w.reading
  /\ Busy(v) = Busy(w) \ {b}
  /\ ~IsLast(w) => Quiet(v)

LEMMA SettleSound ==
  ASSUME NEW w, first \in BOOLEAN, NEW b \in DOMAIN w.subs, OthersSound(w, b),
         w.subs[b].whole, w.subs[b].io # "released",
         ~(b = w.tail /\ Unreceived(w))
  PROVE  Settled(w, b, Settle(w, b))
<1> DEFINE v == Settle(w, b)
           io == IF IsLast(w) THEN "none" ELSE "released"
           e == [w.subs[b] EXCEPT !.io = io]
           t == [w.subs EXCEPT ![b] = e]
<1>1. /\ w \in Worlds /\ w.subs \in Seq(Subqueries) /\ w.over = "no" /\ ~w.failed
      /\ w.writing = 0 /\ w.replying = 0
  BY Zenon DEF OthersSound, Worlds
<1>2. w.subs[b] \in Subqueries /\ b \in Nat \ {0}
  BY <1>1, SeqElement, SeqLen
<1>3. /\ e \in Subqueries /\ e.pairs = w.subs[b].pairs /\ e.io = io /\ e.whole
  BY <1>2, Zenon DEF Subqueries
<1>4. v = IF IsLast(w) THEN IF first THEN [w EXCEPT !.subs = t, !.writing = b]
                                     ELSE [w EXCEPT !.subs = t, !.replying = b]
          ELSE [w EXCEPT !.subs = t]
  BY <1>1, Zenon DEF Settle, TryWriteReply, Worlds
<1> HIDE DEF e
<1>5. /\ t \in Seq(Subqueries) /\ DOMAIN t = DOMAIN w.subs
      /\ \A c \in DOMAIN w.subs : t[c] = IF c = b THEN e ELSE w.subs[c]
  BY <1>1, <1>3, SubChanged, Zenon
<1> HIDE DEF v, t
<1>6. v \in Worlds
  <2>1. CASE v = [w EXCEPT !.subs = t, !.writing = b]
    BY <1>1, <1>2, <1>5, <2>1, Zenon DEF Worlds
  <2>2. CASE v = [w EXCEPT !.subs = t, !.replying = b]
    BY <1>1, <1>2, <1>5, <2>2, Zenon DEF Worlds
  <2>3. CASE v = [w EXCEPT !.subs = t]
    BY <1>1, <1>5, <2>3, Zenon DEF Worlds
  <2> QED  BY <1>4, <2>1, <2>2, <2>3, Zenon
<1>7. /\ v.subs = t /\ v.lock = w.lock /\ v.received = w.received
      /\ v.parsed = w.parsed /\ v.tail = w.tail /\ v.over = w.over
      /\ v.failed = w.failed /\ v.reading = w.reading
      /\ v.writing = (IF IsLast(w) /\ first THEN b ELSE 0)
      /\ v.replying = (IF IsLast(w) /\ ~first THEN b ELSE 0)
  BY <1>1, <1>4, Zenon DEF Worlds
<1>8. Updated(w, v, b, e)
  BY <1>1, <1>6, <1>7 DEF Updated, t
<1>9. Busy(v) = Busy(w) \ {b}
  BY <1>3, <1>5, <1>7, Zenon DEF Busy, io
<1>10. v.reading => Busy(v) = {}
  BY <1>7, <1>9, Zenon DEF OthersSound, Progress
<1>11. CASE IsLast(w)
  <2>1. IsFiniteSet(pending_subqueries(w))
    BY <1>1, BusyFacts, Zenon
  <2>2. PICK x : pending_subqueries(w) = {x}
    BY <1>11, <2>1, FS_Singleton, Zenon DEF IsLast
  <2>3. b \in pending_subqueries(w)
    BY Zenon DEF pending_subqueries
  <2>4. /\ w.parsed = Len(owners)
        /\ \A c \in DOMAIN w.subs : c # b => w.subs[c].io = "released"
    BY <1>11, <2>2, <2>3 DEF IsLast, query_parsing_complete, pending_subqueries
  <2>5. ~Unreceived(w)
    <3>1. CASE w.tail = b
      BY <3>1, Zenon
    <3>2. CASE w.tail # b
      BY <2>4, <3>2, Zenon DEF OthersSound, QuietSub
    <3> QED  BY <3>1, <3>2, Zenon
  <2>6. Carries(v, b, first)
    BY <1>5, <1>7, <1>11, <2>4, <2>5 DEF Carries, Unreceived
  <2>7. Sound(v, first)
    BY <1>3, <1>7, <1>8, <1>10, <1>11, <2>5, <2>6, UpdatedSound, Zenon DEF io
  <2> QED  BY <1>1, <1>7, <1>9, <1>11, <2>7, Zenon DEF Settled, v
<1>12. CASE ~IsLast(w)
  <2>1. QuietSub(e)
    BY <1>3, <1>12, Zenon DEF QuietSub, io
  <2>2. Sound(v, first)
    BY <1>3, <1>7, <1>8, <1>10, <1>12, <2>1, UpdatedSound, Zenon
  <2>3. Quiet(v)
    BY <1>5, <1>7, <1>12, <2>1, Zenon DEF Quiet, OthersSound
  <2> QED  BY <1>1, <1>7, <1>9, <2>2, <2>3, Zenon DEF Settled, v
<1> QED  BY <1>11, <1>12, Zenon

\* New pairs get new subqueries, the last of them the tail.
LEMMA PushSound ==
  ASSUME NEW w \in Worlds, NEW f \in BOOLEAN, owners \in Queries,
         Progress(w), Quiet(w), ~w.reading, ~w.failed, w.over = "no",
         w.parsed < Parsable(w.received),
         \A c \in DOMAIN w.subs : w.subs[c].whole,
         w.lock = Cardinality(Busy(w))
  PROVE  LET v == PushSubqueries(w, Parsable(w.received)) IN
         Sound(v, f) /\ v.lock = Cardinality(Busy(v))
<1> DEFINE upto == Parsable(w.received)
           new == (w.parsed + 1)..upto
           S == {owners[k] : k \in new}
           eps == Listed(S)
           n == Cardinality(S)
           m == Len(w.subs)
           tail == TailOf(w, eps, upto)
           add == [i \in DOMAIN eps |->
                     [pairs |-> {k \in new : owners[k] = eps[i]},
                      io |-> "query",
                      whole |-> m + i # tail \/ 4 * upto <= w.received,
                      error |-> FALSE]]
           v == PushSubqueries(w, upto)
<1>1. /\ Len(owners) \in Nat \ {0} /\ DOMAIN owners = 1..Len(owners)
      /\ w.parsed \in Nat /\ w.received \in 2..(4 * Len(owners))
      /\ w.subs \in Seq(Subqueries) /\ w.lock \in Int
  BY OwnersFacts, Zenon DEF Worlds, Progress
<1>2. upto \in 1..Len(owners) /\ 4 * upto <= w.received + 2
  BY <1>1, SMTT(30) DEF Parsable
<1> HIDE DEF upto
<1>3. IsFiniteSet(S)
  <2>1. IsFiniteSet(new)
    <3>1. w.parsed + 1 \in Int /\ upto \in Int
      BY <1>1, <1>2
    <3> QED  BY <3>1, FS_Interval, Zenon
  <2>2. [k \in new |-> owners[k]] \in Surjection(new, S)
    BY Zenon DEF Surjection
  <2> QED  BY <2>1, <2>2, FS_Surjection
<1>4. /\ n \in Nat /\ eps \in [1..n -> S]
      /\ \A x \in S : \E i \in 1..n : eps[i] = x
  BY <1>3, ListedIs, Zenon
<1>5. \A k \in new : owners[k] \in S
  BY Zenon
<1> HIDE DEF S, n, eps
<1>6. DOMAIN eps = 1..n /\ Len(eps) = n
  BY <1>4, SeqLen
<1>7. upto \in new
  BY <1>1, <1>2 DEF upto
<1>8. m \in Nat /\ tail \in (m + 1)..(m + n)
  <2>1. \E i \in DOMAIN eps : eps[i] = owners[upto]
    BY <1>4, <1>5, <1>6, <1>7, Zenon
  <2> DEFINE j == CHOOSE i \in DOMAIN eps : eps[i] = owners[upto]
  <2>2. j \in 1..n
    BY <1>6, <2>1, Zenon
  <2>3. tail = m + j
    BY Zenon DEF TailOf
  <2> HIDE DEF j, tail
  <2>4. m \in Nat
    BY <1>1, SeqLen, Zenon
  <2> QED  BY <1>4, <2>2, <2>3, <2>4
<1>9. add \in Seq(Subqueries) /\ Len(add) = n
  <2> HIDE DEF tail
  <2>1. new \in SUBSET Nat
    BY <1>1
  <2> HIDE DEF new
  <2>2. add \in [1..n -> Subqueries]
    BY <1>6, <2>1, Zenon DEF Subqueries
  <2> QED  BY <1>4, <2>2, SMTT(30)
<1>10. v = [w EXCEPT !.parsed = upto, !.lock = w.lock + n, !.tail = tail,
                     !.subs = w.subs \o add]
  BY <1>6, Zenon DEF PushSubqueries, eps, S, Worlds
<1> HIDE DEF tail
<1>11. \A i \in 1..n :
         /\ add[i].io = "query" /\ add[i].error = FALSE
         /\ add[i].whole = (m + i # tail \/ 4 * upto <= w.received)
         /\ add[i].pairs = {k \in new : owners[k] = eps[i]}
  BY <1>6, Zenon
<1> HIDE DEF add, v, new
<1>12. /\ v.subs = w.subs \o add /\ v.lock = w.lock + n /\ v.parsed = upto
       /\ v.reading = FALSE /\ v.received = w.received /\ v.over = "no"
       /\ v.failed = FALSE /\ v.writing = 0 /\ v.replying = 0 /\ v.tail = tail
  BY <1>10, Zenon DEF Worlds, Quiet
<1>13. /\ v.subs \in Seq(Subqueries) /\ Len(v.subs) = m + n
       /\ DOMAIN v.subs = 1..(m + n) /\ DOMAIN w.subs = 1..m
       /\ \A c \in 1..m : v.subs[c] = w.subs[c]
       /\ \A i \in 1..n : v.subs[m + i] = add[i]
  <2>1. Len(w.subs) = m /\ DOMAIN w.subs = 1..m
    BY <1>1, SeqLen
  <2> HIDE DEF m
  <2>2. /\ v.subs \in Seq(Subqueries) /\ Len(v.subs) = m + n
        /\ \A i \in 1..(m + n) :
             v.subs[i] = IF i <= m THEN w.subs[i] ELSE add[i - m]
    <3> DEFINE t == w.subs \o add
    <3>1. /\ t \in Seq(Subqueries) /\ Len(t) = Len(w.subs) + Len(add)
          /\ \A i \in 1..(Len(w.subs) + Len(add)) :
               t[i] = IF i <= Len(w.subs) THEN w.subs[i] ELSE add[i - Len(w.subs)]
      <4>1. w.subs \in Seq(Subqueries) /\ add \in Seq(Subqueries)
        BY <1>1, <1>9, Zenon
      <4> HIDE DEF add
      <4> QED  BY <4>1, SeqConcat, ZenonT(40)
    <3>2. v.subs = t /\ Len(add) = n /\ Len(w.subs) = m
      BY <1>9, <1>12, <2>1, Zenon
    <3> HIDE DEF t
    <3> QED  BY <3>1, <3>2, Zenon
  <2>3. DOMAIN v.subs = 1..(m + n)
    BY <2>2, SeqLen, Zenon
  <2>4. /\ \A c \in 1..m : c \in 1..(m + n) /\ c <= m
        /\ \A i \in 1..n : m + i \in 1..(m + n) /\ ~(m + i <= m) /\ (m + i) - m = i
    BY <1>4, <1>8
  <2> QED  BY <2>1, <2>2, <2>3, <2>4
<1>14. v \in Worlds
  <2>1. /\ upto \in Nat /\ w.lock + n \in Int /\ tail \in Nat
        /\ w.subs \o add \in Seq(Subqueries)
    <3>1. w.lock \in Int /\ w.subs \in Seq(Subqueries) /\ upto \in Nat
      BY <1>1, <1>2 DEF Worlds
    <3>2. w.lock + n \in Int /\ tail \in Nat
      BY <1>1, <1>4, <1>8, <3>1
    <3> QED  BY <1>12, <1>13, <3>1, <3>2, Zenon
  <2> QED  BY <1>10, <2>1, Zenon DEF Worlds
<1> HIDE DEF m
<1>15. ASSUME NEW c \in 1..(m + n)  PROVE c \in 1..m \/ \E i \in 1..n : c = m + i
  <2>1. CASE c > m
    <3>1. c - m \in 1..n /\ c = m + (c - m)
      BY <1>4, <1>8, <2>1
    <3> QED  BY <3>1, Zenon
  <2>2. CASE c <= m
    BY <1>8, <2>2
  <2> QED  BY <1>4, <1>8, <2>1, <2>2
<1>16. /\ \A i \in 1..n : m + i \in 1..(m + n)
       /\ \A c \in 1..m : c \in 1..(m + n) /\ c # tail
  BY <1>4, <1>8
<1>17. PairsOf(v.subs) = 1..upto
  <2>1. ASSUME NEW k \in PairsOf(v.subs)  PROVE k \in 1..upto
    <3>1. PICK c \in 1..(m + n) : k \in v.subs[c].pairs
      BY <1>13, Zenon DEF PairsOf
    <3>2. CASE c \in 1..m
      <4>1. k \in PairsOf(w.subs)
        BY <1>13, <3>1, <3>2 DEF PairsOf
      <4>2. k \in 1..w.parsed
        BY <4>1, Zenon DEF Progress
      <4> QED  BY <1>1, <1>2, <4>2 DEF upto
    <3>3. ASSUME NEW i \in 1..n, c = m + i  PROVE k \in 1..upto
      <4>1. k \in new
        BY <1>11, <1>13, <3>1, <3>3
      <4> QED  BY <1>1, <1>2, <4>1 DEF new
    <3> QED  BY <1>15, <3>2, <3>3, Zenon
  <2>2. ASSUME NEW k \in 1..upto  PROVE k \in PairsOf(v.subs)
    <3>1. CASE k <= w.parsed
      <4>1. k \in PairsOf(w.subs)
        BY <1>1, <1>2, <3>1 DEF Progress
      <4>2. PICK c \in 1..m : k \in w.subs[c].pairs
        BY <1>13, <4>1, Zenon DEF PairsOf
      <4> QED  BY <1>13, <1>16, <4>2 DEF PairsOf
    <3>2. CASE k > w.parsed
      <4>1. k \in new
        BY <1>1, <1>2, <3>2 DEF new
      <4>2. PICK i \in 1..n : eps[i] = owners[k]
        BY <1>4, <1>5, <4>1, Zenon
      <4>3. k \in v.subs[m + i].pairs
        BY <1>11, <1>13, <4>1, <4>2
      <4> QED  BY <1>13, <1>16, <4>3, Zenon DEF PairsOf
    <3> QED  BY <1>1, <1>2, <3>1, <3>2
  <2> QED  BY <2>1, <2>2, Zenon
<1>18. Progress(v)
  BY <1>1, <1>2, <1>12, <1>17 DEF Progress
<1>19. Tails(v)
  <2>1. Unreceived(v) <=> ~(4 * upto <= w.received)
    BY <1>1, <1>2, <1>12 DEF Unreceived
  <2>2. v.tail \in DOMAIN v.subs
    BY <1>4, <1>8, <1>12, <1>13
  <2>3. ASSUME NEW c \in 1..(m + n)
        PROVE  ~v.subs[c].whole <=> c = v.tail /\ Unreceived(v)
    <3>1. CASE c \in 1..m
      BY <1>12, <1>13, <1>16, <3>1, Zenon
    <3>2. ASSUME NEW i \in 1..n, c = m + i
          PROVE  ~v.subs[c].whole <=> c = v.tail /\ Unreceived(v)
      <4>1. v.subs[c].whole = (c # tail \/ 4 * upto <= w.received)
        BY <1>11, <1>13, <3>2
      <4> QED  BY <1>12, <2>1, <4>1, Zenon
    <3> QED  BY <1>15, <3>1, <3>2, Zenon
  <2> QED  BY <1>13, <2>2, <2>3, Zenon DEF Tails
<1>20. Quiet(v)
  <2>1. ASSUME NEW c \in 1..(m + n)  PROVE QuietSub(v.subs[c])
    <3>1. CASE c \in 1..m
      BY <1>13, <3>1, Zenon DEF Quiet
    <3>2. ASSUME NEW i \in 1..n, c = m + i  PROVE QuietSub(v.subs[c])
      BY <1>11, <1>13, <3>2, Zenon DEF QuietSub
    <3> QED  BY <1>15, <3>1, <3>2, Zenon
  <2> QED  BY <1>12, <1>13, <2>1, Zenon DEF Quiet
<1>21. v.lock = Cardinality(Busy(v))
  <2> DEFINE N == (m + 1)..(m + n)
  <2>1. IsFiniteSet(N) /\ Cardinality(N) = n
    <3>1. m + 1 \in Int /\ m + n \in Int
      BY <1>4, <1>8
    <3>2. /\ IsFiniteSet(N)
          /\ Cardinality(N) = IF m + 1 > m + n THEN 0 ELSE (m + n) - (m + 1) + 1
      BY <3>1, FS_Interval, Zenon
    <3> HIDE DEF N
    <3> QED  BY <1>4, <1>8, <3>2
  <2>2. ASSUME NEW c  PROVE c \in Busy(v) <=> c \in Busy(w) \cup N
    <3>1. CASE c \in 1..m
      <4>1. c \notin N
        BY <1>4, <1>8, <3>1
      <4> QED  BY <1>13, <1>16, <3>1, <4>1, Zenon DEF Busy
    <3>2. ASSUME NEW i \in 1..n, c = m + i
          PROVE  c \in Busy(v) /\ c \in N
      <4>1. c \in N
        BY <1>4, <1>8, <3>2
      <4> QED  BY <1>11, <1>13, <1>16, <3>2, <4>1 DEF Busy
    <3>3. CASE c \notin 1..(m + n)
      <4>1. c \notin N
        BY <1>4, <1>8, <3>3
      <4> QED  BY <1>13, <1>16, <3>3, <4>1, Zenon DEF Busy
    <3> QED  BY <1>15, <3>1, <3>2, <3>3, Zenon
  <2>3. Busy(w) \cap N = {}
    BY <1>4, <1>8, <1>13 DEF Busy
  <2>4. IsFiniteSet(Busy(w)) /\ Cardinality(Busy(w)) \in Nat
    BY <1>1, BusyFacts, Zenon
  <2> HIDE DEF N
  <2>5. Cardinality(Busy(w) \cup N) = Cardinality(Busy(w)) + n - 0
    BY <2>1, <2>3, <2>4, FS_Union, FS_EmptySet
  <2>6. Busy(v) = Busy(w) \cup N
    BY <2>2, Zenon
  <2> QED  BY <1>1, <1>4, <1>12, <2>4, <2>5, <2>6
<1>22. Sound(v, f)
  BY <1>12, <1>14, <1>18, <1>19, <1>20, QuietSound, Zenon
<1> QED  BY <1>21, <1>22, Zenon DEF v, upto

LEMMA ProcessSound ==
  ASSUME NEW w, NEW f \in BOOLEAN, owners \in Queries, Sound(w, f),
         ~Unreceived(w), ~w.reading, w.over = "no", NEW isAhead,
         w.lock = Cardinality(Busy(w))
  PROVE  LET v == ProcessUnparsedPart(w, isAhead) IN
         Sound(v, f) /\ v.lock = Cardinality(Busy(v))
<1>1. CASE query_parsing_complete(w)
  BY <1>1, Zenon DEF ProcessUnparsedPart
<1>2. CASE ~query_parsing_complete(w) /\ Parsable(w.received) = w.parsed
  <2> DEFINE v == ReadIfUnlocked(w, isAhead)
  <2>1. ProcessUnparsedPart(w, isAhead) = v
    BY <1>2, Zenon DEF ProcessUnparsedPart
  <2>2. Sound(v, f) /\ v.subs = w.subs /\ v.lock = w.lock
    BY ReadIfUnlockedSound, Zenon
  <2> HIDE DEF v
  <2>3. Busy(v) = Busy(w)
    BY <2>2, Zenon DEF Busy
  <2> QED  BY <2>1, <2>2, <2>3, Zenon
<1>3. CASE ~query_parsing_complete(w) /\ Parsable(w.received) # w.parsed
  <2>1. ProcessUnparsedPart(w, isAhead) = PushSubqueries(w, Parsable(w.received))
    BY <1>3, Zenon DEF ProcessUnparsedPart
  <2>2. w.parsed < Parsable(w.received)
    <3>1. Len(owners) \in Nat /\ w.received \in Nat /\ w.parsed \in Nat
          /\ 4 * w.parsed <= w.received + 2
      BY OwnersFacts, Zenon DEF Sound, Progress, Worlds
    <3> QED  BY <1>3, <3>1 DEF Parsable
  <2>3. \A c \in DOMAIN w.subs : w.subs[c].whole
    BY Zenon DEF Sound, Tails
  <2>4. ASSUME NEW c \in DOMAIN w.subs  PROVE QuietSub(w.subs[c]) /\ ~HasReply(w, c)
    <3>1. SubSound(w, c, f) /\ w.subs[c].whole
      BY <2>3, Zenon DEF Sound
    <3> QED  BY <1>3, <3>1, Zenon
             DEF SubSound, QuietSub, HasReply, Carries, query_parsing_complete
  <2>5. w.writing = 0 /\ w.replying = 0
    BY <2>4, Zenon DEF Sound, Replying, HasReply
  <2>6. Quiet(w)
    BY <2>4, <2>5, Zenon DEF Quiet
  <2>7. w \in Worlds /\ Progress(w) /\ ~w.failed
    BY Zenon DEF Sound
  <2> QED  BY <2>1, <2>2, <2>3, <2>6, <2>7, PushSound, Zenon
<1> QED  BY <1>1, <1>2, <1>3, Zenon

\* What ContinueWriteQuery leaves behind.
Continued(w, v) ==
  /\ Sound(v, first) /\ v.lock = Cardinality(Busy(v)) /\ v.over = "no"
  /\ v.received = w.received /\ v.parsed = w.parsed
  /\ ~Unreceived(w) => ~v.reading

\* More data for the tail.
LEMMA ContinueSound ==
  ASSUME NEW w, first \in BOOLEAN, OthersSound(w, w.tail), ~w.reading,
         ~w.subs[w.tail].whole, QuietSub(w.subs[w.tail]),
         w.subs[w.tail].io \in {"more", "none"},
         Busy(w) = {}, w.lock = 0
  PROVE  Continued(w, ContinueWriteQuery(w))
<1> DEFINE t == w.tail
           s == w.subs[t]
           s1 == [s EXCEPT !.whole = ~Unreceived(w)]
           w1 == IF Unreceived(w) THEN w ELSE [w EXCEPT !.subs[t].whole = TRUE]
           v == ContinueWriteQuery(w)
<1> SUFFICES /\ Sound(v, first) /\ v.lock = Cardinality(Busy(v)) /\ v.over = "no"
             /\ v.received = w.received /\ v.parsed = w.parsed
             /\ ~Unreceived(w) => ~v.reading
  BY Zenon DEF Continued
<1>1. /\ w \in Worlds /\ w.subs \in Seq(Subqueries) /\ t \in DOMAIN w.subs
      /\ w.over = "no" /\ w.failed = FALSE /\ w.writing = 0 /\ w.replying = 0
      /\ Progress(w) /\ w.reading = FALSE
  BY Zenon DEF OthersSound, Worlds
<1>2. s \in Subqueries
  BY <1>1, SeqElement, SeqLen
<1>3. /\ s1 \in Subqueries /\ s1.pairs = s.pairs /\ s1.io = s.io
      /\ s1.error = s.error /\ s1.whole = ~Unreceived(w)
  BY <1>2, Zenon DEF Subqueries, Unreceived
<1>4. /\ w1 \in Worlds /\ w1.subs = [w.subs EXCEPT ![t] = s1]
      /\ w1.received = w.received /\ w1.parsed = w.parsed /\ w1.tail = t
      /\ w1.over = "no" /\ w1.failed = FALSE /\ w1.reading = FALSE
      /\ w1.writing = 0 /\ w1.replying = 0 /\ w1.lock = 0
  <2>1. CASE Unreceived(w)
    <3>1. s1 = s
      BY <1>2, <2>1, Zenon DEF Subqueries
    <3>2. [w.subs EXCEPT ![t] = s] = w.subs
      BY <1>1
    <3> HIDE DEF s1
    <3> QED  BY <1>1, <2>1, <3>1, <3>2, Zenon
  <2>2. CASE ~Unreceived(w)
    <3>1. s1 = [s EXCEPT !.whole = TRUE]
      BY <1>2, <2>2, Zenon DEF Subqueries
    <3> DEFINE u == [w.subs EXCEPT ![t] = s1]
    <3>2. w1 = [w EXCEPT !.subs = u]
      <4> HIDE DEF s1
      <4> QED  BY <1>1, <2>2, <3>1, Zenon DEF Worlds
    <3> HIDE DEF s1
    <3>3. u \in Seq(Subqueries)
      BY <1>1, <1>3, SubChanged, Zenon
    <3> HIDE DEF u, w1
    <3>4. w1 \in Worlds /\ w1.subs = u /\ w1.received = w.received
          /\ w1.parsed = w.parsed /\ w1.tail = w.tail /\ w1.over = w.over
          /\ w1.failed = w.failed /\ w1.reading = w.reading
          /\ w1.writing = w.writing /\ w1.replying = w.replying
          /\ w1.lock = w.lock
      BY <1>1, <3>2, <3>3, Zenon DEF Worlds
    <3> QED  BY <1>1, <3>4, Zenon DEF u
  <2> QED  BY <2>1, <2>2, Zenon
<1>5. v = IF ~w1.subs[t].error
          THEN [Check(w1, w1.subs[t].io = "more") EXCEPT !.subs[t].io = "rest",
                                                         !.lock = @ + 1]
          ELSE IF w1.subs[t].whole THEN Settle(w1, t) ELSE TryReadMoreQuery(w1)
  BY Zenon DEF ContinueWriteQuery
<1> HIDE DEF w1, v, s1
<1>6. /\ w1.subs \in Seq(Subqueries) /\ DOMAIN w1.subs = DOMAIN w.subs
      /\ \A c \in DOMAIN w.subs : w1.subs[c] = IF c = t THEN s1 ELSE w.subs[c]
      /\ PairsOf(w1.subs) = PairsOf(w.subs)
  BY <1>1, <1>3, <1>4, SubChanged
<1>7. w1.subs[t] = s1
  BY <1>1, <1>6, Zenon
<1>8. Unreceived(w1) <=> Unreceived(w)
  BY <1>4, Zenon DEF Unreceived
<1>9. Busy(w1) = {}
  BY <1>3, <1>6 DEF Busy
<1>10. Progress(w1)
  BY <1>1, <1>4, <1>6, Zenon DEF Progress
<1>11. OthersSound(w1, t)
  BY <1>1, <1>4, <1>6, <1>8, <1>10, Zenon DEF OthersSound
<1>12. CASE ~s.error
  <2> DEFINE e == [s1 EXCEPT !.io = "rest"]
             u == [w1.subs EXCEPT ![t] = e]
  <2>1. /\ e \in Subqueries /\ e.pairs = s1.pairs /\ e.io = "rest"
        /\ e.error = s1.error /\ e.whole = s1.whole
    BY <1>3, Zenon DEF Subqueries
  <2>2. s1.io = "more" /\ ~s1.error
    BY <1>3, <1>12, Zenon DEF QuietSub
  <2>3. Check(w1, w1.subs[t].io = "more") = w1
    BY <1>4, <1>7, <2>2, Zenon DEF Check, Worlds
  <2>4. v = [w1 EXCEPT !.subs = u, !.lock = 1]
    <3>1. v = [w1 EXCEPT !.subs[t].io = "rest", !.lock = w1.lock + 1]
      BY <1>5, <1>7, <2>2, <2>3, Zenon
    <3>2. w1.lock + 1 = 1 /\ w1 \in Worlds
      BY <1>4
    <3> QED  BY <1>7, <3>1, <3>2, Zenon DEF Worlds
  <2> HIDE DEF e
  <2>5. /\ u \in Seq(Subqueries) /\ DOMAIN u = DOMAIN w.subs
        /\ \A c \in DOMAIN w.subs : u[c] = IF c = t THEN e ELSE w1.subs[c]
    BY <1>1, <1>6, <1>7, <2>1, SubChanged, Zenon
  <2> HIDE DEF u
  <2>6. /\ v \in Worlds /\ v.subs = u /\ v.received = w.received
        /\ v.parsed = w.parsed /\ v.tail = t /\ v.over = "no"
        /\ v.failed = FALSE /\ v.reading = FALSE /\ v.writing = 0
        /\ v.replying = 0 /\ v.lock = 1
    <3>1. w1 \in Worlds /\ 1 \in Int /\ u \in Seq(Subqueries)
      BY <1>4, <2>5
    <3>2. /\ v \in Worlds /\ v.subs = u /\ v.received = w1.received
          /\ v.parsed = w1.parsed /\ v.tail = w1.tail /\ v.over = w1.over
          /\ v.failed = w1.failed /\ v.reading = w1.reading
          /\ v.writing = w1.writing /\ v.replying = w1.replying /\ v.lock = 1
      BY <2>4, <3>1, Zenon DEF Worlds
    <3> QED  BY <1>4, <3>2, Zenon
  <2>7. Busy(v) = Busy(w1) \cup {t}
    BY <1>1, <1>6, <2>1, <2>5, <2>6 DEF Busy
  <2>8. Cardinality(Busy(v)) = 1
    <3>1. Busy(v) = {t}
      BY <1>9, <2>7, Zenon
    <3> QED  BY <3>1, FS_Singleton, Zenon
  <2>9. Updated(w1, v, t, e)
    BY <1>4, <2>6, Zenon DEF Updated, u
  <2>10. QuietSub(e)
    BY <2>1, <2>2, Zenon DEF QuietSub
  <2>11. ~e.whole <=> t = w1.tail /\ Unreceived(w1)
    BY <1>3, <1>4, <1>8, <2>1, Zenon
  <2>12. Sound(v, first)
    BY <1>1, <1>6, <1>7, <1>11, <2>1, <2>6, <2>9, <2>10, <2>11, UpdatedSound, Zenon
  <2> QED  BY <2>6, <2>8, <2>12, Zenon DEF v
<1>13. CASE s.error /\ ~Unreceived(w)
  <2>1. v = Settle(w1, t)
    BY <1>3, <1>5, <1>7, <1>13, Zenon
  <2>2. w1.subs[t].whole /\ w1.subs[t].io # "released"
    BY <1>3, <1>7, <1>13, Zenon
  <2>3. /\ Sound(v, first) /\ v.lock = w1.lock /\ v.parsed = w1.parsed
        /\ v.received = w1.received /\ v.over = "no" /\ v.reading = w1.reading
        /\ Busy(v) = Busy(w1) \ {t}
    <3>1. OthersSound(w1, t) /\ t \in DOMAIN w1.subs
      BY <1>1, <1>6, <1>11, Zenon
    <3>2. ~(t = w1.tail /\ Unreceived(w1))
      BY <1>8, <1>13, Zenon
    <3>3. Settled(w1, t, Settle(w1, t))
      BY <2>2, <3>1, <3>2, SettleSound
    <3> QED  BY <2>1, <3>3, Zenon DEF Settled
  <2>4. Busy(v) = {}
    BY <1>9, <2>3, Zenon
  <2>5. v.lock = Cardinality(Busy(v))
    BY <1>4, <2>3, <2>4, FS_EmptySet, Zenon
  <2> QED  BY <1>4, <2>3, <2>5, Zenon DEF v
<1>14. CASE s.error /\ Unreceived(w)
  <2>1. v = TryReadMoreQuery(w1)
    BY <1>3, <1>5, <1>7, <1>14, Zenon
  <2>2. s.io = "none"
    BY <1>14, Zenon DEF QuietSub
  <2>3. QuietSub(s1)
    BY <1>3, <1>14, <2>2, Zenon DEF QuietSub
  <2>4. Quiet(w1)
    BY <1>4, <1>6, <1>11, <2>3, Zenon DEF Quiet, OthersSound
  <2>5. Tails(w1)
    BY <1>1, <1>3, <1>4, <1>6, <1>8, <1>11, Zenon DEF Tails, OthersSound
  <2>6. Sound(w1, first)
    BY <1>4, <1>10, <2>4, <2>5, QuietSound, Zenon
  <2>7. Sound(v, first) /\ v.subs = w1.subs /\ v.lock = w1.lock
    BY <1>9, <2>1, <2>6, ReadSound, Zenon
  <2>8. Busy(v) = {}
    BY <1>9, <2>7, Zenon DEF Busy
  <2>9. v.lock = Cardinality(Busy(v))
    BY <1>4, <2>7, <2>8, FS_EmptySet, Zenon
  <2>10. v.over = "no" /\ v.received = w.received /\ v.parsed = w.parsed
    BY <1>4, <2>1, Zenon DEF TryReadMoreQuery, Worlds
  <2> QED  BY <1>14, <2>7, <2>9, <2>10, Zenon DEF v
<1> QED  BY <1>12, <1>13, <1>14, Zenon

-----------------------------------------------------------------------------
(* Every state of the command is sound.                                    *)

LEMMA InitInv == Init => MsetInv
<1> SUFFICES ASSUME Init PROVE MsetInv
  BY Zenon
<1> DEFINE w0(n) == [reading |-> FALSE, received |-> n, parsed |-> 0,
                     subs |-> <<>>, tail |-> 0, lock |-> 0, replying |-> 0,
                     writing |-> 0, over |-> "no", failed |-> FALSE]
<1>1. owners \in Queries /\ first \in BOOLEAN /\ ahead \in BOOLEAN
  BY Zenon DEF Init
<1>2. PICK n \in 2..(4 * Len(owners)) :
        LET w == PushSubqueries(w0(n), Parsable(n))
        IN /\ reading = w.reading /\ received = w.received /\ parsed = w.parsed
           /\ subs = w.subs /\ tail_query = w.tail /\ lock = w.lock
           /\ replying_backend = w.replying /\ writing = w.writing
           /\ over = w.over /\ failed = w.failed
  BY Zenon DEF Init
<1>3. Len(owners) \in Nat /\ n \in Nat
  BY <1>1, OwnersFacts
<1> DEFINE w == w0(n)
           v == PushSubqueries(w, Parsable(n))
<1>4. <<>> \in Seq(Subqueries) /\ DOMAIN <<>> = {}
  OBVIOUS
<1>5. w \in Worlds /\ w.received = n /\ w.subs = <<>> /\ w.parsed = 0
      /\ ~w.reading /\ ~w.failed /\ w.over = "no" /\ w.writing = 0
      /\ w.replying = 0 /\ w.lock = 0
  BY <1>3, <1>4 DEF Worlds
<1> HIDE DEF w0, w
<1>6. w.parsed < Parsable(w.received)
  BY <1>3, <1>5 DEF Parsable
<1>7. Busy(w) = {} /\ PairsOf(w.subs) = {} /\ Quiet(w)
  BY <1>4, <1>5, Zenon DEF Busy, PairsOf, Quiet
<1>8. Progress(w)
  BY <1>3, <1>5, <1>7 DEF Progress
<1>9. w.lock = Cardinality(Busy(w))
  BY <1>5, <1>7, FS_EmptySet, Zenon
<1>10. Sound(v, first) /\ v.lock = Cardinality(Busy(v))
  BY <1>1, <1>4, <1>5, <1>6, <1>7, <1>8, <1>9, PushSound, Zenon
<1>11. World = v
  <2>1. v \in Worlds
    BY <1>10, Zenon DEF Sound
  <2> HIDE DEF v
  <2>2. /\ reading = v.reading /\ received = v.received /\ parsed = v.parsed
        /\ subs = v.subs /\ tail_query = v.tail /\ lock = v.lock
        /\ replying_backend = v.replying /\ writing = v.writing
        /\ over = v.over /\ failed = v.failed
    BY <1>2, Zenon DEF v, w
  <2> QED  BY <2>1, <2>2, Zenon DEF World, Worlds
<1>12. lock = v.lock
  BY <1>11 DEF World
<1> QED  BY <1>1, <1>10, <1>11, <1>12, Zenon DEF MsetInv

\* A step that leads to a sound state of the same query.
LEMMA StepInv ==
  ASSUME MsetInv, NEW w, Sound(w, first'), Become(w), owners' = owners,
         first' \in BOOLEAN, ahead' \in BOOLEAN,
         w.lock = Cardinality(Busy(w))
  PROVE  MsetInv'
<1>1. w \in Worlds
  BY Zenon DEF Sound
<1>2. World' = w
  BY <1>1, Becomes, Zenon
<1>3. Progress(World)' /\ Tails(World)' /\ Replying(World, first)'
  BY <1>2, Zenon DEF Sound, Progress, Tails, Replying
<1>4. (\A b \in DOMAIN World.subs : SubSound(World, b, first))'
  BY <1>2, Zenon DEF Sound, SubSound, Carries
<1>5. Sound(World, first)'
  BY <1>1, <1>2, <1>3, <1>4, Zenon DEF Sound
<1>6. lock' = w.lock
  BY Zenon DEF Become
<1>7. (lock = Cardinality(Busy(World)))'
  BY <1>2, <1>6, Zenon
<1> QED  BY <1>5, <1>7, Zenon DEF MsetInv

\* The command or its connection is given up: nothing else changes.
LEMMA AbortSound ==
  ASSUME NEW w, NEW f \in BOOLEAN, Sound(w, f), w.over = "no"
  PROVE  /\ Sound(Abort(w), f) /\ Abort(w).lock = w.lock
         /\ Busy(Abort(w)) = Busy(w)
<1> DEFINE v == Abort(w)
<1>1. w \in Worlds
  BY Zenon DEF Sound
<1>2. /\ v \in Worlds /\ v.subs = w.subs /\ v.lock = w.lock
      /\ v.received = w.received /\ v.parsed = w.parsed /\ v.over = "aborted"
      /\ v.reading = w.reading /\ v.writing = w.writing
      /\ v.replying = w.replying /\ v.tail = w.tail /\ v.failed = w.failed
  BY <1>1, Zenon DEF Worlds, Abort
<1> HIDE DEF v
<1>3. Busy(v) = Busy(w)
  BY <1>2, Zenon DEF Busy
<1>4. Progress(v) /\ Tails(v)
  BY <1>2, <1>3, Zenon DEF Sound, Progress, Tails, Unreceived
<1>5. Replying(v, f)
  BY <1>2, Zenon DEF Sound, Replying, HasReply
<1>6. ASSUME NEW b \in DOMAIN v.subs  PROVE SubSound(v, b, f)
  <2>1. SubSound(w, b, f)
    BY <1>2, Zenon DEF Sound
  <2>2. Carries(w, b, f) => Carries(v, b, f)
    BY <1>2, Zenon DEF Carries, Unreceived
  <2> QED  BY <1>2, <2>1, <2>2, Zenon DEF SubSound
<1>7. Sound(v, f)
  BY <1>2, <1>4, <1>5, <1>6, Zenon DEF Sound
<1> QED  BY <1>2, <1>3, <1>7, Zenon DEF v

\* A subquery that has written all it has: the state before the read.
LEMMA WrittenSound ==
  ASSUME NEW w, NEW f \in BOOLEAN, Sound(w, f), w.over = "no",
         NEW b \in Busy(w), w.lock = Cardinality(Busy(w))
  PROVE  LET io == IF w.subs[b].whole THEN "reply" ELSE "more"
             v == [w EXCEPT !.lock = w.lock - 1, !.subs[b].io = io]
         IN /\ Sound(v, f) /\ v.lock = Cardinality(Busy(v))
<1> DEFINE io == IF w.subs[b].whole THEN "reply" ELSE "more"
           e == [w.subs[b] EXCEPT !.io = io]
           t == [w.subs EXCEPT ![b] = e]
           v == [w EXCEPT !.lock = w.lock - 1, !.subs[b].io = io]
<1>1. /\ w \in Worlds /\ w.subs \in Seq(Subqueries) /\ w.lock \in Int
      /\ b \in DOMAIN w.subs /\ w.subs[b].io \in {"query", "rest"}
      /\ w.failed = FALSE /\ Tails(w) /\ Progress(w)
  BY Zenon DEF Sound, Worlds, Busy
<1>2. Quiet(w)
  BY <1>1, AllQuiet, Zenon DEF HasReply
<1>3. OthersSound(w, b)
  BY <1>2, QuietOthers, Zenon
<1>4. w.subs[b] \in Subqueries
  BY <1>1, SeqElement, SeqLen, Zenon
<1>5. /\ e \in Subqueries /\ e.pairs = w.subs[b].pairs /\ e.io = io
      /\ e.whole = w.subs[b].whole /\ e.error = w.subs[b].error
  BY <1>4, Zenon DEF Subqueries
<1>6. v = [w EXCEPT !.subs = t, !.lock = w.lock - 1]
  BY <1>1, Zenon DEF Worlds
<1> HIDE DEF e
<1>7. /\ t \in Seq(Subqueries) /\ DOMAIN t = DOMAIN w.subs
      /\ \A c \in DOMAIN w.subs : t[c] = IF c = b THEN e ELSE w.subs[c]
  BY <1>1, <1>5, SubChanged, Zenon
<1> HIDE DEF t, v
<1>8. /\ v \in Worlds /\ v.subs = t /\ v.lock = w.lock - 1
      /\ v.received = w.received /\ v.parsed = w.parsed /\ v.tail = w.tail
      /\ v.over = w.over /\ v.failed = w.failed /\ v.reading = w.reading
      /\ v.writing = w.writing /\ v.replying = w.replying
  <2>1. w.lock - 1 \in Int
    BY <1>1
  <2> QED  BY <1>1, <1>6, <1>7, <2>1, Zenon DEF Worlds
<1>9. Busy(v) = Busy(w) \ {b}
  BY <1>5, <1>7, <1>8 DEF Busy, io
<1>10. v.lock = Cardinality(Busy(v))
  BY <1>1, <1>8, <1>9, BusyFacts, Zenon
<1>11. Updated(w, v, b, e)
  BY <1>1, <1>8, Zenon DEF Updated, t
<1>12. QuietSub(e) /\ v.writing = 0 /\ v.replying = 0
  BY <1>1, <1>2, <1>5, <1>8, Zenon DEF Quiet, QuietSub, io
<1>13. ~e.whole <=> b = w.tail /\ Unreceived(w)
  BY <1>1, <1>5, Zenon DEF Tails
<1>14. v.reading => Busy(v) = {}
  BY <1>1, <1>8, <1>9, Zenon DEF Progress
<1>15. Sound(v, f)
  BY <1>1, <1>3, <1>5, <1>11, <1>12, <1>13, <1>14, UpdatedSound, Zenon
<1> QED  BY <1>10, <1>15, Zenon DEF v, io

\* A subquery that could not connect: settled, or left to wait for the rest
\* of its data.
LEMMA ErrorSound ==
  ASSUME NEW w, first \in BOOLEAN, Sound(w, first), w.over = "no",
         NEW b \in DOMAIN w.subs, w.subs[b].io = "query"
  PROVE  LET v == OnBackendRecoverableError(w, b) IN
         /\ Sound(v, first) /\ v.lock = w.lock /\ Busy(v) = Busy(w) \ {b}
<1> DEFINE v == OnBackendRecoverableError(w, b)
           e == [w.subs[b] EXCEPT !.error = TRUE]
           w1 == [w EXCEPT !.subs[b].error = TRUE]
<1>1. /\ w \in Worlds /\ w.subs \in Seq(Subqueries)
      /\ w.failed = FALSE /\ Tails(w) /\ Progress(w)
  BY Zenon DEF Sound, Worlds
<1>2. Quiet(w)
  BY <1>1, AllQuiet, Zenon DEF HasReply
<1>3. OthersSound(w, b)
  BY <1>2, QuietOthers, Zenon
<1>4. w.subs[b] \in Subqueries
  BY <1>1, SeqElement, SeqLen, Zenon
<1>5. /\ e \in Subqueries /\ e.pairs = w.subs[b].pairs /\ e.io = "query"
      /\ e.whole = w.subs[b].whole /\ e.error = TRUE
  BY <1>4, Zenon DEF Subqueries
<1>6. w1 = [w EXCEPT !.subs = [w.subs EXCEPT ![b] = e]]
  BY <1>1, Zenon DEF Worlds
<1>7. v = IF w.subs[b].whole THEN Settle(w1, b) ELSE [w1 EXCEPT !.subs[b].io = "none"]
  BY Zenon DEF OnBackendRecoverableError
<1> HIDE DEF e, w1, v
<1>8. /\ [w.subs EXCEPT ![b] = e] \in Seq(Subqueries)
      /\ DOMAIN [w.subs EXCEPT ![b] = e] = DOMAIN w.subs
      /\ \A c \in DOMAIN w.subs :
           [w.subs EXCEPT ![b] = e][c] = IF c = b THEN e ELSE w.subs[c]
      /\ PairsOf([w.subs EXCEPT ![b] = e]) = PairsOf(w.subs)
  BY <1>1, <1>5, SubChanged, Zenon
<1>9. /\ w1 \in Worlds /\ w1.subs = [w.subs EXCEPT ![b] = e] /\ w1.lock = w.lock
      /\ w1.received = w.received /\ w1.parsed = w.parsed /\ w1.tail = w.tail
      /\ w1.over = w.over /\ w1.failed = w.failed /\ w1.reading = w.reading
      /\ w1.writing = w.writing /\ w1.replying = w.replying
  BY <1>1, <1>6, <1>8, Zenon DEF Worlds
<1>10. Busy(w1) = Busy(w)
  BY <1>5, <1>8, <1>9 DEF Busy
<1>11. Unreceived(w1) <=> Unreceived(w)
  BY <1>9, Zenon DEF Unreceived
<1>12. Progress(w1)
  BY <1>1, <1>8, <1>9, <1>10, Zenon DEF Progress
<1>13. OthersSound(w1, b)
  BY <1>3, <1>8, <1>9, <1>11, <1>12, Zenon DEF OthersSound
<1>14. w1.subs[b] = e /\ b \in DOMAIN w1.subs
  BY <1>8, <1>9, Zenon
<1>15. CASE w.subs[b].whole
  <2>1. ~(b = w1.tail /\ Unreceived(w1))
    BY <1>1, <1>9, <1>11, <1>15, Zenon DEF Tails
  <2>2. v = Settle(w1, b)
    BY <1>7, <1>15, Zenon
  <2>3. w1.subs[b].whole /\ w1.subs[b].io # "released"
    BY <1>5, <1>14, <1>15, Zenon
  <2>4. /\ Sound(Settle(w1, b), first) /\ Settle(w1, b).lock = w1.lock
        /\ Busy(Settle(w1, b)) = Busy(w1) \ {b}
    <3>1. Settled(w1, b, Settle(w1, b))
      BY <1>13, <1>14, <2>1, <2>3, SettleSound
    <3> QED  BY <3>1, Zenon DEF Settled
  <2> QED  BY <1>9, <1>10, <2>2, <2>4, Zenon DEF v
<1>16. CASE ~w.subs[b].whole
  <2> DEFINE d == [e EXCEPT !.io = "none"]
             t == [w1.subs EXCEPT ![b] = d]
  <2>1. /\ d \in Subqueries /\ d.pairs = e.pairs /\ d.io = "none"
        /\ d.whole = e.whole /\ d.error = TRUE
    BY <1>5, Zenon DEF Subqueries
  <2>2. v = [w1 EXCEPT !.subs = t]
    BY <1>7, <1>9, <1>14, <1>16, Zenon DEF Worlds
  <2> HIDE DEF d
  <2>3. /\ t \in Seq(Subqueries) /\ DOMAIN t = DOMAIN w1.subs
        /\ \A c \in DOMAIN w1.subs : t[c] = IF c = b THEN d ELSE w1.subs[c]
    BY <1>8, <1>9, <1>14, <2>1, SubChanged, Zenon
  <2> HIDE DEF t
  <2>4. /\ v \in Worlds /\ v.subs = t /\ v.lock = w1.lock
        /\ v.received = w1.received /\ v.parsed = w1.parsed
        /\ v.tail = w1.tail /\ v.over = w1.over /\ v.failed = w1.failed
        /\ v.reading = w1.reading /\ v.writing = w1.writing
        /\ v.replying = w1.replying
    BY <1>9, <2>2, <2>3, Zenon DEF Worlds
  <2>5. Busy(v) = Busy(w1) \ {b}
    BY <2>1, <2>3, <2>4 DEF Busy
  <2>6. Updated(w1, v, b, d)
    BY <1>1, <1>9, <2>4, Zenon DEF Updated, t
  <2>7. QuietSub(d) /\ v.writing = 0 /\ v.replying = 0
    BY <1>2, <1>5, <1>9, <1>16, <2>1, <2>4 DEF Quiet, QuietSub
  <2>8. ~d.whole <=> b = w1.tail /\ Unreceived(w1)
    BY <1>1, <1>5, <1>9, <1>11, <2>1 DEF Tails
  <2>9. v.reading => Busy(v) = {}
    BY <1>12, <2>4, <2>5, Zenon DEF Progress
  <2>10. Sound(v, first)
    BY <1>13, <1>14, <2>1, <2>6, <2>7, <2>8, <2>9, UpdatedSound, Zenon
  <2> QED  BY <1>9, <1>10, <2>4, <2>5, <2>10, Zenon DEF v
<1> QED  BY <1>15, <1>16, Zenon

LEMMA NextInv == MsetInv /\ [Next]_vars => MsetInv'
<1> SUFFICES ASSUME MsetInv, [Next]_vars PROVE MsetInv'
  BY Zenon
<1>1. /\ owners \in Queries /\ first \in BOOLEAN /\ ahead \in BOOLEAN
      /\ Sound(World, first) /\ World \in Worlds
      /\ World.lock = Cardinality(Busy(World))
      /\ Len(owners) \in Nat \ {0}
  BY OwnersFacts, Zenon DEF MsetInv, Sound, World
<1>2. /\ World.subs = subs /\ World.over = over /\ World.lock = lock
      /\ World.writing = writing /\ World.reading = reading
      /\ World.parsed = parsed /\ World.received = received
      /\ World.replying = replying_backend /\ World.failed = failed
      /\ World.tail = tail_query
  BY Zenon DEF World
<1>3. subs \in Seq(Subqueries) /\ \A b \in DOMAIN subs : subs[b] \in Subqueries
  <2>1. subs \in Seq(Subqueries)
    BY <1>1, <1>2, Zenon DEF Worlds
  <2>2. DOMAIN subs = 1..Len(subs)
    BY <2>1, SeqLen, Zenon
  <2> QED  BY <2>1, <2>2, SeqElement, Zenon
<1>4. /\ Cardinality(Busy(World)) \in Nat
      /\ Cardinality(Busy(World)) = 0 <=> Busy(World) = {}
      /\ \A b \in Busy(World) :
           Cardinality(Busy(World) \ {b}) = Cardinality(Busy(World)) - 1
  BY <1>1, <1>2, <1>3, BusyFacts, Zenon
<1>5. ASSUME over = "no", NEW b \in DOMAIN subs, QueryWritten(b)
      PROVE  MsetInv'
  <2> DEFINE io == IF World.subs[b].whole THEN "reply" ELSE "more"
             w == [World EXCEPT !.lock = World.lock - 1, !.subs[b].io = io]
             r == ReadIfUnlocked(w, ahead)
             v == IF query_recv_complete(w) THEN w ELSE r
  <2>1. /\ subs[b].io \in {"query", "rest"} /\ owners' = owners
        /\ first' = first /\ ahead' = ahead
    BY <1>5, Zenon DEF QueryWritten
  <2>2. Become(v)
    BY <1>5, Zenon DEF QueryWritten, AfterWrite
  <2>3. b \in Busy(World)
    BY <1>2, <2>1, Zenon DEF Busy
  <2>4. Sound(w, first) /\ w.lock = Cardinality(Busy(w))
    BY <1>1, <1>2, <1>5, <2>3, WrittenSound, Zenon
  <2> HIDE DEF w
  <2>5. Sound(r, first) /\ r.subs = w.subs /\ r.lock = w.lock
    BY <1>1, <2>4, ReadIfUnlockedSound, Zenon
  <2> HIDE DEF r
  <2>6. r.lock = Cardinality(Busy(r))
    BY <2>4, <2>5, Zenon DEF Busy
  <2>7. Sound(v, first) /\ v.lock = Cardinality(Busy(v))
    BY <2>4, <2>5, <2>6, Zenon
  <2> QED  BY <1>1, <2>1, <2>2, <2>7, StepInv, Zenon
<1>6. ASSUME over = "no", NEW b \in DOMAIN subs, ConnectFailed(b)
      PROVE  MsetInv'
  <2> DEFINE w == OnBackendRecoverableError(World, b)
             w1 == [w EXCEPT !.lock = w.lock - 1]
             r == ReadIfUnlocked(w1, ahead)
             v == IF query_recv_complete(w1) THEN w1 ELSE r
  <2>1. /\ subs[b].io = "query" /\ owners' = owners
        /\ first' = first /\ ahead' = ahead
    BY <1>6, Zenon DEF ConnectFailed
  <2>2. Become(v)
    BY <1>6, Zenon DEF ConnectFailed
  <2>3. b \in Busy(World)
    BY <1>2, <2>1, Zenon DEF Busy
  <2>4. Sound(w, first) /\ w.lock = lock /\ Busy(w) = Busy(World) \ {b}
    BY <1>1, <1>2, <1>6, <2>1, ErrorSound
  <2> HIDE DEF w
  <2>5. w.lock - 1 \in Int
    BY <1>1, <1>2, <2>4 DEF Worlds
  <2>6. Sound(w1, first) /\ w1.subs = w.subs /\ w1.lock = w.lock - 1
    BY <1>1, <2>4, <2>5, LockSound
  <2> HIDE DEF w1
  <2>7. w1.lock = Cardinality(Busy(w1))
    <3>1. Busy(w1) = Busy(World) \ {b}
      BY <2>4, <2>6, Zenon DEF Busy
    <3> QED  BY <1>1, <1>2, <1>4, <2>3, <2>4, <2>6, <3>1, Zenon
  <2>8. Sound(r, first) /\ r.subs = w1.subs /\ r.lock = w1.lock
    BY <1>1, <2>6, <2>7, ReadIfUnlockedSound, Zenon
  <2> HIDE DEF r
  <2>9. r.lock = Cardinality(Busy(r))
    BY <2>7, <2>8, Zenon DEF Busy
  <2>10. Sound(v, first) /\ v.lock = Cardinality(Busy(v))
    BY <2>6, <2>7, <2>8, <2>9, Zenon
  <2> QED  BY <1>1, <2>1, <2>2, <2>10, StepInv, Zenon
<1>7. ASSUME over = "no", Become(Abort(World)), UNCHANGED <<owners, first, ahead>>
      PROVE  MsetInv'
  <2>1. /\ Sound(Abort(World), first)
        /\ Abort(World).lock = Cardinality(Busy(Abort(World)))
    BY <1>1, <1>2, <1>7, AbortSound, Zenon
  <2> QED  BY <1>1, <1>7, <2>1, StepInv, Zenon
<1>8. ASSUME over = "no", NEW b \in DOMAIN subs, OnBackendReplyReceived(b)
      PROVE  MsetInv'
  <2> DEFINE w == Settle(World, b)
             r == ReadIfUnlocked(w, ahead)
             v == IF IsLast(World) \/ query_parsing_complete(w) THEN w ELSE r
  <2>1. /\ subs[b].io = "reply" /\ owners' = owners
        /\ first' = first /\ ahead' = ahead
    BY <1>8, Zenon DEF OnBackendReplyReceived
  <2>2. Become(v)
    BY <1>8, Zenon DEF OnBackendReplyReceived
  <2>3. Quiet(World)
    BY <1>1, <1>2, <1>8, <2>1, AllQuiet, Zenon DEF HasReply
  <2>4. OthersSound(World, b)
    BY <1>1, <1>2, <1>8, <2>3, QuietOthers, Zenon
  <2>5. subs[b].whole
    BY <1>1, <1>2, <2>1, Zenon DEF Sound, SubSound
  <2>6. ~(b = World.tail /\ Unreceived(World))
    BY <1>1, <1>2, <2>5, Zenon DEF Sound, Tails
  <2>7. Sound(w, first) /\ w.lock = lock /\ Busy(w) = Busy(World) \ {b}
    <3>1. /\ b \in DOMAIN World.subs /\ World.subs[b].whole
          /\ World.subs[b].io # "released"
      BY <1>2, <2>1, <2>5, Zenon
    <3>2. first \in BOOLEAN
      BY <1>1, Zenon
    <3>3. Settled(World, b, Settle(World, b))
      BY <2>4, <2>6, <3>1, <3>2, SettleSound
    <3>4. Settled(World, b, w)
      BY <3>3, Zenon
    <3> HIDE DEF w
    <3> QED  BY <1>2, <3>4, Zenon DEF Settled
  <2> HIDE DEF w
  <2>8. w.lock = Cardinality(Busy(w))
    <3>1. b \notin Busy(World)
      BY <1>2, <2>1, Zenon DEF Busy
    <3>2. Busy(w) = Busy(World)
      BY <2>7, <3>1, Zenon
    <3> QED  BY <1>1, <1>2, <2>7, <3>2, Zenon
  <2>9. Sound(r, first) /\ r.subs = w.subs /\ r.lock = w.lock
    BY <1>1, <2>7, <2>8, ReadIfUnlockedSound, Zenon
  <2> HIDE DEF r
  <2>10. r.lock = Cardinality(Busy(r))
    BY <2>8, <2>9, Zenon DEF Busy
  <2>11. Sound(v, first) /\ v.lock = Cardinality(Busy(v))
    BY <2>7, <2>8, <2>9, <2>10, Zenon
  <2> QED  BY <1>1, <2>1, <2>2, <2>11, StepInv, Zenon
<1>9. ASSUME over = "no", NEW n \in 1..(4 * Len(owners)), HandleRead(n)
      PROVE  MsetInv'
  <2> DEFINE w == [World EXCEPT !.reading = FALSE, !.received = received + n]
             c == ContinueWriteQuery(w)
             w1 == IF Unreceived(World) THEN c ELSE w
             p == ProcessUnparsedPart(w1, ahead)
             v == IF Unreceived(w) THEN w1 ELSE p
  <2>1. /\ reading /\ n \in 1..(4 * Len(owners) - received) /\ owners' = owners
        /\ first' = first /\ ahead' = ahead
    BY <1>9, Zenon DEF HandleRead
  <2>2. Become(v)
    <3>1. w = [World EXCEPT !.reading = FALSE, !.received = @ + n]
      BY <1>2, Zenon
    <3> QED  BY <1>9, <3>1, Zenon DEF HandleRead
  <2>3. /\ received \in 2..(4 * Len(owners)) /\ Busy(World) = {} /\ lock = 0
        /\ parsed \in 0..Len(owners) /\ 4 * parsed <= received + 2
        /\ PairsOf(subs) = 1..parsed /\ ~failed
    BY <1>1, <1>2, <1>4, <2>1, Zenon DEF Sound, Progress
  <2>4. received + n \in 2..(4 * Len(owners)) /\ received + n \in Nat
    BY <1>1, <2>1, <2>3
  <2>5. /\ w \in Worlds /\ w.subs = subs /\ w.lock = 0 /\ w.reading = FALSE
        /\ w.received = received + n /\ w.parsed = parsed /\ w.over = "no"
        /\ w.writing = writing /\ w.replying = replying_backend
        /\ w.failed = failed /\ w.tail = tail_query
    BY <1>1, <1>2, <1>9, <2>3, <2>4, Zenon DEF Worlds
  <2> HIDE DEF w
  <2>6. /\ writing = 0 /\ replying_backend = 0
        /\ \A k \in DOMAIN subs : QuietSub(subs[k])
    <3>1. \A k \in DOMAIN subs : ~Carries(World, k, first)
      BY <1>1, <1>2, <2>1, <2>3 DEF Carries, Unreceived
    <3>2. ASSUME NEW k \in DOMAIN subs
          PROVE  ~HasReply(World, k) /\ QuietSub(subs[k])
      <4>1. SubSound(World, k, first)
        BY <1>1, <1>2, Zenon DEF Sound
      <4> QED  BY <1>2, <1>9, <3>1, <4>1, Zenon DEF SubSound, QuietSub, HasReply
    <3>3. writing = 0 /\ replying_backend = 0
      BY <1>1, <1>2, <1>9, <3>2, Zenon DEF Sound, Replying, HasReply
    <3> QED  BY <3>2, <3>3, Zenon
  <2>7. Busy(w) = {} /\ Quiet(w)
    BY <1>2, <2>3, <2>5, <2>6, Zenon DEF Busy, Quiet
  <2>8. Progress(w)
    BY <2>3, <2>4, <2>5, <2>7 DEF Progress
  <2>9. /\ tail_query \in DOMAIN subs
        /\ \A k \in DOMAIN subs :
             ~subs[k].whole <=> k = tail_query /\ Unreceived(World)
    BY <1>1, <1>2, Zenon DEF Sound, Tails
  <2>10. Unreceived(w) => Unreceived(World)
    BY <1>1, <1>2, <2>1, <2>3, <2>5 DEF Unreceived
  <2>11. CASE Unreceived(World)
    <3>1. \A k \in DOMAIN w.subs : k # w.tail =>
            /\ QuietSub(w.subs[k])
            /\ ~w.subs[k].whole <=> k = w.tail /\ Unreceived(w)
      BY <2>5, <2>6, <2>9, Zenon
    <3>2. OthersSound(w, w.tail)
      BY <2>3, <2>5, <2>6, <2>8, <2>9, <3>1, Zenon DEF OthersSound
    <3>3. /\ ~w.subs[w.tail].whole /\ QuietSub(w.subs[w.tail])
      BY <2>5, <2>6, <2>9, <2>11, Zenon
    <3>4. w.subs[w.tail].io \in {"more", "none"}
      <4>1. w.subs[w.tail] \in Subqueries /\ w.tail \in DOMAIN w.subs
        BY <1>3, <2>5, <2>9, Zenon
      <4>2. w.subs[w.tail].io \notin {"query", "rest"}
        BY <2>7, <4>1, Zenon DEF Busy
      <4> QED  BY <3>3, <4>1, <4>2, Zenon DEF QuietSub, Subqueries
    <3>5. /\ Sound(c, first) /\ c.lock = Cardinality(Busy(c)) /\ c.over = "no"
          /\ c.received = w.received /\ c.parsed = w.parsed
          /\ ~Unreceived(w) => ~c.reading
      <4>1. ~w.reading /\ w.lock = 0 /\ Busy(w) = {}
        BY <2>5, <2>7, Zenon
      <4>2. first \in BOOLEAN
        BY <1>1, Zenon
      <4>3. Continued(w, ContinueWriteQuery(w))
        BY <3>2, <3>3, <3>4, <4>1, <4>2, ContinueSound
      <4>4. Continued(w, c)
        BY <4>3, Zenon
      <4> HIDE DEF c
      <4> QED  BY <4>4, Zenon DEF Continued
    <3> HIDE DEF c
    <3>6. w1 = c
      BY <2>11, Zenon
    <3> HIDE DEF w1
    <3>7. CASE Unreceived(w)
      <4>1. Become(c)
        BY <2>2, <3>6, <3>7, Zenon
      <4> QED  BY <1>1, <2>1, <3>5, <4>1, StepInv
    <3>8. CASE ~Unreceived(w)
      <4>1. ~Unreceived(c)
        BY <3>5, <3>8, Zenon DEF Unreceived
      <4> DEFINE q == ProcessUnparsedPart(c, ahead)
      <4>2. Sound(q, first) /\ q.lock = Cardinality(Busy(q))
        BY <1>1, <3>5, <3>8, <4>1, ProcessSound, Zenon
      <4>3. Become(q)
        BY <2>2, <3>6, <3>8, Zenon
      <4> HIDE DEF q
      <4> QED  BY <1>1, <2>1, <4>2, <4>3, StepInv, Zenon
    <3> QED  BY <3>7, <3>8, Zenon
  <2>12. CASE ~Unreceived(World)
    <3>1. ~Unreceived(w)
      BY <2>10, <2>12, Zenon
    <3>2. Tails(w)
      BY <2>5, <2>9, <2>12, <3>1, Zenon DEF Tails
    <3>3. Sound(w, first)
      BY <1>1, <2>3, <2>5, <2>7, <2>8, <3>2, QuietSound
    <3>4. w.lock = Cardinality(Busy(w))
      BY <2>5, <2>7, FS_EmptySet, Zenon
    <3> DEFINE q == ProcessUnparsedPart(w, ahead)
    <3>5. Sound(q, first) /\ q.lock = Cardinality(Busy(q))
      BY <1>1, <2>5, <3>1, <3>3, <3>4, ProcessSound, Zenon
    <3>6. Become(q)
      BY <2>2, <2>12, <3>1, Zenon
    <3> HIDE DEF q
    <3> QED  BY <1>1, <2>1, <3>5, <3>6, StepInv, Zenon
  <2> QED  BY <2>11, <2>12, Zenon
<1>10. CASE AheadWritten
  <2>1. Become(World) /\ owners' = owners /\ first' = first /\ ahead' \in BOOLEAN
    BY <1>10, Zenon DEF AheadWritten
  <2> QED  BY <1>1, <2>1, StepInv, Zenon
<1>11. ASSUME over = "no", StartWriteReply  PROVE MsetInv'
  <2>1. /\ ~first /\ first' = TRUE /\ owners' = owners /\ ahead' = ahead
    BY <1>11, Zenon DEF StartWriteReply
  <2>2. Become(IF ~query_recv_complete(World) THEN ReadIfUnlocked(World, FALSE)
               ELSE IF replying_backend = 0 THEN World
               ELSE TryWriteReply(World, replying_backend))
    BY <1>11, Zenon DEF StartWriteReply
  <2>3. writing = 0 /\ Progress(World) /\ Tails(World) /\ ~failed
    BY <1>1, <1>2, <1>11, <2>1, Zenon DEF Sound, Replying
  <2>4. ASSUME \A k \in DOMAIN subs : ~Carries(World, k, first)
        PROVE  Sound(World, TRUE)
    <3>1. ASSUME NEW k \in DOMAIN subs
          PROVE  ~HasReply(World, k) /\ QuietSub(subs[k])
      <4>1. SubSound(World, k, first)
        BY <1>1, <1>2, Zenon DEF Sound
      <4> QED  BY <1>2, <1>11, <2>4, <4>1, Zenon DEF SubSound, QuietSub, HasReply
    <3>2. replying_backend = 0
      BY <1>1, <1>2, <1>11, <3>1, Zenon DEF Sound, Replying, HasReply
    <3>3. Quiet(World)
      BY <1>2, <2>3, <3>1, <3>2, Zenon DEF Quiet
    <3> QED  BY <1>1, <1>2, <1>11, <2>3, <3>3, QuietSound, Zenon
  <2>5. CASE ~query_recv_complete(World)
    <3>1. \A k \in DOMAIN subs : ~Carries(World, k, first)
      BY <1>2, <2>3, <2>5, Zenon
         DEF Carries, Tails, query_recv_complete, query_parsing_complete
    <3>2. Sound(World, TRUE)
      BY <2>4, <3>1, Zenon
    <3> DEFINE v == ReadIfUnlocked(World, FALSE)
    <3>3. Sound(v, TRUE) /\ v.subs = World.subs /\ v.lock = World.lock
      BY <1>1, <3>2, ReadIfUnlockedSound, Zenon
    <3>4. Become(v)
      BY <2>2, <2>5, Zenon
    <3> HIDE DEF v
    <3>5. v.lock = Cardinality(Busy(v))
      BY <1>1, <3>3, Zenon DEF Busy
    <3> QED  BY <1>1, <2>1, <3>3, <3>4, <3>5, StepInv, Zenon
  <2>6. CASE query_recv_complete(World) /\ replying_backend = 0
    <3>1. \A k \in DOMAIN subs : k # 0
      BY <1>3, SeqLen
    <3>2. \A k \in DOMAIN subs : ~Carries(World, k, first)
      BY <1>2, <2>1, <2>6, <3>1, Zenon DEF Carries
    <3>3. Sound(World, TRUE)
      BY <2>4, <3>2, Zenon
    <3>4. Become(World)
      BY <2>2, <2>6, Zenon
    <3> QED  BY <1>1, <2>1, <3>3, <3>4, StepInv, Zenon
  <2>7. CASE query_recv_complete(World) /\ replying_backend # 0
    <3> DEFINE v == [World EXCEPT !.writing = replying_backend]
    <3>1. Become(v)
      BY <1>2, <2>2, <2>3, <2>7, Zenon DEF TryWriteReply
    <3>2. replying_backend \in Nat
      BY <1>1, <1>2, Zenon DEF Worlds
    <3>3. /\ v \in Worlds /\ v.subs = subs /\ v.lock = lock
          /\ v.reading = reading /\ v.received = received /\ v.parsed = parsed
          /\ v.over = over /\ v.failed = failed /\ v.tail = tail_query
          /\ v.replying = replying_backend /\ v.writing = replying_backend
      BY <1>1, <1>2, <3>2, Zenon DEF Worlds
    <3> HIDE DEF v
    <3>4. HasReply(World, replying_backend)
      BY <1>1, <1>2, <1>11, <2>7, Zenon DEF Sound, Replying
    <3>5. Carries(World, replying_backend, first)
      BY <1>1, <1>2, <1>11, <3>4, Zenon DEF Sound, SubSound, HasReply
    <3>6. Carries(v, replying_backend, TRUE)
      BY <1>2, <3>3, <3>5, Zenon DEF Carries, Unreceived
    <3>7. Busy(v) = Busy(World)
      BY <1>2, <3>3, Zenon DEF Busy
    <3>8. Progress(v) /\ Tails(v)
      BY <1>2, <2>3, <3>3, <3>7, Zenon DEF Progress, Tails, Unreceived
    <3>9. Replying(v, TRUE)
      BY <1>2, <3>3, <3>4, Zenon DEF Replying, HasReply
    <3>10. ASSUME NEW k \in DOMAIN v.subs  PROVE SubSound(v, k, TRUE)
      <4>1. SubSound(World, k, first)
        BY <1>1, <1>2, <3>3, Zenon DEF Sound
      <4>2. subs[k].io = "none" => k = replying_backend
        BY <1>2, <3>3, <3>5, Zenon DEF Carries
      <4> QED  BY <1>2, <3>3, <3>6, <4>1, <4>2, Zenon DEF SubSound
    <3>11. Sound(v, TRUE)
      BY <1>11, <2>3, <3>3, <3>8, <3>9, <3>10, Zenon DEF Sound
    <3>12. v.lock = Cardinality(Busy(v))
      BY <1>1, <1>2, <3>3, <3>7, Zenon
    <3> QED  BY <1>1, <2>1, <3>1, <3>11, <3>12, StepInv, Zenon
  <2> QED  BY <2>5, <2>6, <2>7, Zenon
<1>12. ASSUME over = "no", OnWriteReplyFinished  PROVE MsetInv'
  <2> DEFINE a == query_recv_complete(World)
                   /\ Cardinality(pending_subqueries(World)) = 1
             v == [Check(World, a) EXCEPT !.writing = 0, !.over = "done"]
  <2>1. writing # 0 /\ owners' = owners /\ first' = first /\ ahead' = ahead
    BY <1>12, Zenon DEF OnWriteReplyFinished
  <2>2. Become(v)
    BY <1>12, Zenon DEF OnWriteReplyFinished
  <2>3. HasReply(World, writing)
    BY <1>1, <1>2, <1>12, <2>1, Zenon DEF Sound, Replying
  <2>4. Carries(World, writing, first)
    BY <1>1, <1>2, <1>12, <2>3, Zenon DEF Sound, SubSound, HasReply
  <2>5. pending_subqueries(World) = {writing}
    BY <1>2, <2>3, <2>4, Zenon DEF pending_subqueries, Carries, HasReply
  <2>6. query_recv_complete(World)
    BY <1>1, <1>2, <2>4, Zenon
       DEF Sound, Tails, Carries, query_recv_complete, query_parsing_complete
  <2>7. a
    BY <2>5, <2>6, FS_Singleton, Zenon
  <2> HIDE DEF a
  <2>8. /\ v \in Worlds /\ v.subs = subs /\ v.lock = lock /\ v.reading = reading
        /\ v.received = received /\ v.parsed = parsed /\ v.over = "done"
        /\ v.writing = 0 /\ v.failed = failed /\ v.tail = tail_query
    BY <1>1, <1>2, <2>7, Zenon DEF Check, Worlds
  <2> HIDE DEF v
  <2>9. Busy(v) = Busy(World)
    BY <1>2, <2>8, Zenon DEF Busy
  <2>10. Progress(v) /\ Tails(v) /\ Replying(v, first)
    BY <1>1, <1>2, <2>8, <2>9, Zenon DEF Sound, Progress, Tails, Unreceived, Replying
  <2>11. \A k \in DOMAIN v.subs : SubSound(v, k, first)
    BY <1>1, <1>2, <2>8 DEF Sound, SubSound
  <2>12. Sound(v, first)
    BY <1>1, <1>2, <2>8, <2>10, <2>11, Zenon DEF Sound
  <2>13. v.lock = Cardinality(Busy(v))
    BY <1>1, <1>2, <2>8, <2>9, Zenon
  <2> QED  BY <1>1, <2>1, <2>2, <2>12, <2>13, StepInv, Zenon
<1>13. CASE UNCHANGED vars
  <2>1. Become(World) /\ UNCHANGED <<owners, first, ahead>>
    BY <1>13, Zenon DEF vars, Become, World
  <2> QED  BY <1>1, <2>1, StepInv, Zenon
<1>14. ASSUME Next  PROVE MsetInv'
  <2>1. over = "no"
    BY <1>14, Zenon DEF Next
  <2>2. ASSUME NEW b \in DOMAIN subs, WriteFailed(b) \/ ReplyFailed(b)
        PROVE  MsetInv'
    BY <1>7, <2>1, <2>2, Zenon DEF WriteFailed, ReplyFailed
  <2>3. CASE ClientFails
    BY <1>7, <2>1, <2>3, Zenon DEF ClientFails
  <2> QED  BY <1>5, <1>6, <1>8, <1>9, <1>10, <1>11, <1>12, <1>14, <2>1, <2>2, <2>3,
    Zenon
           DEF Next
<1> QED  BY <1>13, <1>14, Zenon

-----------------------------------------------------------------------------
(* The theorems.                                                           *)

\* All states of the command are sound.
THEOREM MsetInvariant == Spec => []MsetInv
<1> QED  BY InitInv, NextInv, PTL DEF Spec

\* The asserts hold: the phase in ContinueWriteQuery, the received query in
\* OnWriteReplyFinished and the one pending subquery in the destructor.
THEOREM MsetAssertsHold == Spec => []NoAssertFails
<1>1. MsetInv => NoAssertFails
  BY Zenon DEF MsetInv, Sound, World, NoAssertFails
<1> QED  BY <1>1, MsetInvariant, PTL

\* OnBackendReplyReceived keeps the reply back until all pairs have come and
\* have been sent, and every other subquery has been answered or given up.
THEOREM MsetReplyIsLast == Spec => []ReplyIsLast
<1>1. MsetInv => ReplyIsLast
  <2> SUFFICES ASSUME MsetInv, writing # 0 PROVE ReplyIsLast
    BY Zenon DEF ReplyIsLast
  <2>1. /\ Sound(World, first) /\ World.writing = writing /\ World.subs = subs
        /\ World.parsed = parsed /\ World.over = over
        /\ World.received = received /\ Len(owners) \in Nat
    BY OwnersFacts, Zenon DEF MsetInv, World
  <2>2. HasReply(World, writing) /\ over # "done"
    BY <2>1, Zenon DEF Sound, Replying
  <2>3. Carries(World, writing, first)
    BY <2>1, <2>2, Zenon DEF Sound, SubSound, HasReply
  <2>4. PairsOf(subs) = 1..Len(owners)
    BY <2>1, <2>3, Zenon DEF Sound, Progress, Carries
  <2>5. received = 4 * Len(owners)
    <3>1. received \in 2..(4 * Len(owners))
      BY <2>1, Zenon DEF Sound, Progress
    <3>2. ~(4 * Len(owners) > received)
      BY <2>1, <2>3, Zenon DEF Carries, Unreceived
    <3> QED  BY <2>1, <3>1, <3>2
  <2>6. \A b \in DOMAIN subs : subs[b].io \in {"none", "released"}
    BY <2>1, <2>2, <2>3, Zenon DEF Carries, HasReply
  <2> QED  BY <2>4, <2>5, <2>6, Zenon DEF PairsOf, ReplyIsLast
<1> QED  BY <1>1, MsetInvariant, PTL

\* Only tail_query_ may lack data, and OnBackendRecoverableError keeps it
\* until they have come.
THEOREM MsetTailWaits == Spec => []TailWaits
<1>1. MsetInv => TailWaits
  BY Zenon DEF MsetInv, Sound, Tails, SubSound, World, TailWaits
<1> QED  BY <1>1, MsetInvariant, PTL
=============================================================================
