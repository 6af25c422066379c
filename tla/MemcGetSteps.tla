--------------------------- MODULE MemcGetSteps -----------------------------
(***************************************************************************)
(* The memcached get, for every set of backends and every number of        *)
(* values, if END comes with the last value: every step keeps the line of  *)
(* backends and their buffers sound, END is the last line of the reply and *)
(* the values of two backends are not mixed.  MemcGetProofs goes on from   *)
(* here to the completeness of the reply.                                  *)
(***************************************************************************)
EXTENDS MemcGet, WellFoundedInduction, TLAPS

-----------------------------------------------------------------------------
(* Sequences.                                                              *)

LEMMA SeqElement ==
  ASSUME NEW S, NEW s \in Seq(S), NEW i \in 1..Len(s)
  PROVE  s[i] \in S
OBVIOUS

LEMMA SeqEmpty ==
  ASSUME NEW S
  PROVE  /\ <<>> \in Seq(S) /\ Len(<<>>) = 0
         /\ \A s \in Seq(S) : s # <<>> => Len(s) \in Nat \ {0}
OBVIOUS

LEMMA SeqLen ==
  ASSUME NEW S, NEW s \in Seq(S)
  PROVE  Len(s) \in Nat /\ s \in [1..Len(s) -> S] /\ DOMAIN s = 1..Len(s)
OBVIOUS

LEMMA SeqTail ==
  ASSUME NEW S, NEW s \in Seq(S), s # <<>>
  PROVE  /\ Head(s) \in S /\ Tail(s) \in Seq(S) /\ Len(Tail(s)) = Len(s) - 1
         /\ \A i \in 1..Len(Tail(s)) : Tail(s)[i] = s[i + 1]
OBVIOUS

LEMMA SeqConcat ==
  ASSUME NEW S, NEW s \in Seq(S), NEW t \in Seq(S)
  PROVE  /\ s \o t \in Seq(S) /\ Len(s \o t) = Len(s) + Len(t)
         /\ \A i \in 1..(Len(s) + Len(t)) :
              (s \o t)[i] = IF i <= Len(s) THEN s[i] ELSE t[i - Len(s)]
OBVIOUS

LEMMA SeqAppend ==
  ASSUME NEW S, NEW s \in Seq(S), NEW x \in S
  PROVE  /\ Append(s, x) \in Seq(S) /\ Len(Append(s, x)) = Len(s) + 1
         /\ \A i \in 1..Len(s) : Append(s, x)[i] = s[i]
         /\ Append(s, x)[Len(s) + 1] = x
OBVIOUS

LEMMA SeqFunction ==
  ASSUME NEW S, NEW n \in Nat, NEW f \in [1..n -> S]
  PROVE  f \in Seq(S) /\ Len(f) = n
OBVIOUS

LEMMA SeqSub ==
  ASSUME NEW S, NEW s \in Seq(S), NEW m \in 1..(Len(s) + 1), NEW n \in (m - 1)..Len(s)
  PROVE  /\ SubSeq(s, m, n) \in Seq(S) /\ Len(SubSeq(s, m, n)) = n - m + 1
         /\ \A i \in 1..(n - m + 1) : SubSeq(s, m, n)[i] = s[m + i - 1]
OBVIOUS

-----------------------------------------------------------------------------
(* The inductive invariant.                                                *)

MaybeBackend == Backends \cup {None}

Readies == [Backends -> Seq(Items)]
Writes == [from : MaybeBackend, items : Seq(Items)]

Worlds == [ready : Readies, writing : Writes,
           complete : SUBSET Backends, received : SUBSET Backends,
           last : MaybeBackend, replying : MaybeBackend,
           waiting : Seq(Backends), completed : Nat,
           over : {"no", "done", "aborted"}]

\* Backend b waits for its turn.
Waits(w, b) == \E i \in DOMAIN w.waiting : w.waiting[i] = b

\* Backend b has its turn or waits for it.
InLine(w, b) == b = w.replying \/ Waits(w, b)

\* Every backend that has replied, but for x, is in line until all of its
\* reply is on its way; no other backend is.
Line(w, x) ==
  /\ \A i, j \in DOMAIN w.waiting : w.waiting[i] = w.waiting[j] => i = j
  /\ ~Waits(w, w.replying)
  /\ \A b \in Backends : b \notin w.received =>
       w.ready[b] = <<>> /\ b \notin w.complete /\ ~InLine(w, b)
  /\ \A b \in w.received : b # x /\ ~InLine(w, b) => finished(w, b)

\* The turn of the last backend comes last.
LastInLine(w, x) ==
  w.last # None =>
    /\ w.received = Backends
    /\ \A i \in DOMAIN w.waiting : w.waiting[i] = w.last => i = Len(w.waiting)
    /\ w.replying = w.last => w.waiting = <<>>
    /\ w.last # x /\ ~InLine(w, w.last) => w.waiting = <<>> /\ w.replying = None
    /\ x # None /\ ~InLine(w, x) => w.last = x

\* The backend that has its turn is the one that writes.
Turn(w, f) ==
  /\ w.writing # NoWrite => w.replying # None /\ w.writing.from = w.replying
  /\ f /\ w.replying = None => w.waiting = <<>>
  /\ ~f => w.replying = None

\* Only the last backend has something else than values, at its end.
EndsWell(s, b, w) ==
  \A i \in DOMAIN s : s[i] # "VALUE" => b = w.last /\ b \in w.complete /\ i = Len(s)
Terminated(w) ==
  /\ \A b \in Backends : EndsWell(w.ready[b], b, w)
  /\ EndsWell(w.writing.items, w.writing.from, w)
  /\ \A i \in DOMAIN w.writing.items :
       w.writing.items[i] # "VALUE" => w.ready[w.writing.from] = <<>>

\* A state in which all backends but x are where they belong.
Sound(w, f, x) ==
  w \in Worlds /\ Line(w, x) /\ LastInLine(w, x) /\ Turn(w, f) /\ Terminated(w)

\* What is outstanding on the backends.
Io(w, ops, left, read) ==
  \A b \in Backends :
    /\ b \in w.complete => ops[b] = "none"
    /\ ops[b] = "query" => b \notin w.received
    /\ ops[b] = "read" /\ b \in w.received => b \in read /\ left[b] > 0

\* All replies have been forwarded.
Over(w) == w.received = Backends /\ w.replying = None /\ w.waiting = <<>>

\* What the client has got came from backends that have had their turn, and
\* the one that has it now came last.
Got(w, s) ==
  \A i \in DOMAIN s :
    /\ s[i][1] \in w.received /\ ~Waits(w, s[i][1])
    /\ s[i][1] = w.replying => \A j \in DOMAIN s : j > i => s[j][1] = w.replying

\* It ends with all replies.
Ended(w, s) == (\E i \in DOMAIN s : s[i][2] # "VALUE") => Over(w)

GetInv ==
  /\ first \in BOOLEAN
  /\ io \in [Backends -> {"query", "read", "none"}]
  /\ owed \in [Backends -> Nat]
  /\ out \in Seq(Backends \X Items)
  /\ World \in Worlds
  /\ NothingAfterEnd /\ BackendsNotInterleaved
  /\ over = "no" =>
       /\ Sound(World, first, None) /\ Io(World, io, owed, seen)
       /\ Got(World, out) /\ Ended(World, out)
-----------------------------------------------------------------------------
(* Lemmas about the line of backends.                                      *)

LEMMA Becomes ==
  ASSUME NEW w \in Worlds, Become(w)
  PROVE  World' = w
BY Zenon DEF Become, World, Worlds

LEMMA SkippedIs ==
  ASSUME NEW w, w.waiting \in Seq(Backends)
  PROVE  /\ Skipped(w) \in 0..Len(w.waiting)
         /\ \A i \in 1..Skipped(w) : finished(w, w.waiting[i])
         /\ Skipped(w) < Len(w.waiting) => ~finished(w, w.waiting[Skipped(w) + 1])
<1> DEFINE n == Len(w.waiting)
           T == {i \in 1..n : ~finished(w, w.waiting[i])} \cup {n + 1}
<1>1. n \in Nat
  BY SeqLen, Zenon
<1>2. T \subseteq Nat /\ T # {}
  BY <1>1
<1>3. \E x \in T : \A y \in T : ~(<<y, x>> \in OpToRel(<, Nat))
  <2> HIDE DEF T
  <2> QED  BY <1>2, WFMin, NatLessThanWellFounded, Zenon
<1>4. PICK x \in T : \A y \in T : ~(<<y, x>> \in OpToRel(<, Nat))
  BY <1>3, Zenon
<1>5. \A y \in T : ~(y < x)
  BY <1>2, <1>4, Zenon DEF OpToRel
<1>6. x - 1 \in 0..n
  BY <1>1
<1>7. \A i \in 1..(x - 1) : finished(w, w.waiting[i])
  BY <1>1, <1>5
<1>8. x - 1 < n => ~finished(w, w.waiting[(x - 1) + 1])
  BY <1>1
<1> QED  BY <1>6, <1>7, <1>8, Zenon DEF Skipped

\* A backend that is in line needs no exception.
LEMMA NoException ==
  ASSUME NEW w, NEW f, NEW b \in Backends, Sound(w, f, b), InLine(w, b)
  PROVE  Sound(w, f, None)
<1>1. Line(w, None)
  BY Zenon DEF Sound, Line
<1>2. LastInLine(w, None)
  BY Zenon DEF Sound, LastInLine
<1> QED  BY <1>1, <1>2, Zenon DEF Sound

\* What does not matter to a state's soundness.
LEMMA CompletedCounts ==
  ASSUME NEW w, NEW f, Sound(w, f, None), NEW k \in Nat
  PROVE  LET v == [w EXCEPT !.completed = @ + k] IN
         /\ Sound(v, f, None) /\ v.waiting = w.waiting /\ v.ready = w.ready
         /\ v.writing = w.writing /\ v.replying = w.replying
         /\ v.received = w.received /\ v.complete = w.complete
         /\ v.last = w.last /\ v.over = w.over
<1> DEFINE v == [w EXCEPT !.completed = @ + k]
<1>1. v \in Worlds
  BY DEF Sound, Worlds
<1>2. /\ v.waiting = w.waiting /\ v.ready = w.ready
      /\ v.writing = w.writing /\ v.replying = w.replying
      /\ v.received = w.received /\ v.complete = w.complete
      /\ v.last = w.last /\ v.over = w.over
  BY Zenon DEF Sound, Worlds
<1> HIDE DEF v
<1>3. Line(v, None) /\ LastInLine(v, None) /\ Turn(v, f) /\ Terminated(v)
  BY <1>2 DEF Sound, Line, LastInLine, Turn, Terminated, EndsWell, InLine, Waits, finished
<1>4. Sound(v, f, None)
  BY <1>1, <1>3, Zenon DEF Sound
<1> QED  BY <1>2, <1>4, Zenon DEF v

\* TryWriteReply of the backend that has its turn.
LEMMA TryWriteSound ==
  ASSUME NEW w, NEW f, Sound(w, f, None), NEW b \in Backends, b = w.replying
  PROVE  LET v == TryWriteReply(w, b) IN
         /\ Sound(v, f, None) /\ v.waiting = w.waiting /\ v.replying = w.replying
         /\ v.received = w.received /\ v.complete = w.complete
         /\ v.last = w.last /\ v.over = w.over
<1> DEFINE v == TryWriteReply(w, b)
<1>1. CASE w.writing # NoWrite \/ w.ready[b] = <<>>
  BY <1>1, Zenon DEF TryWriteReply
<1>2. CASE ~(w.writing # NoWrite \/ w.ready[b] = <<>>)
  <2>1. v = [w EXCEPT !.writing = [from |-> b, items |-> w.ready[b]],
                      !.ready[b] = <<>>]
    BY <1>2, Zenon DEF TryWriteReply
  <2>2. w \in Worlds /\ w.ready \in Readies /\ w.ready[b] \in Seq(Items)
    BY Zenon DEF Sound, Worlds, Readies
  <2>20. [from |-> b, items |-> w.ready[b]] \in Writes
    BY <2>2, Zenon DEF Writes, MaybeBackend
  <2>21. [w.ready EXCEPT ![b] = <<>>] \in Readies
    BY <2>2 DEF Readies
  <2>3. v \in Worlds
    BY <2>1, <2>2, <2>20, <2>21, Zenon DEF Worlds
  <2>4. /\ v.waiting = w.waiting /\ v.replying = w.replying
        /\ v.received = w.received /\ v.complete = w.complete
        /\ v.last = w.last /\ v.over = w.over
        /\ v.writing = [from |-> b, items |-> w.ready[b]]
        /\ v.ready = [w.ready EXCEPT ![b] = <<>>]
    BY <2>1, <2>2, Zenon DEF Worlds
  <2>5. \A c \in Backends : v.ready[c] = IF c = b THEN <<>> ELSE w.ready[c]
    BY <2>2, <2>4, Zenon DEF Readies
  <2> HIDE DEF v
  <2>6. Line(v, None)
    BY <2>2, <2>4, <2>5 DEF Sound, Line, InLine, Waits, finished, Worlds, Readies
  <2>7. LastInLine(v, None)
    BY <2>4, Zenon DEF Sound, LastInLine, InLine, Waits
  <2>8. Turn(v, f)
    BY <2>4, BackendsAssumption DEF Sound, Turn
  <2>9. Terminated(v)
    BY <2>4, <2>5 DEF Sound, Terminated, EndsWell
  <2>10. Sound(v, f, None)
    BY <2>3, <2>6, <2>7, <2>8, <2>9, Zenon DEF Sound
  <2> QED  BY <2>4, <2>10, Zenon DEF v
<1> QED  BY <1>1, <1>2, Zenon

\* From w to v the line moves on: who has had the turn is not in line again,
\* unless it is x.
Passed(w, v, x) ==
  \A b \in Backends : ~Waits(w, b) /\ (b = x => b = w.replying) =>
    ~Waits(v, b) /\ (b = v.replying => b = w.replying)

\* What comes of passing the turn on.
MovedOn(w, v) ==
  /\ v \in Worlds /\ v.received = w.received /\ v.complete = w.complete
  /\ v.over \in {"no", "done"}
  /\ v.over = "no" =>
       /\ Sound(v, TRUE, None) /\ Passed(w, v, None)
       /\ w.waiting = <<>> /\ w.received = Backends => Over(v)

\* NextBackendStartReply, once the backend that has its turn has nothing left.
LEMMA NextSound ==
  ASSUME NEW w, NEW f, Sound(w, f, None), w.writing = NoWrite, w.over = "no",
         w.replying = None \/ finished(w, w.replying)
  PROVE  MovedOn(w, NextBackendStartReply(w))
<1> DEFINE v == NextBackendStartReply(w)
           k == Skipped(w)
           q == w.waiting
           rest == SubSeq(q, k + 1, Len(q))
           u == [w EXCEPT !.completed = @ + k]
<1>1. w \in Worlds /\ q \in Seq(Backends) /\ Len(q) \in Nat
  BY SeqLen, Zenon DEF Sound, Worlds
<1>2. /\ k \in 0..Len(q) /\ \A i \in 1..k : finished(w, q[i])
  BY <1>1, SkippedIs, Zenon
<1>3. /\ Sound(u, f, None) /\ u.waiting = q /\ u.ready = w.ready
      /\ u.writing = NoWrite /\ u.replying = w.replying
      /\ u.received = w.received /\ u.complete = w.complete
      /\ u.last = w.last /\ u.over = "no"
  BY <1>1, <1>2, CompletedCounts
<1>4. u \in Worlds
  BY <1>3, Zenon DEF Sound
<1>5. /\ rest \in Seq(Backends) /\ Len(rest) = Len(q) - k
      /\ \A i \in 1..(Len(q) - k) : rest[i] = q[k + i]
  BY <1>1, <1>2, SeqSub, SMTT(30)
<1>6. DOMAIN q = 1..Len(q) /\ DOMAIN rest = 1..Len(rest)
  BY <1>1, <1>5, SeqLen, Zenon
<1>7. v = IF k > 0 /\ u.completed >= N THEN [u EXCEPT !.over = "done"]
          ELSE IF rest = <<>> THEN [u EXCEPT !.waiting = <<>>, !.replying = None]
          ELSE TryWriteReply([u EXCEPT !.waiting = Tail(rest), !.replying = Head(rest)],
                             Head(rest))
  BY Zenon DEF NextBackendStartReply
<1> HIDE DEF u, rest, k
<1>8. CASE k > 0 /\ u.completed >= N
  <2>1. v = [u EXCEPT !.over = "done"]
    BY <1>7, <1>8, Zenon
  <2>2. v \in Worlds /\ v.received = u.received /\ v.complete = u.complete
        /\ v.over = "done"
    BY <1>4, <2>1, Zenon DEF Worlds
  <2> QED  BY <1>3, <2>2, Zenon DEF MovedOn
<1>9. CASE ~(k > 0 /\ u.completed >= N) /\ rest = <<>>
  <2>1. v = [u EXCEPT !.waiting = <<>>, !.replying = None]
    BY <1>7, <1>9, Zenon
  <2>2. <<>> \in Seq(Backends) /\ None \in MaybeBackend
    BY DEF MaybeBackend
  <2>3. /\ v \in Worlds /\ v.waiting = <<>> /\ v.replying = None
        /\ v.ready = w.ready /\ v.writing = NoWrite /\ v.received = w.received
        /\ v.complete = w.complete /\ v.last = w.last /\ v.over = "no"
    BY <1>3, <1>4, <2>1, <2>2, Zenon DEF Worlds
  <2> HIDE DEF v
  <2>4. k = Len(q)
    BY <1>1, <1>2, <1>5, <1>9
  <2>5. \A b : InLine(w, b) /\ b # None => finished(w, b)
    BY <1>2, <1>6, <2>4, Zenon DEF InLine, Waits
  <2>6. \A b : ~Waits(v, b)
    BY <2>3 DEF Waits
  <2>7. Line(v, None)
    <3>1. \A b \in w.received : finished(w, b)
      BY <1>1, <2>5, BackendsAssumption, Zenon DEF Sound, Line, Worlds
    <3>2. \A b \in w.received : finished(v, b)
      BY <2>3, <3>1, Zenon DEF finished
    <3>3. \A b \in Backends : ~InLine(v, b)
      BY <2>3, <2>6, BackendsAssumption, Zenon DEF InLine
    <3> QED  BY <2>3, <2>6, <3>2, <3>3 DEF Sound, Line
  <2>8. LastInLine(v, None)
    BY <2>3 DEF Sound, LastInLine
  <2>9. Turn(v, TRUE) /\ Terminated(v)
    BY <1>1, <2>3, Zenon DEF Sound, Turn, Terminated, EndsWell
  <2>10. Sound(v, TRUE, None)
    BY <2>3, <2>7, <2>8, <2>9, Zenon DEF Sound
  <2>11. Passed(w, v, None)
    BY <2>3, <2>6, BackendsAssumption, Zenon DEF Passed
  <2>12. MovedOn(w, v)
    BY <2>3, <2>10, <2>11, Zenon DEF MovedOn, Over
  <2> QED  BY <2>12, Zenon DEF v
<1>10. CASE ~(k > 0 /\ u.completed >= N) /\ rest # <<>>
  <2> DEFINE h == Head(rest)
             t == Tail(rest)
             x == [u EXCEPT !.waiting = t, !.replying = h]
  <2>1. k < Len(q) /\ Len(rest) \in Nat \ {0}
    BY <1>1, <1>2, <1>5, <1>10, SeqEmpty
  <2>2. /\ h = q[k + 1] /\ h \in Backends
        /\ t \in Seq(Backends) /\ Len(t) = Len(q) - k - 1
        /\ DOMAIN t = 1..(Len(q) - k - 1)
        /\ \A i \in 1..(Len(q) - k - 1) : t[i] = q[k + 1 + i]
    <3>1. h = rest[1] /\ h \in Backends
      BY <1>5, <1>10, SeqTail
    <3>2. /\ t \in Seq(Backends) /\ Len(t) = Len(rest) - 1
          /\ \A i \in 1..Len(t) : t[i] = rest[i + 1]
      BY <1>5, <1>10, SeqTail, Zenon
    <3>3. DOMAIN t = 1..Len(t)
      BY <3>2, SeqLen, Zenon
    <3> HIDE DEF h, t
    <3> QED  BY <1>1, <1>2, <1>5, <2>1, <3>1, <3>2, <3>3
  <2> HIDE DEF h, t
  <2>3. h \in MaybeBackend /\ h # None
    BY <2>2, BackendsAssumption, Zenon DEF MaybeBackend
  <2>4. /\ x \in Worlds /\ x.waiting = t /\ x.replying = h
        /\ x.ready = w.ready /\ x.writing = NoWrite /\ x.received = w.received
        /\ x.complete = w.complete /\ x.last = w.last /\ x.over = "no"
    BY <1>3, <1>4, <2>2, <2>3, Zenon DEF Worlds
  <2>5. v = TryWriteReply(x, h)
    BY <1>7, <1>10, Zenon DEF h, t
  <2> HIDE DEF x, v
  <2>19. k \in Int /\ Len(q) \in Int /\ 0 <= k /\ k < Len(q)
    BY <1>1, <1>2, <2>1
  <2>17. k + 1 \in DOMAIN q /\ q[k + 1] = h
    BY <1>1, <1>2, <1>6, <2>1, <2>2
  <2>18. \A i \in DOMAIN t :
           /\ k + 1 + i \in DOMAIN q /\ t[i] = q[k + 1 + i] /\ i \in Nat \ {0}
           /\ k + 1 + i = Len(q) => i = Len(t)
    <3> SUFFICES ASSUME NEW i \in 1..(Len(q) - k - 1)
                 PROVE  /\ k + 1 + i \in 1..Len(q) /\ i \in Nat \ {0}
                        /\ k + 1 + i = Len(q) => i = Len(q) - k - 1
      BY <1>6, <2>2, Zenon
    <3> QED  BY <2>19
  <2>6. \A b : Waits(x, b) => Waits(w, b) /\ \E i \in (k + 2)..Len(q) : q[i] = b
    <3> SUFFICES ASSUME NEW i \in DOMAIN t
                 PROVE  k + 1 + i \in (k + 2)..Len(q) /\ t[i] = q[k + 1 + i]
      BY <1>1, <1>2, <1>6, <2>4 DEF Waits
    <3> QED  BY <1>1, <1>2, <2>1, <2>2, SMTT(30)
  <2>7. \A b : InLine(w, b) /\ ~InLine(x, b) /\ b # None => finished(w, b)
    <3> SUFFICES ASSUME NEW b, Waits(w, b), ~InLine(x, b)
                 PROVE  finished(w, b)
      BY Zenon DEF InLine
    <3>1. PICK i \in 1..Len(q) : q[i] = b
      BY <1>6, Zenon DEF Waits
    <3>2. i # k + 1
      BY <2>2, <2>4, <3>1, Zenon DEF InLine
    <3>3. i > k + 1 => t[i - k - 1] = b /\ i - k - 1 \in DOMAIN t
      BY <1>1, <1>2, <2>2, <3>1
    <3>4. i \in 1..k
      BY <1>1, <1>2, <2>4, <3>2, <3>3 DEF InLine, Waits
    <3> QED  BY <1>2, <3>1, <3>4, Zenon
  <2>8. InLine(w, h) /\ Waits(w, h)
    BY <2>17, Zenon DEF InLine, Waits
  <2>9. Line(x, None)
    <3>1. \A i, j \in DOMAIN q : q[i] = q[j] => i = j
      BY Zenon DEF Sound, Line
    <3>2. \A i, j \in DOMAIN t : t[i] = t[j] => i = j
      <4> SUFFICES ASSUME NEW i \in DOMAIN t, NEW j \in DOMAIN t, t[i] = t[j]
                   PROVE  i = j
        BY Zenon
      <4>1. k + 1 + i \in DOMAIN q /\ k + 1 + j \in DOMAIN q
            /\ q[k + 1 + i] = q[k + 1 + j]
        BY <2>18, Zenon
      <4>2. k + 1 + i = k + 1 + j
        BY <3>1, <4>1, Zenon
      <4> QED  BY <1>1, <1>2, <2>18, <4>2
    <3>3. ~Waits(x, h)
      <4> SUFFICES ASSUME NEW i \in DOMAIN t, t[i] = h  PROVE FALSE
        BY <2>4, Zenon DEF Waits
      <4>1. k + 1 + i = k + 1
        BY <2>17, <2>18, <3>1, Zenon
      <4> QED  BY <1>1, <1>2, <2>18, <4>1
    <3>4. \A b : InLine(x, b) => InLine(w, b)
      BY <2>4, <2>6, <2>8, Zenon DEF InLine
    <3>5. \A b \in w.received : ~InLine(x, b) => finished(x, b)
      <4>1. \A b \in w.received : b # None
        BY <1>1, BackendsAssumption, Zenon DEF Worlds
      <4>2. \A b \in w.received : ~InLine(x, b) => finished(w, b)
        BY <2>7, <4>1, Zenon DEF Sound, Line
      <4> QED  BY <2>4, <4>2, Zenon DEF finished
    <3>6. \A b \in Backends : b \notin x.received =>
            x.ready[b] = <<>> /\ b \notin x.complete /\ ~InLine(x, b)
      BY <2>4, <3>4, Zenon DEF Sound, Line
    <3> QED  BY <2>4, <3>2, <3>3, <3>5, <3>6, Zenon DEF Line
  <2>10. LastInLine(x, None)
    <3> SUFFICES ASSUME w.last # None
                 PROVE  LastInLine(x, None)
      BY <2>4, Zenon DEF LastInLine
    <3>1. /\ w.received = Backends
          /\ \A i \in DOMAIN q : q[i] = w.last => i = Len(q)
          /\ ~InLine(w, w.last) => q = <<>>
          /\ w.replying = w.last => q = <<>>
      BY Zenon DEF Sound, LastInLine
    <3>2. q # <<>>
      BY <1>1, <1>2, <2>1, SeqEmpty
    <3>3. PICK l \in 1..Len(q) : q[l] = w.last
      BY <1>6, <3>1, <3>2, Zenon DEF InLine, Waits
    <3>4. q[Len(q)] = w.last
      BY <1>6, <3>1, <3>3, Zenon
    <3>5. \A i \in DOMAIN t : t[i] = w.last => i = Len(t)
      BY <2>18, <3>1, Zenon
    <3>6. h = w.last => t = <<>>
      <4>1. h = w.last => k + 1 = Len(q)
        BY <2>17, <3>1, Zenon
      <4>2. h = w.last => Len(t) = 0
        BY <1>1, <1>2, <2>2, <4>1
      <4> QED  BY <2>2, <4>2, SeqEmpty, Zenon
    <3>7. InLine(x, w.last)
      <4>1. CASE k + 1 = Len(q)
        BY <2>2, <2>4, <3>4, <4>1, Zenon DEF InLine
      <4>2. CASE k + 1 # Len(q)
        <5>1. Len(q) - k - 1 \in DOMAIN t /\ t[Len(q) - k - 1] = q[Len(q)]
          <6>1. Len(q) - k - 1 \in 1..(Len(q) - k - 1)
            BY <2>19, <4>2
          <6>2. k + 1 + (Len(q) - k - 1) = Len(q)
            <7>1. \A m, j \in Int : j + 1 + (m - j - 1) = m
              OBVIOUS
            <7> QED  BY <2>19, <7>1, Zenon
          <6> QED  BY <2>2, <6>1, <6>2, Zenon
        <5> QED  BY <2>4, <3>4, <5>1, Zenon DEF InLine, Waits
      <4> QED  BY <4>1, <4>2, Zenon
    <3> QED  BY <2>4, <3>1, <3>5, <3>6, <3>7, Zenon DEF LastInLine
  <2>11. Turn(x, TRUE) /\ Terminated(x)
    BY <1>1, <2>3, <2>4 DEF Sound, Turn, Terminated, EndsWell
  <2>12. Sound(x, TRUE, None)
    BY <2>4, <2>9, <2>10, <2>11, Zenon DEF Sound
  <2>13. /\ Sound(v, TRUE, None) /\ v.waiting = t /\ v.replying = h
         /\ v.received = w.received /\ v.complete = w.complete /\ v.over = "no"
    BY <2>2, <2>4, <2>5, <2>12, TryWriteSound, Zenon
  <2>14. Passed(w, v, None)
    BY <2>4, <2>6, <2>8, <2>13, Zenon DEF Passed, Waits
  <2>15. q # <<>>
    BY <1>1, <1>2, <2>1, SeqEmpty
  <2>16. MovedOn(w, v)
    BY <2>13, <2>14, <2>15, Zenon DEF MovedOn, Sound
  <2> QED  BY <2>16, Zenon DEF v
<1> QED  BY <1>8, <1>9, <1>10, Zenon

\* RotateReplyingBackend, once the backend that has its turn has nothing left.
LEMMA RotateSound ==
  ASSUME NEW w, NEW f, Sound(w, f, None), w.writing = NoWrite, w.over = "no",
         w.replying = None \/ finished(w, w.replying)
  PROVE  MovedOn(w, RotateReplyingBackend(w))
<1> DEFINE u == [w EXCEPT !.completed = @ + 1]
           v == RotateReplyingBackend(w)
<1>1. /\ Sound(u, f, None) /\ u.waiting = w.waiting /\ u.ready = w.ready
      /\ u.writing = w.writing /\ u.replying = w.replying
      /\ u.received = w.received /\ u.complete = w.complete
      /\ u.last = w.last /\ u.over = w.over
  BY CompletedCounts, Zenon
<1>2. v = IF u.completed < N THEN NextBackendStartReply(u) ELSE [u EXCEPT !.over = "done"]
  BY Zenon DEF RotateReplyingBackend
<1> HIDE DEF u, v
<1>3. CASE u.completed < N
  <2>1. u.replying = None \/ finished(u, u.replying)
    BY <1>1, Zenon DEF finished
  <2>2. MovedOn(u, v)
    BY <1>1, <1>2, <1>3, <2>1, NextSound, Zenon
  <2>3. \A b : Waits(u, b) <=> Waits(w, b)
    BY <1>1, Zenon DEF Waits
  <2>4. v.over = "no" => Passed(u, v, None)
    BY <2>2, Zenon DEF MovedOn
  <2>5. v.over = "no" => Passed(w, v, None)
    BY <1>1, <2>3, <2>4, Zenon DEF Passed
  <2> QED  BY <1>1, <2>2, <2>5, Zenon DEF MovedOn, v
<1>4. CASE ~(u.completed < N)
  <2>1. v = [u EXCEPT !.over = "done"] /\ u \in Worlds
    BY <1>1, <1>2, <1>4, Zenon DEF Sound
  <2>2. /\ v \in Worlds /\ v.received = u.received /\ v.complete = u.complete
        /\ v.over = "done"
    BY <2>1, Zenon DEF Worlds
  <2> QED  BY <1>1, <2>2, Zenon DEF MovedOn, v
<1> QED  BY <1>3, <1>4, Zenon

\* A backend that has something to say takes the turn nobody has.
LEMMA TakesTurn ==
  ASSUME NEW b \in Backends, NEW w, Sound(w, first, b), b \in w.received,
         w.over = "no", first, w.replying \in {None, b}
  PROVE  LET u == [w EXCEPT !.replying = b] IN
         /\ Sound(u, first, None) /\ u.waiting = w.waiting /\ u.ready = w.ready
         /\ u.writing = w.writing /\ u.replying = b
         /\ u.received = w.received /\ u.complete = w.complete
         /\ u.last = w.last /\ u.over = "no" /\ u.completed = w.completed
<1> DEFINE u == [w EXCEPT !.replying = b]
<1>1. w \in Worlds /\ b # None /\ b \in MaybeBackend
  BY BackendsAssumption, Zenon DEF Sound, MaybeBackend
<1>2. /\ u \in Worlds /\ u.waiting = w.waiting /\ u.ready = w.ready
      /\ u.writing = w.writing /\ u.replying = b
      /\ u.received = w.received /\ u.complete = w.complete
      /\ u.last = w.last /\ u.over = "no" /\ u.completed = w.completed
  BY <1>1, Zenon DEF Worlds
<1> HIDE DEF u
<1>3. w.replying = None => w.waiting = <<>>
  BY Zenon DEF Sound, Turn
<1>4. w.replying = None => ~InLine(w, b)
  BY <1>1, <1>3 DEF InLine, Waits
<1>5. ~Waits(u, b)
  BY <1>2, <1>3 DEF Sound, Line, Waits
<1>6. Line(u, None)
  BY <1>1, <1>2, <1>5 DEF Sound, Line, InLine, Waits, finished, Worlds
<1>7. LastInLine(u, None)
  BY <1>1, <1>2, <1>3, <1>4, Zenon DEF Sound, LastInLine, InLine, Waits
<1>8. Turn(u, first)
  BY <1>1, <1>2, Zenon DEF Sound, Turn
<1>9. Terminated(u)
  BY <1>2 DEF Sound, Terminated, EndsWell
<1>10. Sound(u, first, None)
  BY <1>2, <1>6, <1>7, <1>8, <1>9, Zenon DEF Sound
<1> QED  BY <1>2, <1>10, Zenon DEF u

\* What comes of a backend's being ready to reply.
Readied(w, v, x) ==
  /\ v \in Worlds /\ v.received = w.received /\ v.complete = w.complete
  /\ v.over \in {"no", "done"}
  /\ v.over = "no" => Sound(v, first, None) /\ Passed(w, v, x)

\* BackendReadyToReply, if a backend with nothing to forward is new.
LEMMA ReadySound ==
  ASSUME first \in BOOLEAN, NEW b \in Backends, NEW w, Sound(w, first, b),
         b \in w.received, w.over = "no", finished(w, b) => ~InLine(w, b)
  PROVE  Readied(w, BackendReadyToReply(w, b), b)
<1> DEFINE v == BackendReadyToReply(w, b)
<1>1. w \in Worlds /\ b # None /\ b \in MaybeBackend
  BY BackendsAssumption, Zenon DEF Sound, MaybeBackend
<1>2. CASE first /\ w.replying \in {None, b}
  <2> DEFINE u == [w EXCEPT !.replying = b]
  <2>1. /\ u \in Worlds /\ u.waiting = w.waiting /\ u.ready = w.ready
        /\ u.writing = w.writing /\ u.replying = b
        /\ u.received = w.received /\ u.complete = w.complete
        /\ u.last = w.last /\ u.over = "no" /\ Sound(u, first, None)
    BY <1>2, TakesTurn, Zenon DEF Sound
  <2>2. v = IF finished(u, b) THEN RotateReplyingBackend(u) ELSE TryWriteReply(u, b)
    BY <1>2, Zenon DEF BackendReadyToReply
  <2> HIDE DEF u, v
  <2>7. Passed(w, u, b)
    BY <2>1, Zenon DEF Passed, Waits
  <2>8. CASE finished(u, b)
    <3>1. finished(w, b)
      BY <2>1, <2>8, Zenon DEF finished
    <3>2. w.replying = None /\ u.writing = NoWrite
      BY <1>2, <2>1, <3>1, Zenon DEF InLine, Sound, Turn
    <3>3. MovedOn(u, v)
      BY <2>1, <2>2, <2>8, <3>2, RotateSound, Zenon
    <3>4. v.over = "no" => Passed(w, v, b)
      BY <1>1, <2>1, <3>2, <3>3, BackendsAssumption DEF MovedOn, Passed, Waits
    <3> QED  BY <1>2, <2>1, <3>3, <3>4, Zenon DEF MovedOn, Readied, v
  <2>9. CASE ~finished(u, b)
    <3>1. /\ Sound(v, first, None) /\ v.waiting = u.waiting /\ v.replying = u.replying
          /\ v.received = u.received /\ v.complete = u.complete /\ v.over = u.over
      BY <2>1, <2>2, <2>9, TryWriteSound, Zenon
    <3>2. Passed(w, v, b)
      BY <2>1, <3>1, Zenon DEF Passed, Waits
    <3> QED  BY <2>1, <3>1, <3>2, Zenon DEF Readied, Sound, v
  <2> QED  BY <2>8, <2>9, Zenon
<1>3. CASE ~(first /\ w.replying \in {None, b}) /\ Waits(w, b)
  <2>1. v = w
    BY <1>3, Zenon DEF BackendReadyToReply, Enqueue, Waits
  <2>2. Sound(w, first, None)
    BY <1>3, NoException, Zenon DEF InLine
  <2> QED  BY <1>1, <2>1, <2>2, Zenon DEF Readied, Passed
<1>4. CASE ~(first /\ w.replying \in {None, b}) /\ ~Waits(w, b)
  <2> DEFINE q == w.waiting
             r == Append(q, b)
  <2>1. v = [w EXCEPT !.waiting = r]
    BY <1>4, Zenon DEF BackendReadyToReply, Enqueue, Waits
  <2>2. /\ q \in Seq(Backends) /\ Len(q) \in Nat /\ DOMAIN q = 1..Len(q)
        /\ r \in Seq(Backends) /\ Len(r) = Len(q) + 1 /\ DOMAIN r = 1..(Len(q) + 1)
        /\ \A i \in 1..Len(q) : r[i] = q[i]
        /\ r[Len(q) + 1] = b
    BY <1>1, SeqAppend, SeqLen DEF Worlds
  <2>3. /\ v \in Worlds /\ v.waiting = r /\ v.ready = w.ready
        /\ v.writing = w.writing /\ v.replying = w.replying
        /\ v.received = w.received /\ v.complete = w.complete
        /\ v.last = w.last /\ v.over = "no"
    BY <1>1, <2>1, <2>2, Zenon DEF Worlds
  <2>4. ~InLine(w, b) /\ w.replying # b
    BY <1>1, <1>4, Zenon DEF InLine, Sound, Turn
  <2> HIDE DEF v, r
  <2>5. \A c : Waits(v, c) <=> Waits(w, c) \/ c = b
    BY <2>2, <2>3 DEF Waits
  <2>6. Line(v, None)
    <3>1. \A i, j \in DOMAIN r : r[i] = r[j] => i = j
      <4>1. \A i, j \in DOMAIN q : q[i] = q[j] => i = j
        BY Zenon DEF Sound, Line
      <4>2. \A i \in DOMAIN q : q[i] # b
        BY <1>4, Zenon DEF Waits
      <4>3. \A i \in DOMAIN r : \/ i \in DOMAIN q /\ r[i] = q[i]
                                \/ i = Len(q) + 1 /\ r[i] = b
        <5>1. \A m \in Nat : \A i \in 1..(m + 1) : i \in 1..m \/ i = m + 1
          OBVIOUS
        <5> TAKE i \in DOMAIN r
        <5>2. i \in 1..Len(q) \/ i = Len(q) + 1
          BY <2>2, <5>1, Zenon
        <5>3. i \in 1..Len(q) => i \in DOMAIN q /\ r[i] = q[i]
          BY <2>2, Zenon
        <5>4. i = Len(q) + 1 => r[i] = b
          BY <2>2, Zenon
        <5> QED  BY <5>2, <5>3, <5>4, Zenon
      <4> QED  BY <4>1, <4>2, <4>3, Zenon
    <3>2. ~Waits(v, v.replying)
      BY <2>3, <2>4, <2>5, Zenon DEF Sound, Line
    <3>3. \A c \in Backends : c \notin v.received =>
            v.ready[c] = <<>> /\ c \notin v.complete /\ ~InLine(v, c)
      BY <2>3, <2>5, Zenon DEF Sound, Line, InLine
    <3>4. \A c \in v.received : ~InLine(v, c) => finished(v, c)
      BY <2>3, <2>5, Zenon DEF Sound, Line, InLine, finished
    <3> QED  BY <2>3, <3>1, <3>2, <3>3, <3>4, Zenon DEF Line
  <2>7. LastInLine(v, None)
    <3>1. w.last # None => w.received = Backends /\ w.last = b
      BY <1>1, <2>4, Zenon DEF Sound, LastInLine
    <3>2. \A i \in DOMAIN r : r[i] = b => i = Len(r)
      BY <1>4, <2>2 DEF Waits
    <3> QED  BY <2>3, <2>4, <2>5, <3>1, <3>2, Zenon DEF LastInLine, InLine
  <2>8. Turn(v, first) /\ Terminated(v)
    BY <1>1, <1>4, <2>3 DEF Sound, Turn, Terminated, EndsWell
  <2>9. Passed(w, v, b)
    BY <2>3, <2>4, <2>5, Zenon DEF Passed
  <2> QED  BY <2>3, <2>6, <2>7, <2>8, <2>9, Zenon DEF Readied, Sound, v
<1> QED  BY <1>2, <1>3, <1>4, Zenon

\* What comes of a backend's sending items, after which c are complete.
Arrival(w, b, items, c) ==
  [Push(TryMarkLastBackend(w, b), b, items) EXCEPT !.complete = c]

\* A backend sends values, and a terminator at most if it is the last one and
\* has sent all.
LEMMA ArriveSound ==
  ASSUME NEW w, NEW f, Sound(w, f, None), NEW b \in Backends, b \notin w.complete,
         NEW items \in Seq(Items),
         NEW c, c = w.complete \/ c = w.complete \cup {b},
         \A i \in DOMAIN items : items[i] # "VALUE" =>
           b = TryMarkLastBackend(w, b).last /\ b \in c /\ i = Len(items)
  PROVE  LET v == Arrival(w, b, items, c) IN
         /\ Sound(v, f, b) /\ v.received = w.received \cup {b} /\ v.complete = c
         /\ v.waiting = w.waiting /\ v.replying = w.replying
         /\ v.over = w.over /\ v.ready[b] = w.ready[b] \o items
<1> DEFINE u == TryMarkLastBackend(w, b)
           v == Arrival(w, b, items, c)
<1>1. /\ w \in Worlds /\ w.ready \in Readies /\ w.ready[b] \in Seq(Items)
      /\ w.received \in SUBSET Backends /\ b # None /\ b \in MaybeBackend
      /\ w.last \in MaybeBackend
  BY BackendsAssumption, Zenon DEF Sound, Worlds, Readies, MaybeBackend
<1>2. /\ u \in Worlds /\ u.ready = w.ready /\ u.writing = w.writing
      /\ u.complete = w.complete /\ u.received = w.received \cup {b}
      /\ u.replying = w.replying /\ u.waiting = w.waiting /\ u.over = w.over
      /\ u.last = IF b \notin w.received /\ w.received \cup {b} = Backends
                  THEN b ELSE w.last
  BY <1>1, Zenon DEF TryMarkLastBackend, Worlds
<1>3. w.ready[b] \o items \in Seq(Items) /\ c \in SUBSET Backends
  BY <1>1, SeqConcat, Zenon DEF Sound, Worlds
<1> DEFINE m == [w.ready EXCEPT ![b] = @ \o items]
<1>4. m \in Readies /\ \A d \in Backends :
        m[d] = IF d = b THEN w.ready[b] \o items ELSE w.ready[d]
  BY <1>1, <1>3, Zenon DEF Readies
<1>5. v = [u EXCEPT !.ready = m, !.complete = c]
  BY <1>2, Zenon DEF Arrival, Push, Worlds
<1> HIDE DEF u, m
<1>6. /\ v \in Worlds /\ v.ready = m /\ v.writing = w.writing /\ v.complete = c
      /\ v.received = w.received \cup {b} /\ v.replying = w.replying
      /\ v.waiting = w.waiting /\ v.over = w.over /\ v.last = u.last
  BY <1>2, <1>3, <1>4, <1>5, ZenonT(60) DEF Worlds
<1> HIDE DEF v
<1>7. b \in w.received => InLine(w, b)
  BY <1>1, Zenon DEF Sound, Line, finished
<1>8. \A d : InLine(v, d) <=> InLine(w, d)
  BY <1>6, Zenon DEF InLine, Waits
<1>9. \A d \in Backends : d # b => v.ready[d] = w.ready[d]
  BY <1>4, <1>6, Zenon
<1>10. Line(v, b)
  <2>1. \A d \in Backends : d \notin v.received =>
          v.ready[d] = <<>> /\ d \notin v.complete /\ ~InLine(v, d)
    BY <1>6, <1>8, <1>9, Zenon DEF Sound, Line
  <2>2. \A d \in v.received : d # b /\ ~InLine(v, d) => finished(v, d)
    <3> SUFFICES ASSUME NEW d \in w.received, d # b, ~InLine(w, d)
                 PROVE  finished(v, d)
      BY <1>6, <1>8, Zenon
    <3>1. finished(w, d) /\ d \in Backends
      BY <1>1, BackendsAssumption, Zenon DEF Sound, Line
    <3> QED  BY <1>6, <1>9, <3>1, Zenon DEF finished
  <2> QED  BY <1>6, <2>1, <2>2, Zenon DEF Sound, Line, Waits
<1>11. w.last # None => b \in w.received /\ u.last = w.last
  BY <1>2, Zenon DEF Sound, LastInLine
<1>12. LastInLine(v, b)
  <2>1. CASE u.last = w.last
    BY <1>6, <1>7, <1>8, <1>11, <2>1, Zenon DEF Sound, LastInLine
  <2>2. CASE u.last # w.last
    <3>1. b \notin w.received /\ v.last = b /\ v.received = Backends
      BY <1>2, <1>6, <2>2, Zenon
    <3>2. ~InLine(v, b)
      BY <1>8, <3>1, Zenon DEF Sound, Line
    <3> QED  BY <3>1, <3>2, Zenon DEF LastInLine, InLine, Waits
  <2> QED  BY <2>1, <2>2, Zenon
<1>13. Turn(v, f)
  BY <1>6, Zenon DEF Sound, Turn
<1>14. Terminated(v)
  <2>1. \A d \in Backends : d # b => EndsWell(v.ready[d], d, v)
    <3> SUFFICES ASSUME NEW d \in Backends, d # b,
                        NEW i \in DOMAIN w.ready[d], w.ready[d][i] # "VALUE"
                 PROVE  d = u.last /\ d \in c /\ i = Len(w.ready[d])
      BY <1>6, <1>9 DEF EndsWell
    <3>1. d = w.last /\ d \in w.complete /\ i = Len(w.ready[d])
      BY Zenon DEF Sound, Terminated, EndsWell
    <3> QED  BY <1>11, <3>1, BackendsAssumption, Zenon
  <2>2. EndsWell(v.ready[b], b, v)
    <3> DEFINE s == w.ready[b]
    <3>1. \A i \in DOMAIN s : s[i] = "VALUE"
      BY Zenon DEF Sound, Terminated, EndsWell
    <3>2. v.ready[b] = s \o items
      BY <1>4, <1>6, Zenon
    <3>3. /\ Len(s \o items) = Len(s) + Len(items) /\ Len(s) \in Nat /\ Len(items) \in Nat
          /\ \A i \in 1..(Len(s) + Len(items)) :
               (s \o items)[i] = IF i <= Len(s) THEN s[i] ELSE items[i - Len(s)]
          /\ DOMAIN (s \o items) = 1..(Len(s) + Len(items))
          /\ DOMAIN s = 1..Len(s) /\ DOMAIN items = 1..Len(items)
      BY <1>1, <1>3, SeqConcat, SeqLen
    <3> HIDE DEF s
    <3> SUFFICES ASSUME NEW i \in 1..(Len(s) + Len(items)), (s \o items)[i] # "VALUE"
                 PROVE  b = u.last /\ b \in c /\ i = Len(s) + Len(items)
      BY <1>6, <3>2, <3>3 DEF EndsWell
    <3>4. ~(i <= Len(s))
      BY <3>1, <3>3
    <3>5. i - Len(s) \in DOMAIN items /\ items[i - Len(s)] # "VALUE"
      BY <3>3, <3>4
    <3>6. b = u.last /\ b \in c /\ i - Len(s) = Len(items)
      BY <3>5, Zenon DEF u
    <3> QED  BY <3>3, <3>6
  <2>3. /\ EndsWell(v.writing.items, v.writing.from, v)
        /\ \A i \in DOMAIN v.writing.items :
             v.writing.items[i] # "VALUE" => v.ready[v.writing.from] = <<>>
    <3> SUFFICES ASSUME NEW i \in DOMAIN w.writing.items,
                        w.writing.items[i] # "VALUE"
                 PROVE  /\ w.writing.from = u.last /\ w.writing.from \in c
                        /\ i = Len(w.writing.items)
                        /\ v.ready[w.writing.from] = <<>>
      BY <1>6, Zenon DEF EndsWell
    <3>1. /\ w.writing.from = w.last /\ w.writing.from \in w.complete
          /\ i = Len(w.writing.items) /\ w.ready[w.writing.from] = <<>>
      BY Zenon DEF Sound, Terminated, EndsWell
    <3>2. w.writing.from \in Backends /\ w.writing.from # b /\ w.last # None
      BY <1>1, <3>1, BackendsAssumption, Zenon DEF Worlds
    <3> QED  BY <1>9, <1>11, <3>1, <3>2, Zenon
  <2> QED  BY <2>1, <2>2, <2>3, Zenon DEF Terminated
<1>15. Sound(v, f, b)
  BY <1>6, <1>10, <1>12, <1>13, <1>14, Zenon DEF Sound
<1> QED  BY <1>4, <1>6, <1>15, Zenon DEF v

\* What comes of a backend's reply or failure.
Came(w, v, b, c) ==
  /\ v \in Worlds /\ v.received = w.received \cup {b} /\ v.complete = c
  /\ v.over \in {"no", "done"}
  /\ v.over = "no" => Sound(v, first, None) /\ Passed(w, v, b)

LEMMA CameSound ==
  ASSUME first \in BOOLEAN, NEW w, Sound(w, first, None), w.over = "no",
         NEW b \in Backends, b \notin w.complete, NEW items \in Seq(Items),
         NEW c, c = w.complete \/ c = w.complete \cup {b},
         \A i \in DOMAIN items : items[i] # "VALUE" =>
           b = TryMarkLastBackend(w, b).last /\ b \in c /\ i = Len(items),
         b \in c /\ items = <<>> => b \notin w.received
  PROVE  Came(w, BackendReadyToReply(Arrival(w, b, items, c), b), b, c)
<1> DEFINE u == Arrival(w, b, items, c)
           v == BackendReadyToReply(u, b)
<1>1. /\ Sound(u, first, b) /\ u.received = w.received \cup {b} /\ u.complete = c
      /\ u.waiting = w.waiting /\ u.replying = w.replying
      /\ u.over = w.over /\ u.ready[b] = w.ready[b] \o items
  BY ArriveSound, SMTT(30)
<1> HIDE DEF u
<1>2. finished(u, b) => ~InLine(u, b)
  <2> SUFFICES ASSUME finished(u, b)  PROVE ~InLine(u, b)
    BY Zenon
  <2>1. w.ready[b] \in Seq(Items)
    BY Zenon DEF Sound, Worlds, Readies
  <2>2. items = <<>> /\ b \in c
    BY <1>1, <2>1, SeqConcat, SeqEmpty, SeqLen DEF finished
  <2>3. ~InLine(w, b)
    BY <2>2, Zenon DEF Sound, Line
  <2> QED  BY <1>1, <2>3, Zenon DEF InLine, Waits
<1>3. Readied(u, v, b)
  BY <1>1, <1>2, ReadySound, Zenon
<1> HIDE DEF v
<1>4. Came(w, v, b, c)
  BY <1>1, <1>3 DEF Readied, Came, Passed, Waits
<1> QED  BY <1>4, Zenon DEF u, v

\* OnBackendRecoverableError of a backend that has not replied.
LEMMA RecoverSound ==
  ASSUME first \in BOOLEAN, NEW w, Sound(w, first, None), w.over = "no",
         NEW b \in Backends, b \notin w.received
  PROVE  Came(w, OnBackendRecoverableError(w, b), b, w.complete \cup {b})
<1> DEFINE u == TryMarkLastBackend(w, b)
           items == ErrorItems(u, b)
           c == w.complete \cup {b}
<1>1. b \notin w.complete
  BY Zenon DEF Sound, Line
<1>2. items \in Seq(Items) /\ \A i \in DOMAIN items : b = u.last /\ i = Len(items)
  <2>1. \/ items = <<>>
        \/ b = u.last /\ items \in {<<"END">>, <<"ERROR">>}
    BY Zenon DEF ErrorItems
  <2> HIDE DEF items, u
  <2>2. CASE items = <<>>
    BY <2>2
  <2>3. CASE b = u.last /\ items = <<"END">>
    BY <2>3 DEF Items
  <2>4. CASE b = u.last /\ items = <<"ERROR">>
    BY <2>4 DEF Items
  <2> QED  BY <2>1, <2>2, <2>3, <2>4, Zenon
<1>3. u.complete = w.complete
  BY Zenon DEF Sound, TryMarkLastBackend, Worlds
<1>4. Push(u, b, items).complete = u.complete
  BY Zenon DEF Sound, TryMarkLastBackend, Worlds, Push
<1>5. OnBackendRecoverableError(w, b) = BackendReadyToReply(Arrival(w, b, items, c), b)
  BY <1>3, <1>4, Zenon DEF OnBackendRecoverableError, Arrival
<1> HIDE DEF items, u
<1>6. Came(w, BackendReadyToReply(Arrival(w, b, items, c), b), b, c)
  BY <1>1, <1>2, CameSound, Zenon DEF u
<1> QED  BY <1>5, <1>6, Zenon

\* What the client has got stays sound.
LEMMA GotStays ==
  ASSUME NEW w, NEW v, NEW b, NEW s \in Seq(Backends \X Items), Got(w, s),
         Passed(w, v, b), w.received \subseteq v.received,
         b \in w.received /\ ~Waits(w, b) => b = w.replying
  PROVE  Got(v, s)
<1> SUFFICES ASSUME NEW i \in DOMAIN s
             PROVE  /\ s[i][1] \in v.received /\ ~Waits(v, s[i][1])
                    /\ s[i][1] = v.replying =>
                         \A j \in DOMAIN s : j > i => s[j][1] = v.replying
  BY Zenon DEF Got
<1> DEFINE d == s[i][1]
<1>1. d \in Backends
  BY SeqElement, SeqLen
<1>2. d \in w.received /\ ~Waits(w, d)
  BY Zenon DEF Got
<1>3. ~Waits(v, d) /\ (d = v.replying => d = w.replying)
  BY <1>1, <1>2, Zenon DEF Passed
<1> QED  BY <1>2, <1>3, Zenon DEF Got

\* While a backend is to reply, the reply to the client is not over.
LEMMA NotOver ==
  ASSUME NEW w, NEW f, Sound(w, f, None), NEW b \in Backends, b \notin w.complete
  PROVE  /\ b \in w.received => InLine(w, b)
         /\ ~Over(w)
<1>1. b # None
  BY BackendsAssumption, Zenon
<1>2. b \in w.received => InLine(w, b)
  BY <1>1, Zenon DEF Sound, Line, finished
<1> QED  BY <1>1, <1>2 DEF Over, InLine, Waits

-----------------------------------------------------------------------------
(* The steps.                                                              *)

LEMMA GetInit == Init => GetInv
<1> SUFFICES ASSUME Init  PROVE GetInv
  BY Zenon
<1> DEFINE w == World
<1>1. /\ w.ready = ready /\ w.writing = NoWrite /\ w.complete = {}
      /\ w.received = {} /\ w.last = None /\ w.replying = None
      /\ w.waiting = <<>> /\ w.completed = 0 /\ w.over = "no"
  BY Zenon DEF Init, World
<1>2. ready \in Readies /\ NoWrite \in Writes /\ None \in MaybeBackend
  BY DEF Init, Readies, Writes, MaybeBackend, NoWrite
<1>3. w \in Worlds
  BY <1>2 DEF Init, World, Worlds
<1>4. /\ first \in BOOLEAN /\ io \in [Backends -> {"query", "read", "none"}]
      /\ owed \in [Backends -> Nat] /\ out = <<>>
  BY BackendsAssumption DEF Init
<1>5. \A b \in Backends : ready[b] = <<>> /\ io[b] = "query"
  BY Zenon DEF Init
<1> HIDE DEF w
<1>6. \A b : ~Waits(w, b)
  BY <1>1 DEF Waits
<1>7. Line(w, None) /\ LastInLine(w, None) /\ Turn(w, first)
  BY <1>1, <1>5, <1>6, BackendsAssumption DEF Line, LastInLine, Turn, InLine
<1>8. Terminated(w)
  BY <1>1, <1>5 DEF Terminated, EndsWell, NoWrite
<1>9. Io(w, io, owed, seen) /\ Got(w, out) /\ Ended(w, out)
  BY <1>1, <1>4, <1>5 DEF Io, Got, Ended
<1>10. NothingAfterEnd /\ BackendsNotInterleaved /\ out \in Seq(Backends \X Items)
  BY <1>4 DEF NothingAfterEnd, BackendsNotInterleaved
<1> QED  BY <1>3, <1>4, <1>7, <1>8, <1>9, <1>10, Zenon DEF GetInv, Sound, w

\* An aborted command's reply does not change.
LEMMA AbortStep ==
  ASSUME GetInv, Abort
  PROVE  GetInv'
<1>1. World \in Worlds /\ World' = [World EXCEPT !.over = "aborted"]
  <2>1. World \in Worlds
    BY Zenon DEF GetInv
  <2>2. World' = [World EXCEPT !.over = "aborted"]
    BY SMTT(30) DEF Abort, World
  <2> QED  BY <2>1, <2>2, Zenon
<1>2. World' \in Worlds
  BY <1>1, Zenon DEF Worlds
<1> QED  BY <1>2 DEF GetInv, Abort, NothingAfterEnd, BackendsNotInterleaved

\* A backend replies or fails: what the invariant needs besides the backend's
\* own state.
LEMMA CameStep ==
  ASSUME GetInv, over = "no", NEW b \in Backends, b \notin complete,
         NEW v, NEW c, Came(World, v, b, c), Become(v),
         c = complete \/ c = complete \cup {b},
         first' = first, out' = out,
         io' \in [Backends -> {"query", "read", "none"}],
         owed' \in [Backends -> Nat],
         \A d \in Backends \ {b} : io'[d] = io[d] /\ owed'[d] = owed[d],
         seen \subseteq seen',
         b \in c => io'[b] = "none", io'[b] # "query",
         io'[b] = "read" => b \in seen' /\ owed'[b] > 0
  PROVE  GetInv'
<1>1. v \in Worlds /\ World' = v /\ over' = v.over
  BY Becomes, Zenon DEF Came, Become
<1>2. World.received = received_reply_backends /\ World.complete = complete
      /\ World.over = "no"
  BY Zenon DEF World
<1>3. /\ Sound(World, first, None) /\ Io(World, io, owed, seen)
      /\ Got(World, out) /\ Ended(World, out) /\ out \in Seq(Backends \X Items)
  BY Zenon DEF GetInv
<1>4. (b \in World.received => InLine(World, b)) /\ ~Over(World)
  BY <1>2, <1>3, NotOver, Zenon
<1>5. CASE v.over = "no"
  <2>1. Sound(v, first, None) /\ Passed(World, v, b)
        /\ v.received = World.received \cup {b} /\ v.complete = c
    BY <1>5, Zenon DEF Came
  <2>2. Got(v, out)
    BY <1>3, <1>4, <2>1, GotStays, Zenon DEF InLine
  <2>3. Ended(v, out)
    BY <1>3, <1>4, Zenon DEF Ended
  <2>4. Io(v, io', owed', seen')
    BY <1>2, <1>3, <2>1 DEF Io
  <2> QED  BY <1>1, <2>1, <2>2, <2>3, <2>4 DEF GetInv, NothingAfterEnd, BackendsNotInterleaved
<1>6. CASE v.over # "no"
  BY <1>1, <1>6 DEF GetInv, NothingAfterEnd, BackendsNotInterleaved
<1> QED  BY <1>5, <1>6, Zenon

LEMMA QueryWrittenStep ==
  ASSUME GetInv, over = "no", NEW b \in Backends, QueryWritten(b)
  PROVE  GetInv'
<1>1. World \in Worlds /\ World' = World /\ over' = over
  BY Becomes, Zenon DEF GetInv, QueryWritten, Become, World
<1>2. io' \in [Backends -> {"query", "read", "none"}]
      /\ \A d \in Backends : io'[d] = IF d = b THEN "read" ELSE io[d]
  BY Zenon DEF GetInv, QueryWritten
<1>3. Io(World, io', owed, seen)
  <2>1. Sound(World, first, None) /\ Io(World, io, owed, seen) /\ io[b] = "query"
    BY Zenon DEF GetInv, QueryWritten
  <2>2. b \notin World.received /\ b \notin World.complete
    BY <2>1, Zenon DEF Sound, Line, Io
  <2> QED  BY <1>2, <2>1, <2>2, Zenon DEF Io
<1>4. /\ first' = first /\ owed' = owed /\ seen' = seen /\ out' = out
  BY Zenon DEF QueryWritten
<1> QED  BY <1>1, <1>2, <1>3, <1>4 DEF GetInv, NothingAfterEnd, BackendsNotInterleaved

LEMMA FailedStep ==
  ASSUME GetInv, over = "no", NEW b \in Backends,
         io[b] = "query" \/ (io[b] = "read" /\ b \notin seen),
         io' = [io EXCEPT ![b] = "none"],
         Become(OnBackendRecoverableError(World, b)),
         UNCHANGED <<values, first, owed, seen, out>>
  PROVE  GetInv'
<1>1. /\ Sound(World, first, None) /\ Io(World, io, owed, seen)
      /\ World.over = "no" /\ first \in BOOLEAN /\ World.complete = complete
  BY Zenon DEF GetInv, World
<1>2. b \notin World.received
  BY <1>1, Zenon DEF Io
<1>3. b \notin complete
  BY <1>1, <1>2, Zenon DEF Sound, Line
<1>4. Came(World, OnBackendRecoverableError(World, b), b, complete \cup {b})
  BY <1>1, <1>2, RecoverSound, Zenon
<1>5. /\ io' \in [Backends -> {"query", "read", "none"}] /\ io'[b] = "none"
      /\ owed' \in [Backends -> Nat]
      /\ \A d \in Backends \ {b} : io'[d] = io[d] /\ owed'[d] = owed[d]
  BY Zenon DEF GetInv
<1> QED  BY <1>3, <1>4, <1>5, CameStep, Zenon

\* What arrives with n values, and END or not, and who is complete then.
ReplyItems(b, n, end) ==
  [i \in 1..n |-> "VALUE"]
    \o (IF end /\ b = TryMarkLastBackend(World, b).last THEN <<"END">> ELSE <<>>)
CompleteWith(b, end) == IF end THEN complete \cup {b} ELSE complete

\* What a reply needs to leave a sound state.
Replied(b, n, end, items, c) ==
  /\ b \notin complete /\ items \in Seq(Items)
  /\ \A i \in DOMAIN items : items[i] # "VALUE" =>
       b = TryMarkLastBackend(World, b).last /\ b \in c /\ i = Len(items)
  /\ b \in c /\ items = <<>> => b \notin World.received
  /\ Become(BackendReadyToReply(Arrival(World, b, items, c), b))
  /\ (\E i \in DOMAIN items : items[i] # "VALUE")
       <=> end /\ b = TryMarkLastBackend(World, b).last
  /\ Len(items) = n + (IF end /\ b = TryMarkLastBackend(World, b).last THEN 1 ELSE 0)
  /\ n \in Nat /\ owed[b] \in Nat
  /\ n <= owed[b] /\ (end => n = owed[b]) /\ (~end => n < owed[b])

LEMMA ReplyFacts ==
  ASSUME GetInv, over = "no", ~LoneEnd, NEW b \in Backends,
         NEW n \in 0..MaxValues, NEW end \in BOOLEAN, ReplyReceived(b, n, end)
  PROVE  Replied(b, n, end, ReplyItems(b, n, end), CompleteWith(b, end))
<1> DEFINE w1 == TryMarkLastBackend(World, b)
           vals == [i \in 1..n |-> "VALUE"]
           fin == IF end /\ b = w1.last THEN <<"END">> ELSE <<>>
           items == vals \o fin
           c == CompleteWith(b, end)
           v == BackendReadyToReply(Arrival(World, b, items, c), b)
<1>1. /\ Sound(World, first, None) /\ Io(World, io, owed, seen)
      /\ World.over = "no" /\ first \in BOOLEAN /\ World.complete = complete
      /\ io[b] = "read"
  BY Zenon DEF GetInv, World, ReplyReceived
<1>2. b \notin complete /\ (b \in World.received => owed[b] > 0)
  BY <1>1, Zenon DEF Io
<1>3. n \in Nat /\ owed \in [Backends -> Nat] /\ owed[b] \in Nat
  BY BackendsAssumption DEF GetInv
<1>4. /\ n <= owed[b] /\ (end => n = owed[b]) /\ (~end => n < owed[b])
  BY Zenon DEF ReplyReceived
<1>5. Become(v)
  <2>1. w1.complete = complete /\ Push(w1, b, items).complete = complete
    BY <1>1, Zenon DEF Sound, TryMarkLastBackend, Worlds, Push
  <2>2. [Push(w1, b, items) EXCEPT !.complete = IF end THEN @ \cup {b} ELSE @]
          = Arrival(World, b, items, c)
    BY <2>1, Zenon DEF Arrival, CompleteWith
  <2> QED  BY <2>2, Zenon DEF ReplyReceived
<1>6. /\ items \in Seq(Items)
      /\ \A i \in DOMAIN items : items[i] # "VALUE" =>
           b = w1.last /\ b \in c /\ i = Len(items)
      /\ items = <<>> => n = 0
      /\ Len(items) = n + (IF end /\ b = w1.last THEN 1 ELSE 0)
      /\ (\E i \in DOMAIN items : items[i] # "VALUE") <=> end /\ b = w1.last
  <2>1. vals \in Seq(Items) /\ Len(vals) = n /\ \A i \in 1..n : vals[i] = "VALUE"
    BY <1>3 DEF Items
  <2>2. /\ fin \in Seq(Items) /\ Len(fin) \in 0..1
        /\ Len(fin) = 1 <=> end /\ b = w1.last
        /\ Len(fin) = 1 => fin[1] = "END"
    <3>1. CASE end /\ b = w1.last
      BY <3>1 DEF Items
    <3>2. CASE ~(end /\ b = w1.last)
      BY <3>2
    <3> QED  BY <3>1, <3>2, Zenon
  <2> HIDE DEF vals, fin, w1
  <2>3. /\ items \in Seq(Items) /\ Len(items) = n + Len(fin)
        /\ \A i \in 1..(n + Len(fin)) :
             items[i] = IF i <= n THEN vals[i] ELSE fin[i - n]
        /\ DOMAIN items = 1..(n + Len(fin))
    <3>1. /\ items \in Seq(Items) /\ Len(items) = Len(vals) + Len(fin)
          /\ \A i \in 1..(Len(vals) + Len(fin)) :
               items[i] = IF i <= Len(vals) THEN vals[i] ELSE fin[i - Len(vals)]
      BY <2>1, <2>2, SeqConcat, Zenon
    <3>2. DOMAIN items = 1..Len(items)
      BY <3>1, SeqLen, Zenon
    <3> HIDE DEF items
    <3> QED  BY <2>1, <3>1, <3>2, Zenon
  <2> HIDE DEF items
  <2>4. \A i \in DOMAIN items : items[i] # "VALUE" => i > n
    BY <1>3, <2>1, <2>3
  <2>5. \A i \in DOMAIN items : items[i] # "VALUE" => i = Len(items) /\ Len(fin) = 1
    BY <1>3, <2>2, <2>3, <2>4, SMTT(30)
  <2>6. items = <<>> => n = 0
    BY <1>3, <2>2, <2>3
  <2>7. Len(items) = n + (IF end /\ b = w1.last THEN 1 ELSE 0)
    BY <1>3, <2>2, <2>3
  <2>8. Len(fin) = 1 => n + 1 \in DOMAIN items /\ items[n + 1] = "END"
    BY <1>3, <2>2, <2>3
  <2>9. b = w1.last /\ end => b \in c
    BY Zenon DEF CompleteWith
  <2> QED  BY <2>2, <2>3, <2>5, <2>6, <2>7, <2>8, <2>9
<1> HIDE DEF items, v
<1>7. b \in c /\ items = <<>> => b \notin World.received
  BY <1>2, <1>3, <1>4, <1>6 DEF CompleteWith
<1>8. Replied(b, n, end, items, c)
  BY <1>2, <1>3, <1>4, <1>5, <1>6, <1>7, Zenon DEF Replied, v
<1> QED  BY <1>8, Zenon DEF items, ReplyItems

LEMMA ReplyStep ==
  ASSUME GetInv, over = "no", ~LoneEnd, NEW b \in Backends,
         NEW n \in 0..MaxValues, NEW end \in BOOLEAN, ReplyReceived(b, n, end)
  PROVE  GetInv'
<1> DEFINE items == ReplyItems(b, n, end)
           c == CompleteWith(b, end)
           v == BackendReadyToReply(Arrival(World, b, items, c), b)
<1>1. /\ Sound(World, first, None) /\ World.over = "no" /\ first \in BOOLEAN
      /\ World.complete = complete /\ owed \in [Backends -> Nat]
  BY Zenon DEF GetInv, World
<1>2. Replied(b, n, end, items, c)
  BY ReplyFacts, Zenon
<1>3. c = complete \/ c = complete \cup {b}
  BY Zenon DEF CompleteWith
<1> HIDE DEF items, c
<1>4. /\ b \notin complete /\ Become(v) /\ n \in Nat /\ owed[b] \in Nat
      /\ n <= owed[b] /\ (~end => n < owed[b])
  BY <1>2, Zenon DEF Replied
<1>8. Came(World, v, b, c)
  BY <1>1, <1>2, <1>3, CameSound, Zenon DEF Replied
<1> HIDE DEF v
<1>9. /\ io' \in [Backends -> {"query", "read", "none"}]
      /\ io'[b] = IF end THEN "none" ELSE "read"
      /\ \A d \in Backends \ {b} : io'[d] = io[d]
  BY Zenon DEF GetInv, ReplyReceived
<1>10. /\ owed' \in [Backends -> Nat] /\ owed'[b] = owed[b] - n
       /\ \A d \in Backends \ {b} : owed'[d] = owed[d]
  <2>1. owed' = [owed EXCEPT ![b] = @ - n]
    BY Zenon DEF ReplyReceived
  <2>2. owed[b] - n \in Nat
    BY <1>4
  <2> QED  BY <1>1, <2>1, <2>2, Zenon
<1>11. /\ seen \subseteq seen' /\ b \in seen' /\ first' = first /\ out' = out
  BY Zenon DEF ReplyReceived
<1>12. b \in c => io'[b] = "none"
  BY <1>4, <1>9, Zenon DEF c, CompleteWith
<1>13. io'[b] = "read" => owed'[b] > 0
  BY <1>4, <1>9, <1>10
<1> QED  BY <1>3, <1>4, <1>8, <1>9, <1>10, <1>11, <1>12, <1>13, CameStep, Zenon

LEMMA StartStep ==
  ASSUME GetInv, over = "no", StartWriteReply
  PROVE  GetInv'
<1> DEFINE v == NextBackendStartReply(World)
<1>1. /\ Sound(World, first, None) /\ Io(World, io, owed, seen)
      /\ Got(World, out) /\ Ended(World, out) /\ out \in Seq(Backends \X Items)
      /\ World.over = "no" /\ World.received \subseteq Backends
      /\ first = FALSE
  BY Zenon DEF GetInv, World, StartWriteReply, Worlds
<1>2. World.replying = None /\ World.writing = NoWrite
  BY <1>1, Zenon DEF Sound, Turn
<1>3. MovedOn(World, v)
  BY <1>1, <1>2, NextSound, Zenon
<1>4. /\ Become(v) /\ first' = TRUE /\ io' = io /\ owed' = owed /\ seen' = seen
      /\ out' = out
  BY Zenon DEF StartWriteReply
<1> HIDE DEF v
<1>5. v \in Worlds /\ World' = v /\ over' = v.over
  BY <1>3, <1>4, Becomes, Zenon DEF MovedOn, Become
<1>6. CASE v.over = "no"
  <2>1. /\ Sound(v, TRUE, None) /\ Passed(World, v, None)
        /\ v.received = World.received /\ v.complete = World.complete
        /\ World.waiting = <<>> /\ World.received = Backends => Over(v)
    BY <1>3, <1>6, Zenon DEF MovedOn
  <2>2. Got(v, out)
    BY <1>1, <2>1, GotStays, BackendsAssumption, Zenon
  <2>3. Ended(v, out)
    BY <1>1, <2>1, Zenon DEF Ended, Over
  <2>4. Io(v, io, owed, seen)
    BY <1>1, <2>1, Zenon DEF Io
  <2>5. NothingAfterEnd' /\ BackendsNotInterleaved'
    BY <1>4 DEF GetInv, NothingAfterEnd, BackendsNotInterleaved
  <2>6. /\ Sound(World', first', None) /\ Io(World', io', owed', seen')
        /\ Got(World', out') /\ Ended(World', out')
    BY <1>4, <1>5, <2>1, <2>2, <2>3, <2>4, Zenon
  <2>7. first' \in BOOLEAN /\ World' \in Worlds
    BY <1>4, <1>5, Zenon
  <2> QED  BY <1>4, <2>5, <2>6, <2>7, Zenon DEF GetInv
<1>7. CASE v.over # "no"
  <2>1. first' \in BOOLEAN /\ over' # "no" /\ World' \in Worlds
    BY <1>4, <1>5, <1>7, Zenon
  <2>2. NothingAfterEnd' /\ BackendsNotInterleaved'
    BY <1>4 DEF GetInv, NothingAfterEnd, BackendsNotInterleaved
  <2> QED  BY <1>4, <2>1, <2>2, Zenon DEF GetInv
<1> QED  BY <1>6, <1>7, Zenon

\* The end of a write to the client: what was written is the client's.
AfterWrite == [World EXCEPT !.writing = NoWrite]

Unloaded(w, b, its) ==
  /\ first = TRUE /\ b \in Backends /\ its \in Seq(Items)
  /\ w.ready = World.ready /\ w.writing = NoWrite
  /\ w.complete = World.complete /\ w.received = World.received
  /\ w.last = World.last /\ w.replying = b /\ w.waiting = World.waiting
  /\ w.over = "no" /\ w.completed = World.completed
  /\ Sound(w, TRUE, None)
  /\ out' \in Seq(Backends \X Items) /\ Len(out') = Len(out) + Len(its)
  /\ DOMAIN out' = 1..(Len(out) + Len(its)) /\ DOMAIN out = 1..Len(out)
  /\ Len(out) \in Nat /\ Len(its) \in Nat /\ DOMAIN its = 1..Len(its)
  /\ \A i \in 1..Len(out) : out'[i] = out[i]
  /\ \A i \in (Len(out) + 1)..(Len(out) + Len(its)) : out'[i] = <<b, its[i - Len(out)]>>

LEMMA WriteEnds ==
  ASSUME GetInv, over = "no", OnWriteReplyFinished
  PROVE  Unloaded(AfterWrite, writing.from, writing.items)
<1> DEFINE b == writing.from
           its == writing.items
           w == AfterWrite
           new == [i \in DOMAIN its |-> <<b, its[i]>>]
<1>1. /\ Sound(World, first, None) /\ out \in Seq(Backends \X Items)
      /\ World \in Worlds /\ World.over = "no" /\ World.writing = writing
  BY Zenon DEF GetInv, World
<1>2. out' = out \o new /\ writing # NoWrite
  BY Zenon DEF OnWriteReplyFinished
<1>3. first = TRUE /\ b = World.replying /\ b # None
  BY <1>1, <1>2, Zenon DEF Sound, Turn, GetInv
<1>4. b \in Backends /\ its \in Seq(Items) /\ NoWrite \in Writes
  <2>1. World.replying \in MaybeBackend /\ World.writing \in Writes
    BY <1>1, Zenon DEF Worlds
  <2>2. b \in Backends /\ its \in Seq(Items)
    BY <1>1, <1>3, <2>1, Zenon DEF MaybeBackend, Writes
  <2>3. NoWrite \in Writes
    BY SeqEmpty, Zenon DEF Writes, MaybeBackend, NoWrite
  <2> QED  BY <2>2, <2>3, Zenon
<1>5. /\ w \in Worlds /\ w.ready = World.ready /\ w.writing = NoWrite
      /\ w.complete = World.complete /\ w.received = World.received
      /\ w.last = World.last /\ w.replying = b /\ w.waiting = World.waiting
      /\ w.over = "no" /\ w.completed = World.completed
  BY <1>1, <1>3, <1>4, Zenon DEF Worlds, AfterWrite
<1> HIDE DEF w
<1>6. Sound(w, TRUE, None)
  <2>1. Line(w, None)
    BY <1>1, <1>3, <1>5 DEF Sound, Line, InLine, Waits, finished
  <2>4. LastInLine(w, None)
    BY <1>1, <1>3, <1>5, Zenon DEF Sound, LastInLine, InLine, Waits
  <2>2. Turn(w, TRUE)
    BY <1>1, <1>3, <1>5, Zenon DEF Sound, Turn
  <2>3. Terminated(w)
    BY <1>1, <1>5 DEF Sound, Terminated, EndsWell, NoWrite
  <2> QED  BY <1>5, <2>1, <2>2, <2>3, <2>4, Zenon DEF Sound
<1>7. /\ new \in Seq(Backends \X Items) /\ Len(new) = Len(its) /\ Len(its) \in Nat
      /\ DOMAIN its = 1..Len(its)
      /\ \A i \in 1..Len(its) : new[i] = <<b, its[i]>>
  <2>1. Len(its) \in Nat /\ DOMAIN its = 1..Len(its) /\ \A i \in 1..Len(its) : its[i] \in Items
    BY <1>4, SeqLen, SeqElement, Zenon
  <2>2. new = [i \in 1..Len(its) |-> <<b, its[i]>>]
    BY <2>1, Zenon
  <2>3. \A i \in 1..Len(its) : <<b, its[i]>> \in Backends \X Items
    BY <1>4, <2>1, Zenon
  <2>4. new \in Seq(Backends \X Items)
    BY <2>1, <2>2, <2>3, SeqFunction, Zenon
  <2> QED  BY <2>1, <2>2, <2>4
<1> HIDE DEF new
<1>8. /\ out' \in Seq(Backends \X Items) /\ Len(out') = Len(out) + Len(its)
      /\ DOMAIN out' = 1..(Len(out) + Len(its)) /\ DOMAIN out = 1..Len(out)
      /\ Len(out) \in Nat
      /\ \A i \in 1..Len(out) : out'[i] = out[i]
      /\ \A i \in (Len(out) + 1)..(Len(out) + Len(its)) : out'[i] = <<b, its[i - Len(out)]>>
  <2>1. /\ out' \in Seq(Backends \X Items) /\ Len(out') = Len(out) + Len(new)
        /\ \A i \in 1..(Len(out) + Len(new)) :
             out'[i] = IF i <= Len(out) THEN out[i] ELSE new[i - Len(out)]
    <3>1. /\ out \o new \in Seq(Backends \X Items) /\ Len(out \o new) = Len(out) + Len(new)
          /\ \A i \in 1..(Len(out) + Len(new)) :
               (out \o new)[i] = IF i <= Len(out) THEN out[i] ELSE new[i - Len(out)]
      <4> DEFINE S == Backends \X Items
      <4>1. out \in Seq(S) /\ new \in Seq(S)
        BY <1>1, <1>7, Zenon
      <4> HIDE DEF S
      <4>2. /\ out \o new \in Seq(S) /\ Len(out \o new) = Len(out) + Len(new)
            /\ \A i \in 1..(Len(out) + Len(new)) :
                 (out \o new)[i] = IF i <= Len(out) THEN out[i] ELSE new[i - Len(out)]
        BY <4>1, SeqConcat, Zenon
      <4> QED  BY <4>2, Zenon DEF S
    <3> QED  BY <1>2, <3>1, Zenon
  <2>2. DOMAIN out' = 1..Len(out') /\ DOMAIN out = 1..Len(out) /\ Len(out) \in Nat
    BY <1>1, <2>1, SeqLen, Zenon
  <2>3. \A i \in 1..Len(out) : out'[i] = out[i]
    BY <1>7, <2>1, <2>2
  <2>4. \A i \in (Len(out) + 1)..(Len(out) + Len(its)) : out'[i] = <<b, its[i - Len(out)]>>
    <3> SUFFICES ASSUME NEW i \in (Len(out) + 1)..(Len(out) + Len(its))
                 PROVE  out'[i] = <<b, its[i - Len(out)]>>
      BY Zenon
    <3>1. i \in 1..(Len(out) + Len(new)) /\ ~(i <= Len(out)) /\ i - Len(out) \in 1..Len(its)
      BY <1>7, <2>2
    <3> QED  BY <1>7, <2>1, <3>1, Zenon
  <2> QED  BY <1>7, <2>1, <2>2, <2>3, <2>4, Zenon
<1>9. Unloaded(w, b, its)
  <2>1. Len(its) \in Nat /\ DOMAIN its = 1..Len(its)
    BY <1>7
  <2> QED  BY <1>3, <1>4, <1>5, <1>6, <1>8, <2>1, Zenon DEF Unloaded
<1> QED  BY <1>9, Zenon DEF w

\* The writer writes on or gives its turn away.
LEMMA WrittenStep ==
  ASSUME GetInv, over = "no", OnWriteReplyFinished
  PROVE  GetInv'
<1> DEFINE b == writing.from
           its == writing.items
           w == AfterWrite
           v == IF finished(w, b) THEN RotateReplyingBackend(w) ELSE TryWriteReply(w, b)
<1>1. /\ Sound(World, first, None) /\ Io(World, io, owed, seen)
      /\ Got(World, out) /\ Ended(World, out)
      /\ World \in Worlds /\ World.over = "no" /\ World.writing = writing
      /\ NothingAfterEnd /\ BackendsNotInterleaved
  BY Zenon DEF GetInv, World
<1>2. /\ Become(v) /\ first' = first /\ io' = io /\ owed' = owed /\ seen' = seen
      /\ writing # NoWrite
  BY Zenon DEF OnWriteReplyFinished, AfterWrite
<1>3. first = TRUE /\ b = World.replying /\ b # None
  BY <1>1, <1>2, Zenon DEF Sound, Turn, GetInv
<1>4. Unloaded(w, b, its)
  BY WriteEnds, Zenon
<1>5. /\ w \in Worlds /\ w.ready = World.ready /\ w.writing = NoWrite
      /\ w.complete = World.complete /\ w.received = World.received
      /\ w.last = World.last /\ w.replying = b /\ w.waiting = World.waiting
      /\ w.over = "no" /\ b \in Backends
  BY <1>4, Zenon DEF Unloaded, Sound
<1> HIDE DEF w
<1>6. Sound(w, TRUE, None)
  BY <1>4, Zenon DEF Unloaded
<1>7. /\ v \in Worlds /\ v.received = w.received /\ v.complete = w.complete
      /\ v.over = "no" => Sound(v, TRUE, None) /\ Passed(w, v, None)
      /\ v.over = "no" /\ finished(w, b) /\ w.waiting = <<>> /\ w.received = Backends
           => Over(v)
  <2>1. CASE finished(w, b)
    <3>1. MovedOn(w, v)
      BY <1>5, <1>6, <2>1, RotateSound, Zenon
    <3> QED  BY <3>1, Zenon DEF MovedOn
  <2>2. CASE ~finished(w, b)
    <3>1. v = TryWriteReply(w, b)
      BY <2>2, Zenon
    <3>2. /\ Sound(v, TRUE, None) /\ v.waiting = w.waiting /\ v.replying = w.replying
          /\ v.received = w.received /\ v.complete = w.complete
      BY <1>4, <1>5, <1>6, <3>1, TryWriteSound, ZenonT(30)
    <3> QED  BY <2>2, <3>2, Zenon DEF Sound, Passed, Waits
  <2> QED  BY <2>1, <2>2, Zenon
<1> HIDE DEF v
<1>8. World' = v /\ over' = v.over
  BY <1>2, <1>7, Becomes, Zenon DEF Become
<1>9. Len(its) \in Nat /\ DOMAIN its = 1..Len(its)
  BY <1>4, Zenon DEF Unloaded
<1>10. /\ out' \in Seq(Backends \X Items) /\ Len(out') = Len(out) + Len(its)
       /\ DOMAIN out' = 1..(Len(out) + Len(its)) /\ DOMAIN out = 1..Len(out)
       /\ Len(out) \in Nat
       /\ \A i \in 1..Len(out) : out'[i] = out[i]
       /\ \A i \in (Len(out) + 1)..(Len(out) + Len(its)) : out'[i] = <<b, its[i - Len(out)]>>
  BY <1>4, Zenon DEF Unloaded
<1>11. b \in w.received /\ ~Waits(w, b)
  BY <1>5, <1>6, Zenon DEF Sound, Line, InLine
<1>12. \A i \in DOMAIN out : out[i][2] = "VALUE"
  BY <1>1, <1>3, Zenon DEF Ended, Over
<1>13. \A i \in DOMAIN out' : i <= Len(out) \/ out'[i][1] = b
  BY <1>9, <1>10
<1>14. Got(w, out')
  <2>1. Got(w, out)
    BY <1>1, <1>3, <1>5 DEF Got, Waits
  <2> SUFFICES ASSUME NEW i \in DOMAIN out'
               PROVE  /\ out'[i][1] \in w.received /\ ~Waits(w, out'[i][1])
                      /\ out'[i][1] = b => \A j \in DOMAIN out' : j > i => out'[j][1] = b
    BY <1>5, Zenon DEF Got
  <2>2. CASE i <= Len(out)
    <3>1. i \in DOMAIN out /\ out'[i] = out[i]
      BY <1>10, <2>2
    <3>2. out[i][1] = b => \A j \in DOMAIN out : j > i => out[j][1] = b
      BY <1>5, <2>1, <3>1, Zenon DEF Got
    <3>3. out[i][1] = b => \A j \in DOMAIN out' : j > i => out'[j][1] = b
      <4> SUFFICES ASSUME out[i][1] = b, NEW j \in DOMAIN out', j > i
                   PROVE  out'[j][1] = b
        BY Zenon
      <4>1. CASE j <= Len(out)
        BY <1>9, <1>10, <3>2, <4>1
      <4>2. CASE ~(j <= Len(out))
        BY <1>13, <4>2, Zenon
      <4> QED  BY <4>1, <4>2, Zenon
    <3> QED  BY <2>1, <3>1, <3>3, Zenon DEF Got
  <2>3. CASE ~(i <= Len(out))
    <3>1. \A j \in DOMAIN out' : j > i => ~(j <= Len(out))
      BY <1>9, <1>10, <2>3
    <3> QED  BY <1>11, <1>13, <2>3, <3>1, Zenon
  <2> QED  BY <2>2, <2>3, Zenon
<1>15. BackendsNotInterleaved'
  <2> SUFFICES ASSUME NEW i \in DOMAIN out', NEW j \in DOMAIN out', NEW k \in DOMAIN out',
                      i < j, j < k, out'[i][1] = out'[k][1]
               PROVE  out'[j][1] = out'[i][1]
    BY Zenon DEF BackendsNotInterleaved
  <2>1. CASE k <= Len(out)
    <3>1. i \in DOMAIN out /\ j \in DOMAIN out /\ k \in DOMAIN out
      BY <1>9, <1>10, <2>1
    <3> QED  BY <1>1, <1>10, <3>1 DEF BackendsNotInterleaved
  <2>2. CASE ~(k <= Len(out))
    <3>1. out'[i][1] = b
      BY <1>13, <2>2, Zenon
    <3> QED  BY <1>5, <1>14, <3>1, Zenon DEF Got
  <2> QED  BY <2>1, <2>2, Zenon
<1>16. \A i \in DOMAIN out' : out'[i][2] # "VALUE" =>
         /\ i = Len(out') /\ finished(w, b) /\ w.waiting = <<>> /\ w.received = Backends
  <2> SUFFICES ASSUME NEW i \in DOMAIN out', out'[i][2] # "VALUE"
               PROVE  /\ i = Len(out') /\ finished(w, b) /\ w.waiting = <<>>
                      /\ w.received = Backends
    BY Zenon
  <2>1. i \in (Len(out) + 1)..(Len(out) + Len(its))
    BY <1>9, <1>10, <1>12
  <2>2. i - Len(out) \in DOMAIN its /\ its[i - Len(out)] # "VALUE"
    BY <1>9, <1>10, <2>1
  <2>3. /\ b = World.last /\ b \in World.complete /\ i - Len(out) = Len(its)
        /\ World.ready[b] = <<>>
    BY <1>1, <2>2, Zenon DEF Sound, Terminated, EndsWell
  <2>4. i = Len(out')
    BY <1>9, <1>10, <2>3
  <2>5. World.waiting = <<>> /\ World.received = Backends
    BY <1>1, <1>3, <2>3, Zenon DEF Sound, LastInLine
  <2> QED  BY <1>5, <2>3, <2>4, <2>5, Zenon DEF finished
<1>17. NothingAfterEnd'
  BY <1>16, Zenon DEF NothingAfterEnd
<1>18. CASE v.over = "no"
  <2>1. Sound(v, TRUE, None) /\ Passed(w, v, None) /\ w.received \subseteq Backends
    BY <1>5, <1>7, <1>18, Zenon DEF Worlds
  <2>2. Got(v, out')
    BY <1>7, <1>10, <1>14, <2>1, GotStays, BackendsAssumption, Zenon
  <2>3. Ended(v, out')
    BY <1>7, <1>16, <1>18, Zenon DEF Ended
  <2>4. Io(v, io, owed, seen)
    BY <1>1, <1>5, <1>7, Zenon DEF Io
  <2> QED  BY <1>2, <1>3, <1>7, <1>8, <1>10, <1>15, <1>17, <2>1, <2>2, <2>3, <2>4,
    Zenon DEF GetInv
<1>19. CASE v.over # "no"
  BY <1>2, <1>3, <1>7, <1>8, <1>10, <1>15, <1>17, <1>19, Zenon DEF GetInv
<1> QED  BY <1>18, <1>19, Zenon

-----------------------------------------------------------------------------
(* The theorems.                                                           *)

\* The forwarding state of a multi-key get stays sound under every order of
\* replies, failures and writes, if no backend's END comes in a read of its
\* own after its values (a parser that meets that case forwards END of its own).
THEOREM GetInvariant ==
  ASSUME ~LoneEnd
  PROVE  Spec => []GetInv
<1>1. GetInv /\ [Next]_vars => GetInv'
  <2> SUFFICES ASSUME GetInv, [Next]_vars  PROVE GetInv'
    BY Zenon
  <2>1. CASE UNCHANGED vars
    <3>1. World' = World /\ over' = over
      BY <2>1, Zenon DEF vars, World
    <3>2. /\ first' = first /\ io' = io /\ owed' = owed /\ seen' = seen
          /\ out' = out
      BY <2>1, Zenon DEF vars
    <3>3. NothingAfterEnd' /\ BackendsNotInterleaved'
      BY <3>2 DEF GetInv, NothingAfterEnd, BackendsNotInterleaved
    <3> QED  BY <3>1, <3>2, <3>3, Zenon DEF GetInv
  <2>2. CASE Next
    <3>1. over = "no"
      BY <2>2, Zenon DEF Next
    <3>2. ASSUME NEW b \in Backends, QueryWritten(b)  PROVE GetInv'
      BY <3>1, <3>2, QueryWrittenStep, Zenon
    <3>3. ASSUME NEW b \in Backends, ConnectFailed(b)  PROVE GetInv'
      BY <3>1, <3>3, FailedStep, Zenon DEF ConnectFailed
    <3>4. ASSUME NEW b \in Backends, NEW n \in 0..MaxValues, NEW end \in BOOLEAN,
                 ReplyReceived(b, n, end)
          PROVE  GetInv'
      BY <3>1, <3>4, ReplyStep, Zenon
    <3>5. ASSUME NEW b \in Backends, ReadFailed(b)  PROVE GetInv'
      BY <3>1, <3>5, FailedStep, AbortStep, Zenon DEF ReadFailed
    <3>6. CASE OnWriteReplyFinished
      BY <3>1, <3>6, WrittenStep, Zenon
    <3>7. CASE StartWriteReply
      BY <3>1, <3>7, StartStep, Zenon
    <3>8. CASE Abort
      BY <3>8, AbortStep, Zenon
    <3> QED  BY <2>2, <3>2, <3>3, <3>4, <3>5, <3>6, <3>7, <3>8, Zenon
             DEF Next, WriteFailed, WriteReplyFailed, ClientFails
  <2> QED  BY <2>1, <2>2, Zenon
<1> QED  BY <1>1, GetInit, PTL DEF Spec

\* Nothing reaches the client after END: only the last backend to reply may
\* keep its END (TryMarkLastBackend, ParseReply), and its turn comes last.
THEOREM EndIsLast ==
  ASSUME ~LoneEnd
  PROVE  Spec => []NothingAfterEnd
<1>1. GetInv => NothingAfterEnd
  BY Zenon DEF GetInv
<1> QED  BY <1>1, GetInvariant, PTL

\* What the backends send is forwarded one backend after the other
\* (BackendReadyToReply, RotateReplyingBackend), however their replies and
\* the client's reads interleave.
THEOREM BackendsInTurn ==
  ASSUME ~LoneEnd
  PROVE  Spec => []BackendsNotInterleaved
<1>1. GetInv => BackendsNotInterleaved
  BY Zenon DEF GetInv
<1> QED  BY <1>1, GetInvariant, PTL

=============================================================================
