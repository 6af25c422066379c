--------------------------- MODULE MemcGetProofs ----------------------------
(***************************************************************************)
(* The memcached get, continued: a command that ends has given the client  *)
(* every value that was sent to the proxy for it, and one terminator.      *)
(***************************************************************************)
EXTENDS MemcGetSteps, FiniteSetTheorems

-----------------------------------------------------------------------------
(* The reply is complete: a second invariant counts the backends that have *)
(* had their turn and the values on their way to the client.               *)

\* Backends that have had their turn; those that have it or have had it.
Gone(w) == {b \in w.received : ~InLine(w, b)}
Past(w) == {b \in w.received : ~Waits(w, b)}

\* The values in a buffer, which has at most one terminator.
Terminal(s) == \E i \in DOMAIN s : s[i] # "VALUE"
NVal(s) == IF Terminal(s) THEN Len(s) - 1 ELSE Len(s)

\* The values of b that the client has got, and those that the proxy holds.
Count(s, b) == Cardinality({i \in DOMAIN s : s[i] = <<b, "VALUE">>})
Kept(w, b) ==
  NVal(w.ready[b]) + (IF w.writing.from = b THEN NVal(w.writing.items) ELSE 0)

\* The proxy holds a terminator.
Unsaid(w) == Terminal(w.writing.items) \/ \E b \in Backends : Terminal(w.ready[b])

\* What the backends have sent is held or has been forwarded.
Balance(w, s, failed, left) ==
  \A b \in Backends :
    Count(s, b) + Kept(w, b) = IF b \in failed THEN 0 ELSE values[b] - left[b]

Accounts(w, s, failed, left) ==
  /\ Balance(w, s, failed, left)
  /\ failed \subseteq w.complete
  /\ \A b \in w.complete \ failed : left[b] = 0
  /\ \A b \in Backends \ w.received : left[b] = values[b]
  /\ w.received = Backends /\ Backends # {} => w.last # None
  /\ w.last \in w.complete => Unsaid(w) \/ \E i \in DOMAIN s : s[i][2] # "VALUE"

CountInv ==
  /\ values \in [Backends -> Nat] /\ ReplyComplete
  /\ over = "no" => /\ completed_backends = Cardinality(Gone(World))
                    /\ Accounts(World, out, bad, owed)

\* The parts of a state that passing the turn on leaves alone.
Alike(w, v) ==
  /\ v.last = w.last /\ v.received = w.received /\ v.complete = w.complete
  /\ Unsaid(v) <=> Unsaid(w)
  /\ \A b \in Backends : Kept(v, b) = Kept(w, b)

\* Every backend has had its turn, and the proxy holds nothing.
AllDone(w) ==
  /\ Backends # {} /\ w.received = Backends /\ w.writing = NoWrite
  /\ \A b \in Backends : finished(w, b)

LEMMA TryWriteAlike ==
  ASSUME NEW w \in Worlds, NEW b \in Backends
  PROVE  Alike(w, TryWriteReply(w, b)) /\ TryWriteReply(w, b).completed = w.completed
<1> DEFINE v == TryWriteReply(w, b)
<1>1. CASE w.writing # NoWrite \/ w.ready[b] = <<>>
  BY <1>1, Zenon DEF TryWriteReply, Alike
<1>2. CASE ~(w.writing # NoWrite \/ w.ready[b] = <<>>)
  <2>1. v = [w EXCEPT !.writing = [from |-> b, items |-> w.ready[b]],
                      !.ready[b] = <<>>]
    BY <1>2, Zenon DEF TryWriteReply
  <2>2. w.ready \in Readies /\ w.writing = NoWrite
    BY <1>2, Zenon DEF Worlds
  <2>3. /\ v.last = w.last /\ v.received = w.received /\ v.complete = w.complete
        /\ v.completed = w.completed
        /\ v.writing.from = b /\ v.writing.items = w.ready[b]
        /\ v.ready = [w.ready EXCEPT ![b] = <<>>]
    BY <2>1 DEF Worlds
  <2>4. \A c \in Backends : v.ready[c] = IF c = b THEN <<>> ELSE w.ready[c]
    BY <2>2, <2>3, Zenon DEF Readies
  <2>5. /\ w.writing.from = None /\ w.writing.items = <<>> /\ b # None
    BY <2>2, BackendsAssumption DEF NoWrite
  <2> HIDE DEF v
  <2>6. ~Terminal(<<>>) /\ NVal(<<>>) = 0
    BY DEF Terminal, NVal
  <2>7. Unsaid(v) <=> Unsaid(w)
    BY <2>3, <2>4, <2>5, <2>6, Zenon DEF Unsaid
  <2>8. \A s \in Seq(Items) : NVal(s) \in Int
    BY SeqLen DEF NVal
  <2>9. \A c \in Backends : Kept(v, c) = Kept(w, c)
    <3> SUFFICES ASSUME NEW c \in Backends  PROVE Kept(v, c) = Kept(w, c)
      BY Zenon
    <3>1. c # None /\ w.ready[c] \in Seq(Items) /\ NVal(w.ready[c]) \in Int
      BY <2>2, <2>8, BackendsAssumption, Zenon DEF Readies
    <3> QED  BY <2>3, <2>4, <2>5, <2>6, <3>1 DEF Kept
  <2> QED  BY <2>3, <2>7, <2>9, Zenon DEF Alike, v
<1> QED  BY <1>1, <1>2, Zenon

\* The front of a queue without duplicates adds as many elements as it has.
LEMMA FrontCounts ==
  ASSUME NEW q \in Seq(Backends), \A i, j \in DOMAIN q : q[i] = q[j] => i = j,
         NEW k \in 0..Len(q), NEW P \in SUBSET Backends,
         \A i \in DOMAIN q : q[i] \notin P
  PROVE  LET F == {q[i] : i \in 1..k} IN
         /\ P \cup F \subseteq Backends
         /\ Cardinality(P \cup F) = Cardinality(P) + k
         /\ Cardinality(P) \in Nat
<1> DEFINE F == {q[i] : i \in 1..k}
           f == [i \in 1..k |-> q[i]]
<1>1. Len(q) \in Nat /\ DOMAIN q = 1..Len(q) /\ k \in Nat /\ 1..k \subseteq DOMAIN q
  BY SeqLen
<1>2. \A i \in 1..k : q[i] \in Backends
  BY <1>1, SeqElement, Zenon
<1>3. f \in Bijection(1..k, F)
  <2>1. f \in [1..k -> F] /\ \A i \in 1..k : f[i] = q[i]
    BY Zenon
  <2>2. \A i, j \in 1..k : f[i] = f[j] => i = j
    BY <1>1, <2>1, Zenon
  <2>3. \A x \in F : \E i \in 1..k : f[i] = x
    BY <2>1, Zenon
  <2> HIDE DEF f, F
  <2> QED  BY <2>1, <2>2, <2>3, Zenon
           DEF Bijection, Injection, Surjection, IsInjective
<1>4. IsFiniteSet(1..k) /\ Cardinality(1..k) = k
  <2>1. 1 \in Int /\ k \in Int
    BY <1>1
  <2>2. IsFiniteSet(1..k) /\ Cardinality(1..k) = IF 1 > k THEN 0 ELSE k - 1 + 1
    BY <2>1, FS_Interval, Zenon
  <2> QED  BY <1>1, <2>2
<1>5. IsFiniteSet(F) /\ Cardinality(F) = k
  BY <1>3, <1>4, FS_Bijection DEF ExistsBijection
<1>6. IsFiniteSet(P) /\ Cardinality(P) \in Nat
  BY BackendsAssumption, FS_Subset, FS_CardinalityType, Zenon
<1>7. P \cap F = {}
  BY <1>1, Zenon
<1>8. Cardinality(P \cup F) = Cardinality(P) + Cardinality(F) - Cardinality(P \cap F)
  BY <1>5, <1>6, FS_Union, Zenon
<1> HIDE DEF F
<1>9. Cardinality(P \cap F) = 0
  BY <1>7, FS_EmptySet, Zenon
<1>10. Cardinality(P \cup F) = Cardinality(P) + k
  <2>1. \A x \in Nat : x + k - 0 = x + k
    BY <1>1
  <2> QED  BY <1>5, <1>6, <1>8, <1>9, <2>1, Zenon
<1> QED  BY <1>2, <1>6, <1>10, Zenon DEF F

\* What passing the turn on does to the counts.
Counted(w, v) ==
  /\ Alike(w, v)
  /\ v.over = "no" => v.completed = Cardinality(Gone(v))
  /\ v.over = "done" => AllDone(v)

LEMMA NextCounts ==
  ASSUME NEW w, NEW f, Sound(w, f, None), w.writing = NoWrite, w.over = "no",
         w.replying = None \/ finished(w, w.replying),
         w.completed = Cardinality(Past(w))
  PROVE  Counted(w, NextBackendStartReply(w))
<1> DEFINE v == NextBackendStartReply(w)
           k == Skipped(w)
           q == w.waiting
           rest == SubSeq(q, k + 1, Len(q))
           u == [w EXCEPT !.completed = @ + k]
           P == Past(w)
           F == {q[i] : i \in 1..k}
<1>1. w \in Worlds /\ q \in Seq(Backends) /\ Len(q) \in Nat /\ DOMAIN q = 1..Len(q)
      /\ w.received \subseteq Backends
  BY SeqLen, Zenon DEF Sound, Worlds
<1>2. /\ k \in 0..Len(q) /\ \A i \in 1..k : finished(w, q[i])
  BY <1>1, SkippedIs, Zenon
<1>3. \A i, j \in DOMAIN q : q[i] = q[j] => i = j
  BY Zenon DEF Sound, Line
<1>4. \A i \in DOMAIN q : q[i] \in w.received /\ q[i] \in Backends
  <2>1. \A i \in DOMAIN q : q[i] \in Backends
    BY <1>1, SeqElement, Zenon
  <2> QED  BY <2>1, Zenon DEF Sound, Line, InLine, Waits
<1>5. P \subseteq Backends /\ \A i \in DOMAIN q : q[i] \notin P
  BY <1>1, Zenon DEF Past, Waits
<1>6. /\ P \cup F \subseteq Backends /\ Cardinality(P) \in Nat
      /\ Cardinality(P \cup F) = Cardinality(P) + k
  <2> HIDE DEF k, P, q
  <2>1. P \in SUBSET Backends
    BY <1>5, Zenon
  <2> QED  BY <1>1, <1>2, <1>3, <1>5, <2>1, FrontCounts, SMTT(30)
<1>7. /\ u \in Worlds /\ u.waiting = q /\ u.ready = w.ready
      /\ u.writing = w.writing /\ u.replying = w.replying
      /\ u.received = w.received /\ u.complete = w.complete
      /\ u.last = w.last /\ u.over = "no" /\ u.completed = Cardinality(P \cup F)
  <2>1. w.completed + k \in Nat
    BY <1>1, <1>2 DEF Worlds
  <2> HIDE DEF k, P
  <2> QED  BY <1>1, <1>6, <2>1, Zenon DEF Worlds, P
<1>8. /\ rest \in Seq(Backends) /\ Len(rest) = Len(q) - k
      /\ \A i \in 1..(Len(q) - k) : rest[i] = q[k + i]
  BY <1>1, <1>2, SeqSub
<1>9. v = IF k > 0 /\ u.completed >= N THEN [u EXCEPT !.over = "done"]
          ELSE IF rest = <<>> THEN [u EXCEPT !.waiting = <<>>, !.replying = None]
          ELSE TryWriteReply([u EXCEPT !.waiting = Tail(rest), !.replying = Head(rest)],
                             Head(rest))
  BY Zenon DEF NextBackendStartReply
<1> HIDE DEF u, rest, k, P
<1>10. \A b \in Backends : b \in P \cup F => finished(w, b) /\ b \in w.received
  <2>1. \A b \in P : b \in w.received
    BY Zenon DEF P, Past
  <2>2. \A b \in Backends : b \in P /\ b # w.replying => finished(w, b)
    BY <2>1, BackendsAssumption, Zenon DEF P, Past, Sound, Line, InLine
  <2>3. \A b \in Backends : b = w.replying => finished(w, b)
    BY BackendsAssumption, Zenon
  <2>4. \A b \in F : finished(w, b) /\ b \in w.received
    BY <1>1, <1>2, <1>4
  <2> QED  BY <2>1, <2>2, <2>3, <2>4, Zenon
<1>11. CASE k > 0 /\ u.completed >= N
  <2>1. v = [u EXCEPT !.over = "done"]
    BY <1>9, <1>11, Zenon
  <2>2. /\ v.received = w.received /\ v.complete = w.complete /\ v.last = w.last
        /\ v.ready = w.ready /\ v.writing = w.writing /\ v.over = "done"
    BY <1>7, <2>1, Zenon DEF Worlds
  <2> HIDE DEF v
  <2>3. P \cup F = Backends
    <3>1. /\ Cardinality(P \cup F) <= Cardinality(Backends)
          /\ Cardinality(Backends) = Cardinality(P \cup F) => Backends = P \cup F
      BY <1>6, BackendsAssumption, FS_Subset, Zenon
    <3>2. Cardinality(Backends) \in Nat /\ Cardinality(P \cup F) \in Nat
      BY <1>2, <1>6, BackendsAssumption, FS_CardinalityType
    <3> QED  BY <1>7, <1>11, <3>1, <3>2 DEF N
  <2>4. Backends # {}
    BY <1>1, <1>2, <1>4, <1>11
  <2>5. AllDone(v)
    BY <1>1, <1>10, <2>2, <2>3, <2>4, Zenon DEF AllDone, finished
  <2>6. Alike(w, v)
    BY <2>2, Zenon DEF Alike, Unsaid, Kept
  <2> QED  BY <2>2, <2>5, <2>6, Zenon DEF Counted, v
<1>12. CASE ~(k > 0 /\ u.completed >= N) /\ rest = <<>>
  <2>1. v = [u EXCEPT !.waiting = <<>>, !.replying = None]
    BY <1>9, <1>12, Zenon
  <2>2. /\ v.received = w.received /\ v.complete = w.complete /\ v.last = w.last
        /\ v.ready = w.ready /\ v.writing = w.writing /\ v.over = "no"
        /\ v.waiting = <<>> /\ v.replying = None
        /\ v.completed = Cardinality(P \cup F)
    BY <1>7, <2>1 DEF Worlds
  <2> HIDE DEF v
  <2>3. k = Len(q)
    BY <1>1, <1>2, <1>8, <1>12
  <2>4. Gone(v) = w.received
    BY <1>1, <2>2, BackendsAssumption DEF Gone, InLine, Waits
  <2>5. P \cup F = w.received
    BY <1>1, <1>4, <2>3, Zenon DEF P, Past, Waits
  <2>6. Alike(w, v)
    BY <2>2, Zenon DEF Alike, Unsaid, Kept
  <2> QED  BY <2>2, <2>4, <2>5, <2>6, Zenon DEF Counted, v
<1>13. CASE ~(k > 0 /\ u.completed >= N) /\ rest # <<>>
  <2> DEFINE h == Head(rest)
             t == Tail(rest)
             x == [u EXCEPT !.waiting = t, !.replying = h]
  <2>1. k < Len(q) /\ Len(rest) \in Nat \ {0}
    BY <1>1, <1>2, <1>8, <1>13, SeqEmpty
  <2>2. /\ h = rest[1] /\ h \in Backends
        /\ t \in Seq(Backends) /\ Len(t) = Len(rest) - 1
        /\ \A i \in 1..Len(t) : t[i] = rest[i + 1]
        /\ DOMAIN t = 1..Len(t)
    <3>1. h = rest[1] /\ h \in Backends
      BY <1>8, <1>13, SeqTail
    <3>2. /\ t \in Seq(Backends) /\ Len(t) = Len(rest) - 1
          /\ \A i \in 1..Len(t) : t[i] = rest[i + 1]
      BY <1>8, <1>13, SeqTail, Zenon
    <3>3. DOMAIN t = 1..Len(t)
      BY <3>2, SeqLen, Zenon
    <3> QED  BY <3>1, <3>2, <3>3, Zenon
  <2> HIDE DEF h, t
  <2>3. h \in MaybeBackend
    BY <2>2, Zenon DEF MaybeBackend
  <2>4. /\ x \in Worlds /\ x.waiting = t /\ x.replying = h
        /\ x.ready = w.ready /\ x.writing = w.writing /\ x.received = w.received
        /\ x.complete = w.complete /\ x.last = w.last /\ x.over = "no"
        /\ x.completed = Cardinality(P \cup F)
    BY <1>7, <2>2, <2>3, Zenon DEF Worlds
  <2>5. v = TryWriteReply(x, h)
    BY <1>9, <1>13, Zenon DEF h, t
  <2> HIDE DEF x, v
  <2>6. \A c : InLine(x, c) <=> \E i \in (k + 1)..Len(q) : q[i] = c
    <3>1. h = q[k + 1] /\ k + 1 \in (k + 1)..Len(q)
      <4>1. 1 \in 1..(Len(q) - k) /\ k + 1 \in (k + 1)..Len(q)
        BY <1>1, <1>2, <2>1
      <4> QED  BY <1>8, <2>2, <4>1, Zenon
    <3>2. \A i \in DOMAIN t : k + 1 + i \in (k + 1)..Len(q) /\ t[i] = q[k + 1 + i]
      <4> SUFFICES ASSUME NEW i \in 1..(Len(rest) - 1)
                   PROVE  /\ k + 1 + i \in (k + 1)..Len(q) /\ i \in 1..Len(t)
                          /\ rest[i + 1] = q[k + 1 + i]
        BY <2>2, Zenon
      <4>1. i + 1 \in 1..(Len(q) - k) /\ k + (i + 1) = k + 1 + i
        BY <1>1, <1>2, <1>8, SMTT(30)
      <4>2. k + 1 + i \in (k + 1)..Len(q)
        BY <1>1, <1>2, <1>8
      <4> QED  BY <1>8, <2>2, <4>1, <4>2, Zenon
    <3>3. \A i \in (k + 1)..Len(q) : i # k + 1 => i - k - 1 \in DOMAIN t /\ t[i - k - 1] = q[i]
      <4> SUFFICES ASSUME NEW i \in (k + 1)..Len(q), i # k + 1
                   PROVE  i - k - 1 \in DOMAIN t /\ t[i - k - 1] = q[i]
        BY Zenon
      <4>1. i - k - 1 \in 1..(Len(rest) - 1) /\ k + 1 + (i - k - 1) = i
        BY <1>1, <1>2, <1>8
      <4> QED  BY <2>2, <3>2, <4>1, Zenon
    <3> QED  BY <2>4, <3>1, <3>2, <3>3 DEF InLine, Waits
  <2>7. {b \in w.received : ~InLine(x, b)} = P \cup F
    <3>1. \A i \in 1..k : \A j \in (k + 1)..Len(q) : q[i] # q[j]
      BY <1>1, <1>2, <1>3
    <3>2. \A c : Waits(w, c) <=> c \in F \/ InLine(x, c)
      BY <1>1, <1>2, <2>6 DEF Waits
    <3>3. \A c \in F : ~InLine(x, c) /\ c \in w.received
      BY <1>1, <1>2, <1>4, <2>6, <3>1
    <3> HIDE DEF F
    <3> QED  BY <3>2, <3>3, Zenon DEF P, Past
  <2>8. /\ v.waiting = x.waiting /\ v.replying = x.replying /\ v.over = x.over
    BY <2>2, <2>4, <2>5, Zenon DEF TryWriteReply, Worlds
  <2>9. Alike(x, v) /\ v.completed = x.completed
    BY <2>2, <2>4, <2>5, TryWriteAlike, Zenon
  <2>10. Alike(w, v)
    BY <2>4, <2>9, Zenon DEF Alike, Unsaid, Kept
  <2>11. Gone(v) = P \cup F
    BY <2>4, <2>7, <2>8, <2>9, SMTT(30) DEF Gone, Alike, InLine, Waits
  <2> QED  BY <2>4, <2>8, <2>9, <2>10, <2>11, Zenon DEF Counted, v
<1> QED  BY <1>11, <1>12, <1>13, Zenon

LEMMA RotateCounts ==
  ASSUME NEW w, NEW f, Sound(w, f, None), w.writing = NoWrite, w.over = "no",
         NEW b \in Backends, b = w.replying, finished(w, b),
         w.completed = Cardinality(Gone(w))
  PROVE  Counted(w, RotateReplyingBackend(w))
<1> DEFINE u == [w EXCEPT !.completed = @ + 1]
           v == RotateReplyingBackend(w)
<1>1. w \in Worlds /\ w.received \subseteq Backends
  BY Zenon DEF Sound, Worlds
<1>2. /\ Sound(u, f, None) /\ u.waiting = w.waiting /\ u.ready = w.ready
      /\ u.writing = w.writing /\ u.replying = w.replying
      /\ u.received = w.received /\ u.complete = w.complete
      /\ u.last = w.last /\ u.over = w.over
  BY CompletedCounts, Zenon
<1>3. u.completed = Cardinality(Gone(w)) + 1
  BY <1>1, Zenon DEF Worlds
<1>4. v = IF u.completed < N THEN NextBackendStartReply(u) ELSE [u EXCEPT !.over = "done"]
  BY Zenon DEF RotateReplyingBackend
<1> HIDE DEF u, v
<1>5. b \in w.received /\ b \notin Gone(w) /\ Past(w) = Gone(w) \cup {b}
  BY <1>1, Zenon DEF Sound, Line, InLine, Gone, Past
<1>6. IsFiniteSet(Gone(w))
  BY <1>1, BackendsAssumption, FS_Subset, Zenon DEF Gone
<1>7. u.completed = Cardinality(Past(w))
  BY <1>3, <1>5, <1>6, FS_AddElement, ZenonT(40)
<1>8. Past(u) = Past(w)
  BY <1>2, Zenon DEF Past, Waits
<1>9. CASE u.completed < N
  <2>1. finished(u, u.replying)
    BY <1>2, Zenon DEF finished
  <2>2. Counted(u, v)
    BY <1>2, <1>4, <1>7, <1>8, <1>9, <2>1, NextCounts, Zenon
  <2> QED  BY <1>2, <2>2, Zenon DEF Counted, Alike, Unsaid, Kept, v
<1>10. CASE ~(u.completed < N)
  <2>1. v = [u EXCEPT !.over = "done"] /\ u \in Worlds
    BY <1>2, <1>4, <1>10, Zenon DEF Sound
  <2>2. /\ v.received = w.received /\ v.complete = w.complete /\ v.last = w.last
        /\ v.ready = w.ready /\ v.writing = w.writing /\ v.over = "done"
    BY <1>2, <2>1, Zenon DEF Worlds
  <2>3. Past(w) = Backends
    <3>1. Past(w) \in SUBSET Backends
      BY <1>1, Zenon DEF Past
    <3>2. /\ Cardinality(Past(w)) <= Cardinality(Backends)
          /\ Cardinality(Backends) = Cardinality(Past(w)) => Backends = Past(w)
          /\ IsFiniteSet(Past(w))
      BY <3>1, BackendsAssumption, FS_Subset, Zenon
    <3>3. Cardinality(Backends) \in Nat /\ Cardinality(Past(w)) \in Nat
      BY <3>2, BackendsAssumption, FS_CardinalityType, Zenon
    <3> QED  BY <1>7, <1>10, <3>2, <3>3 DEF N
  <2>4. w.received = Backends /\ \A c \in Backends : finished(w, c)
    BY <1>1, <2>3, BackendsAssumption, Zenon DEF Past, Sound, Line, InLine
  <2>5. AllDone(v) /\ Alike(w, v)
    BY <2>2, <2>4, Zenon DEF AllDone, finished, Alike, Unsaid, Kept
  <2> QED  BY <2>2, <2>5, Zenon DEF Counted, v
<1> QED  BY <1>9, <1>10, Zenon

LEMMA ReadyCounts ==
  ASSUME first \in BOOLEAN, NEW b \in Backends, NEW w, Sound(w, first, b),
         b \in w.received, w.over = "no", finished(w, b) => ~InLine(w, b),
         w.completed = Cardinality(Gone(w) \ {b})
  PROVE  Counted(w, BackendReadyToReply(w, b))
<1> DEFINE v == BackendReadyToReply(w, b)
<1>1. w \in Worlds /\ b # None /\ w.received \subseteq Backends
  BY BackendsAssumption, Zenon DEF Sound, Worlds
<1>2. CASE first /\ w.replying \in {None, b}
  <2> DEFINE u == [w EXCEPT !.replying = b]
  <2>1. /\ Sound(u, first, None) /\ u.waiting = w.waiting /\ u.ready = w.ready
        /\ u.writing = w.writing /\ u.replying = b
        /\ u.received = w.received /\ u.complete = w.complete
        /\ u.last = w.last /\ u.over = "no" /\ u.completed = w.completed
    BY <1>2, TakesTurn, ZenonT(40)
  <2>2. v = IF finished(u, b) THEN RotateReplyingBackend(u) ELSE TryWriteReply(u, b)
    BY <1>2, Zenon DEF BackendReadyToReply
  <2> HIDE DEF u, v
  <2>3. Gone(u) = Gone(w) \ {b}
    BY <1>1, <1>2, <2>1, BackendsAssumption DEF Gone, InLine, Waits
  <2>4. Alike(w, u)
    BY <2>1, Zenon DEF Alike, Unsaid, Kept
  <2>5. CASE finished(u, b)
    <3>1. finished(w, b)
      BY <2>1, <2>5, Zenon DEF finished
    <3>2. u.writing = NoWrite
      BY <1>2, <2>1, <3>1, Zenon DEF InLine, Sound, Turn
    <3>3. Counted(u, v)
      BY <2>1, <2>2, <2>3, <2>5, <3>2, RotateCounts, Zenon
    <3> QED  BY <2>4, <3>3, Zenon DEF Counted, Alike, v
  <2>6. CASE ~finished(u, b)
    <3>1. v = TryWriteReply(u, b) /\ u \in Worlds
      BY <2>1, <2>2, <2>6, Zenon DEF Sound
    <3>2. Alike(u, v) /\ v.completed = u.completed
      BY <3>1, TryWriteAlike, Zenon
    <3>3. v.waiting = u.waiting /\ v.replying = u.replying /\ v.over = "no"
      BY <2>1, <3>1, Zenon DEF TryWriteReply, Worlds
    <3>4. Gone(v) = Gone(u)
      BY <3>2, <3>3, Zenon DEF Gone, Alike, InLine, Waits
    <3> QED  BY <2>1, <2>3, <2>4, <3>2, <3>3, <3>4, Zenon DEF Counted, Alike, v
  <2> QED  BY <2>5, <2>6, Zenon
<1>3. CASE ~(first /\ w.replying \in {None, b}) /\ Waits(w, b)
  <2>1. v = w
    BY <1>3, Zenon DEF BackendReadyToReply, Enqueue, Waits
  <2>2. Gone(w) \ {b} = Gone(w)
    BY <1>3, Zenon DEF Gone, InLine
  <2> QED  BY <2>1, <2>2, Zenon DEF Counted, Alike
<1>4. CASE ~(first /\ w.replying \in {None, b}) /\ ~Waits(w, b)
  <2> DEFINE q == w.waiting
             r == Append(q, b)
  <2>1. v = [w EXCEPT !.waiting = r]
    BY <1>4, Zenon DEF BackendReadyToReply, Enqueue, Waits
  <2>2. /\ q \in Seq(Backends) /\ Len(q) \in Nat /\ DOMAIN q = 1..Len(q)
        /\ DOMAIN r = 1..(Len(q) + 1)
        /\ \A i \in 1..Len(q) : r[i] = q[i]
        /\ r[Len(q) + 1] = b
    BY <1>1, SeqAppend, SeqLen DEF Worlds
  <2>3. /\ v.waiting = r /\ v.ready = w.ready
        /\ v.writing = w.writing /\ v.replying = w.replying
        /\ v.received = w.received /\ v.complete = w.complete
        /\ v.last = w.last /\ v.over = "no" /\ v.completed = w.completed
    BY <1>1, <2>1, Zenon DEF Worlds
  <2> HIDE DEF v, r
  <2>4. \A c : Waits(v, c) <=> Waits(w, c) \/ c = b
    <3>1. \A j \in DOMAIN r : j \in DOMAIN q \/ j = Len(q) + 1
      BY <2>2
    <3>2. \A j \in DOMAIN q : j \in DOMAIN r /\ r[j] = q[j]
      BY <2>2
    <3>3. Len(q) + 1 \in DOMAIN r
      BY <2>2
    <3> QED  BY <2>2, <2>3, <3>1, <3>2, <3>3 DEF Waits
  <2>5. Gone(v) = Gone(w) \ {b}
    BY <2>3, <2>4, Zenon DEF Gone, InLine
  <2> QED  BY <2>3, <2>5, Zenon DEF Counted, Alike, Unsaid, Kept, v
<1> QED  BY <1>2, <1>3, <1>4, Zenon

LEMMA AlikeAccounts ==
  ASSUME NEW w, NEW v, NEW s, NEW failed, NEW left,
         Alike(w, v), Accounts(w, s, failed, left)
  PROVE  Accounts(v, s, failed, left)
BY Zenon DEF Alike, Accounts, Balance

LEMMA NValInt ==
  ASSUME NEW s \in Seq(Items)
  PROVE  NVal(s) \in Int
BY SeqLen DEF NVal

\* s is the whole reply.
Whole(s, failed) ==
  /\ s # <<>> /\ s[Len(s)][2] # "VALUE"
  /\ \A b \in Backends : Count(s, b) = IF b \in failed THEN 0 ELSE values[b]

\* If every backend is done and the accounts are in order, then the client
\* has got the whole reply.
LEMMA DoneComplete ==
  ASSUME NEW v \in Worlds, AllDone(v), NEW s \in Seq(Backends \X Items),
         NEW failed, NEW left \in [Backends -> Nat], values \in [Backends -> Nat],
         Accounts(v, s, failed, left),
         \A i \in DOMAIN s : s[i][2] # "VALUE" => i = Len(s)
  PROVE  Whole(s, failed)
<1>1. \A b \in Backends : v.ready[b] = <<>> /\ b \in v.complete
  BY Zenon DEF AllDone, finished
<1>2. v.writing.items = <<>> /\ v.writing.from = None
  BY DEF AllDone, NoWrite
<1>3. ~Terminal(<<>>) /\ NVal(<<>>) = 0
  BY DEF Terminal, NVal
<1>4. ~Unsaid(v) /\ \A b \in Backends : Kept(v, b) = 0
  BY <1>1, <1>2, <1>3, BackendsAssumption DEF Unsaid, Kept
<1>5. v.last # None /\ v.last \in Backends
  BY Zenon DEF AllDone, Accounts, Worlds, MaybeBackend
<1>6. PICK i \in DOMAIN s : s[i][2] # "VALUE"
  BY <1>1, <1>4, <1>5, Zenon DEF Accounts
<1>7. s # <<>> /\ s[Len(s)][2] # "VALUE"
  BY <1>6
<1>8. ASSUME NEW b \in Backends
      PROVE  Count(s, b) = IF b \in failed THEN 0 ELSE values[b]
  <2>1. Count(s, b) \in Nat
    <3>1. DOMAIN s = 1..Len(s) /\ Len(s) \in Nat
      BY SeqLen, Zenon
    <3>2. IsFiniteSet(1..Len(s))
      <4>1. 1 \in Int /\ Len(s) \in Int
        BY <3>1
      <4> QED  BY <4>1, FS_Interval, Zenon
    <3>3. {j \in DOMAIN s : s[j] = <<b, "VALUE">>} \in SUBSET (1..Len(s))
      BY <3>1, Zenon
    <3> QED  BY <3>2, <3>3, FS_Subset, FS_CardinalityType, Zenon DEF Count
  <2>2. Count(s, b) + 0 = IF b \in failed THEN 0 ELSE values[b] - left[b]
    BY <1>4, Zenon DEF Accounts, Balance
  <2>3. b \notin failed => left[b] = 0
    BY <1>1, Zenon DEF Accounts
  <2>4. values[b] \in Nat
    BY Zenon
  <2> QED  BY <2>1, <2>2, <2>3, <2>4
<1> QED  BY <1>7, <1>8, Zenon DEF Whole

LEMMA NValConcat ==
  ASSUME NEW s \in Seq(Items), NEW t \in Seq(Items), ~Terminal(s)
  PROVE  /\ NVal(s \o t) = NVal(s) + NVal(t)
         /\ Terminal(s \o t) <=> Terminal(t)
<1>1. /\ Len(s \o t) = Len(s) + Len(t) /\ s \o t \in Seq(Items)
      /\ \A i \in 1..(Len(s) + Len(t)) :
           (s \o t)[i] = IF i <= Len(s) THEN s[i] ELSE t[i - Len(s)]
  BY SeqConcat, Zenon
<1>2. /\ Len(s) \in Nat /\ Len(t) \in Nat /\ DOMAIN s = 1..Len(s) /\ DOMAIN t = 1..Len(t)
      /\ DOMAIN (s \o t) = 1..(Len(s) + Len(t))
  BY <1>1, SeqLen, Zenon
<1>3. ASSUME Terminal(s \o t)  PROVE Terminal(t)
  <2>1. PICK i \in 1..(Len(s) + Len(t)) : (s \o t)[i] # "VALUE"
    BY <1>2, <1>3, Zenon DEF Terminal
  <2>2. CASE i <= Len(s)
    <3>1. i \in DOMAIN s /\ s[i] # "VALUE"
      BY <1>1, <1>2, <2>1, <2>2
    <3> QED  BY <3>1, Zenon DEF Terminal
  <2>3. CASE ~(i <= Len(s))
    <3>1. i - Len(s) \in DOMAIN t /\ t[i - Len(s)] # "VALUE"
      BY <1>1, <1>2, <2>1, <2>3
    <3> QED  BY <3>1, Zenon DEF Terminal
  <2> QED  BY <2>2, <2>3, Zenon
<1>4. ASSUME Terminal(t)  PROVE Terminal(s \o t)
  <2>1. PICK i \in 1..Len(t) : t[i] # "VALUE"
    BY <1>2, <1>4, Zenon DEF Terminal
  <2>2. Len(s) + i \in 1..(Len(s) + Len(t)) /\ ~(Len(s) + i <= Len(s))
        /\ (Len(s) + i) - Len(s) = i
    BY <1>2
  <2>3. (s \o t)[Len(s) + i] = t[i]
    BY <1>1, <2>2, Zenon
  <2> QED  BY <1>2, <2>1, <2>2, <2>3, Zenon DEF Terminal
<1>5. Terminal(s \o t) <=> Terminal(t)
  BY <1>3, <1>4, Zenon
<1>6. NVal(s \o t) = NVal(s) + NVal(t)
  BY <1>1, <1>2, <1>5 DEF NVal
<1> QED  BY <1>5, <1>6, Zenon

\* What a backend's reply or failure does to the counts.
Delivered(w, v, b, items, c) ==
  /\ v.over = "no" => v.completed = Cardinality(Gone(v))
  /\ v.over = "done" => AllDone(v)
  /\ v.received = w.received \cup {b} /\ v.complete = c
  /\ v.last = TryMarkLastBackend(w, b).last
  /\ Unsaid(v) <=> Unsaid(w) \/ Terminal(items)
  /\ \A d \in Backends : Kept(v, d) = Kept(w, d) + (IF d = b THEN NVal(items) ELSE 0)

LEMMA KeptInt ==
  ASSUME NEW w \in Worlds, NEW b \in Backends
  PROVE  Kept(w, b) \in Int
<1>1. w.ready \in Readies /\ w.writing \in Writes
  BY Zenon DEF Worlds
<1>2. NVal(w.ready[b]) \in Int /\ NVal(w.writing.items) \in Int
  BY <1>1, NValInt, Zenon DEF Readies, Writes
<1> QED  BY <1>2 DEF Kept

LEMMA CameCounts ==
  ASSUME first \in BOOLEAN, NEW w, Sound(w, first, None), w.over = "no",
         NEW b \in Backends, b \notin w.complete, NEW items \in Seq(Items),
         NEW c, c = w.complete \/ c = w.complete \cup {b},
         \A i \in DOMAIN items : items[i] # "VALUE" =>
           b = TryMarkLastBackend(w, b).last /\ b \in c /\ i = Len(items),
         b \in c /\ items = <<>> => b \notin w.received,
         w.completed = Cardinality(Gone(w))
  PROVE  Delivered(w, BackendReadyToReply(Arrival(w, b, items, c), b), b, items, c)
<1> DEFINE u == Arrival(w, b, items, c)
           v == BackendReadyToReply(u, b)
<1>1. /\ Sound(u, first, b) /\ u.received = w.received \cup {b} /\ u.complete = c
      /\ u.waiting = w.waiting /\ u.replying = w.replying
      /\ u.over = w.over /\ u.ready[b] = w.ready[b] \o items
  BY ArriveSound, SMTT(30)
<1>2. w \in Worlds /\ w.ready \in Readies /\ w.ready[b] \in Seq(Items)
  BY Zenon DEF Sound, Worlds, Readies
<1>3. /\ u.writing = w.writing /\ u.completed = w.completed
      /\ u.last = TryMarkLastBackend(w, b).last
      /\ \A d \in Backends \ {b} : u.ready[d] = w.ready[d]
  BY <1>2, Zenon DEF Arrival, Push, TryMarkLastBackend, Worlds, Readies
<1> HIDE DEF u
<1>4. ~Terminal(w.ready[b])
  BY Zenon DEF Sound, Terminated, EndsWell, Terminal
<1>5. /\ NVal(u.ready[b]) = NVal(w.ready[b]) + NVal(items)
      /\ Terminal(u.ready[b]) <=> Terminal(items)
  BY <1>1, <1>2, <1>4, NValConcat
<1>6. Unsaid(u) <=> Unsaid(w) \/ Terminal(items)
  BY <1>3, <1>4, <1>5, Zenon DEF Unsaid
<1>7. \A d \in Backends : Kept(u, d) = Kept(w, d) + (IF d = b THEN NVal(items) ELSE 0)
  <2> SUFFICES ASSUME NEW d \in Backends
               PROVE  Kept(u, d) = Kept(w, d) + (IF d = b THEN NVal(items) ELSE 0)
    BY Zenon
  <2>1. NVal(w.ready[d]) \in Int /\ NVal(items) \in Int /\ NVal(w.writing.items) \in Int
    BY <1>2, NValInt, Zenon DEF Readies, Worlds, Writes
  <2>2. d # b => u.ready[d] = w.ready[d]
    BY <1>3, Zenon
  <2> QED  BY <1>3, <1>5, <2>1, <2>2 DEF Kept
<1>8. finished(u, b) => ~InLine(u, b)
  <2> SUFFICES ASSUME finished(u, b)  PROVE ~InLine(u, b)
    BY Zenon
  <2>1. items = <<>> /\ b \in c
    BY <1>1, <1>2, SeqConcat, SeqEmpty, SeqLen DEF finished
  <2>2. ~InLine(w, b)
    BY <2>1, Zenon DEF Sound, Line
  <2> QED  BY <1>1, <2>2, Zenon DEF InLine, Waits
<1>9. Gone(u) \ {b} = Gone(w)
  <2>1. b \notin Gone(w)
    BY BackendsAssumption, Zenon DEF Gone, Sound, Line, finished
  <2>2. \A d : InLine(u, d) <=> InLine(w, d)
    BY <1>1, Zenon DEF InLine, Waits
  <2> QED  BY <1>1, <2>1, <2>2, Zenon DEF Gone
<1>10. Counted(u, v)
  BY <1>1, <1>3, <1>8, <1>9, ReadyCounts, Zenon
<1> HIDE DEF v
<1>11. Delivered(w, v, b, items, c)
  BY <1>1, <1>3, <1>6, <1>7, <1>10, Zenon DEF Counted, Alike, Delivered
<1> QED  BY <1>11, Zenon DEF u, v

\* A reply or a failure keeps the accounts in order.
LEMMA CameTally ==
  ASSUME GetInv, CountInv, over = "no", NEW b \in Backends, b \notin complete,
         NEW v, NEW items \in Seq(Items), NEW c,
         c = complete \/ c = complete \cup {b},
         Came(World, v, b, c), Delivered(World, v, b, items, c), Become(v),
         values' = values, out' = out,
         bad' = bad \/ bad' = bad \cup {b}, bad' \subseteq c,
         owed' \in [Backends -> Nat],
         \A d \in Backends \ {b} : owed'[d] = owed[d],
         b \in c /\ b \notin bad' => owed'[b] = 0,
         b \in c /\ b = TryMarkLastBackend(World, b).last => Terminal(items),
         Count(out, b) + Kept(World, b) + NVal(items)
           = IF b \in bad' THEN 0 ELSE values[b] - owed'[b]
  PROVE  CountInv'
<1>1. v \in Worlds /\ World' = v /\ over' = v.over /\ v.over \in {"no", "done"}
  BY Becomes, Zenon DEF Came, Become
<1>2. /\ Accounts(World, out, bad, owed) /\ Sound(World, first, None)
      /\ World.complete = complete /\ World.received = received_reply_backends
      /\ World.last = last_backend /\ World \in Worlds
  BY Zenon DEF CountInv, GetInv, World
<1>3. /\ v.received = World.received \cup {b} /\ v.complete = c
      /\ v.last = IF b \notin World.received /\ World.received \cup {b} = Backends
                  THEN b ELSE World.last
      /\ v.last = TryMarkLastBackend(World, b).last
  BY <1>2, Zenon DEF Delivered, TryMarkLastBackend, Worlds
<1>4. \A d \in Backends : Count(out, d) \in Nat
  <2> SUFFICES ASSUME NEW d \in Backends  PROVE Count(out, d) \in Nat
    BY Zenon
  <2>1. DOMAIN out = 1..Len(out) /\ Len(out) \in Int
    BY SeqLen DEF GetInv
  <2>2. IsFiniteSet(1..Len(out))
    BY <2>1, FS_Interval
  <2>3. {i \in DOMAIN out : out[i] = <<d, "VALUE">>} \in SUBSET (1..Len(out))
    BY <2>1, Zenon
  <2> QED  BY <2>2, <2>3, FS_Subset, FS_CardinalityType, Zenon DEF Count
<1>5. Accounts(v, out, bad', owed')
  <2>1. Balance(v, out, bad', owed')
    <3> SUFFICES ASSUME NEW d \in Backends
                 PROVE  Count(out, d) + Kept(v, d)
                          = IF d \in bad' THEN 0 ELSE values[d] - owed'[d]
      BY Zenon DEF Balance
    <3>1. /\ Count(out, d) \in Int /\ Kept(World, d) \in Int /\ NVal(items) \in Int
      BY <1>2, <1>4, KeptInt, NValInt
    <3>2. Kept(v, d) = Kept(World, d) + (IF d = b THEN NVal(items) ELSE 0)
      BY Zenon DEF Delivered
    <3>3. CASE d = b
      BY <3>1, <3>2, <3>3
    <3>4. CASE d # b
      <4>1. Kept(v, d) = Kept(World, d)
        BY <3>1, <3>2, <3>4
      <4>2. (d \in bad' <=> d \in bad) /\ owed'[d] = owed[d]
        BY <3>4, Zenon
      <4> QED  BY <1>2, <4>1, <4>2, Zenon DEF Accounts, Balance
    <3> QED  BY <3>3, <3>4, Zenon
  <2>2. \A d \in c \ bad' : owed'[d] = 0
    <3> SUFFICES ASSUME NEW d \in c \ bad', d # b  PROVE owed'[d] = 0
      BY Zenon
    <3>1. d \in World.complete \ bad /\ d \in Backends \ {b}
      BY <1>2, Zenon DEF Worlds
    <3> QED  BY <1>2, <3>1, Zenon DEF Accounts
  <2>3. \A d \in Backends \ v.received : owed'[d] = values[d]
    BY <1>2, <1>3, Zenon DEF Accounts
  <2>4. v.received = Backends /\ Backends # {} => v.last # None
    <3>1. CASE b \notin World.received
      BY <1>3, <3>1, BackendsAssumption, Zenon
    <3>2. CASE b \in World.received
      <4>1. World.received \cup {b} = World.received
        BY <3>2, Zenon
      <4> QED  BY <1>2, <1>3, <3>2, <4>1, Zenon DEF Accounts
    <3> QED  BY <3>1, <3>2, Zenon
  <2>5. v.last \in c => Unsaid(v) \/ \E i \in DOMAIN out : out[i][2] # "VALUE"
    <3>1. CASE v.last = b
      BY <1>3, <3>1, Zenon DEF Delivered
    <3>2. CASE v.last # b
      BY <1>2, <1>3, <3>2, Zenon DEF Accounts, Delivered
    <3> QED  BY <3>1, <3>2, Zenon
  <2> QED  BY <1>3, <2>1, <2>2, <2>3, <2>4, <2>5, Zenon DEF Accounts
<1>6. CASE v.over = "no"
  <2>1. completed_backends' = Cardinality(Gone(v))
    BY <1>6, Zenon DEF Delivered, Become
  <2>2. ReplyComplete'
    BY <1>1, <1>6, Zenon DEF ReplyComplete
  <2> QED  BY <1>1, <1>5, <2>1, <2>2, Zenon DEF CountInv, Accounts, Balance
<1>7. CASE v.over = "done"
  <2>1. AllDone(v)
    BY <1>7, Zenon DEF Delivered
  <2>2. out \in Seq(Backends \X Items) /\ NothingAfterEnd
    BY Zenon DEF GetInv
  <2>3. values \in [Backends -> Nat]
    BY Zenon DEF CountInv
  <2>4. Whole(out, bad')
    BY <1>1, <1>5, <2>1, <2>2, <2>3, DoneComplete, Zenon DEF NothingAfterEnd
  <2>5. ReplyComplete'
    BY <2>4, Zenon DEF ReplyComplete, Whole, Count
  <2> QED  BY <1>1, <1>7, <2>3, <2>5, Zenon DEF CountInv
<1> QED  BY <1>1, <1>6, <1>7, Zenon

LEMMA CountInit == Init => CountInv
<1> SUFFICES ASSUME Init  PROVE CountInv
  BY Zenon
<1>1. /\ values \in [Backends -> Nat] /\ owed = values /\ bad = {} /\ out = <<>>
      /\ over = "no" /\ completed_backends = 0
  BY BackendsAssumption DEF Init
<1>2. /\ World.ready = ready /\ World.writing = NoWrite /\ World.complete = {}
      /\ World.received = {} /\ \A b \in Backends : ready[b] = <<>>
  BY Zenon DEF Init, World
<1>3. NVal(<<>>) = 0 /\ DOMAIN <<>> = {}
  BY DEF NVal, Terminal
<1>4. Gone(World) = {} /\ Cardinality({}) = 0
  BY <1>2, FS_EmptySet, Zenon DEF Gone
<1>5. \A b \in Backends : Count(out, b) = 0
  BY <1>1, <1>3, FS_EmptySet, Zenon DEF Count
<1>6. \A b \in Backends : Kept(World, b) = 0
  BY <1>2, <1>3, BackendsAssumption DEF Kept, NoWrite
<1>7. Balance(World, out, bad, owed)
  BY <1>1, <1>5, <1>6 DEF Balance
<1>8. Accounts(World, out, bad, owed)
  BY <1>1, <1>2, <1>7, Zenon DEF Accounts
<1> QED  BY <1>1, <1>4, <1>8, Zenon DEF CountInv, ReplyComplete

LEMMA FailedTally ==
  ASSUME GetInv, CountInv, over = "no", NEW b \in Backends,
         io[b] = "query" \/ (io[b] = "read" /\ b \notin seen),
         bad' = bad \cup {b},
         Become(OnBackendRecoverableError(World, b)),
         UNCHANGED <<values, first, owed, seen, out>>
  PROVE  CountInv'
<1> DEFINE u == TryMarkLastBackend(World, b)
           items == ErrorItems(u, b)
           c == complete \cup {b}
           v == BackendReadyToReply(Arrival(World, b, items, c), b)
<1>1. /\ Sound(World, first, None) /\ Io(World, io, owed, seen)
      /\ World.over = "no" /\ first \in BOOLEAN /\ World.complete = complete
      /\ owed \in [Backends -> Nat] /\ World \in Worlds
      /\ World.completed = Cardinality(Gone(World))
      /\ Accounts(World, out, bad, owed)
  BY Zenon DEF GetInv, CountInv, World
<1>2. b \notin World.received
  BY <1>1, Zenon DEF Io
<1>3. b \notin complete
  BY <1>1, <1>2, Zenon DEF Sound, Line
<1>4. /\ items \in Seq(Items) /\ NVal(items) = 0
      /\ \A i \in DOMAIN items : b = u.last /\ i = Len(items)
      /\ b = u.last => Terminal(items)
  <2>1. \/ items = <<>> /\ b # u.last
        \/ b = u.last /\ items \in {<<"END">>, <<"ERROR">>}
    BY Zenon DEF ErrorItems
  <2> HIDE DEF items, u
  <2>2. CASE items = <<>> /\ b # u.last
    BY <2>2 DEF NVal, Terminal
  <2>3. ASSUME NEW x \in {"END", "ERROR"}, b = u.last, items = <<x>>
        PROVE  /\ items \in Seq(Items) /\ NVal(items) = 0
               /\ \A i \in DOMAIN items : b = u.last /\ i = Len(items)
               /\ b = u.last => Terminal(items)
    <3>1. items \in Seq(Items) /\ Len(items) = 1 /\ items[1] = x /\ DOMAIN items = {1}
      BY <2>3 DEF Items
    <3>2. Terminal(items)
      BY <2>3, <3>1, Zenon DEF Terminal
    <3> QED  BY <2>3, <3>1, <3>2 DEF NVal
  <2> QED  BY <2>1, <2>2, <2>3, Zenon
<1>5. OnBackendRecoverableError(World, b) = v
  <2>1. u.complete = complete
    BY <1>1, Zenon DEF TryMarkLastBackend, Worlds
  <2>2. Push(u, b, items).complete = u.complete
    BY <1>1, Zenon DEF TryMarkLastBackend, Worlds, Push
  <2> QED  BY <2>1, <2>2, Zenon DEF OnBackendRecoverableError, Arrival
<1>6. Came(World, v, b, c)
  BY <1>1, <1>2, <1>5, RecoverSound, Zenon
<1> HIDE DEF items, u
<1>7. Delivered(World, v, b, items, c)
  BY <1>1, <1>2, <1>3, <1>4, CameCounts, Zenon DEF u
<1>8. Count(out, b) + Kept(World, b) + NVal(items) = 0
  <2>1. bad \subseteq complete /\ owed[b] = values[b]
    BY <1>1, <1>2, Zenon DEF Accounts
  <2>2. Count(out, b) + Kept(World, b) = 0
    BY <1>1, <1>3, <2>1 DEF Accounts, Balance
  <2> QED  BY <1>4, <2>2
<1>9. bad' \subseteq c
  BY <1>1, Zenon DEF Accounts
<1>10. /\ bad' = bad \cup {b} /\ b \in bad' /\ values' = values /\ out' = out
       /\ owed' = owed /\ Become(v)
  BY <1>5, Zenon
<1> HIDE DEF v, c
<1>11. c = complete \cup {b}
  BY Zenon DEF c
<1> QED  BY <1>1, <1>3, <1>4, <1>6, <1>7, <1>8, <1>9, <1>10, <1>11, CameTally,
  SMTT(30) DEF u

LEMMA ReplyTally ==
  ASSUME GetInv, CountInv, over = "no", ~LoneEnd, NEW b \in Backends,
         NEW n \in 0..MaxValues, NEW end \in BOOLEAN, ReplyReceived(b, n, end)
  PROVE  CountInv'
<1> DEFINE items == ReplyItems(b, n, end)
           c == CompleteWith(b, end)
           v == BackendReadyToReply(Arrival(World, b, items, c), b)
<1>1. /\ Sound(World, first, None) /\ World.over = "no" /\ first \in BOOLEAN
      /\ World.complete = complete /\ owed \in [Backends -> Nat] /\ World \in Worlds
      /\ World.completed = Cardinality(Gone(World))
      /\ Accounts(World, out, bad, owed) /\ values \in [Backends -> Nat]
  BY Zenon DEF GetInv, CountInv, World
<1>2. Replied(b, n, end, items, c)
  BY ReplyFacts, Zenon
<1>3. (c = complete \/ c = complete \cup {b}) /\ (b \in c => b \in complete \/ end)
  BY Zenon DEF CompleteWith
<1> HIDE DEF items, c
<1>4. /\ b \notin complete /\ Become(v) /\ n \in Nat /\ owed[b] \in Nat
      /\ n <= owed[b] /\ (end => n = owed[b])
  BY <1>2, Zenon DEF Replied
<1>5. Came(World, v, b, c)
  BY <1>1, <1>2, <1>3, CameSound, Zenon DEF Replied
<1>6. Delivered(World, v, b, items, c)
  BY <1>1, <1>2, <1>3, CameCounts, Zenon DEF Replied
<1> HIDE DEF v
<1>7. /\ NVal(items) = n /\ items \in Seq(Items)
      /\ Terminal(items) <=> end /\ b = TryMarkLastBackend(World, b).last
  BY <1>2 DEF Replied, NVal, Terminal
<1>8. /\ owed' \in [Backends -> Nat] /\ owed'[b] = owed[b] - n
      /\ \A d \in Backends \ {b} : owed'[d] = owed[d]
  <2>1. owed' = [owed EXCEPT ![b] = @ - n]
    BY Zenon DEF ReplyReceived
  <2>2. owed[b] - n \in Nat
    BY <1>4
  <2> QED  BY <1>1, <2>1, <2>2, Zenon
<1>9. values' = values /\ out' = out /\ bad' = bad
  BY Zenon DEF ReplyReceived
<1>10. bad \subseteq complete /\ b \notin bad
  BY <1>1, <1>4, Zenon DEF Accounts
<1>11. Count(out, b) + Kept(World, b) + NVal(items)
         = IF b \in bad' THEN 0 ELSE values[b] - owed'[b]
  <2>1. Count(out, b) + Kept(World, b) = values[b] - owed[b]
    BY <1>1, <1>10, Zenon DEF Accounts, Balance
  <2>2. values[b] \in Nat
    BY <1>1, Zenon
  <2>3. (values[b] - owed[b]) + n = values[b] - (owed[b] - n)
    BY <1>4, <2>2
  <2> QED  BY <1>7, <1>8, <1>9, <1>10, <2>1, <2>3, Zenon
<1>12. b \in c => owed'[b] = 0 /\ end
  BY <1>3, <1>4, <1>8
<1>13. bad' \subseteq c
  BY <1>3, <1>9, <1>10, Zenon
<1> QED  BY <1>3, <1>4, <1>5, <1>6, <1>7, <1>8, <1>9, <1>11, <1>12, <1>13,
  CameTally, Zenon

\* The turn is passed on, or the writer writes on, with the accounts in order.
LEMMA OnwardTally ==
  ASSUME CountInv, NEW w, NEW v \in Worlds, Become(v), Counted(w, v),
         v.over \in {"no", "done"}, Accounts(w, out', bad, owed),
         out' \in Seq(Backends \X Items), owed \in [Backends -> Nat],
         NothingAfterEnd', UNCHANGED <<values, owed, bad>>
  PROVE  CountInv'
<1>1. World' = v /\ over' = v.over /\ values \in [Backends -> Nat]
      /\ completed_backends' = v.completed
  BY Becomes, Zenon DEF Become, CountInv
<1>2. Accounts(v, out', bad, owed)
  BY AlikeAccounts, Zenon DEF Counted
<1>3. CASE v.over = "no"
  <2>1. completed_backends' = Cardinality(Gone(v))
    BY <1>1, <1>3, Zenon DEF Counted
  <2>2. ReplyComplete'
    BY <1>1, <1>3, Zenon DEF ReplyComplete
  <2> QED  BY <1>1, <1>2, <2>1, <2>2, Zenon DEF CountInv, Accounts, Balance
<1>4. CASE v.over = "done"
  <2>1. AllDone(v) /\ \A i \in DOMAIN out' : out'[i][2] # "VALUE" => i = Len(out')
    BY <1>4, Zenon DEF Counted, NothingAfterEnd
  <2>2. Whole(out', bad)
    <3> DEFINE s == out'
    <3>1. /\ s \in Seq(Backends \X Items) /\ Accounts(v, s, bad, owed)
          /\ \A i \in DOMAIN s : s[i][2] # "VALUE" => i = Len(s)
      BY <1>2, <2>1, Zenon
    <3>3. /\ v \in Worlds /\ AllDone(v) /\ owed \in [Backends -> Nat]
          /\ values \in [Backends -> Nat]
      BY <1>1, <2>1, Zenon
    <3> HIDE DEF s
    <3>2. Whole(s, bad)
      BY <3>1, <3>3, DoneComplete, Zenon
    <3> QED  BY <3>2, Zenon DEF s
  <2>3. ReplyComplete'
    BY <2>2, Zenon DEF ReplyComplete, Whole, Count
  <2> QED  BY <1>1, <1>4, <2>3, Zenon DEF CountInv
<1> QED  BY <1>3, <1>4, Zenon

LEMMA StartTally ==
  ASSUME GetInv, CountInv, over = "no", StartWriteReply
  PROVE  CountInv'
<1> DEFINE v == NextBackendStartReply(World)
<1>1. /\ Sound(World, first, None) /\ out \in Seq(Backends \X Items)
      /\ World.over = "no" /\ World.received \subseteq Backends
      /\ first = FALSE /\ owed \in [Backends -> Nat] /\ NothingAfterEnd
      /\ World.completed = Cardinality(Gone(World))
      /\ Accounts(World, out, bad, owed)
  BY Zenon DEF GetInv, CountInv, World, StartWriteReply, Worlds
<1>2. World.replying = None /\ World.writing = NoWrite
  BY <1>1, Zenon DEF Sound, Turn
<1>3. Past(World) = Gone(World)
  BY <1>1, <1>2, BackendsAssumption, Zenon DEF Past, Gone, InLine
<1>4. MovedOn(World, v) /\ Counted(World, v)
  BY <1>1, <1>2, <1>3, NextSound, NextCounts, Zenon
<1>5. Become(v) /\ UNCHANGED <<values, owed, bad, out>>
  BY Zenon DEF StartWriteReply
<1> HIDE DEF v
<1>6. v \in Worlds /\ v.over \in {"no", "done"}
  BY <1>4, Zenon DEF MovedOn
<1>7. NothingAfterEnd'
  BY <1>1, <1>5, Zenon DEF NothingAfterEnd
<1> QED  BY <1>1, <1>4, <1>5, <1>6, <1>7, OnwardTally, Zenon

\* A written buffer adds its values to what the client has got.
LEMMA WrittenCounts ==
  ASSUME GetInv, over = "no", OnWriteReplyFinished, NEW d \in Backends
  PROVE  /\ Count(out, d) \in Nat
         /\ Count(out', d) = Count(out, d)
              + (IF d = writing.from THEN NVal(writing.items) ELSE 0)
<1> DEFINE b == writing.from
           its == writing.items
           n == Len(out)
           k == NVal(its)
           S == {i \in DOMAIN out : out[i] = <<d, "VALUE">>}
           T == {i \in DOMAIN out' : out'[i] = <<d, "VALUE">>}
<1>1. Unloaded(AfterWrite, b, its)
  BY WriteEnds, Zenon
<1>2. /\ n \in Nat /\ Len(its) \in Nat /\ DOMAIN its = 1..Len(its)
      /\ DOMAIN out = 1..n /\ DOMAIN out' = 1..(n + Len(its))
      /\ \A i \in 1..n : out'[i] = out[i]
      /\ \A i \in (n + 1)..(n + Len(its)) : out'[i] = <<b, its[i - n]>>
  BY <1>1, Zenon DEF Unloaded
<1>3. \A i \in DOMAIN its : its[i] # "VALUE" => i = Len(its)
  <2>1. Terminated(World) /\ World.writing = writing
    BY Zenon DEF GetInv, Sound, World
  <2> QED  BY <2>1, Zenon DEF Terminated, EndsWell
<1>4. k \in Nat /\ \A i \in 1..Len(its) : its[i] = "VALUE" <=> i <= k
  BY <1>2, <1>3 DEF NVal, Terminal
<1>5. k <= Len(its)
  BY <1>2 DEF NVal
<1> HIDE DEF b, its, n, k
<1>6. S \subseteq 1..n /\ IsFiniteSet(1..n)
  <2>1. 1 \in Int /\ n \in Int
    BY <1>2
  <2> QED  BY <1>2, <2>1, FS_Interval, Zenon
<1>7. IsFiniteSet(S) /\ Cardinality(S) \in Nat
  BY <1>6, FS_Subset, FS_CardinalityType, Zenon
<1>8. CASE d = b
  <2>1. T = S \cup ((n + 1)..(n + k))
    <3>1. \A i \in (n + 1)..(n + Len(its)) :
            out'[i] = <<d, "VALUE">> <=> i \in (n + 1)..(n + k)
      <4> SUFFICES ASSUME NEW i \in (n + 1)..(n + Len(its))
                   PROVE  its[i - n] = "VALUE" <=> i \in (n + 1)..(n + k)
        BY <1>2, <1>8
      <4>1. i - n \in 1..Len(its) /\ (i - n <= k <=> i \in (n + 1)..(n + k))
        BY <1>2, <1>4
      <4> QED  BY <1>4, <4>1, Zenon
    <3>2. (n + 1)..(n + k) \subseteq (n + 1)..(n + Len(its))
      BY <1>2, <1>4, <1>5
    <3>3. \A i : i \in DOMAIN out' <=> i \in 1..n \/ i \in (n + 1)..(n + Len(its))
      BY <1>2
    <3> QED  BY <1>2, <3>1, <3>2, <3>3
  <2>2. /\ IsFiniteSet((n + 1)..(n + k)) /\ Cardinality((n + 1)..(n + k)) = k
    <3>1. n + 1 \in Int /\ n + k \in Int
      BY <1>2, <1>4
    <3>2. /\ IsFiniteSet((n + 1)..(n + k))
          /\ Cardinality((n + 1)..(n + k))
               = IF n + 1 > n + k THEN 0 ELSE (n + k) - (n + 1) + 1
      BY <3>1, FS_Interval, Zenon
    <3>3. k = IF n + 1 > n + k THEN 0 ELSE (n + k) - (n + 1) + 1
      BY <1>2, <1>4
    <3> QED  BY <3>2, <3>3
  <2>3. S \cap ((n + 1)..(n + k)) = {}
    BY <1>2, <1>6
  <2>4. Cardinality(T) = Cardinality(S) + k - Cardinality({})
    BY <1>7, <2>1, <2>2, <2>3, FS_Union, ZenonT(40)
  <2>5. Cardinality({}) = 0 /\ \A x \in Nat : x + k - 0 = x + k
    BY <1>4, FS_EmptySet
  <2>6. Cardinality(T) = Cardinality(S) + k
    BY <1>7, <2>4, <2>5, Zenon
  <2> QED  BY <1>7, <1>8, <2>6 DEF Count, b, k, its
<1>9. CASE d # b
  <2>1. \A i \in (n + 1)..(n + Len(its)) : out'[i] # <<d, "VALUE">>
    BY <1>2, <1>9
  <2>2. \A i : i \in DOMAIN out' <=> i \in 1..n \/ i \in (n + 1)..(n + Len(its))
    BY <1>2
  <2>3. T = S
    BY <1>2, <2>1, <2>2, Zenon
  <2>4. Count(out, d) = Cardinality(S) /\ Count(out', d) = Cardinality(T)
    BY Zenon DEF Count
  <2> HIDE DEF S, T
  <2>5. Count(out, d) \in Nat /\ Count(out', d) = Count(out, d) + 0
    BY <1>7, <2>3, <2>4
  <2> QED  BY <1>9, <2>5, Zenon DEF b
<1> QED  BY <1>8, <1>9, Zenon

LEMMA WrittenTally ==
  ASSUME GetInv, GetInv', CountInv, over = "no", OnWriteReplyFinished
  PROVE  CountInv'
<1> DEFINE b == writing.from
           its == writing.items
           w == AfterWrite
           v == IF finished(w, b) THEN RotateReplyingBackend(w) ELSE TryWriteReply(w, b)
<1>1. /\ owed \in [Backends -> Nat] /\ Accounts(World, out, bad, owed)
      /\ World.completed = Cardinality(Gone(World)) /\ World \in Worlds
      /\ World.writing = writing /\ writing # NoWrite
      /\ Turn(World, first)
  BY Zenon DEF GetInv, CountInv, World, OnWriteReplyFinished, Sound
<1>2. Become(v) /\ UNCHANGED <<values, owed, bad>>
  BY Zenon DEF OnWriteReplyFinished, AfterWrite
<1>3. Unloaded(w, b, its)
  BY WriteEnds, Zenon
<1>4. /\ w.ready = World.ready /\ w.writing = NoWrite
      /\ w.complete = World.complete /\ w.received = World.received
      /\ w.last = World.last /\ w.replying = b /\ w.waiting = World.waiting
      /\ w.over = "no" /\ w.completed = World.completed
      /\ Sound(w, TRUE, None) /\ b \in Backends /\ its \in Seq(Items)
      /\ out' \in Seq(Backends \X Items)
  BY <1>3, Zenon DEF Unloaded
<1>5. World.replying = b
  BY <1>1, Zenon DEF Turn
<1> HIDE DEF w
<1>6. Gone(w) = Gone(World)
  BY <1>4, <1>5, Zenon DEF Gone, InLine, Waits
<1>7. Counted(w, v) /\ v \in Worlds /\ v.over \in {"no", "done"}
  <2>1. CASE finished(w, b)
    <3>1. v = RotateReplyingBackend(w)
      BY <2>1, Zenon
    <3>2. Counted(w, v) /\ MovedOn(w, v)
      BY <1>1, <1>4, <1>6, <2>1, <3>1, RotateCounts, RotateSound, Zenon
    <3> QED  BY <3>2, Zenon DEF MovedOn
  <2>2. CASE ~finished(w, b)
    <3>1. v = TryWriteReply(w, b) /\ w \in Worlds
      BY <1>4, <2>2, Zenon DEF Sound
    <3>2. Alike(w, v) /\ v.completed = w.completed
      BY <1>4, <3>1, TryWriteAlike, Zenon
    <3>3. /\ Sound(v, TRUE, None) /\ v.waiting = w.waiting /\ v.replying = w.replying
          /\ v.received = w.received /\ v.over = w.over
      BY <1>4, <3>1, TryWriteSound, ZenonT(40)
    <3>4. Gone(v) = Gone(w)
      BY <3>3, Zenon DEF Gone, InLine, Waits
    <3> QED  BY <1>1, <1>4, <1>6, <3>2, <3>3, <3>4, Zenon DEF Counted, Sound
  <2> QED  BY <2>1, <2>2, Zenon
<1> HIDE DEF v
<1>8. Accounts(w, out', bad, owed)
  <2>1. Balance(w, out', bad, owed)
    <3> SUFFICES ASSUME NEW d \in Backends
                 PROVE  Count(out', d) + Kept(w, d) = Count(out, d) + Kept(World, d)
      BY <1>1, Zenon DEF Accounts, Balance
    <3>1. /\ Count(out, d) \in Nat
          /\ Count(out', d) = Count(out, d) + (IF d = b THEN NVal(its) ELSE 0)
      BY WrittenCounts, Zenon
    <3>2. w.writing.from # d
      BY <1>4, BackendsAssumption DEF NoWrite
    <3>3. NVal(World.ready[d]) \in Int /\ NVal(its) \in Int
      BY <1>1, <1>4, NValInt, Zenon DEF Worlds, Readies
    <3>4. Kept(w, d) = NVal(World.ready[d])
      BY <1>4, <3>2, <3>3 DEF Kept
    <3>5. Kept(World, d) = NVal(World.ready[d]) + (IF d = b THEN NVal(its) ELSE 0)
      BY <1>1 DEF Kept
    <3> QED  BY <3>1, <3>3, <3>4, <3>5, SMTT(30)
  <2>2. w.last \in w.complete => Unsaid(w) \/ \E i \in DOMAIN out' : out'[i][2] # "VALUE"
    <3>1. CASE \E i \in DOMAIN out : out[i][2] # "VALUE"
      <4>1. DOMAIN out \subseteq DOMAIN out' /\ \A i \in DOMAIN out : out'[i] = out[i]
        BY <1>3 DEF Unloaded
      <4> QED  BY <3>1, <4>1
    <3>2. CASE Terminal(its)
      <4>1. PICK i \in DOMAIN its : its[i] # "VALUE"
        BY <3>2, SMTT(30) DEF Terminal
      <4>2. /\ Len(out) + i \in (Len(out) + 1)..(Len(out) + Len(its))
            /\ Len(out) + i \in DOMAIN out' /\ (Len(out) + i) - Len(out) = i
        BY <1>3 DEF Unloaded
      <4>3. out'[Len(out) + i] = <<b, its[i]>>
        BY <1>3, <4>2, SMTT(30) DEF Unloaded
      <4> QED  BY <4>1, <4>2, <4>3, SMTT(30)
    <3>3. CASE \E d \in Backends : Terminal(World.ready[d])
      BY <1>4, <3>3 DEF Unsaid
    <3> QED  BY <1>1, <1>4, <3>1, <3>2, <3>3, Zenon DEF Accounts, Unsaid
  <2> QED  BY <1>1, <1>4, <2>1, <2>2, Zenon DEF Accounts
<1>9. NothingAfterEnd'
  BY DEF GetInv
<1> QED  BY <1>1, <1>2, <1>4, <1>7, <1>8, <1>9, OnwardTally, Zenon

\* A command that is rotated away has given the client every value of every
\* backend that did not fail, and one terminator, the last line
\* (completed_backends_ counts each backend once, and no backend is counted
\* before all of its reply has been written).
THEOREM ReplyIsComplete ==
  ASSUME ~LoneEnd
  PROVE  Spec => []ReplyComplete
<1>1. GetInv /\ CountInv /\ GetInv' /\ [Next]_vars => CountInv'
  <2> SUFFICES ASSUME GetInv, CountInv, GetInv', [Next]_vars  PROVE CountInv'
    OBVIOUS
  <2>1. CASE UNCHANGED vars
    <3>1. World' = World
      BY <2>1 DEF vars, World
    <3> QED  BY <2>1, <3>1, Zenon DEF vars, CountInv, ReplyComplete, Accounts, Balance
  <2>2. ASSUME Abort  PROVE CountInv'
    BY <2>2, Zenon DEF Abort, CountInv, ReplyComplete
  <2>3. CASE Next
    <3>1. over = "no"
      BY <2>3 DEF Next
    <3>2. ASSUME NEW b \in Backends, QueryWritten(b)  PROVE CountInv'
      <4>1. World' = World /\ completed_backends' = completed_backends
            /\ UNCHANGED <<values, owed, bad, out>> /\ over' = "no"
        BY <3>1, <3>2 DEF QueryWritten, Become, World
      <4>2. ReplyComplete'
        BY <4>1 DEF ReplyComplete
      <4> QED  BY <3>1, <4>1, <4>2, Zenon DEF CountInv, Accounts, Balance
    <3>3. ASSUME NEW b \in Backends, ConnectFailed(b)  PROVE CountInv'
      BY <3>1, <3>3, FailedTally, SMTT(30) DEF ConnectFailed
    <3>4. ASSUME NEW b \in Backends, NEW n \in 0..MaxValues, NEW end \in BOOLEAN,
                 ReplyReceived(b, n, end)
          PROVE  CountInv'
      BY <3>1, <3>4, ReplyTally
    <3>5. ASSUME NEW b \in Backends, ReadFailed(b)  PROVE CountInv'
      BY <2>2, <3>1, <3>5, FailedTally, SMTT(30) DEF ReadFailed
    <3>6. CASE OnWriteReplyFinished
      BY <3>1, <3>6, WrittenTally
    <3>7. CASE StartWriteReply
      BY <3>1, <3>7, StartTally
    <3> QED  BY <2>2, <2>3, <3>2, <3>3, <3>4, <3>5, <3>6, <3>7, SMTT(30)
             DEF Next, WriteFailed, WriteReplyFailed, ClientFails
  <2> QED  BY <2>1, <2>3
<1>2. CountInv => ReplyComplete
  BY DEF CountInv
<1> QED  BY <1>1, <1>2, CountInit, GetInvariant, PTL DEF Spec
=============================================================================
