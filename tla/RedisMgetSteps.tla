--------------------------- MODULE RedisMgetSteps ---------------------------
(***************************************************************************)
(* The inductive invariant of module RedisMget, what the functions of the  *)
(* command do to it when a backend is read or has its turn, and that every *)
(* action keeps it.  That it holds at first, and the theorems, are in      *)
(* module RedisMgetProofs.                                                 *)
(*                                                                         *)
(* waiting_reply_queue_ is tied to the keys by the places where its runs   *)
(* end: e[0] keys have been parsed, and run j stands for the keys after    *)
(* e[j-1] up to e[j].                                                      *)
(***************************************************************************)
EXTENDS RedisMget, TLAPS

\* Runs of keys of the MGET "keys".
RunsOf(keys) == [b : {keys[i] : i \in DOMAIN keys}, n : Nat]

\* The runs end at the places e, and the last of them at key n.
EndsAt(runs, e, keys, n) ==
  /\ e \in [0..Len(runs) -> 0..n] /\ e[Len(runs)] = n
  /\ \A j \in 1..Len(runs) :
       /\ e[j] = e[j - 1] + runs[j].n
       /\ \A i \in (e[j - 1] + 1)..e[j] : keys[i] = runs[j].b

-----------------------------------------------------------------------------
-----------------------------------------------------------------------------
(* Sequences.                                                              *)

LEMMA SeqElement ==
  ASSUME NEW S, NEW s \in Seq(S), NEW i \in 1..Len(s)
  PROVE  s[i] \in S
OBVIOUS

LEMMA SeqEmpty ==
  ASSUME NEW S
  PROVE  /\ <<>> \in Seq(S) /\ Len(<<>>) = 0
         /\ \A s \in Seq(S) : s # <<>> => Len(s) \in Nat \ {0}
OBVIOUS

LEMMA SeqLen ==
  ASSUME NEW S, NEW s \in Seq(S)
  PROVE  Len(s) \in Nat /\ s \in [1..Len(s) -> S] /\ DOMAIN s = 1..Len(s)
OBVIOUS

LEMMA SeqTail ==
  ASSUME NEW S, NEW s \in Seq(S), s # <<>>
  PROVE  /\ Head(s) \in S /\ Tail(s) \in Seq(S) /\ Len(Tail(s)) = Len(s) - 1
         /\ \A i \in 1..Len(Tail(s)) : Tail(s)[i] = s[i + 1]
OBVIOUS

LEMMA SeqConcat ==
  ASSUME NEW S, NEW s \in Seq(S), NEW t \in Seq(S)
  PROVE  /\ s \o t \in Seq(S) /\ Len(s \o t) = Len(s) + Len(t)
         /\ \A i \in 1..(Len(s) + Len(t)) :
              (s \o t)[i] = IF i <= Len(s) THEN s[i] ELSE t[i - Len(s)]
OBVIOUS

LEMMA SeqAppend ==
  ASSUME NEW S, NEW s \in Seq(S), NEW x \in S
  PROVE  /\ Append(s, x) \in Seq(S) /\ Len(Append(s, x)) = Len(s) + 1
         /\ \A i \in 1..Len(s) : Append(s, x)[i] = s[i]
         /\ Append(s, x)[Len(s) + 1] = x
OBVIOUS

LEMMA SeqFunction ==
  ASSUME NEW S, NEW n \in Nat, NEW f \in [1..n -> S]
  PROVE  f \in Seq(S) /\ Len(f) = n
OBVIOUS

LEMMA SeqExcept ==
  ASSUME NEW S, NEW s \in Seq(S), NEW i \in 1..Len(s), NEW x \in S
  PROVE  /\ [s EXCEPT ![i] = x] \in Seq(S) /\ Len([s EXCEPT ![i] = x]) = Len(s)
         /\ \A j \in 1..Len(s) : [s EXCEPT ![i] = x][j] = IF j = i THEN x ELSE s[j]
OBVIOUS

-----------------------------------------------------------------------------
(* The inductive invariant.                                                *)

\* Keys of backend b among the first i of q.
CountIn(q, b, i) == Cardinality({h \in 1..i : q[h] = b})

Cnt(b, i) == CountIn(owners, b, i)

\* Counting goes key by key; every backend of bs has a key.
CountsUp(q, bs) ==
  /\ \A b : \A i \in Nat : CountIn(q, b, i) \in Nat
  /\ \A b : \A p, k \in Nat :
       (\A i \in (p + 1)..(p + k) : q[i] = b) =>
         /\ CountIn(q, b, p + k) = CountIn(q, b, p) + k
         /\ \A c : c # b => CountIn(q, c, p + k) = CountIn(q, c, p)
  /\ \A b \in bs :
       /\ CountIn(q, b, Len(q)) # 0
       /\ \A p \in 0..Len(q) : CountIn(q, b, p) <= CountIn(q, b, Len(q))

Keyed ==
  /\ owners \in Seq(Backends) /\ owners # <<>>
  /\ "none" \notin Backends
  /\ CountsUp(owners, Backends)

Ios == [Backends -> {"query", "read", "none"}]
Counts == [Backends -> Nat]
Writes == [from : Backends \cup {"none"}, lo : Nat, hi : Nat]
Queues == Seq(RunsOf(owners))

Worlds ==
  [io : Ios, rcv : Counts, par : Counts, pro : Counts, absent : Counts,
   complete : SUBSET Backends, bad : SUBSET Backends, writing : Writes,
   replying : Backends \cup {"none"}, waiting : Queues,
   over : {"no", "done", "aborted"}, failed : BOOLEAN]

InFront(w, b) == w.waiting # <<>> /\ w.waiting[1].b = b

\* The runs end at the places e, and only the first may be used up.
Lined(w, e) ==
  /\ EndsAt(w.waiting, e, owners, Len(owners))
  /\ \A j \in 2..Len(w.waiting) : w.waiting[j].n >= 1

\* Of the first p keys those of b have been parsed in b's reply.
Tallied(w, p, b) ==
  /\ w.par[b] = (IF Cnt(b, p) = 0 THEN 0 ELSE 2 * Cnt(b, p) + 1)
  /\ w.absent[b] = (IF Cnt(b, p) = 0 THEN 0 ELSE key_count(b) - Cnt(b, p))
  /\ w.rcv[b] \in 0..Full(b)

\* b is complete if it is received and parsed to the end, and is read only
\* for its first unit or in its turn.
Account(w, p, b) ==
  /\ Tallied(w, p, b)
  /\ b \in w.complete <=> w.par[b] = Full(b) /\ w.rcv[b] = Full(b)
  /\ w.io[b] = "query" => w.rcv[b] = 0 /\ w.par[b] = 0
  /\ w.io[b] = "read" =>
       w.par[b] > w.rcv[b] \/ (w.par[b] = 0 /\ (w.rcv[b] = 0 \/ InFront(w, b)))

\* All that is parsed is handed on, but for the end of a bulk that is not
\* received; then b is the backend in front and the end of that bulk is the
\* next unit for the client.
Level(w, p, b) ==
  IF w.par[b] <= w.rcv[b] THEN w.pro[b] = w.par[b]
  ELSE /\ InFront(w, b) /\ w.replying = b
       /\ w.rcv[b] = w.par[b] - 1 /\ w.pro[b] = w.rcv[b]
       /\ Expected[2 * p] = <<b, w.par[b]>>

\* A run that is used up is still being written or received.
FrontBusy(w) ==
  \A b \in Backends :
    InFront(w, b) => \/ w.waiting[1].n > 0 \/ w.writing # NoWrite
                     \/ w.par[b] > w.rcv[b]

Ending(w) ==
  /\ w.over = "no" => w.waiting # <<>>
  /\ w.over = "done" => w.waiting = <<>> /\ w.writing = NoWrite

\* The client has got the units of the first p keys, without the end of a
\* bulk that is not received.
Idle(w, p, o) ==
  /\ (\A b \in Backends : w.par[b] <= w.rcv[b]) => Len(o) = 2 * p
  /\ \A b \in Backends : w.par[b] > w.rcv[b] => Len(o) = 2 * p - 1

\* The client is getting units of b, which is in front.
Busy(w, p, o, b) ==
  /\ b \in Backends /\ InFront(w, b) /\ b = w.replying
  /\ w.io[b] = "none" /\ w.par[b] > 0
  /\ w.writing.lo \in 2..w.writing.hi /\ w.writing.hi = w.pro[b]
  /\ Len(o) = 2 * p - w.par[b] + w.writing.lo - 1
  /\ \A u \in w.writing.lo..w.par[b] : Expected[2 * p - w.par[b] + u] = <<b, u>>

Written(w, p, o) ==
  IF w.writing = NoWrite THEN Idle(w, p, o) ELSE Busy(w, p, o, w.writing.from)

Units == [b : Backends, unit : Nat, nil : BOOLEAN]

\* What the client has got is what it expects.
Given(w, o) ==
  /\ o \in Seq(Units)
  /\ \A k \in DOMAIN o :
       /\ <<o[k].b, o[k].unit>> = Expected[k]
       /\ w.par[o[k].b] > 0
       /\ o[k].nil = (o[k].b \in w.bad)

Sound(w, e, o) ==
  /\ w \in Worlds /\ Lined(w, e)
  /\ \A b \in Backends : Account(w, e[0], b) /\ Level(w, e[0], b)
  /\ FrontBusy(w) /\ Ending(w) /\ Written(w, e[0], o) /\ Given(w, o)
  /\ w.failed = FALSE

\* Before the reply's own header is written no reply is looked at.
Began(w, pre) ==
  pre # "done" =>
    \A b \in Backends : w.par[b] = 0 /\ (w.io[b] = "read" => w.rcv[b] = 0)

MgetInv ==
  /\ Keyed /\ owners \in Queries
  /\ \E e : Sound(World, e, out)
  /\ first \in BOOLEAN /\ prefix \in {"no", "writing", "done"}
  /\ first <=> prefix # "no"
  /\ Began(World, prefix)

-----------------------------------------------------------------------------
(* Counting keys.                                                          *)

LEMMA KeysOf ==
  ASSUME Keyed
  PROVE  /\ Len(owners) \in Nat \ {0} /\ DOMAIN owners = 1..Len(owners)
         /\ \A i \in 1..Len(owners) : owners[i] \in Backends
<1>1. owners \in Seq(Backends) /\ owners # <<>>
  BY Zenon DEF Keyed
<1> QED  BY <1>1, SeqElement, SeqEmpty, SeqLen, Zenon

\* The next k keys are of backend b.
LEMMA CntAdds ==
  ASSUME Keyed, NEW b, NEW p \in Nat, NEW k \in Nat,
         \A i \in (p + 1)..(p + k) : owners[i] = b
  PROVE  /\ Cnt(b, p + k) = Cnt(b, p) + k
         /\ \A c : c # b => Cnt(c, p + k) = Cnt(c, p)
BY SMTT(30) DEF Keyed, CountsUp, Cnt

LEMMA CntType ==
  ASSUME Keyed, NEW b, NEW i \in Nat
  PROVE  Cnt(b, i) \in Nat
BY Zenon DEF Keyed, CountsUp, Cnt

LEMMA CntBounds ==
  ASSUME Keyed, NEW b \in Backends, NEW p \in 0..Len(owners)
  PROVE  /\ Cnt(b, p) \in Nat /\ key_count(b) \in Nat /\ key_count(b) >= 1
         /\ Cnt(b, p) <= key_count(b)
         /\ Cnt(b, Len(owners)) = key_count(b)
         /\ Full(b) = 2 * key_count(b) + 1 /\ Full(b) \in Nat
<1>1. p \in Nat /\ Len(owners) \in Nat /\ DOMAIN owners = 1..Len(owners)
  BY KeysOf
<1>2. Cnt(b, p) \in Nat /\ Cnt(b, Len(owners)) \in Nat
  BY <1>1, CntType, Zenon
<1>3. /\ key_count(b) \in Nat /\ key_count(b) >= 1
      /\ Cnt(b, p) <= key_count(b) /\ Cnt(b, Len(owners)) = key_count(b)
  <2>1. Cnt(b, Len(owners)) # 0 /\ Cnt(b, p) <= Cnt(b, Len(owners))
    BY Zenon DEF Keyed, CountsUp, Cnt
  <2>2. key_count(b) = Cnt(b, Len(owners))
    BY <1>1, Zenon DEF key_count, Cnt, CountIn
  <2> QED  BY <1>2, <2>1, <2>2
<1>4. Full(b) = 2 * key_count(b) + 1
  BY Zenon DEF Full
<1> QED  BY <1>2, <1>3, <1>4

\* The units of the last keys, all of one backend, at the places where the
\* client expects them.
LEMMA ExpectedUnits ==
  ASSUME Keyed, NEW b \in Backends, NEW q \in Nat, NEW k \in Nat,
         q + k <= Len(owners), \A i \in (q + 1)..(q + k) : owners[i] = b,
         NEW u \in (2 * Cnt(b, q) + 2)..(2 * (Cnt(b, q) + k) + 1)
  PROVE  Expected[2 * (q + k) - (2 * (Cnt(b, q) + k) + 1) + u] = <<b, u>>
<1> DEFINE C == Cnt(b, q)
<1>1. C \in Nat
  BY CntType, Zenon
<1> HIDE DEF C
<1>2. PICK j \in Nat : u = 2 * j \/ u = 2 * j + 1
  <2>1. u \in Nat
    BY <1>1 DEF C
  <2>2. u \div 2 \in Nat /\ (u = 2 * (u \div 2) \/ u = 2 * (u \div 2) + 1)
    BY <2>1
  <2> QED  BY <2>2, Zenon
<1>3. j >= C + 1 /\ j <= C + k
  BY <1>1, <1>2, SMTT(30) DEF C
<1> DEFINE d == j - C
           i == q + d
           x == 2 * (q + k) - (2 * (C + k) + 1) + u
<1>4. d \in Nat /\ d >= 1 /\ d <= k /\ i \in Nat /\ i \in (q + 1)..(q + k)
  BY <1>1, <1>3
<1>5. x = 2 * i - 1 + (u - 2 * j)
  BY <1>1, <1>2
<1>6. Len(owners) \in Nat /\ i \in 1..Len(owners)
  BY <1>4, KeysOf
<1>7. /\ x \in 1..(2 * Len(owners))
      /\ (x + 1) \div 2 = i /\ (x + 1) % 2 = u - 2 * j
  <2> HIDE DEF i, x
  <2>1. CASE u = 2 * j
    <3>1. x + 1 = 2 * i
      BY <1>5, <1>6, <2>1
    <3>2. (2 * i) \div 2 = i /\ (2 * i) % 2 = 0
      BY <1>6
    <3> QED  BY <1>5, <1>6, <2>1, <3>1, <3>2
  <2>2. CASE u = 2 * j + 1
    <3>1. x + 1 = 2 * i + 1
      BY <1>5, <1>6, <2>2
    <3>2. (2 * i + 1) \div 2 = i /\ (2 * i + 1) % 2 = 1
      BY <1>6
    <3> QED  BY <1>5, <1>6, <2>2, <3>1, <3>2
  <2> QED  BY <1>2, <2>1, <2>2, Zenon
<1>8. owners[i] = b
  BY <1>4, Zenon
<1>9. Cnt(b, i) = j
  <2>1. \A h \in (q + 1)..(q + d) : owners[h] = b
    BY <1>4
  <2>2. Cnt(b, q + d) = Cnt(b, q) + d
    <3> HIDE DEF d
    <3> QED  BY <1>4, <2>1, CntAdds
  <2> QED  BY <1>1, <2>2 DEF C
<1> HIDE DEF i, x
<1>10. Expected[x] = <<owners[i], 2 * Cnt(owners[i], i) + ((x + 1) % 2)>>
  BY <1>7, Zenon DEF Expected, Cnt, CountIn
<1>11. 2 * j + (u - 2 * j) = u
  BY <1>2
<1> QED  BY <1>7, <1>8, <1>9, <1>10, <1>11, Zenon DEF x, C

-----------------------------------------------------------------------------
(* A backend's turn.                                                       *)

LEMMA Fields ==
  ASSUME NEW w \in Worlds
  PROVE  /\ w.io \in Ios /\ w.rcv \in Counts /\ w.par \in Counts
         /\ w.pro \in Counts /\ w.absent \in Counts
         /\ w.complete \in SUBSET Backends /\ w.bad \in SUBSET Backends
         /\ w.writing \in Writes /\ w.replying \in Backends \cup {"none"}
         /\ w.waiting \in Queues /\ w.over \in {"no", "done", "aborted"}
         /\ w.failed \in BOOLEAN
BY Zenon DEF Worlds

LEMMA Numbers ==
  ASSUME NEW w \in Worlds, NEW b \in Backends
  PROVE  /\ w.rcv[b] \in Nat /\ w.par[b] \in Nat /\ w.pro[b] \in Nat
         /\ w.absent[b] \in Nat
BY Fields, Zenon DEF Counts

LEMMA FrontRun ==
  ASSUME Keyed, NEW w \in Worlds, NEW b, InFront(w, b), NEW e, Lined(w, e)
  PROVE  /\ Len(w.waiting) \in Nat /\ Len(w.waiting) >= 1
         /\ w.waiting \in Seq(RunsOf(owners))
         /\ w.waiting[1] \in RunsOf(owners) /\ w.waiting[1].n \in Nat
         /\ b \in Backends
         /\ e \in [0..Len(w.waiting) -> 0..Len(owners)]
         /\ e[0] \in 0..Len(owners) /\ e[1] \in 0..Len(owners)
         /\ e[1] = e[0] + w.waiting[1].n
         /\ \A i \in (e[0] + 1)..(e[0] + w.waiting[1].n) : owners[i] = b
<1>1. w.waiting \in Seq(RunsOf(owners)) /\ w.waiting # <<>>
  BY Fields, Zenon DEF Queues, InFront
<1>2. Len(w.waiting) \in Nat /\ Len(w.waiting) >= 1
  BY <1>1, SeqEmpty, SeqLen
<1>3. w.waiting[1] \in RunsOf(owners)
  BY <1>1, <1>2, SeqElement
<1>4. w.waiting[1].n \in Nat /\ w.waiting[1].b \in Backends
  BY <1>3, Zenon DEF RunsOf, Backends
<1>5. /\ e \in [0..Len(w.waiting) -> 0..Len(owners)]
      /\ \A j \in 1..Len(w.waiting) :
           /\ e[j] = e[j - 1] + w.waiting[j].n
           /\ \A i \in (e[j - 1] + 1)..e[j] : owners[i] = w.waiting[j].b
  BY Zenon DEF Lined, EndsAt
<1>6. 0 \in 0..Len(w.waiting) /\ 1 \in 0..Len(w.waiting) /\ 1 \in 1..Len(w.waiting)
        /\ 1 - 1 = 0
  BY <1>2
<1>7. e[0] \in 0..Len(owners) /\ e[1] \in 0..Len(owners)
        /\ e[1] = e[0] + w.waiting[1].n
  BY <1>5, <1>6, Zenon
<1>8. \A i \in (e[0] + 1)..e[1] : owners[i] = w.waiting[1].b
  BY <1>5, <1>6, Zenon
<1> QED  BY <1>1, <1>2, <1>3, <1>4, <1>5, <1>7, <1>8, Zenon DEF InFront

\* It is the turn of b, whose last read has brought the end of a bulk that is
\* being forwarded, or new bulks.
RestOf(w, p, o, b) ==
  /\ w.pro[b] = w.par[b] - 1 /\ w.par[b] > 0 /\ w.rcv[b] >= w.par[b]
  /\ Len(o) = 2 * p - 1 /\ Expected[2 * p] = <<b, w.par[b]>>

MoreOf(w, p, o, b) ==
  /\ w.pro[b] = w.par[b] /\ w.rcv[b] > w.par[b]
  /\ w.waiting[1].n > 0 /\ Len(o) = 2 * p

Turning(w, e, o, b) ==
  /\ w \in Worlds /\ Lined(w, e) /\ b \in Backends /\ InFront(w, b)
  /\ w.writing = NoWrite /\ w.io[b] = "none" /\ w.failed = FALSE
  /\ w.over = "no" /\ Given(w, o)
  /\ \A c \in Backends : c # b =>
       Account(w, e[0], c) /\ w.par[c] <= w.rcv[c] /\ w.pro[c] = w.par[c]
  /\ Tallied(w, e[0], b) /\ b \notin w.complete
  /\ RestOf(w, e[0], o, b) \/ MoreOf(w, e[0], o, b)

\* v is w with units of b handed on to the client.
HandedOn(w, v, b) ==
  /\ v \in Worlds /\ v.io = w.io /\ v.rcv = w.rcv /\ v.bad = w.bad
  /\ v.over = w.over /\ v.failed = w.failed /\ v.replying = b
  /\ \A c \in Backends : c # b =>
       /\ v.par[c] = w.par[c] /\ v.absent[c] = w.absent[c] /\ v.pro[c] = w.pro[c]
       /\ c \in v.complete <=> c \in w.complete
  /\ v.par[b] > 0 /\ v.pro[b] = v.writing.hi /\ v.writing.from = b
  /\ v.writing.hi = Lower(v.rcv[b], v.par[b])
  /\ v.writing.hi \in {v.par[b] - 1, v.par[b]}
  /\ v.writing.lo \in 2..v.writing.hi
  /\ InFront(v, b)

LEMMA HandedOnSound ==
  ASSUME Keyed, NEW w, NEW e, NEW o, NEW b, Turning(w, e, o, b),
         NEW v, HandedOn(w, v, b), NEW f, Lined(v, f),
         \A c \in Backends : c # b => Cnt(c, f[0]) = Cnt(c, e[0]),
         Tallied(v, f[0], b),
         b \in v.complete <=> v.par[b] = Full(b) /\ v.rcv[b] = Full(b),
         Len(o) = 2 * f[0] - v.par[b] + v.writing.lo - 1,
         \A u \in v.writing.lo..v.par[b] :
           Expected[2 * f[0] - v.par[b] + u] = <<b, u>>
  PROVE  Sound(v, f, o)
<1>1. /\ w \in Worlds /\ b \in Backends /\ v \in Worlds
      /\ w.io[b] = "none" /\ v.io = w.io /\ v.rcv = w.rcv
  BY Zenon DEF Turning, HandedOn
<1>2. \A c \in Backends : /\ v.rcv[c] \in Nat /\ v.par[c] \in Nat
                          /\ v.pro[c] \in Nat /\ w.rcv[c] \in Nat
                          /\ w.par[c] \in Nat
  BY <1>1, Numbers, Zenon
<1>3. v.writing # NoWrite
  <2>1. v.writing.lo \in 2..v.writing.hi
    BY Zenon DEF HandedOn
  <2>2. NoWrite.lo = 1
    BY Zenon DEF NoWrite
  <2> QED  BY <2>1, <2>2
<1>4. f[0] \in Nat
  <2>1. f[0] \in 0..Len(owners)
    BY <1>1, FrontRun, Zenon DEF HandedOn
  <2> QED  BY <2>1
<1>5. ASSUME NEW c \in Backends, c # b
      PROVE  Account(v, f[0], c) /\ Level(v, f[0], c)
  <2>1. Account(w, e[0], c) /\ w.par[c] <= w.rcv[c] /\ w.pro[c] = w.par[c]
    BY <1>5, Zenon DEF Turning
  <2>2. /\ v.par[c] = w.par[c] /\ v.absent[c] = w.absent[c] /\ v.pro[c] = w.pro[c]
        /\ c \in v.complete <=> c \in w.complete
    BY <1>5, Zenon DEF HandedOn
  <2>3. Cnt(c, f[0]) = Cnt(c, e[0])
    BY <1>5, Zenon
  <2>4. Tallied(v, f[0], c)
    BY <1>1, <2>1, <2>2, <2>3, Zenon DEF Account, Tallied
  <2>5. Level(v, f[0], c)
    BY <1>1, <2>1, <2>2, Zenon DEF Level
  <2>6. w.waiting[1].b = b
    BY Zenon DEF Turning, InFront
  <2>7. v.io[c] = "read" => v.par[c] = 0 /\ v.rcv[c] = 0
    BY <1>1, <1>2, <1>5, <2>1, <2>2, <2>6 DEF Account, InFront
  <2>8. v.io[c] = "query" => v.par[c] = 0 /\ v.rcv[c] = 0
    BY <1>1, <2>1, <2>2, Zenon DEF Account
  <2>9. c \in v.complete <=> v.par[c] = Full(c) /\ v.rcv[c] = Full(c)
    BY <1>1, <2>1, <2>2, Zenon DEF Account
  <2> QED  BY <2>4, <2>5, <2>7, <2>8, <2>9, Zenon DEF Account
<1>6. Account(v, f[0], b)
  BY <1>1, Zenon DEF Account
<1>7. Level(v, f[0], b)
  <2>1. /\ v.pro[b] = v.writing.hi /\ InFront(v, b) /\ v.replying = b
        /\ v.writing.hi = (IF v.rcv[b] < v.par[b] THEN v.rcv[b] ELSE v.par[b])
        /\ v.writing.hi \in {v.par[b] - 1, v.par[b]}
        /\ v.writing.lo \in 2..v.writing.hi
    BY Zenon DEF HandedOn, Lower
  <2>2. CASE v.par[b] <= v.rcv[b]
    BY <1>1, <1>2, <2>1, <2>2 DEF Level
  <2>3. CASE ~(v.par[b] <= v.rcv[b])
    <3>1. v.rcv[b] = v.par[b] - 1 /\ v.pro[b] = v.rcv[b]
      BY <1>1, <1>2, <2>1, <2>3
    <3>2. v.par[b] \in v.writing.lo..v.par[b]
      <4>1. v.writing.hi \in Nat /\ v.writing.lo \in Nat /\ v.writing.hi <= v.par[b]
        BY <1>1, <1>2, <2>1, <2>3
      <4> QED  BY <1>1, <1>2, <2>1, <4>1
    <3>3. 2 * f[0] - v.par[b] + v.par[b] = 2 * f[0]
      BY <1>1, <1>2, <1>4
    <3>4. Expected[2 * f[0]] = <<b, v.par[b]>>
      BY <3>2, <3>3, Zenon
    <3> QED  BY <2>1, <2>3, <3>1, <3>4, Zenon DEF Level
  <2> QED  BY <2>2, <2>3, Zenon
<1>8. FrontBusy(v)
  BY <1>3, Zenon DEF FrontBusy
<1>9. Ending(v)
  <2>1. v.over = "no" /\ v.waiting # <<>>
    BY Zenon DEF HandedOn, Turning, InFront
  <2> QED  BY <2>1, Zenon DEF Ending
<1>10. Busy(v, f[0], o, v.writing.from)
  BY <1>1, Zenon DEF Busy, HandedOn
<1>11. Given(v, o)
  <2>1. Given(w, o) /\ v.bad = w.bad
    BY Zenon DEF Turning, HandedOn
  <2>2. \A c \in Backends : w.par[c] > 0 => v.par[c] > 0
    BY Zenon DEF HandedOn
  <2>3. \A k \in DOMAIN o : o[k].b \in Backends
    <3>1. o \in Seq(Units)
      BY <2>1, Zenon DEF Given
    <3>2. \A k \in DOMAIN o : o[k] \in Units
      BY <3>1, SeqElement
    <3> QED  BY <3>2, Zenon DEF Units
  <2> QED  BY <2>1, <2>2, <2>3, Zenon DEF Given
<1>12. v.failed = FALSE
  BY Zenon DEF Turning, HandedOn
<1> QED  BY <1>1, <1>3, <1>5, <1>6, <1>7, <1>8, <1>9, <1>10, <1>11, <1>12, Zenon
         DEF Sound, Written

\* The end of a bulk is handed on.
LEMMA RestReplies ==
  ASSUME Keyed, NEW w, NEW e, NEW o, NEW b, Turning(w, e, o, b),
         RestOf(w, e[0], o, b)
  PROVE  Sound(BackendReadyToReply(w, b, TRUE, TRUE), e, o)
<1> DEFINE v == BackendReadyToReply(w, b, TRUE, TRUE)
           all == IF w.par[b] <= w.rcv[b] /\ w.absent[b] = 0
                  THEN w.complete \cup {b} ELSE w.complete
           w0 == [w EXCEPT !.replying = b]
           w1 == [w0 EXCEPT !.complete = all]
           wr == [from |-> b, lo |-> w.pro[b] + 1, hi |-> w.par[b]]
           w2 == [w1 EXCEPT !.writing = wr, !.pro[b] = w.par[b]]
<1>1. /\ w \in Worlds /\ b \in Backends /\ InFront(w, b) /\ w.waiting # <<>>
      /\ w.writing = NoWrite /\ w.over = "no" /\ Lined(w, e)
      /\ w.pro[b] = w.par[b] - 1 /\ w.par[b] > 0 /\ w.rcv[b] >= w.par[b]
  BY Zenon DEF Turning, RestOf, InFront
<1>2. w.rcv[b] \in Nat /\ w.par[b] \in Nat /\ w.pro[b] \in Nat /\ w.absent[b] \in Nat
  BY <1>1, Numbers, Zenon
<1>3. /\ w0 \in Worlds /\ w0.io = w.io /\ w0.rcv = w.rcv /\ w0.par = w.par
      /\ w0.pro = w.pro /\ w0.absent = w.absent /\ w0.complete = w.complete
      /\ w0.bad = w.bad /\ w0.writing = w.writing /\ w0.replying = b
      /\ w0.waiting = w.waiting /\ w0.over = w.over /\ w0.failed = w.failed
  BY <1>1, Zenon DEF Worlds
<1>4. all \in SUBSET Backends
  BY <1>1, Fields, Zenon
<1> HIDE DEF all, w0
<1>5. /\ w1 \in Worlds /\ w1.io = w.io /\ w1.rcv = w.rcv /\ w1.par = w.par
      /\ w1.pro = w.pro /\ w1.absent = w.absent /\ w1.complete = all
      /\ w1.bad = w.bad /\ w1.writing = w.writing /\ w1.replying = b
      /\ w1.waiting = w.waiting /\ w1.over = w.over /\ w1.failed = w.failed
  BY <1>3, <1>4, Zenon DEF Worlds
<1>6. wr \in Writes /\ wr.from = b /\ wr.lo = w.par[b] /\ wr.hi = w.par[b]
  BY <1>1, <1>2 DEF Writes
<1> HIDE DEF w1, wr
<1>7. /\ [w.pro EXCEPT ![b] = w.par[b]] \in Counts
      /\ [w.pro EXCEPT ![b] = w.par[b]][b] = w.par[b]
      /\ \A c \in Backends : c # b => [w.pro EXCEPT ![b] = w.par[b]][c] = w.pro[c]
  BY <1>1, <1>2, Fields, Zenon DEF Counts
<1>8. /\ w2 \in Worlds /\ w2.io = w.io /\ w2.rcv = w.rcv /\ w2.par = w.par
      /\ w2.pro = [w.pro EXCEPT ![b] = w.par[b]]
      /\ w2.absent = w.absent /\ w2.complete = all
      /\ w2.bad = w.bad /\ w2.writing = wr /\ w2.replying = b
      /\ w2.waiting = w.waiting /\ w2.over = w.over /\ w2.failed = w.failed
  BY <1>5, <1>6, <1>7, Zenon DEF Worlds
<1>9. Lower(w.rcv[b], w.par[b]) = w.par[b]
  BY <1>1, <1>2 DEF Lower
<1>10. unprocessed(w0, b) > 0 /\ unprocessed(w1, b) > 0
  BY <1>1, <1>2, <1>3, <1>5, <1>9 DEF unprocessed
<1>11. v = w2
  <2>1. ParseReply(w0, b) = w1
    BY <1>3, <1>10, Zenon DEF ParseReply, w1, all
  <2>2. unprocessed(w1, b) # 0 /\ w1.over # "aborted"
    BY <1>1, <1>5, <1>10
  <2>3. TryWriteReply(w1, b) = w2
    BY <1>1, <1>5, <1>9, <2>2, Zenon DEF TryWriteReply, wr
  <2>4. v = (IF w1.over = "aborted" THEN w1
             ELSE IF unprocessed(w1, b) = 0 THEN TryReadMoreReply(w1, b)
             ELSE TryWriteReply(w1, b))
    BY <1>1, <2>1, Zenon DEF BackendReadyToReply, IsTurnOf, InFront, w0
  <2> QED  BY <2>2, <2>3, <2>4, Zenon
<1> HIDE DEF w2
<1>12. HandedOn(w, w2, b)
  <2>1. \A c \in Backends : c # b => (c \in w2.complete <=> c \in w.complete)
    BY <1>8, Zenon DEF all
  <2>2. InFront(w2, b)
    BY <1>1, <1>8, Zenon DEF InFront
  <2>3. w2.writing.lo \in 2..w2.writing.hi
    <3>1. w.par[b] >= 2
      <4>1. e[0] \in 0..Len(owners)
        BY <1>1, FrontRun, Zenon
      <4>2. Cnt(b, e[0]) \in Nat
        BY <1>1, <4>1, CntBounds, Zenon
      <4>3. w.par[b] = (IF Cnt(b, e[0]) = 0 THEN 0 ELSE 2 * Cnt(b, e[0]) + 1)
        BY Zenon DEF Turning, Tallied
      <4> QED  BY <1>1, <4>2, <4>3
    <3> QED  BY <1>2, <1>6, <1>8, <3>1
  <2> QED  BY <1>1, <1>2, <1>6, <1>7, <1>8, <1>9, <2>1, <2>2, <2>3, Zenon DEF HandedOn
<1>13. Lined(w2, e)
  BY <1>1, <1>8, Zenon DEF Lined
<1>14. Tallied(w, e[0], b) /\ Tallied(w2, e[0], b)
  BY <1>8, Zenon DEF Turning, Tallied
<1>15. e[0] \in 0..Len(owners) /\ e[0] \in Nat
  <2>1. e[0] \in 0..Len(owners)
    BY <1>1, FrontRun, Zenon
  <2> QED  BY <2>1
<1>16. b \in w2.complete <=> w2.par[b] = Full(b) /\ w2.rcv[b] = Full(b)
  <2>1. /\ Cnt(b, e[0]) \in Nat /\ key_count(b) \in Nat
        /\ Full(b) = 2 * key_count(b) + 1
    BY <1>1, <1>15, CntBounds, Zenon
  <2>2. /\ w.par[b] = 2 * Cnt(b, e[0]) + 1
        /\ w.absent[b] = key_count(b) - Cnt(b, e[0])
        /\ w.rcv[b] \in 0..Full(b)
    BY <1>1, <1>14 DEF Tallied
  <2>3. w.absent[b] = 0 <=> w.par[b] = Full(b) /\ w.rcv[b] = Full(b)
    BY <1>1, <1>2, <2>1, <2>2
  <2>4. b \notin w.complete
    BY Zenon DEF Turning
  <2> QED  BY <1>1, <1>2, <1>8, <2>3, <2>4, Zenon DEF all
<1>17. Len(o) = 2 * e[0] - w2.par[b] + w2.writing.lo - 1
  <2>1. Len(o) = 2 * e[0] - 1
    BY Zenon DEF RestOf
  <2> QED  BY <1>2, <1>6, <1>8, <1>15, <2>1
<1>18. ASSUME NEW u \in w2.writing.lo..w2.par[b]
       PROVE  Expected[2 * e[0] - w2.par[b] + u] = <<b, u>>
  <2>1. u = w.par[b] /\ w2.par[b] = w.par[b]
    BY <1>2, <1>6, <1>8
  <2>2. 2 * e[0] - w.par[b] + w.par[b] = 2 * e[0]
    BY <1>2, <1>15
  <2>3. Expected[2 * e[0]] = <<b, w.par[b]>>
    BY Zenon DEF RestOf
  <2> QED  BY <2>1, <2>2, <2>3, Zenon
<1>19. Sound(w2, e, o)
  BY <1>12, <1>13, <1>14, <1>16, <1>17, <1>18, HandedOnSound, Zenon
<1> QED  BY <1>11, <1>19, Zenon

\* Only the array's header has come: there is more to read.
LEMMA HeaderReplies ==
  ASSUME Keyed, NEW w, NEW e, NEW o, NEW b, Turning(w, e, o, b),
         MoreOf(w, e[0], o, b),
         Due(w, (w.rcv[b] \div 2) - (w.par[b] \div 2)) = 0
  PROVE  Sound(BackendReadyToReply(w, b, TRUE, TRUE), e, o)
<1> DEFINE v == BackendReadyToReply(w, b, TRUE, TRUE)
           w0 == [w EXCEPT !.replying = b]
           w1 == [w0 EXCEPT !.io[b] = "read"]
<1>1. /\ w \in Worlds /\ b \in Backends /\ InFront(w, b) /\ w.waiting # <<>>
      /\ w.writing = NoWrite /\ w.over = "no" /\ Lined(w, e) /\ w.io[b] = "none"
      /\ w.pro[b] = w.par[b] /\ w.rcv[b] > w.par[b] /\ w.waiting[1].n > 0
      /\ b \notin w.complete /\ Len(o) = 2 * e[0] /\ Tallied(w, e[0], b)
      /\ Given(w, o) /\ w.failed = FALSE
  BY Zenon DEF Turning, MoreOf, InFront
<1>2. w.rcv[b] \in Nat /\ w.par[b] \in Nat /\ w.pro[b] \in Nat /\ w.absent[b] \in Nat
  BY <1>1, Numbers, Zenon
<1>3. e[0] \in 0..Len(owners) /\ w.waiting[1].n \in Nat
  BY <1>1, FrontRun, Zenon
<1>4. /\ Cnt(b, e[0]) \in Nat /\ key_count(b) \in Nat /\ key_count(b) >= 1
      /\ Full(b) = 2 * key_count(b) + 1
  BY <1>1, <1>3, CntBounds, Zenon
<1>5. w.par[b] = 0 /\ w.absent[b] = 0
  <2>1. /\ w.par[b] = (IF Cnt(b, e[0]) = 0 THEN 0 ELSE 2 * Cnt(b, e[0]) + 1)
        /\ w.absent[b] = (IF Cnt(b, e[0]) = 0 THEN 0 ELSE key_count(b) - Cnt(b, e[0]))
    BY <1>1, Zenon DEF Tallied
  <2>2. CASE Cnt(b, e[0]) = 0
    BY <2>1, <2>2, Zenon
  <2>3. CASE Cnt(b, e[0]) # 0
    <3> DEFINE C == Cnt(b, e[0])
    <3>1. C \in Nat /\ w.par[b] = 2 * C + 1 /\ w.rcv[b] >= 2 * C + 2
      BY <1>1, <1>2, <1>4, <2>1, <2>3, SMTT(30)
    <3> HIDE DEF C
    <3>2. (2 * C + 1) \div 2 = C
      BY <3>1
    <3>3. w.rcv[b] \div 2 >= C + 1 /\ w.rcv[b] \div 2 \in Nat
      BY <1>2, <3>1
    <3>4. (w.rcv[b] \div 2) - (w.par[b] \div 2) > 0
      BY <3>1, <3>2, <3>3
    <3>5. Due(w, (w.rcv[b] \div 2) - (w.par[b] \div 2)) > 0
      BY <1>1, <1>3, <3>4, Zenon DEF Due, Lower
    <3> QED  BY <3>5
  <2> QED  BY <2>2, <2>3, Zenon
<1>6. /\ w0 \in Worlds /\ w0.io = w.io /\ w0.rcv = w.rcv /\ w0.par = w.par
      /\ w0.pro = w.pro /\ w0.absent = w.absent /\ w0.complete = w.complete
      /\ w0.bad = w.bad /\ w0.writing = w.writing /\ w0.replying = b
      /\ w0.waiting = w.waiting /\ w0.over = w.over /\ w0.failed = w.failed
  BY <1>1, Zenon DEF Worlds
<1> HIDE DEF w0
<1>7. /\ [w.io EXCEPT ![b] = "read"] \in Ios
      /\ [w.io EXCEPT ![b] = "read"][b] = "read"
      /\ \A c \in Backends : c # b => [w.io EXCEPT ![b] = "read"][c] = w.io[c]
  BY <1>1, Fields, Zenon DEF Ios
<1>8. /\ w1 \in Worlds /\ w1.io = [w.io EXCEPT ![b] = "read"]
      /\ w1.rcv = w.rcv /\ w1.par = w.par
      /\ w1.pro = w.pro /\ w1.absent = w.absent /\ w1.complete = w.complete
      /\ w1.bad = w.bad /\ w1.writing = w.writing /\ w1.replying = b
      /\ w1.waiting = w.waiting /\ w1.over = w.over /\ w1.failed = w.failed
  BY <1>6, <1>7, Zenon DEF Worlds
<1>9. unprocessed(w0, b) = 0
  BY <1>1, <1>2, <1>5, <1>6 DEF unprocessed, Lower
<1>10. v = w1
  <2>1. ParseBulks(w0, b) = w0
    <3> DEFINE x == (w.rcv[b] \div 2) - (w.par[b] \div 2)
    <3>1. Lower(w.waiting[1].n, x) = 0
      BY Zenon DEF Due
    <3>2. x = 0
      <4> HIDE DEF x
      <4> QED  BY <1>1, <1>3, <3>1 DEF Lower
    <3>3. (w0.rcv[b] \div 2) - (w0.par[b] \div 2) = 0
      BY <1>6, <3>2, Zenon
    <3> QED  BY <3>3, Zenon DEF ParseBulks
  <2>2. ParseReply(w0, b) = w0
    <3>1. ~(unprocessed(w0, b) > 0) /\ ~(w0.absent[b] > 0) /\ w0.rcv[b] > w0.par[b]
      BY <1>1, <1>2, <1>5, <1>6, <1>9
    <3> QED  BY <2>1, <3>1, Zenon DEF ParseReply
  <2>3. TryReadMoreReply(w0, b) = w1
    BY <1>1, <1>6, Zenon DEF TryReadMoreReply
  <2>4. v = (IF w0.over = "aborted" THEN w0
             ELSE IF unprocessed(w0, b) = 0 THEN TryReadMoreReply(w0, b)
             ELSE TryWriteReply(w0, b))
    BY <1>1, <2>2, Zenon DEF BackendReadyToReply, IsTurnOf, InFront, w0
  <2> QED  BY <1>1, <1>6, <1>9, <2>3, <2>4, Zenon
<1> HIDE DEF w1
<1>11. ASSUME NEW c \in Backends, c # b
       PROVE  Account(w1, e[0], c) /\ Level(w1, e[0], c)
  <2>1. Account(w, e[0], c) /\ w.par[c] <= w.rcv[c] /\ w.pro[c] = w.par[c]
    BY <1>11, Zenon DEF Turning
  <2> QED  BY <1>7, <1>8, <1>11, <2>1 DEF Account, Tallied, Level, InFront
<1>12. Account(w1, e[0], b) /\ Level(w1, e[0], b)
  <2>1. InFront(w1, b) /\ Tallied(w1, e[0], b)
    BY <1>1, <1>8, Zenon DEF InFront, Tallied
  <2>2. w1.par[b] = 0 /\ w1.io[b] = "read" /\ w1.pro[b] = 0 /\ w1.rcv[b] > 0
    BY <1>1, <1>5, <1>7, <1>8, Zenon
  <2>3. b \in w1.complete <=> w1.par[b] = Full(b) /\ w1.rcv[b] = Full(b)
    BY <1>1, <1>4, <1>8, <2>2
  <2>4. Account(w1, e[0], b)
    BY <2>1, <2>2, <2>3, Zenon DEF Account
  <2>5. w1.par[b] <= w1.rcv[b] /\ w1.pro[b] = w1.par[b]
    BY <1>2, <1>8, <2>2
  <2> QED  BY <2>4, <2>5, Zenon DEF Level
<1>13. FrontBusy(w1)
  BY <1>1, <1>8, Zenon DEF FrontBusy
<1>14. Ending(w1)
  BY <1>1, <1>8, Zenon DEF Ending
<1>15. Written(w1, e[0], o)
  <2>1. \A c \in Backends : w1.par[c] <= w1.rcv[c] /\ w1.par[c] \in Nat /\ w1.rcv[c] \in Nat
    <3>1. \A c \in Backends : w1.par[c] \in Nat /\ w1.rcv[c] \in Nat
      BY <1>8, Numbers, Zenon
    <3>2. \A c \in Backends : c # b => w1.par[c] <= w1.rcv[c]
      BY <1>8, Zenon DEF Turning
    <3>3. w1.par[b] <= w1.rcv[b]
      BY <1>1, <1>2, <1>8
    <3> QED  BY <3>1, <3>2, <3>3, Zenon
  <2>2. \A c \in Backends : ~(w1.par[c] > w1.rcv[c])
    BY <2>1
  <2>3. Idle(w1, e[0], o)
    BY <1>1, <2>2, Zenon DEF Idle
  <2> QED  BY <1>1, <1>8, <2>3, Zenon DEF Written
<1>16. Given(w1, o) /\ Lined(w1, e)
  BY <1>1, <1>8 DEF Given, Lined
<1>17. Sound(w1, e, o)
  BY <1>1, <1>8, <1>11, <1>12, <1>13, <1>14, <1>15, <1>16, Zenon DEF Sound
<1> QED  BY <1>10, <1>17, Zenon

\* The run in front with k keys fewer.
Used(s, k) == [s EXCEPT ![1].n = @ - k]

LEMMA UsedUp ==
  ASSUME Keyed, NEW w \in Worlds, NEW b, InFront(w, b), NEW e, Lined(w, e),
         NEW k \in Nat, k <= w.waiting[1].n
  PROVE  /\ Used(w.waiting, k) \in Queues /\ Used(w.waiting, k) # <<>>
         /\ Used(w.waiting, k)[1].b = b
         /\ \A v : v.waiting = Used(w.waiting, k) =>
              Lined(v, [e EXCEPT ![0] = @ + k])
         /\ [e EXCEPT ![0] = @ + k][0] = e[0] + k
         /\ e[0] + k \in 0..Len(owners)
         /\ \A i \in (e[0] + 1)..(e[0] + k) : owners[i] = b
<1> DEFINE s == w.waiting
           r == [s[1] EXCEPT !.n = @ - k]
           t == [s EXCEPT ![1] = r]
           f == [e EXCEPT ![0] = @ + k]
           R == RunsOf(owners)
           N == Len(owners)
<1>1. /\ Len(s) \in Nat /\ Len(s) >= 1 /\ s \in Seq(R) /\ s[1] \in R
      /\ s[1].n \in Nat /\ e \in [0..Len(s) -> 0..N]
      /\ e[0] \in 0..N /\ e[1] \in 0..N /\ e[1] = e[0] + s[1].n
      /\ \A i \in (e[0] + 1)..(e[0] + s[1].n) : owners[i] = b
  BY FrontRun, Zenon
<1>2. N \in Nat /\ s[1].b = b
  BY KeysOf, Zenon DEF InFront
<1>3. r \in R /\ r.b = b /\ r.n = s[1].n - k /\ r.n \in Nat
  <2>1. s[1] \in RunsOf(owners) /\ s[1].n - k \in Nat
    BY <1>1
  <2> HIDE DEF s
  <2> QED  BY <1>2, <2>1, Zenon DEF RunsOf
<1>4. Used(s, k) = t
  BY Zenon DEF Used
<1> HIDE DEF R, r
<1>5. /\ t \in Seq(R) /\ Len(t) = Len(s) /\ t[1] = r
      /\ \A j \in 1..Len(s) : j # 1 => t[j] = s[j]
  BY <1>1, <1>3
<1>6. e[0] + k \in 0..N /\ e[0] + k <= e[1]
  <2>1. /\ e[0] \in Nat /\ e[1] \in Nat /\ s[1].n \in Nat
        /\ e[1] <= N /\ e[1] = e[0] + s[1].n
    BY <1>1, <1>2
  <2>2. k <= s[1].n
    BY Zenon
  <2> HIDE DEF s, f, t, N
  <2> QED  BY <1>2, <2>1, <2>2
<1>7. /\ f \in [0..Len(t) -> 0..N] /\ f[0] = e[0] + k
      /\ \A j \in 0..Len(s) : j # 0 => f[j] = e[j]
  BY <1>1, <1>5, <1>6
<1>8. /\ e[Len(s)] = N
      /\ \A j \in 1..Len(s) :
           /\ e[j] = e[j - 1] + s[j].n
           /\ \A i \in (e[j - 1] + 1)..e[j] : owners[i] = s[j].b
      /\ \A j \in 2..Len(s) : s[j].n >= 1
  BY Zenon DEF Lined, EndsAt
<1> HIDE DEF f, t, s
<1>9. ASSUME NEW j \in 1..Len(t)
      PROVE  /\ f[j] = f[j - 1] + t[j].n
             /\ \A i \in (f[j - 1] + 1)..f[j] : owners[i] = t[j].b
  <2>1. j \in 1..Len(s) /\ j \in 0..Len(s) /\ j # 0 /\ j - 1 \in 0..Len(s)
    BY <1>1, <1>5
  <2>2. f[j] = e[j]
    BY <1>7, <2>1, Zenon
  <2>3. CASE j = 1
    <3>1. f[j - 1] = e[0] + k /\ t[j].n = s[1].n - k /\ t[j].b = b /\ f[j] = e[1]
      BY <1>3, <1>5, <1>7, <2>2, <2>3
    <3>2. \A i \in (f[j - 1] + 1)..f[j] : i \in (e[0] + 1)..(e[0] + s[1].n)
      BY <1>1, <1>2, <3>1
    <3>3. f[j] = f[j - 1] + t[j].n
      BY <1>1, <1>2, <3>1
    <3> QED  BY <1>1, <3>1, <3>2, <3>3, Zenon
  <2>4. CASE j # 1
    <3>1. j - 1 # 0
      BY <2>1, <2>4
    <3>2. f[j - 1] = e[j - 1] /\ t[j] = s[j]
      BY <1>5, <1>7, <2>1, <2>4, <3>1, Zenon
    <3> QED  BY <1>8, <2>1, <2>2, <3>2, Zenon
  <2> QED  BY <2>3, <2>4, Zenon
<1>10. f[Len(t)] = N
  <2>1. Len(s) \in 0..Len(s) /\ Len(s) # 0
    BY <1>1
  <2> QED  BY <1>5, <1>7, <1>8, <2>1, Zenon
<1>11. \A j \in 2..Len(t) : t[j].n >= 1
  <2>1. \A j \in 2..Len(s) : j \in 1..Len(s) /\ j # 1
    BY <1>1
  <2> QED  BY <1>5, <1>8, <2>1, Zenon
<1>12. EndsAt(t, f, owners, N)
  BY <1>7, <1>9, <1>10, Zenon DEF EndsAt
<1>13. \A v : v.waiting = t => Lined(v, f)
  BY <1>11, <1>12, Zenon DEF Lined
<1>14. \A i \in (e[0] + 1)..(e[0] + k) : owners[i] = b
  <2>1. \A i \in (e[0] + 1)..(e[0] + k) : i \in (e[0] + 1)..(e[0] + s[1].n)
    BY <1>1, <1>2 DEF s
  <2> QED  BY <1>1, <2>1, Zenon
<1>15. t # <<>> /\ t \in Queues /\ t[1].b = b
  BY <1>1, <1>3, <1>5, SeqEmpty DEF Queues, R
<1> QED  BY <1>4, <1>6, <1>7, <1>13, <1>14, <1>15, Zenon DEF s, f

\* What ParseBulks makes of w, with k new bulks after C.
Bulks(w, b, C, k, v) ==
  /\ v \in Worlds /\ v.io = w.io /\ v.rcv = w.rcv
  /\ v.par = [w.par EXCEPT ![b] = 2 * (C + k) + 1]
  /\ v.pro = [w.pro EXCEPT ![b] = 2 * C + 1]
  /\ v.absent = [w.absent EXCEPT ![b] = key_count(b) - C - k]
  /\ v.complete = (IF 2 * (C + k) + 1 = Full(b) /\ w.rcv[b] = 2 * (C + k) + 1
                   THEN w.complete \cup {b} ELSE w.complete)
  /\ v.bad = w.bad /\ v.writing = w.writing /\ v.replying = w.replying
  /\ v.waiting = Used(w.waiting, k) /\ v.over = w.over /\ v.failed = w.failed

LEMMA ParseBulksLemma ==
  ASSUME Keyed, NEW w \in Worlds, NEW b \in Backends, NEW C \in Nat, NEW k \in Nat,
         w.par[b] \div 2 = C, Due(w, (w.rcv[b] \div 2) - C) = k, k # 0,
         SkipHeader(w, b) = 2 * C + 1, C + k <= key_count(b), key_count(b) \in Nat,
         w.waiting[1].n \in Nat, w.waiting[1].n > 0,
         Used(w.waiting, k) \in Queues, w.failed = FALSE
  PROVE  Bulks(w, b, C, k, ParseBulks(w, b))
<1> DEFINE par1 == 2 * (C + k) + 1
           all == IF par1 = Full(b) /\ w.rcv[b] = par1 THEN w.complete \cup {b}
                  ELSE w.complete
           left == key_count(b) - C - k
           w0 == Check(w, w.waiting[1].n > 0)
           v == [w0 EXCEPT !.par[b] = par1, !.pro[b] = 2 * C + 1,
                           !.absent[b] = left, !.complete = all,
                           !.waiting[1].n = @ - k]
<1>1. ParseBulks(w, b) = v
  <2>1. w0.complete = w.complete
    BY Zenon DEF Check, Worlds
  <2>2. Lower(w.waiting[1].n, 0) = 0
    BY DEF Lower
  <2>3. (w.rcv[b] \div 2) - (w.par[b] \div 2) # 0
    BY <2>2, Zenon DEF Due
  <2> QED  BY <2>1, <2>3, Zenon DEF ParseBulks, AllReceived
<1>2. w0 = w
  <2>1. w.failed \/ ~(w.waiting[1].n > 0) <=> FALSE
    BY Zenon
  <2>2. [w EXCEPT !.failed = FALSE] = w
    BY Zenon DEF Worlds
  <2>3. w0 = [w EXCEPT !.failed = FALSE]
    BY <2>1, Zenon DEF Check
  <2> QED  BY <2>2, <2>3, Zenon
<1>3. par1 \in Nat /\ 2 * C + 1 \in Nat /\ left \in Nat
  OBVIOUS
<1>4. all \in SUBSET Backends
  BY Fields, Zenon
<1> HIDE DEF w0, par1, all, left
<1>5. /\ [w.par EXCEPT ![b] = par1] \in Counts
      /\ [w.pro EXCEPT ![b] = 2 * C + 1] \in Counts
      /\ [w.absent EXCEPT ![b] = left] \in Counts
  BY <1>3, Fields, Zenon DEF Counts
<1>6. v = [w EXCEPT !.par = [w.par EXCEPT ![b] = par1],
                    !.pro = [w.pro EXCEPT ![b] = 2 * C + 1],
                    !.absent = [w.absent EXCEPT ![b] = left],
                    !.complete = all, !.waiting = Used(w.waiting, k)]
  BY <1>2, Zenon DEF Used, Worlds
<1>7. Bulks(w, b, C, k, v)
  <2> DEFINE x == [w.par EXCEPT ![b] = par1]
             y == [w.pro EXCEPT ![b] = 2 * C + 1]
             z == [w.absent EXCEPT ![b] = left]
             u == Used(w.waiting, k)
             t == [w EXCEPT !.par = x, !.pro = y, !.absent = z, !.complete = all,
                            !.waiting = u]
  <2> HIDE DEF x, y, z, u
  <2>1. x \in Counts /\ y \in Counts /\ z \in Counts /\ u \in Queues
    BY <1>5, Zenon DEF x, y, z, u
  <2>2. /\ t \in Worlds /\ t.io = w.io /\ t.rcv = w.rcv /\ t.par = x
        /\ t.pro = y /\ t.absent = z /\ t.complete = all /\ t.bad = w.bad
        /\ t.writing = w.writing /\ t.replying = w.replying
        /\ t.waiting = u /\ t.over = w.over /\ t.failed = w.failed
    BY <1>4, <2>1, Zenon DEF Worlds
  <2>3. v = t
    BY <1>6, Zenon DEF x, y, z, u
  <2> HIDE DEF v, t
  <2> QED  BY <2>2, <2>3, Zenon DEF Bulks, x, y, z, u, par1, all, left
<1> QED  BY <1>1, <1>7, Zenon

\* How many bulks are due.
LEMMA DueBulks ==
  ASSUME Keyed, NEW w, NEW e, NEW o, NEW b, Turning(w, e, o, b),
         MoreOf(w, e[0], o, b)
  PROVE  LET C == Cnt(b, e[0])
             k == Due(w, (w.rcv[b] \div 2) - (w.par[b] \div 2))
         IN /\ C \in Nat /\ k \in Nat /\ k <= w.waiting[1].n
            /\ w.par[b] \div 2 = C /\ SkipHeader(w, b) = 2 * C + 1
            /\ 2 * (C + k) <= w.rcv[b]
            /\ C + k <= key_count(b) /\ key_count(b) \in Nat
            /\ Full(b) = 2 * key_count(b) + 1
<1> DEFINE C == Cnt(b, e[0])
           K == key_count(b)
           r == w.rcv[b]
           n == w.waiting[1].n
           k == Due(w, (w.rcv[b] \div 2) - (w.par[b] \div 2))
<1>1. /\ w \in Worlds /\ b \in Backends /\ InFront(w, b) /\ Lined(w, e)
      /\ w.pro[b] = w.par[b] /\ w.rcv[b] > w.par[b] /\ Tallied(w, e[0], b)
  BY Zenon DEF Turning, MoreOf
<1>2. r \in Nat /\ w.par[b] \in Nat
  BY <1>1, Numbers, Zenon
<1>3. e[0] \in 0..Len(owners) /\ n \in Nat
  BY <1>1, FrontRun, Zenon
<1>4. C \in Nat /\ K \in Nat /\ C <= K /\ Full(b) = 2 * K + 1
  BY <1>1, <1>3, CntBounds, Zenon
<1>5. w.par[b] = (IF C = 0 THEN 0 ELSE 2 * C + 1) /\ r <= 2 * K + 1
  BY <1>1, <1>2, <1>4 DEF Tallied
<1>6. SkipHeader(w, b) = 2 * C + 1
  BY <1>1, <1>2, <1>4, <1>5 DEF SkipHeader
<1>7. k = Lower(n, (r \div 2) - (w.par[b] \div 2))
  BY Zenon DEF Due
<1> HIDE DEF C, K, r, n, k
<1>8. w.par[b] \div 2 = C
  <2>1. 0 \div 2 = 0 /\ (2 * C + 1) \div 2 = C
    BY <1>4
  <2> QED  BY <1>5, <2>1, Zenon
<1>9. r >= 2 * C
  BY <1>1, <1>2, <1>4, <1>5 DEF r
<1>10. r \div 2 \in Nat /\ r \div 2 >= C /\ 2 * (r \div 2) <= r /\ r \div 2 <= K
  BY <1>2, <1>4, <1>5, <1>9
<1>11. k \in Nat /\ k <= n /\ C + k <= r \div 2
  BY <1>3, <1>4, <1>7, <1>8, <1>10 DEF Lower
<1>12. 2 * (C + k) <= r /\ C + k <= K
  BY <1>2, <1>4, <1>10, <1>11
<1> QED  BY <1>4, <1>6, <1>8, <1>11, <1>12, Zenon DEF C, K, r, n, k

\* The bulks that are due are parsed and handed on.
LEMMA BulksReply ==
  ASSUME Keyed, NEW w, NEW e, NEW o, NEW b, Turning(w, e, o, b),
         MoreOf(w, e[0], o, b),
         Due(w, (w.rcv[b] \div 2) - (w.par[b] \div 2)) # 0
  PROVE  \E f : Sound(BackendReadyToReply(w, b, TRUE, TRUE), f, o)
<1> DEFINE v == BackendReadyToReply(w, b, TRUE, TRUE)
           C == Cnt(b, e[0])
           k == Due(w, (w.rcv[b] \div 2) - (w.par[b] \div 2))
           par1 == 2 * (C + k) + 1
           f == [e EXCEPT ![0] = @ + k]
           w0 == [w EXCEPT !.replying = b]
           w1 == ParseBulks(w0, b)
           hi == Lower(w.rcv[b], par1)
           wr == [from |-> b, lo |-> 2 * C + 2, hi |-> hi]
           w2 == [w1 EXCEPT !.writing = wr, !.pro[b] = hi]
<1>1. /\ w \in Worlds /\ b \in Backends /\ InFront(w, b) /\ w.waiting # <<>>
      /\ w.writing = NoWrite /\ w.over = "no" /\ Lined(w, e) /\ w.io[b] = "none"
      /\ w.pro[b] = w.par[b] /\ w.rcv[b] > w.par[b] /\ w.waiting[1].n > 0
      /\ b \notin w.complete /\ Len(o) = 2 * e[0] /\ Tallied(w, e[0], b)
      /\ Given(w, o) /\ w.failed = FALSE
  BY Zenon DEF Turning, MoreOf, InFront
<1>2. /\ w.rcv[b] \in Nat /\ w.par[b] \in Nat /\ w.pro[b] \in Nat
      /\ w.absent[b] \in Nat /\ w.rcv[b] \in 0..Full(b)
  BY <1>1, Numbers, Zenon DEF Tallied
<1>3. /\ C \in Nat /\ k \in Nat /\ k # 0 /\ k <= w.waiting[1].n
      /\ w.par[b] \div 2 = C /\ SkipHeader(w, b) = 2 * C + 1
      /\ 2 * (C + k) <= w.rcv[b]
      /\ C + k <= key_count(b) /\ key_count(b) \in Nat
      /\ Full(b) = 2 * key_count(b) + 1
  BY DueBulks
<1> HIDE DEF k
<1>4. /\ Used(w.waiting, k) \in Queues /\ Used(w.waiting, k) # <<>>
      /\ Used(w.waiting, k)[1].b = b
      /\ \A x : x.waiting = Used(w.waiting, k) => Lined(x, f)
      /\ f[0] = e[0] + k /\ e[0] + k \in 0..Len(owners)
      /\ \A i \in (e[0] + 1)..(e[0] + k) : owners[i] = b
  BY <1>1, <1>3, UsedUp, SMTT(30)
<1>5. e[0] \in Nat /\ e[0] \in 0..Len(owners) /\ Len(owners) \in Nat
  <2>1. e[0] \in 0..Len(owners)
    BY <1>1, FrontRun, Zenon
  <2> QED  BY <2>1, KeysOf
<1> HIDE DEF C, f
<1>6. /\ w0 \in Worlds /\ w0.io = w.io /\ w0.rcv = w.rcv /\ w0.par = w.par
      /\ w0.pro = w.pro /\ w0.absent = w.absent /\ w0.complete = w.complete
      /\ w0.bad = w.bad /\ w0.writing = w.writing /\ w0.replying = b
      /\ w0.waiting = w.waiting /\ w0.over = w.over /\ w0.failed = w.failed
  BY <1>1, Zenon DEF Worlds
<1> HIDE DEF w0
<1>7. Bulks(w0, b, C, k, w1)
  <2>1. Due(w0, (w0.rcv[b] \div 2) - C) = k
    BY <1>3, <1>6, Zenon DEF Due, k
  <2>2. SkipHeader(w0, b) = 2 * C + 1
    BY <1>3, <1>6, Zenon DEF SkipHeader
  <2>3. /\ w0.par[b] \div 2 = C /\ Used(w0.waiting, k) \in Queues
        /\ w0.waiting[1].n > 0 /\ w0.failed = FALSE
    BY <1>1, <1>3, <1>4, <1>6, Zenon
  <2>4. w0.waiting[1].n \in Nat
    BY <1>1, <1>6, FrontRun, Zenon
  <2> QED  BY <1>1, <1>3, <1>6, <2>1, <2>2, <2>3, <2>4, ParseBulksLemma, Zenon
<1> HIDE DEF w1
<1>8. /\ w1 \in Worlds /\ w1.io = w.io /\ w1.rcv = w.rcv
      /\ w1.par = [w.par EXCEPT ![b] = par1]
      /\ w1.pro = [w.pro EXCEPT ![b] = 2 * C + 1]
      /\ w1.absent = [w.absent EXCEPT ![b] = key_count(b) - C - k]
      /\ w1.complete = (IF par1 = Full(b) /\ w.rcv[b] = par1
                        THEN w.complete \cup {b} ELSE w.complete)
      /\ w1.bad = w.bad /\ w1.writing = NoWrite /\ w1.replying = b
      /\ w1.waiting = Used(w.waiting, k) /\ w1.over = "no" /\ w1.failed = FALSE
  BY <1>1, <1>6, <1>7, Zenon DEF Bulks
<1>9. /\ par1 \in Nat /\ hi \in {par1 - 1, par1} /\ hi \in Nat
      /\ hi >= 2 * C + 2 /\ par1 > 0
  BY <1>2, <1>3 DEF Lower
<1> HIDE DEF par1, hi
<1>10. /\ w1.par[b] = par1 /\ w1.pro[b] = 2 * C + 1 /\ w1.rcv[b] = w.rcv[b]
       /\ w1.absent[b] = key_count(b) - C - k
       /\ \A c \in Backends : c # b =>
            /\ w1.par[c] = w.par[c] /\ w1.pro[c] = w.pro[c]
            /\ w1.absent[c] = w.absent[c]
  BY <1>1, <1>8, Fields, SMTT(30) DEF Counts
<1>11. unprocessed(w1, b) # 0
  <2>1. unprocessed(w1, b) = hi - (2 * C + 1)
    BY <1>10, Zenon DEF unprocessed, hi
  <2> QED  BY <1>3, <1>9, <2>1
<1>12. wr \in Writes /\ wr.from = b /\ wr.lo = 2 * C + 2 /\ wr.hi = hi
  BY <1>1, <1>3, <1>9, SMTT(30) DEF Writes
<1>13. /\ [w1.pro EXCEPT ![b] = hi] \in Counts /\ [w1.pro EXCEPT ![b] = hi][b] = hi
       /\ \A c \in Backends : c # b => [w1.pro EXCEPT ![b] = hi][c] = w1.pro[c]
  BY <1>1, <1>8, <1>9, Fields, SMTT(30) DEF Counts
<1>14. v = w2
  <2>1. TryWriteReply(w1, b) = w2
    <3>1. w1.pro[b] + 1 = 2 * C + 2
      BY <1>3, <1>10
    <3> QED  BY <1>8, <1>10, <1>11, <3>1, Zenon DEF TryWriteReply, hi
  <2>2. ParseReply(w0, b) = w1
    <3>1. unprocessed(w0, b) = 0
      BY <1>1, <1>2, <1>6 DEF unprocessed, Lower
    <3>2. w0.rcv[b] > w0.par[b] /\ ~(w0.par[b] = 0 /\ w0.absent[b] > 0)
      <4>1. w.par[b] = 0 => w.absent[b] = 0
        <5>1. /\ w.par[b] = (IF C = 0 THEN 0 ELSE 2 * C + 1)
              /\ w.absent[b] = (IF C = 0 THEN 0 ELSE key_count(b) - C)
          BY <1>1, Zenon DEF Tallied, C
        <5> QED  BY <1>3, <5>1
      <4> QED  BY <1>1, <1>2, <1>6, <4>1
    <3> QED  BY <3>1, <3>2 DEF ParseReply, w1
  <2>3. v = (IF w1.over = "aborted" THEN w1
             ELSE IF unprocessed(w1, b) = 0 THEN TryReadMoreReply(w1, b)
             ELSE TryWriteReply(w1, b))
    BY <1>1, <2>2, Zenon DEF BackendReadyToReply, IsTurnOf, InFront, w0
  <2> QED  BY <1>8, <1>11, <2>1, <2>3, Zenon
<1> HIDE DEF wr
<1>15. /\ w2 \in Worlds /\ w2.io = w.io /\ w2.rcv = w.rcv /\ w2.par = w1.par
       /\ w2.pro = [w1.pro EXCEPT ![b] = hi]
       /\ w2.absent = w1.absent /\ w2.complete = w1.complete
       /\ w2.bad = w.bad /\ w2.writing = wr /\ w2.replying = b
       /\ w2.waiting = w1.waiting /\ w2.over = "no" /\ w2.failed = FALSE
  BY <1>8, <1>12, <1>13, Zenon DEF Worlds
<1> HIDE DEF w2
<1>16. HandedOn(w, w2, b)
  <2>1. \A c \in Backends : c # b =>
          /\ w2.par[c] = w.par[c] /\ w2.absent[c] = w.absent[c]
          /\ w2.pro[c] = w.pro[c]
    BY <1>10, <1>13, <1>15
  <2>2. \A c \in Backends : c # b => (c \in w2.complete <=> c \in w.complete)
    BY <1>8, <1>15
  <2>3. InFront(w2, b)
    BY <1>4, <1>8, <1>15, Zenon DEF InFront
  <2>4. /\ w2.par[b] = par1 /\ w2.pro[b] = hi /\ w2.writing.hi = hi
        /\ w2.writing.from = b /\ w2.writing.lo = 2 * C + 2
    BY <1>10, <1>12, <1>13, <1>15, Zenon
  <2>5. w2.writing.lo \in 2..w2.writing.hi
    BY <1>3, <1>9, <2>4
  <2>6. w2.writing.hi = Lower(w2.rcv[b], w2.par[b])
    BY <1>15, <2>4, Zenon DEF hi
  <2>7. w2.par[b] > 0 /\ w2.writing.hi \in {w2.par[b] - 1, w2.par[b]}
    BY <1>9, <2>4, Zenon
  <2>8. w2.over = w.over /\ w2.failed = w.failed
    BY <1>1, <1>15, Zenon
  <2> QED  BY <1>15, <2>1, <2>2, <2>3, <2>4, <2>5, <2>6, <2>7, <2>8, Zenon
    DEF HandedOn
<1>17. Lined(w2, f)
  BY <1>4, <1>8, <1>15, Zenon
<1>18. /\ Cnt(b, f[0]) = C + k
       /\ \A c \in Backends : c # b => Cnt(c, f[0]) = Cnt(c, e[0])
  <2>1. /\ Cnt(b, e[0] + k) = Cnt(b, e[0]) + k
        /\ \A c : c # b => Cnt(c, e[0] + k) = Cnt(c, e[0])
    <3>1. \A i \in (e[0] + 1)..(e[0] + k) : owners[i] = b
      BY <1>4, Zenon
    <3>2. e[0] \in Nat /\ k \in Nat
      BY <1>3, <1>5, Zenon
    <3> DEFINE p == e[0]
    <3>3. p \in Nat /\ \A i \in (p + 1)..(p + k) : owners[i] = b
      BY <3>1, <3>2, Zenon
    <3> HIDE DEF p
    <3>4. /\ Cnt(b, p + k) = Cnt(b, p) + k
          /\ \A c : c # b => Cnt(c, p + k) = Cnt(c, p)
      BY <3>2, <3>3, CntAdds
    <3> QED  BY <3>4, Zenon DEF p
  <2> QED  BY <1>4, <2>1, Zenon DEF C
<1>19. Tallied(w2, f[0], b)
  <2>1. C + k # 0 /\ key_count(b) - C - k = key_count(b) - (C + k)
    BY <1>3
  <2>2. w2.par[b] = 2 * (C + k) + 1 /\ w2.absent[b] = key_count(b) - (C + k)
    BY <1>10, <1>15, <2>1, Zenon DEF par1
  <2>3. w2.rcv[b] \in 0..Full(b)
    BY <1>2, <1>15, Zenon
  <2> QED  BY <1>18, <2>1, <2>2, <2>3, Zenon DEF Tallied
<1>20. b \in w2.complete <=> w2.par[b] = Full(b) /\ w2.rcv[b] = Full(b)
  <2>1. w2.complete = (IF par1 = Full(b) /\ w.rcv[b] = par1
                       THEN w.complete \cup {b} ELSE w.complete)
    BY <1>8, <1>15, Zenon
  <2>2. w2.par[b] = par1 /\ w2.rcv[b] = w.rcv[b] /\ b \notin w.complete
    BY <1>1, <1>10, <1>15, Zenon
  <2> QED  BY <2>1, <2>2, Zenon
<1>21. Len(o) = 2 * f[0] - w2.par[b] + w2.writing.lo - 1
  <2>1. w2.par[b] = 2 * (C + k) + 1 /\ w2.writing.lo = 2 * C + 2
    BY <1>10, <1>12, <1>15, Zenon DEF par1
  <2>2. 2 * e[0] = 2 * (e[0] + k) - (2 * (C + k) + 1) + (2 * C + 2) - 1
    BY <1>3, <1>5, SMTT(30)
  <2> QED  BY <1>1, <1>4, <2>1, <2>2, Zenon
<1>22. ASSUME NEW u \in w2.writing.lo..w2.par[b]
       PROVE  Expected[2 * f[0] - w2.par[b] + u] = <<b, u>>
  <2>1. w2.par[b] = 2 * (C + k) + 1 /\ w2.writing.lo = 2 * C + 2
    BY <1>10, <1>12, <1>15 DEF par1
  <2>2. u \in (2 * C + 2)..(2 * (C + k) + 1)
    BY <1>22, <2>1, Zenon
  <2>3. e[0] + k <= Len(owners)
    BY <1>4, <1>5
  <2>4. Expected[2 * (e[0] + k) - (2 * (C + k) + 1) + u] = <<b, u>>
    <3>1. \A i \in (e[0] + 1)..(e[0] + k) : owners[i] = b
      BY <1>4, Zenon
    <3>2. e[0] \in Nat /\ k \in Nat /\ b \in Backends
      BY <1>1, <1>3, <1>5, Zenon
    <3> QED  BY <2>2, <2>3, <3>1, <3>2, ExpectedUnits, Zenon DEF C
  <2> QED  BY <1>4, <2>1, <2>4
<1>23. Sound(w2, f, o)
  BY <1>16, <1>17, <1>18, <1>19, <1>20, <1>21, <1>22, HandedOnSound, Zenon
<1> QED  BY <1>14, <1>23, Zenon

\* A backend whose turn it is replies as far as it can.
LEMMA TurnReplies ==
  ASSUME Keyed, NEW w, NEW e, NEW o, NEW b, Turning(w, e, o, b)
  PROVE  \E f : Sound(BackendReadyToReply(w, b, TRUE, TRUE), f, o)
<1>1. CASE RestOf(w, e[0], o, b)
  BY <1>1, RestReplies, Zenon
<1>2. CASE MoreOf(w, e[0], o, b)
  <2>1. CASE Due(w, (w.rcv[b] \div 2) - (w.par[b] \div 2)) = 0
    BY <1>2, <2>1, HeaderReplies, Zenon
  <2>2. CASE Due(w, (w.rcv[b] \div 2) - (w.par[b] \div 2)) # 0
    BY <1>2, <2>2, BulksReply, Zenon
  <2> QED  BY <2>1, <2>2, Zenon
<1> QED  BY <1>1, <1>2, Zenon DEF Turning

-----------------------------------------------------------------------------
(* The steps.                                                              *)

\* The invariant is about the fields of a world and the keys.
LEMMA Carried ==
  ASSUME UNCHANGED owners, NEW v, World' = v, NEW f, Sound(v, f, out')
  PROVE  (\E e : Sound(World, e, out))'
<1>1. Backends' = Backends
  BY Zenon DEF Backends
<1>2. Expected' = Expected
  BY Zenon DEF Expected
<1>3. Worlds' = Worlds
  BY <1>1 DEF Worlds, Ios, Counts, Writes, Queues, RunsOf
<1>4. Lined(World, f)'
  BY Zenon DEF Sound, Lined, EndsAt
<1>5. ASSUME NEW b \in Backends
      PROVE  Account(World, f[0], b)' /\ Level(World, f[0], b)'
  <2>1. Account(v, f[0], b) /\ Level(v, f[0], b)
    BY <1>5, Zenon DEF Sound
  <2>2. Account(World, f[0], b)'
    BY <2>1, Zenon DEF Account, Tallied, Cnt, Full, key_count, InFront
  <2>3. Level(World, f[0], b)'
    BY <1>2, <2>1, Zenon DEF Level, InFront
  <2> QED  BY <2>2, <2>3, Zenon
<1>6. FrontBusy(World)' /\ Ending(World)'
  BY <1>1, Zenon DEF Sound, FrontBusy, Ending, InFront, NoWrite
<1>7. Written(World, f[0], out)'
  BY <1>1, <1>2, Zenon DEF Sound, Written, Idle, Busy, InFront, NoWrite
<1>8. Given(World, out)'
  BY <1>1, <1>2, Zenon DEF Sound, Given, Units
<1>9. Sound(World, f, out)'
  BY <1>1, <1>3, <1>4, <1>5, <1>6, <1>7, <1>8, Zenon DEF Sound
<1> QED  BY <1>9, Zenon

LEMMA BecomeIs ==
  ASSUME NEW v \in Worlds, Become(v)
  PROVE  World' = v
BY Zenon DEF Become, World, Worlds

\* v is w but for the fields of one backend, the marks of bad backends and
\* the end.
SameButFor(w, v, b) ==
  /\ v \in Worlds /\ v.writing = w.writing /\ v.replying = w.replying
  /\ v.waiting = w.waiting /\ v.failed = w.failed /\ v.complete = w.complete
  /\ v.par = w.par /\ v.pro = w.pro /\ v.absent = w.absent
  /\ \A c \in Backends : c # b =>
       /\ v.io[c] = w.io[c] /\ v.rcv[c] = w.rcv[c]
       /\ c \in v.bad <=> c \in w.bad
  /\ v.over = "no" => w.over = "no"
  /\ v.over = "done" => w.over = "done"

\* A change to one backend that keeps its own account.
LEMMA OneBackendSound ==
  ASSUME Keyed, NEW w, NEW e, NEW o, Sound(w, e, o), NEW b \in Backends,
         NEW v, SameButFor(w, v, b), Account(v, e[0], b),
         v.io[b] = "none" \/ w.par[b] = 0,
         \/ v.rcv[b] = w.rcv[b] /\ v.bad = w.bad
         \/ w.par[b] = 0
  PROVE  Sound(v, e, o)
<1>1. w \in Worlds /\ v \in Worlds
  BY Zenon DEF Sound, SameButFor
<1>2. \A c \in Backends : /\ v.rcv[c] \in Nat /\ v.par[c] \in Nat
                          /\ w.rcv[c] \in Nat /\ w.par[c] \in Nat
  BY <1>1, Numbers, Zenon
<1>3. \A c : InFront(v, c) <=> InFront(w, c)
  BY Zenon DEF SameButFor, InFront
<1>4. \A c \in Backends : /\ v.par[c] = w.par[c] /\ v.pro[c] = w.pro[c]
                          /\ v.absent[c] = w.absent[c]
                          /\ c \in v.complete <=> c \in w.complete
                          /\ c # b => v.io[c] = w.io[c] /\ v.rcv[c] = w.rcv[c]
  BY Zenon DEF SameButFor
<1>5. \A c \in Backends : v.par[c] > v.rcv[c] <=> w.par[c] > w.rcv[c]
  BY <1>2, <1>4
<1>6. ASSUME NEW c \in Backends
      PROVE  Account(v, e[0], c) /\ Level(v, e[0], c)
  <2>1. Account(w, e[0], c) /\ Level(w, e[0], c)
    BY <1>6, Zenon DEF Sound
  <2>2. CASE c # b
    <3>1. Account(v, e[0], c)
      BY <1>3, <1>4, <2>1, <2>2, Zenon DEF Account, Tallied
    <3>2. Level(v, e[0], c)
      BY <1>3, <1>4, <2>1, <2>2, Zenon DEF Level, SameButFor
    <3> QED  BY <3>1, <3>2, Zenon
  <2>3. CASE c = b
    <3>1. Account(v, e[0], c)
      BY <2>3, Zenon
    <3>2. CASE w.par[b] = 0
      <4>1. w.par[b] <= w.rcv[b] /\ v.par[b] <= v.rcv[b]
        BY <1>2, <1>4, <3>2
      <4> QED  BY <1>4, <2>1, <2>3, <3>1, <4>1, Zenon DEF Level
    <3>3. CASE v.rcv[b] = w.rcv[b]
      <4>1. Level(v, e[0], c)
        BY <1>3, <1>4, <2>1, <2>3, <3>3, Zenon DEF Level, SameButFor
      <4> QED  BY <3>1, <4>1, Zenon
    <3> QED  BY <3>2, <3>3, Zenon
  <2> QED  BY <2>2, <2>3, Zenon
<1>7. FrontBusy(v)
  BY <1>3, <1>5, Zenon DEF Sound, FrontBusy, SameButFor
<1>8. Ending(v)
  BY Zenon DEF Sound, Ending, SameButFor
<1>9. Written(v, e[0], o)
  <2>1. Written(w, e[0], o) /\ v.writing = w.writing /\ v.replying = w.replying
    BY Zenon DEF Sound, SameButFor
  <2>2. CASE w.writing = NoWrite
    <3>1. (\A c \in Backends : v.par[c] <= v.rcv[c])
            <=> (\A c \in Backends : w.par[c] <= w.rcv[c])
      BY <1>2, <1>5
    <3> QED  BY <1>5, <2>1, <2>2, <3>1, Zenon DEF Written, Idle
  <2>3. CASE w.writing # NoWrite
    <3> DEFINE c == w.writing.from
    <3>1. Busy(w, e[0], o, c)
      BY <2>1, <2>3, Zenon DEF Written
    <3>2. c \in Backends /\ w.io[c] = "none" /\ w.par[c] > 0
      BY <3>1, Zenon DEF Busy
    <3>3. v.io[c] = "none"
      BY <1>2, <1>4, <3>2
    <3>4. Busy(v, e[0], o, c)
      BY <1>3, <1>4, <2>1, <3>1, <3>2, <3>3, Zenon DEF Busy
    <3> QED  BY <2>1, <2>3, <3>4, Zenon DEF Written
  <2> QED  BY <2>2, <2>3, Zenon
<1>10. Given(v, o)
  <2>1. Given(w, o)
    BY Zenon DEF Sound
  <2>2. \A k \in DOMAIN o : o[k].b \in Backends
    <3>1. \A k \in DOMAIN o : o[k] \in Units
      BY <2>1, SeqElement DEF Given
    <3> QED  BY <3>1, Zenon DEF Units
  <2>3. \A k \in DOMAIN o : o[k].b \in v.bad <=> o[k].b \in w.bad
    <3> SUFFICES ASSUME NEW k \in DOMAIN o
                 PROVE  o[k].b \in v.bad <=> o[k].b \in w.bad
      BY Zenon
    <3>1. w.par[o[k].b] > 0
      BY <2>1, Zenon DEF Given
    <3>2. CASE o[k].b = b
      BY <1>2, <3>1, <3>2
    <3>3. CASE o[k].b # b
      BY <2>2, <3>3, Zenon DEF SameButFor
    <3> QED  BY <3>2, <3>3, Zenon
  <2>4. \A k \in DOMAIN o : (o[k].b \in v.bad) = (o[k].b \in w.bad)
    BY <2>3
  <2> QED  BY <1>4, <2>1, <2>2, <2>4, Zenon DEF Given
<1>11. Lined(v, e) /\ v.failed = FALSE
  BY Zenon DEF Sound, Lined, SameButFor
<1> QED  BY <1>1, <1>6, <1>7, <1>8, <1>9, <1>10, <1>11, Zenon DEF Sound

\* The place in the keys.
LEMMA PlaceType ==
  ASSUME Keyed, NEW w, NEW e, NEW o, Sound(w, e, o)
  PROVE  e[0] \in 0..Len(owners) /\ e[0] \in Nat /\ Len(w.waiting) \in Nat
<1>1. w.waiting \in Seq(RunsOf(owners))
  BY Fields, Zenon DEF Sound, Queues
<1>2. Len(w.waiting) \in Nat /\ 0 \in 0..Len(w.waiting)
  BY <1>1
<1>3. e \in [0..Len(w.waiting) -> 0..Len(owners)]
  BY Zenon DEF Sound, Lined, EndsAt
<1>4. e[0] \in 0..Len(owners)
  BY <1>2, <1>3, Zenon
<1> QED  BY <1>2, <1>4

LEMMA AbortSound ==
  ASSUME Keyed, NEW w, NEW e, NEW o, Sound(w, e, o)
  PROVE  Sound(Abort(w), e, o) /\ Abort(w) \in Worlds
<1> DEFINE v == Abort(w)
<1>1. w \in Worlds
  BY Zenon DEF Sound
<1>2. /\ v \in Worlds /\ v.io = w.io /\ v.rcv = w.rcv /\ v.par = w.par
      /\ v.pro = w.pro /\ v.absent = w.absent /\ v.complete = w.complete
      /\ v.bad = w.bad /\ v.writing = w.writing /\ v.replying = w.replying
      /\ v.waiting = w.waiting /\ v.over = "aborted" /\ v.failed = w.failed
  BY <1>1, Zenon DEF Worlds, Abort
<1> HIDE DEF v
<1>3. \A b \in Backends : Account(v, e[0], b) /\ Level(v, e[0], b)
  BY <1>2 DEF Sound, Account, Tallied, Level, InFront
<1>4. FrontBusy(v) /\ Ending(v) /\ Written(v, e[0], o)
  BY <1>2, Zenon DEF Sound, FrontBusy, Ending, Written, Idle, Busy, InFront
<1>5. Given(v, o) /\ Lined(v, e) /\ v.failed = FALSE
  BY <1>2, Zenon DEF Sound, Given, Lined
<1>6. Sound(v, e, o)
  BY <1>2, <1>3, <1>4, <1>5, Zenon DEF Sound
<1> QED  BY <1>2, <1>6, Zenon DEF v

\* An operation on b ends, or its first read starts.
LEMMA IoSound ==
  ASSUME Keyed, NEW w, NEW e, NEW o, Sound(w, e, o), NEW b \in Backends,
         NEW x, x = "none" \/ (x = "read" /\ w.io[b] = "query")
  PROVE  LET v == [w EXCEPT !.io[b] = x] IN
         /\ Sound(v, e, o) /\ v \in Worlds
         /\ v.rcv = w.rcv /\ v.par = w.par /\ v.pro = w.pro /\ v.absent = w.absent
         /\ v.complete = w.complete /\ v.bad = w.bad /\ v.writing = w.writing
         /\ v.replying = w.replying /\ v.waiting = w.waiting /\ v.over = w.over
         /\ v.failed = w.failed /\ v.io[b] = x
         /\ \A c \in Backends : c # b => v.io[c] = w.io[c]
<1> DEFINE v == [w EXCEPT !.io[b] = x]
           i == [w.io EXCEPT ![b] = x]
<1>1. w \in Worlds /\ w.io \in Ios
  BY Fields, Zenon DEF Sound
<1>2. i \in Ios /\ i[b] = x /\ \A c \in Backends : c # b => i[c] = w.io[c]
  BY <1>1, Zenon DEF Ios
<1> HIDE DEF i
<1>3. /\ v \in Worlds /\ v.io = i /\ v.rcv = w.rcv /\ v.par = w.par
      /\ v.pro = w.pro /\ v.absent = w.absent /\ v.complete = w.complete
      /\ v.bad = w.bad /\ v.writing = w.writing /\ v.replying = w.replying
      /\ v.waiting = w.waiting /\ v.over = w.over /\ v.failed = w.failed
  BY <1>1, <1>2, Zenon DEF Worlds, i
<1> HIDE DEF v
<1>4. SameButFor(w, v, b)
  BY <1>2, <1>3, Zenon DEF SameButFor
<1>5. Account(w, e[0], b)
  BY Zenon DEF Sound
<1>6. Account(v, e[0], b) /\ (v.io[b] = "none" \/ w.par[b] = 0)
  BY <1>2, <1>3, <1>5, Zenon DEF Account, Tallied
<1>7. Sound(v, e, o)
  BY <1>3, <1>4, <1>6, OneBackendSound, Zenon
<1> QED  BY <1>2, <1>3, <1>7, Zenon DEF v

\* The reply of b is replaced by nil bulks.
LEMMA NilBulksSound ==
  ASSUME Keyed, NEW w, NEW e, NEW o, Sound(w, e, o), NEW b \in Backends,
         w.io[b] = "none", w.par[b] = 0
  PROVE  LET v == [w EXCEPT !.rcv[b] = Full(b), !.par[b] = 0, !.pro[b] = 0,
                            !.bad = @ \cup {b}] IN
         /\ Sound(v, e, o) /\ v.io[b] = "none" /\ v.par[b] = 0
         /\ v.rcv[b] > v.par[b] /\ v.over = w.over
<1> DEFINE v == [w EXCEPT !.rcv[b] = Full(b), !.par[b] = 0, !.pro[b] = 0,
                          !.bad = @ \cup {b}]
           r == [w.rcv EXCEPT ![b] = Full(b)]
<1>1. /\ w \in Worlds /\ w.rcv \in Counts /\ w.par \in Counts /\ w.pro \in Counts
      /\ w.bad \cup {b} \in SUBSET Backends
  BY Fields, Zenon DEF Sound
<1>2. /\ Full(b) \in Nat /\ Full(b) = 2 * key_count(b) + 1 /\ key_count(b) \in Nat
      /\ key_count(b) >= 1
  BY PlaceType, CntBounds, Zenon
<1>3. r \in Counts /\ r[b] = Full(b) /\ \A c \in Backends : c # b => r[c] = w.rcv[c]
  BY <1>1, <1>2, Zenon DEF Counts
<1>4. w.pro[b] = 0
  <2>1. Level(w, e[0], b) /\ w.rcv[b] \in Nat
    BY <1>1, Numbers, Zenon DEF Sound
  <2> QED  BY <2>1 DEF Level
<1>5. [w.par EXCEPT ![b] = 0] = w.par /\ [w.pro EXCEPT ![b] = 0] = w.pro
  BY <1>1, <1>4, Zenon DEF Counts
<1> HIDE DEF r
<1>6. v = [w EXCEPT !.rcv = r, !.par = w.par, !.pro = w.pro, !.bad = w.bad \cup {b}]
  BY <1>1, <1>5, Zenon DEF r, Worlds
<1>7. /\ v \in Worlds /\ v.io = w.io /\ v.rcv = r /\ v.par = w.par
      /\ v.pro = w.pro /\ v.absent = w.absent /\ v.complete = w.complete
      /\ v.bad = w.bad \cup {b} /\ v.writing = w.writing /\ v.replying = w.replying
      /\ v.waiting = w.waiting /\ v.over = w.over /\ v.failed = w.failed
  BY <1>1, <1>3, <1>6, ZenonT(60) DEF Worlds
<1> HIDE DEF v
<1>8. SameButFor(w, v, b)
  BY <1>3, <1>7, Zenon DEF SameButFor
<1>9. Account(w, e[0], b)
  BY Zenon DEF Sound
<1>10. Account(v, e[0], b)
  <2>1. v.rcv[b] \in 0..Full(b) /\ v.par[b] # Full(b) /\ w.par[b] # Full(b)
    BY <1>2, <1>3, <1>7
  <2> QED  BY <1>3, <1>7, <1>9, <2>1, Zenon DEF Account, Tallied
<1>11. Sound(v, e, o)
  BY <1>7, <1>8, <1>10, OneBackendSound, Zenon
<1>12. /\ Sound(v, e, o) /\ v.io[b] = "none" /\ v.par[b] = 0
       /\ v.rcv[b] > v.par[b] /\ v.over = w.over
  BY <1>2, <1>3, <1>7, <1>11
<1> QED  BY <1>12, Zenon DEF v

\* A read of b brings the first units, or the first bulks, of its reply.
LEMMA ReceivedSound ==
  ASSUME Keyed, NEW w, NEW e, NEW o, Sound(w, e, o), NEW b \in Backends,
         w.io[b] = "none", w.par[b] = 0, NEW u \in 1..Full(b)
  PROVE  LET v == [w EXCEPT !.rcv[b] = u] IN
         /\ Sound(v, e, o) /\ v.io[b] = "none" /\ v.par[b] = 0
         /\ v.rcv[b] > v.par[b] /\ v.over = w.over
<1> DEFINE v == [w EXCEPT !.rcv[b] = u]
           r == [w.rcv EXCEPT ![b] = u]
<1>1. w \in Worlds /\ w.rcv \in Counts
  BY Fields, Zenon DEF Sound
<1>2. /\ Full(b) \in Nat /\ Full(b) = 2 * key_count(b) + 1 /\ key_count(b) \in Nat
      /\ key_count(b) >= 1
  BY PlaceType, CntBounds, Zenon
<1>3. /\ u \in Nat /\ u > 0
      /\ r \in Counts /\ r[b] = u /\ \A c \in Backends : c # b => r[c] = w.rcv[c]
  BY <1>1, <1>2 DEF Counts
<1> HIDE DEF r
<1>4. /\ v \in Worlds /\ v.io = w.io /\ v.rcv = r /\ v.par = w.par
      /\ v.pro = w.pro /\ v.absent = w.absent /\ v.complete = w.complete
      /\ v.bad = w.bad /\ v.writing = w.writing /\ v.replying = w.replying
      /\ v.waiting = w.waiting /\ v.over = w.over /\ v.failed = w.failed
  BY <1>1, <1>3, Zenon DEF Worlds, r
<1> HIDE DEF v
<1>5. SameButFor(w, v, b)
  BY <1>3, <1>4, Zenon DEF SameButFor
<1>6. Account(w, e[0], b)
  BY Zenon DEF Sound
<1>7. Account(v, e[0], b)
  <2>1. v.rcv[b] \in 0..Full(b) /\ v.par[b] # Full(b) /\ w.par[b] # Full(b)
    BY <1>2, <1>3, <1>4
  <2> QED  BY <1>3, <1>4, <1>6, <2>1, Zenon DEF Account, Tallied
<1>8. Sound(v, e, o)
  BY <1>4, <1>5, <1>7, OneBackendSound, Zenon
<1> QED  BY <1>3, <1>4, <1>8, Zenon DEF v

\* The backend in front has received no end of a bulk, and so has no other.
LEMMA NoneHalf ==
  ASSUME Keyed, NEW w, NEW e, NEW o, Sound(w, e, o), NEW b \in Backends,
         InFront(w, b)
  PROVE  \A c \in Backends : c # b =>
           Account(w, e[0], c) /\ w.par[c] <= w.rcv[c] /\ w.pro[c] = w.par[c]
<1> SUFFICES ASSUME NEW c \in Backends, c # b
             PROVE  Account(w, e[0], c) /\ w.par[c] <= w.rcv[c] /\ w.pro[c] = w.par[c]
  BY Zenon
<1>1. Account(w, e[0], c) /\ Level(w, e[0], c)
  BY Zenon DEF Sound
<1>2. ~InFront(w, c)
  BY Zenon DEF InFront
<1> QED  BY <1>1, <1>2, Zenon DEF Level

\* A backend with new units is looked at: it replies if it is its turn.
LEMMA ReadyLemma ==
  ASSUME Keyed, NEW w, NEW e, NEW o, Sound(w, e, o), NEW b \in Backends,
         w.over = "no", w.io[b] = "none", w.rcv[b] > w.par[b],
         w.writing = NoWrite \/ w.par[b] = 0,
         NEW isFirst \in BOOLEAN, NEW ready \in BOOLEAN
  PROVE  \E f : Sound(BackendReadyToReply(w, b, isFirst, ready), f, o)
<1>1. w.waiting # <<>> /\ w \in Worlds
  BY Zenon DEF Sound, Ending
<1>2. CASE isFirst /\ ready /\ InFront(w, b)
  <2>1. BackendReadyToReply(w, b, isFirst, ready) = BackendReadyToReply(w, b, TRUE, TRUE)
    BY <1>2, Zenon DEF BackendReadyToReply
  <2>2. w.writing = NoWrite
    <3>1. ASSUME w.writing # NoWrite PROVE FALSE
      <4>1. Busy(w, e[0], o, w.writing.from)
        BY <3>1, Zenon DEF Sound, Written
      <4>2. w.writing.from = b /\ w.par[w.writing.from] > 0
        BY <1>2, <4>1, Zenon DEF Busy, InFront
      <4> QED  BY <3>1, <4>2
    <3> QED  BY <3>1, Zenon
  <2>3. /\ w.rcv[b] \in Nat /\ w.par[b] \in Nat
        /\ \A c \in Backends : w.rcv[c] \in Nat /\ w.par[c] \in Nat
    BY <1>1, Numbers, Zenon
  <2>4. Account(w, e[0], b) /\ Level(w, e[0], b)
    BY Zenon DEF Sound
  <2>5. w.pro[b] = w.par[b]
    BY <2>3, <2>4 DEF Level
  <2>6. \A c \in Backends : c # b =>
          Account(w, e[0], c) /\ w.par[c] <= w.rcv[c] /\ w.pro[c] = w.par[c]
    BY <1>2, NoneHalf, Zenon
  <2>7. Len(o) = 2 * e[0]
    <3>1. \A c \in Backends : w.par[c] <= w.rcv[c]
      BY <2>3, <2>6
    <3>2. Idle(w, e[0], o)
      BY <2>2, Zenon DEF Sound, Written
    <3> QED  BY <3>1, <3>2, Zenon DEF Idle
  <2>8. w.waiting[1].n > 0
    BY <1>2, <2>2, <2>3, SMTT(30) DEF Sound, FrontBusy
  <2>9. b \notin w.complete
    <3>1. Full(b) \in Nat
      BY PlaceType, CntBounds, Zenon
    <3> QED  BY <2>3, <2>4, <3>1 DEF Account, Tallied
  <2>10. MoreOf(w, e[0], o, b)
    BY <2>5, <2>7, <2>8, Zenon DEF MoreOf
  <2>11. Turning(w, e, o, b)
    BY <1>1, <1>2, <2>2, <2>4, <2>6, <2>9, <2>10, Zenon DEF Turning, Sound, Account
  <2> QED  BY <2>1, <2>11, TurnReplies, Zenon
<1>3. CASE ~(isFirst /\ ready /\ InFront(w, b))
  <2>1. BackendReadyToReply(w, b, isFirst, ready) = w
    <3>1. IsTurnOf(w, b) <=> InFront(w, b)
      BY <1>1, Zenon DEF IsTurnOf, InFront
    <3> QED  BY <1>1, <1>3, <3>1, Zenon DEF BackendReadyToReply
  <2> QED  BY <2>1, Zenon
<1> QED  BY <1>2, <1>3, Zenon

\* OnBackendRecoverableError.
LEMMA ErrorLemma ==
  ASSUME Keyed, NEW w, NEW e, NEW o, Sound(w, e, o), NEW b \in Backends,
         w.over = "no", w.io[b] = "none", w.par[b] = 0, first \in BOOLEAN
  PROVE  \E f : Sound(OnBackendRecoverableError(w, b), f, o)
<1> DEFINE v == [w EXCEPT !.rcv[b] = Full(b), !.par[b] = 0, !.pro[b] = 0,
                          !.bad = @ \cup {b}]
           ready == prefix = "done"
<1>1. /\ Sound(v, e, o) /\ v.io[b] = "none" /\ v.par[b] = 0
      /\ v.rcv[b] > v.par[b] /\ v.over = w.over
  BY NilBulksSound, Zenon
<1>2. OnBackendRecoverableError(w, b) = BackendReadyToReply(v, b, first, ready)
  BY Zenon DEF OnBackendRecoverableError
<1>3. ready \in BOOLEAN
  BY Zenon
<1> HIDE DEF v, ready
<1>4. \E f : Sound(BackendReadyToReply(v, b, first, ready), f, o)
  BY <1>1, <1>3, ReadyLemma, Zenon
<1> QED  BY <1>2, <1>4, Zenon

\* A read of b brings the end of the bulk that is being forwarded.
LEMMA RestLemma ==
  ASSUME Keyed, NEW w, NEW e, NEW o, Sound(w, e, o), NEW b \in Backends,
         w.over = "no", w.io[b] = "none", w.par[b] > w.rcv[b],
         w.writing = NoWrite, NEW u \in 1..Full(b), u > w.rcv[b]
  PROVE  \E f : Sound(BackendReadyToReply([w EXCEPT !.rcv[b] = u], b, TRUE, TRUE), f, o)
<1> DEFINE v == [w EXCEPT !.rcv[b] = u]
           r == [w.rcv EXCEPT ![b] = u]
<1>1. w \in Worlds /\ w.rcv \in Counts
  BY Fields, Zenon DEF Sound
<1>2. /\ Full(b) \in Nat /\ Full(b) = 2 * key_count(b) + 1 /\ key_count(b) \in Nat
      /\ e[0] \in Nat
  BY PlaceType, CntBounds, Zenon
<1>3. /\ u \in Nat
      /\ r \in Counts /\ r[b] = u /\ \A c \in Backends : c # b => r[c] = w.rcv[c]
  BY <1>1, <1>2 DEF Counts
<1> HIDE DEF r
<1>4. /\ v \in Worlds /\ v.io = w.io /\ v.rcv = r /\ v.par = w.par
      /\ v.pro = w.pro /\ v.absent = w.absent /\ v.complete = w.complete
      /\ v.bad = w.bad /\ v.writing = w.writing /\ v.replying = w.replying
      /\ v.waiting = w.waiting /\ v.over = w.over /\ v.failed = w.failed
  BY <1>1, <1>3, Zenon DEF Worlds, r
<1> HIDE DEF v
<1>5. w.rcv[b] \in Nat /\ w.par[b] \in Nat /\ w.pro[b] \in Nat
  BY <1>1, Numbers, Zenon
<1>6. Account(w, e[0], b) /\ Level(w, e[0], b)
  BY Zenon DEF Sound
<1>7. /\ InFront(w, b) /\ w.rcv[b] = w.par[b] - 1 /\ w.pro[b] = w.rcv[b]
      /\ Expected[2 * e[0]] = <<b, w.par[b]>>
  BY <1>5, <1>6 DEF Level
<1>8. Len(o) = 2 * e[0] - 1
  BY Zenon DEF Sound, Written, Idle
<1>9. RestOf(v, e[0], o, b)
  BY <1>2, <1>3, <1>4, <1>5, <1>7, <1>8, SMTT(30) DEF RestOf
<1>10. \A c \in Backends : c # b =>
         Account(v, e[0], c) /\ v.par[c] <= v.rcv[c] /\ v.pro[c] = v.par[c]
  <2>1. \A c \in Backends : c # b =>
          Account(w, e[0], c) /\ w.par[c] <= w.rcv[c] /\ w.pro[c] = w.par[c]
    BY <1>7, NoneHalf, Zenon
  <2>2. \A c : InFront(v, c) <=> InFront(w, c)
    BY <1>4, Zenon DEF InFront
  <2> QED  BY <1>3, <1>4, <2>1, <2>2 DEF Account, Tallied
<1>11. Tallied(v, e[0], b) /\ b \notin v.complete
  <2>1. v.rcv[b] \in 0..Full(b)
    BY <1>2, <1>3, <1>4
  <2>2. b \notin w.complete
    BY <1>5, <1>6 DEF Account
  <2> QED  BY <1>4, <1>6, <2>1, <2>2, Zenon DEF Account, Tallied
<1>12. Turning(v, e, o, b)
  <2>1. Lined(v, e) /\ InFront(v, b) /\ Given(v, o) /\ v.failed = FALSE
    BY <1>4, <1>7, Zenon DEF Sound, Lined, InFront, Given
  <2> QED  BY <1>4, <1>9, <1>10, <1>11, <2>1, Zenon DEF Turning
<1>13. \E f : Sound(BackendReadyToReply(v, b, TRUE, TRUE), f, o)
  BY <1>12, TurnReplies, Zenon
<1> QED  BY <1>13, Zenon DEF v

\* The backend in front starts to reply with what has come early.
LEMMA NextLemma ==
  ASSUME Keyed, NEW w, NEW e, NEW o, Sound(w, e, o), w.over = "no",
         w.writing = NoWrite, first \in BOOLEAN,
         \A c \in Backends : InFront(w, c) /\ w.rcv[c] > w.par[c] => w.io[c] = "none"
  PROVE  \E f : Sound(NextBackendStartReply(w), f, o)
<1> DEFINE b == w.waiting[1].b
<1>1. w.waiting # <<>> /\ InFront(w, b)
  BY Zenon DEF Sound, Ending, InFront
<1>2. b \in Backends
  BY <1>1, FrontRun, ZenonT(60) DEF Sound
<1> HIDE DEF b
<1>3. CASE w.rcv[b] > w.par[b]
  <2>1. NextBackendStartReply(w) = BackendReadyToReply(w, b, first, TRUE)
    BY <1>3, Zenon DEF NextBackendStartReply, b
  <2>2. w.io[b] = "none"
    BY <1>1, <1>2, <1>3, Zenon
  <2>3. \E f : Sound(BackendReadyToReply(w, b, first, TRUE), f, o)
    BY <1>2, <1>3, <2>2, ReadyLemma, Zenon
  <2> QED  BY <2>1, <2>3, Zenon
<1>4. CASE ~(w.rcv[b] > w.par[b])
  <2>1. NextBackendStartReply(w) = w
    BY <1>4, Zenon DEF NextBackendStartReply, b
  <2> QED  BY <2>1, Zenon
<1> QED  BY <1>3, <1>4, Zenon

\* The run in front is used up and popped.
LEMMA Popped ==
  ASSUME Keyed, NEW w \in Worlds, NEW b, InFront(w, b), NEW e, Lined(w, e),
         w.waiting[1].n = 0
  PROVE  \E f : /\ f[0] = e[0]
                /\ \A v : v.waiting = Tail(w.waiting) => Lined(v, f)
                /\ Tail(w.waiting) \in Queues
                /\ Tail(w.waiting) # <<>> => Tail(w.waiting)[1].n >= 1
<1> DEFINE s == w.waiting
           t == Tail(s)
           R == RunsOf(owners)
           N == Len(owners)
           f == [j \in 0..(Len(s) - 1) |-> e[j + 1]]
<1>1. /\ Len(s) \in Nat /\ Len(s) >= 1 /\ s \in Seq(R)
      /\ e \in [0..Len(s) -> 0..N] /\ e[0] \in 0..N /\ e[1] = e[0] + s[1].n
  BY FrontRun, Zenon
<1>2. N \in Nat
  BY KeysOf, Zenon
<1>3. /\ e[Len(s)] = N
      /\ \A j \in 1..Len(s) :
           /\ e[j] = e[j - 1] + s[j].n
           /\ \A i \in (e[j - 1] + 1)..e[j] : owners[i] = s[j].b
      /\ \A j \in 2..Len(s) : s[j].n >= 1
  BY Zenon DEF Lined, EndsAt
<1>4. e[1] = e[0] /\ s # <<>>
  BY <1>1, <1>2 DEF InFront
<1> HIDE DEF R, s
<1>5. /\ t \in Seq(R) /\ Len(t) = Len(s) - 1
      /\ \A j \in 1..(Len(s) - 1) : t[j] = s[j + 1]
  BY <1>1, <1>4, SeqTail, Zenon
<1>6. \A j \in 0..(Len(s) - 1) : j + 1 \in 0..Len(s)
  BY <1>1
<1>7. f \in [0..Len(t) -> 0..N] /\ f[0] = e[0]
  BY <1>1, <1>4, <1>5, <1>6
<1>8. f[Len(t)] = N
  <2>1. Len(s) - 1 \in 0..(Len(s) - 1) /\ (Len(s) - 1) + 1 = Len(s)
    BY <1>1
  <2> QED  BY <1>3, <1>5, <2>1, Zenon
<1>9. ASSUME NEW j \in 1..Len(t)
      PROVE  /\ f[j] = f[j - 1] + t[j].n /\ t[j].n >= 1
             /\ \A i \in (f[j - 1] + 1)..f[j] : owners[i] = t[j].b
  <2>1. /\ j \in 0..(Len(s) - 1) /\ j \in 1..(Len(s) - 1)
        /\ j - 1 \in 0..(Len(s) - 1)
        /\ j + 1 \in 1..Len(s) /\ j + 1 \in 2..Len(s)
        /\ (j - 1) + 1 = j /\ (j + 1) - 1 = j
    BY <1>1, <1>5
  <2>2. f[j] = e[j + 1] /\ f[j - 1] = e[j] /\ t[j] = s[j + 1]
    BY <1>5, <2>1, Zenon
  <2>3. /\ e[j + 1] = e[j] + s[j + 1].n /\ s[j + 1].n >= 1
        /\ \A i \in (e[j] + 1)..e[j + 1] : owners[i] = s[j + 1].b
    BY <1>3, <2>1, Zenon
  <2> QED  BY <2>2, <2>3, Zenon
<1> HIDE DEF f, t
<1>10. EndsAt(t, f, owners, N)
  BY <1>7, <1>8, <1>9, Zenon DEF EndsAt
<1>11. \A j \in 2..Len(t) : j \in 1..Len(t)
  BY <1>1, <1>5
<1>12. \A v : v.waiting = t => Lined(v, f)
  BY <1>9, <1>10, <1>11, Zenon DEF Lined
<1>13. t # <<>> => t[1].n >= 1
  <2>1. t # <<>> => 1 \in 1..Len(t)
    BY <1>1, <1>5, SeqEmpty
  <2> QED  BY <1>9, <2>1, Zenon
<1> QED  BY <1>5, <1>7, <1>12, <1>13, Zenon DEF Queues, R, s, t

\* What the client has got once the write is done.
Appended(w, o) ==
  o \o [i \in 1..(w.writing.hi - w.writing.lo + 1) |->
         [b |-> w.writing.from, unit |-> w.writing.lo + i - 1,
          nil |-> w.writing.from \in w.bad]]

LEMMA AppendedGiven ==
  ASSUME Keyed, NEW w, NEW e, NEW o, Sound(w, e, o), w.writing # NoWrite
  PROVE  /\ Given(w, Appended(w, o))
         /\ Len(Appended(w, o)) = 2 * e[0] - w.par[w.writing.from] + w.pro[w.writing.from]
<1> DEFINE b == w.writing.from
           lo == w.writing.lo
           hi == w.writing.hi
           m == hi - lo + 1
           g == [i \in 1..m |-> [b |-> b, unit |-> lo + i - 1, nil |-> b \in w.bad]]
           p == e[0]
<1>1. /\ b \in Backends /\ w.par[b] > 0 /\ lo \in 2..hi /\ hi = w.pro[b]
      /\ Len(o) = 2 * p - w.par[b] + lo - 1
      /\ \A u \in lo..w.par[b] : Expected[2 * p - w.par[b] + u] = <<b, u>>
  BY Zenon DEF Sound, Written, Busy
<1>2. /\ w \in Worlds /\ w.par[b] \in Nat /\ w.pro[b] \in Nat /\ w.rcv[b] \in Nat
      /\ p \in Nat
  BY <1>1, Numbers, PlaceType, Zenon DEF Sound
<1>3. w.pro[b] <= w.par[b]
  <2>1. Level(w, e[0], b)
    BY <1>1, Zenon DEF Sound
  <2> QED  BY <1>2, <2>1 DEF Level
<1>4. Given(w, o) /\ o \in Seq(Units) /\ Appended(w, o) = o \o g
  BY Zenon DEF Sound, Given, Appended
<1> HIDE DEF b, lo, hi, p
<1>5. lo \in Nat /\ hi \in Nat /\ m \in Nat /\ m >= 1
  BY <1>1, <1>2, SMTT(30)
<1>6. \A i \in 1..m : [b |-> b, unit |-> lo + i - 1, nil |-> b \in w.bad] \in Units
  BY <1>1, <1>5 DEF Units
<1>7. g \in Seq(Units) /\ Len(g) = m
  <2> HIDE DEF m
  <2>1. g \in [1..m -> Units] /\ m \in Nat
    BY <1>5, <1>6, Zenon
  <2> HIDE DEF g
  <2>2. g \in Seq(Units)
    BY <2>1, SeqFunction, Zenon
  <2>3. DOMAIN g = 1..m /\ DOMAIN g = 1..Len(g) /\ Len(g) \in Nat
    BY <2>1, <2>2, SeqLen, Zenon
  <2> QED  BY <2>1, <2>2, <2>3
<1>8. \A i \in 1..m : g[i].b = b /\ g[i].unit = lo + i - 1 /\ g[i].nil = (b \in w.bad)
  BY Zenon
<1> HIDE DEF g, m
<1>9. /\ o \o g \in Seq(Units) /\ Len(o \o g) = Len(o) + m /\ Len(o) \in Nat
      /\ \A k \in 1..(Len(o) + m) :
           (o \o g)[k] = IF k <= Len(o) THEN o[k] ELSE g[k - Len(o)]
  <2>1. Len(o) \in Nat
    BY <1>4
  <2> QED  BY <1>4, <1>7, <2>1, SeqConcat, Zenon
<1>10. Len(o \o g) = 2 * p - w.par[b] + w.pro[b]
  <2>1. /\ Len(o) = 2 * p - w.par[b] + lo - 1 /\ Len(o \o g) = Len(o) + m
        /\ hi = w.pro[b] /\ m = hi - lo + 1
    BY <1>1, <1>9, Zenon DEF m
  <2>2. \A x, y, l, h \in Nat :
          (2 * x - y + l - 1) + (h - l + 1) = 2 * x - y + h
    OBVIOUS
  <2>3. (2 * p - w.par[b] + lo - 1) + (hi - lo + 1) = 2 * p - w.par[b] + hi
    BY <1>2, <1>5, <2>2
  <2> QED  BY <2>1, <2>3, Zenon
<1>11. ASSUME NEW k \in DOMAIN (o \o g)
       PROVE  LET x == (o \o g)[k] IN
              /\ <<x.b, x.unit>> = Expected[k] /\ w.par[x.b] > 0
              /\ x.nil = (x.b \in w.bad)
  <2>1. k \in 1..(Len(o) + m) /\ k \in Nat
    BY <1>5, <1>9
  <2>2. CASE k <= Len(o)
    <3>1. k \in DOMAIN o /\ (o \o g)[k] = o[k]
      BY <1>4, <1>9, <2>1, <2>2
    <3> QED  BY <1>4, <3>1, Zenon DEF Given
  <2>3. CASE ~(k <= Len(o))
    <3> DEFINE i == k - Len(o)
               u == lo + i - 1
    <3>1. i \in 1..m /\ (o \o g)[k] = g[i]
      BY <1>5, <1>9, <2>1, <2>3
    <3>2. g[i].b = b /\ g[i].unit = u /\ g[i].nil = (b \in w.bad)
      BY <1>8, <3>1, Zenon
    <3>3. u \in lo..w.par[b] /\ 2 * p - w.par[b] + u = k
      <4>1. /\ Len(o) = 2 * p - w.par[b] + lo - 1 /\ hi = w.pro[b]
            /\ m = hi - lo + 1 /\ i = k - Len(o) /\ Len(o) \in Nat
        BY <1>1, <1>9, Zenon DEF m
      <4>2. i \in Nat /\ i >= 1 /\ i <= m
        BY <1>5, <3>1
      <4>4. /\ lo + i - 1 \in lo..w.par[b]
            /\ 2 * p - w.par[b] + (lo + i - 1) = (2 * p - w.par[b] + lo - 1) + i
        <5>1. i \in Nat /\ i >= 1 /\ i <= hi - lo + 1 /\ hi <= w.par[b]
          BY <1>3, <4>1, <4>2, Zenon
        <5> DEFINE y == w.par[b]
        <5>2. p \in Nat /\ y \in Nat /\ lo \in Nat /\ hi \in Nat /\ hi <= y
          BY <1>2, <1>5, <5>1, Zenon
        <5> HIDE DEF i, y
        <5>3. lo + i - 1 \in lo..y /\ 2 * p - y + (lo + i - 1) = (2 * p - y + lo - 1) + i
          BY <5>1, <5>2
        <5> QED  BY <5>3, Zenon DEF y
      <4>5. Len(o) + i = k
        BY <2>1, <4>1
      <4> HIDE DEF i
      <4> QED  BY <4>1, <4>4, <4>5, Zenon
    <3>4. Expected[2 * p - w.par[b] + u] = <<b, u>>
      BY <1>1, <3>3, Zenon
    <3> HIDE DEF i, u
    <3>5. Expected[k] = <<b, u>>
      BY <3>3, <3>4, Zenon
    <3> QED  BY <1>1, <3>1, <3>2, <3>5, Zenon
  <2> QED  BY <2>2, <2>3, Zenon
<1>12. Given(w, o \o g)
  BY <1>9, <1>11, Zenon DEF Given
<1> QED  BY <1>4, <1>10, <1>12, Zenon DEF b, p

-----------------------------------------------------------------------------
(* A write to the client is over.                                          *)

\* The world after the write, and after the pop of a run that is used up.
Freed(w) == [w EXCEPT !.writing = NoWrite]

Rid(w) == [Freed(w) EXCEPT !.waiting = IF w.waiting[1].n = 0 THEN Tail(@) ELSE @]

\* A write is over and the backend has more of a bulk to receive.
LEMMA ReadOnLemma ==
  ASSUME Keyed, NEW w, NEW e, NEW o, Sound(w, e, o), w.writing # NoWrite,
         w.par[w.writing.from] > w.rcv[w.writing.from]
  PROVE  Sound(TryReadMoreReply(Freed(w), w.writing.from), e, Appended(w, o))
<1> DEFINE b == w.writing.from
           o2 == Appended(w, o)
           i == [w.io EXCEPT ![b] = "read"]
           v == [w EXCEPT !.writing = NoWrite, !.io = i]
<1>1. w \in Worlds /\ w.io \in Ios
  BY Fields, Zenon DEF Sound
<1>2. b \in Backends /\ InFront(w, b) /\ w.io[b] = "none"
  BY Zenon DEF Sound, Written, Busy
<1>3. Account(w, e[0], b) /\ Level(w, e[0], b)
  BY <1>2, Zenon DEF Sound
<1>4. /\ \A c \in Backends : w.rcv[c] \in Nat /\ w.par[c] \in Nat /\ w.pro[c] \in Nat
      /\ e[0] \in Nat
  BY <1>1, Numbers, PlaceType, Zenon
<1>5. Given(w, o2) /\ Len(o2) = 2 * e[0] - w.par[b] + w.pro[b]
  BY AppendedGiven, Zenon
<1>6. i \in Ios /\ i[b] = "read" /\ \A c \in Backends : c # b => i[c] = w.io[c]
  BY <1>1, <1>2, Zenon DEF Ios
<1> HIDE DEF b, o2, i
<1>7. NoWrite \in Writes
  BY Zenon DEF NoWrite, Writes
<1>8. /\ v \in Worlds /\ v.io = i /\ v.rcv = w.rcv /\ v.par = w.par
      /\ v.pro = w.pro /\ v.absent = w.absent /\ v.complete = w.complete
      /\ v.bad = w.bad /\ v.writing = NoWrite /\ v.replying = w.replying
      /\ v.waiting = w.waiting /\ v.over = w.over /\ v.failed = w.failed
  BY <1>1, <1>6, <1>7, Zenon DEF Worlds
<1>9. TryReadMoreReply(Freed(w), b) = v
  <2>1. b \notin w.complete
    BY <1>2, <1>3, <1>4 DEF Account, b
  <2>2. Freed(w).complete = w.complete /\ Freed(w).io = w.io
    BY <1>1, Zenon DEF Freed, Worlds
  <2>3. TryReadMoreReply(Freed(w), b) = [Freed(w) EXCEPT !.io[b] = "read"]
    BY <1>2, <2>1, <2>2 DEF TryReadMoreReply
  <2> QED  BY <1>1, <2>3 DEF Freed, i, Worlds
<1> HIDE DEF v
<1>10. \A c : InFront(v, c) <=> InFront(w, c)
  BY <1>8, Zenon DEF InFront
<1>11. ASSUME NEW c \in Backends
       PROVE  Account(v, e[0], c) /\ Level(v, e[0], c)
  <2>1. Account(w, e[0], c) /\ Level(w, e[0], c)
    BY <1>11, Zenon DEF Sound
  <2>2. Level(v, e[0], c)
    BY <1>8, <1>10, <2>1, Zenon DEF Level
  <2>3. CASE c = b
    <3>1. w.par[b] > w.rcv[b]
      BY Zenon DEF b
    <3> QED  BY <1>6, <1>8, <2>1, <2>2, <2>3, <3>1, Zenon DEF Account, Tallied
  <2>4. CASE c # b
    BY <1>6, <1>8, <1>10, <2>1, <2>2, <2>4, Zenon DEF Account, Tallied
  <2> QED  BY <2>3, <2>4, Zenon
<1>12. FrontBusy(v)
  <2>1. \A c \in Backends : InFront(v, c) => c = b
    BY <1>2, <1>10 DEF InFront
  <2>2. v.par[b] > v.rcv[b]
    BY <1>8, Zenon DEF b
  <2> QED  BY <2>1, <2>2, Zenon DEF FrontBusy
<1>13. Ending(v)
  BY <1>8, Zenon DEF Sound, Ending
<1>14. Written(v, e[0], o2)
  <2>1. w.pro[b] = w.par[b] - 1 /\ w.par[b] > w.rcv[b]
    BY <1>2, <1>3, <1>4 DEF Level, b
  <2>2. Len(o2) = 2 * e[0] - 1
    BY <1>2, <1>4, <1>5, <2>1
  <2>3. ~(v.par[b] <= v.rcv[b])
    BY <1>2, <1>4, <1>8, <2>1
  <2> QED  BY <1>2, <1>8, <2>2, <2>3, Zenon DEF Written, Idle
<1>15. Given(v, o2) /\ Lined(v, e) /\ v.failed = FALSE
  BY <1>5, <1>8, Zenon DEF Sound, Given, Lined
<1>16. Sound(v, e, o2)
  BY <1>8, <1>11, <1>12, <1>13, <1>14, <1>15, Zenon DEF Sound
<1> QED  BY <1>9, <1>16, Zenon DEF b, o2

\* A write is over and all that the backend has is written.
LEMMA RotateLemma ==
  ASSUME Keyed, NEW w, NEW e, NEW o, Sound(w, e, o), w.writing # NoWrite,
         w.over = "no", w.par[w.writing.from] <= w.rcv[w.writing.from],
         first \in BOOLEAN
  PROVE  \E f : Sound(RotateReplyingBackend(Rid(w)), f, Appended(w, o))
<1> DEFINE b == w.writing.from
           o2 == Appended(w, o)
           q == IF w.waiting[1].n = 0 THEN Tail(w.waiting) ELSE w.waiting
           end == IF q = <<>> THEN "done" ELSE "no"
           v == [w EXCEPT !.writing = NoWrite, !.waiting = q, !.over = end]
<1>1. w \in Worlds /\ w.waiting \in Queues /\ Lined(w, e)
  BY Fields, Zenon DEF Sound
<1>2. b \in Backends /\ InFront(w, b) /\ w.io[b] = "none" /\ w.par[b] > 0
  BY Zenon DEF Sound, Written, Busy
<1>3. Account(w, e[0], b) /\ Level(w, e[0], b)
  BY <1>2, Zenon DEF Sound
<1>4. /\ \A c \in Backends : w.rcv[c] \in Nat /\ w.par[c] \in Nat /\ w.pro[c] \in Nat
      /\ e[0] \in Nat
  BY <1>1, Numbers, PlaceType
<1>5. Given(w, o2) /\ Len(o2) = 2 * e[0] - w.par[b] + w.pro[b]
  BY AppendedGiven, Zenon
<1>6. w.pro[b] = w.par[b]
  BY <1>3, Zenon DEF Level
<1>7. Len(o2) = 2 * e[0]
  BY <1>2, <1>4, <1>5, <1>6
<1>8. \A c \in Backends : /\ Account(w, e[0], c) /\ w.par[c] <= w.rcv[c]
                          /\ w.pro[c] = w.par[c]
  BY <1>2, <1>3, <1>6, NoneHalf, SMTT(30)
<1>9. PICK f : /\ f[0] = e[0] /\ \A x : x.waiting = q => Lined(x, f)
               /\ q \in Queues /\ (q # <<>> => q[1].n > 0)
  <2>1. CASE w.waiting[1].n = 0
    <3>1. PICK f : /\ f[0] = e[0]
                   /\ \A x : x.waiting = Tail(w.waiting) => Lined(x, f)
                   /\ Tail(w.waiting) \in Queues
                   /\ Tail(w.waiting) # <<>> => Tail(w.waiting)[1].n >= 1
      BY <1>1, <1>2, <2>1, Popped
    <3>2. q = Tail(w.waiting)
      BY <2>1, Zenon
    <3>3. q # <<>> => q[1].n > 0
      <4>1. \A r \in RunsOf(owners) : r.n \in Nat
        BY Zenon DEF RunsOf
      <4>2. q # <<>> => q[1] \in RunsOf(owners)
        <5>1. q \in Seq(RunsOf(owners))
          BY <3>1, <3>2, Zenon DEF Queues
        <5> HIDE DEF q
        <5> QED  BY <5>1, SeqEmpty, SeqElement, SeqLen
      <4> HIDE DEF q
      <4> QED  BY <3>1, <3>2, <4>1, <4>2
    <3> HIDE DEF q
    <3> QED  BY <3>1, <3>2, <3>3, Zenon
  <2>2. CASE w.waiting[1].n # 0
    <3>1. q = w.waiting
      BY <2>2
    <3>2. w.waiting[1].n \in Nat
      BY <1>1, <1>2, FrontRun
    <3>3. \A x : x.waiting = w.waiting => Lined(x, e)
      BY <1>1 DEF Lined
    <3> HIDE DEF q
    <3> QED  BY <1>1, <2>2, <3>1, <3>2, <3>3
  <2> QED  BY <2>1, <2>2
<1> HIDE DEF b, o2
<1>10. NoWrite \in Writes /\ end \in {"no", "done", "aborted"}
  BY Zenon DEF NoWrite, Writes
<1>11. end = "done" <=> q = <<>>
  BY Zenon
<1>12. end = "no" <=> q # <<>>
  BY Zenon
<1>13. RotateReplyingBackend(Rid(w)) =
         IF q = <<>> THEN v ELSE NextBackendStartReply(v)
  <2> DEFINE u == [w EXCEPT !.writing = NoWrite, !.waiting = q]
  <2>1. Rid(w) = u
    <3>1. Freed(w).waiting = w.waiting
      BY <1>1, Zenon DEF Freed, Worlds
    <3>2. Rid(w) = [Freed(w) EXCEPT !.waiting = q]
      BY <3>1, Zenon DEF Rid
    <3> HIDE DEF q
    <3> QED  BY <1>1, <3>2, Zenon DEF Freed, Worlds
  <2> HIDE DEF q, end
  <2>2. u.waiting = q
    BY <1>1, Zenon DEF Worlds
  <2>3. CASE q = <<>>
    <3>1. RotateReplyingBackend(u) = [u EXCEPT !.over = "done"]
      BY <2>2, <2>3, Zenon DEF RotateReplyingBackend
    <3> QED  BY <1>1, <1>11, <2>1, <2>3, <3>1 DEF Worlds
  <2>4. CASE q # <<>>
    <3>1. RotateReplyingBackend(u) = NextBackendStartReply(u)
      BY <2>2, <2>4 DEF RotateReplyingBackend
    <3>2. u = v
      BY <1>1, <1>12, <2>4, Zenon DEF Worlds
    <3> HIDE DEF u, v
    <3> QED  BY <2>1, <2>4, <3>1, <3>2
  <2> QED  BY <2>3, <2>4, Zenon
<1> HIDE DEF q, end
<1>14. /\ v \in Worlds /\ v.io = w.io /\ v.rcv = w.rcv /\ v.par = w.par
       /\ v.pro = w.pro /\ v.absent = w.absent /\ v.complete = w.complete
       /\ v.bad = w.bad /\ v.writing = NoWrite /\ v.replying = w.replying
       /\ v.waiting = q /\ v.over = end /\ v.failed = w.failed
  BY <1>1, <1>9, <1>10, Zenon DEF Worlds
<1> HIDE DEF v
<1>15. \A c \in Backends : w.io[c] = "read" => w.par[c] = 0 /\ w.rcv[c] = 0
  <2> SUFFICES ASSUME NEW c \in Backends, w.io[c] = "read"
               PROVE  w.par[c] = 0 /\ w.rcv[c] = 0
    BY Zenon
  <2>1. InFront(w, c) => c = b
    BY <1>2, Zenon DEF InFront
  <2> QED  BY <1>2, <1>4, <1>8, <2>1 DEF Account
<1>16. ASSUME NEW c \in Backends
       PROVE  Account(v, f[0], c) /\ Level(v, f[0], c)
  <2>1. Account(v, f[0], c)
    BY <1>8, <1>9, <1>14, <1>15, ZenonT(60) DEF Account, Tallied
  <2>2. Level(v, f[0], c)
    BY <1>8, <1>14, Zenon DEF Level
  <2> QED  BY <2>1, <2>2, Zenon
<1>17. FrontBusy(v) /\ Ending(v) /\ Lined(v, f)
  BY <1>9, <1>11, <1>12, <1>14, Zenon DEF FrontBusy, Ending, InFront
<1>18. Written(v, f[0], o2)
  <2>1. \A c \in Backends : ~(v.par[c] > v.rcv[c])
    BY <1>4, <1>8, <1>14
  <2>2. Len(o2) = 2 * f[0]
    BY <1>7, <1>9, Zenon
  <2> QED  BY <1>14, <2>1, <2>2 DEF Written, Idle
<1>19. Given(v, o2) /\ v.failed = FALSE
  BY <1>5, <1>14, Zenon DEF Sound, Given
<1>20. Sound(v, f, o2)
  BY <1>14, <1>16, <1>17, <1>18, <1>19, Zenon DEF Sound
<1>21. CASE q = <<>>
  BY <1>13, <1>20, <1>21 DEF o2
<1>22. CASE q # <<>>
  <2>1. \A c \in Backends : v.rcv[c] > v.par[c] => v.io[c] = "none"
    <3> SUFFICES ASSUME NEW c \in Backends, v.rcv[c] > v.par[c]
                 PROVE  v.io[c] = "none"
      BY Zenon
    <3>1. w.io[c] \in {"query", "read", "none"}
      BY <1>1, Fields DEF Ios
    <3>2. w.io[c] = "query" => w.rcv[c] = 0 /\ w.par[c] = 0
      BY <1>8 DEF Account
    <3> QED  BY <1>14, <1>15, <3>1, <3>2
  <2>2. v.over = "no" /\ v.writing = NoWrite
    BY <1>12, <1>14, <1>22
  <2>3. \E g : Sound(NextBackendStartReply(v), g, o2)
    BY <1>20, <2>1, <2>2, NextLemma
  <2> QED  BY <1>13, <1>22, <2>3 DEF o2
<1> QED  BY <1>21, <1>22

-----------------------------------------------------------------------------
(* Every action keeps the invariant.                                       *)

LEMMA WorldIs ==
  /\ World.io = io /\ World.rcv = rcv /\ World.par = par /\ World.pro = pro
  /\ World.absent = absent /\ World.complete = complete /\ World.bad = bad
  /\ World.writing = writing /\ World.replying = replying_backend
  /\ World.waiting = waiting_reply_queue /\ World.over = over
  /\ World.failed = failed
BY Zenon DEF World

LEMMA Kept ==
  ASSUME Keyed, owners \in Queries, UNCHANGED owners, NEW v, Become(v), NEW f,
         Sound(v, f, out'), first' \in BOOLEAN,
         prefix' \in {"no", "writing", "done"}, first' <=> prefix' # "no",
         Began(v, prefix')
  PROVE  MgetInv'
<1>1. World' = v
  BY BecomeIs DEF Sound
<1>2. (\E e : Sound(World, e, out))'
  BY <1>1, Carried
<1>3. Backends' = Backends
  BY DEF Backends
<1>4. Keyed'
  <2>1. CountsUp(owners, Backends)
    BY Zenon DEF Keyed
  <2>2. CountsUp(owners', Backends')
    BY <1>3, <2>1
  <2> QED  BY <1>3, <2>2 DEF Keyed
<1>5. Began(World, prefix)'
  BY <1>1, <1>3 DEF Began
<1> QED  BY <1>2, <1>4, <1>5 DEF MgetInv

\* A command whose reply has not begun only notes what has come.
LEMMA NotReady ==
  ASSUME NEW w \in Worlds, NEW b, NEW isFirst \in BOOLEAN,
         NEW ready \in BOOLEAN, ~ready, NEW v,
         v = BackendReadyToReply(w, b, isFirst, ready)
  PROVE  v.io = w.io /\ v.rcv = w.rcv /\ v.par = w.par
<1>1. v \in {w, Abort(w)}
  BY Zenon DEF BackendReadyToReply
<1>2. Abort(w).io = w.io /\ Abort(w).rcv = w.rcv /\ Abort(w).par = w.par
  BY DEF Abort, Worlds
<1> QED  BY <1>1, <1>2

LEMMA QueryWrittenKeeps ==
  ASSUME MgetInv, over = "no", NEW b \in Backends, QueryWritten(b)
  PROVE  MgetInv'
<1> DEFINE v == [World EXCEPT !.io[b] = "read"]
<1>1. Keyed /\ owners \in Queries
  BY Zenon DEF MgetInv
<1>2. PICK e : Sound(World, e, out)
  BY Zenon DEF MgetInv
<1>3. World.io[b] = "query"
  BY WorldIs DEF QueryWritten
<1>4. /\ Sound(v, e, out) /\ v.rcv = World.rcv /\ v.par = World.par
      /\ \A c \in Backends : c # b => v.io[c] = World.io[c]
  BY <1>1, <1>2, <1>3, IoSound
<1>5. World.rcv[b] = 0
  BY <1>2, <1>3, Zenon DEF Sound, Account
<1>6. Become(v) /\ UNCHANGED <<owners, first, prefix, out>>
  BY Zenon DEF QueryWritten
<1> HIDE DEF v
<1>7. Began(v, prefix)
  BY <1>4, <1>5, Zenon DEF MgetInv, Began
<1> QED  BY <1>1, <1>4, <1>6, <1>7, Kept DEF MgetInv

\* An array of nil bulks is put in the place of b's reply.
LEMMA NilBulksKeep ==
  ASSUME MgetInv, over = "no", NEW b \in Backends, par[b] = 0,
         Become(OnBackendRecoverableError([World EXCEPT !.io[b] = "none"], b)),
         UNCHANGED <<owners, first, prefix, out>>
  PROVE  MgetInv'
<1> DEFINE w == [World EXCEPT !.io[b] = "none"]
           x == [w EXCEPT !.rcv[b] = Full(b), !.par[b] = 0, !.pro[b] = 0,
                          !.bad = @ \cup {b}]
           v == OnBackendRecoverableError(w, b)
<1>1. Keyed /\ owners \in Queries /\ first \in BOOLEAN
  BY Zenon DEF MgetInv
<1>2. PICK e : Sound(World, e, out)
  BY DEF MgetInv
<1>3. /\ Sound(w, e, out) /\ w \in Worlds /\ w.rcv = World.rcv /\ w.par = World.par
      /\ w.pro = World.pro /\ w.over = World.over /\ w.io[b] = "none"
      /\ \A c \in Backends : c # b => w.io[c] = World.io[c]
  BY <1>1, <1>2, IoSound
<1>4. w.par[b] = 0 /\ w.over = "no"
  BY <1>3, WorldIs, Zenon
<1>5. Become(v)
  BY Zenon
<1> HIDE DEF w
<1>6. \E f : Sound(v, f, out)
  BY <1>1, <1>3, <1>4, ErrorLemma
<1>7. Began(v, prefix)
  <2> SUFFICES ASSUME prefix # "done"
               PROVE  \A c \in Backends : v.par[c] = 0 /\ (v.io[c] = "read" => v.rcv[c] = 0)
    BY DEF Began
  <2>1. /\ x \in Worlds /\ x.io = w.io
        /\ x.par = [w.par EXCEPT ![b] = 0] /\ x.rcv = [w.rcv EXCEPT ![b] = Full(b)]
    <3>1. Sound(x, e, out)
      BY <1>1, <1>3, <1>4, NilBulksSound, Zenon
    <3>2. x \in Worlds
      BY <3>1 DEF Sound
    <3> QED  BY <1>3, <3>2 DEF Worlds
  <2> DEFINE ready == prefix = "done"
  <2>2. v = BackendReadyToReply(x, b, first, ready) /\ ready \in BOOLEAN /\ ~ready
    BY Zenon DEF OnBackendRecoverableError
  <2> HIDE DEF x, v, ready
  <2>3. v.io = x.io /\ v.rcv = x.rcv /\ v.par = x.par
    BY <1>1, <2>1, <2>2, NotReady
  <2>4. \A c \in Backends : w.par[c] = 0 /\ (c # b /\ w.io[c] = "read" => w.rcv[c] = 0)
    BY <1>3, Zenon DEF MgetInv, Began
  <2>5. w.par \in Counts /\ w.rcv \in Counts
    BY <1>3, Fields
  <2> QED  BY <1>3, <2>1, <2>3, <2>4, <2>5 DEF Counts
<1> HIDE DEF v
<1> QED  BY <1>1, <1>5, <1>6, <1>7, Kept DEF MgetInv

LEMMA ConnectFailedKeeps ==
  ASSUME MgetInv, over = "no", NEW b \in Backends, ConnectFailed(b)
  PROVE  MgetInv'
<1>1. PICK e : Sound(World, e, out)
  BY Zenon DEF MgetInv
<1>2. World.io[b] = "query"
  BY WorldIs DEF ConnectFailed
<1>3. World.par[b] = 0
  BY <1>1, <1>2, Zenon DEF Sound, Account
<1> QED  BY <1>3, WorldIs, NilBulksKeep DEF ConnectFailed

LEMMA AbortKeeps ==
  ASSUME MgetInv, Become(Abort(World)), UNCHANGED <<owners, first, prefix, out>>
  PROVE  MgetInv'
<1> DEFINE v == Abort(World)
<1>1. Keyed /\ owners \in Queries
  BY Zenon DEF MgetInv
<1>2. PICK e : Sound(World, e, out)
  BY Zenon DEF MgetInv
<1>3. Sound(v, e, out) /\ World \in Worlds
  BY <1>1, <1>2, AbortSound, Zenon DEF Sound
<1>4. v.io = World.io /\ v.rcv = World.rcv /\ v.par = World.par
  BY <1>3, Zenon DEF Abort, Worlds
<1>5. Become(v)
  BY Zenon
<1> HIDE DEF v
<1>6. Began(v, prefix)
  BY <1>4, Zenon DEF MgetInv, Began
<1> QED  BY <1>1, <1>3, <1>5, <1>6, Kept DEF MgetInv

\* The first units of b, or more of its first ones.
LEMMA FirstUnitsKeep ==
  ASSUME MgetInv, over = "no", NEW b \in Backends, NEW u \in 1..Full(b),
         ReplyReceived(b, u), par[b] = 0
  PROVE  MgetInv'
<1> DEFINE w == [World EXCEPT !.io[b] = "none"]
           x == [w EXCEPT !.rcv[b] = u]
           ready == prefix = "done"
           v == BackendReadyToReply(x, b, first, ready)
<1>1. Keyed /\ owners \in Queries /\ first \in BOOLEAN
  BY Zenon DEF MgetInv
<1>2. PICK e : Sound(World, e, out)
  BY Zenon DEF MgetInv
<1>3. /\ Sound(w, e, out) /\ w \in Worlds /\ w.rcv = World.rcv /\ w.par = World.par
      /\ w.over = World.over /\ w.io[b] = "none"
      /\ \A c \in Backends : c # b => w.io[c] = World.io[c]
  BY <1>1, <1>2, IoSound
<1>4. w.par[b] = 0 /\ w.over = "no"
  BY <1>3, WorldIs
<1>5. Become(v) /\ UNCHANGED <<owners, first, prefix, out>>
  <2>1. [World EXCEPT !.io[b] = "none", !.rcv[b] = u] = x
    BY Zenon DEF World
  <2> QED  BY <2>1, Zenon DEF ReplyReceived
<1>6. ready \in BOOLEAN
  BY Zenon
<1> HIDE DEF w
<1>7. /\ Sound(x, e, out) /\ x.io[b] = "none" /\ x.par[b] = 0
      /\ x.rcv[b] > x.par[b] /\ x.over = w.over
  BY <1>1, <1>3, <1>4, ReceivedSound
<1>8. /\ x \in Worlds /\ x.io = w.io /\ x.par = w.par
      /\ x.rcv = [w.rcv EXCEPT ![b] = u]
  <2>1. x \in Worlds
    BY <1>7, SMTT(30) DEF Sound
  <2> QED  BY <1>3, <2>1 DEF Worlds
<1> HIDE DEF x
<1>9. \E f : Sound(v, f, out)
  <2> HIDE DEF ready
  <2> QED  BY <1>1, <1>4, <1>6, <1>7, ReadyLemma
<1>10. Began(v, prefix)
  <2> SUFFICES ASSUME prefix # "done"
               PROVE  \A c \in Backends : v.par[c] = 0 /\ (v.io[c] = "read" => v.rcv[c] = 0)
    BY Zenon DEF Began
  <2>1. ~ready
    BY Zenon
  <2>2. v.io = x.io /\ v.rcv = x.rcv /\ v.par = x.par
    <3> HIDE DEF ready
    <3>1. v = BackendReadyToReply(x, b, first, ready)
      BY Zenon
    <3> HIDE DEF v
    <3> QED  BY <1>1, <1>6, <1>8, <2>1, <3>1, NotReady
  <2> HIDE DEF v
  <2>3. \A c \in Backends : w.par[c] = 0 /\ (c # b /\ w.io[c] = "read" => w.rcv[c] = 0)
    BY <1>3 DEF MgetInv, Began
  <2>4. w.rcv \in Counts
    BY <1>3, Fields
  <2> QED  BY <1>3, <1>8, <2>2, <2>3, <2>4 DEF Counts
<1> HIDE DEF v
<1> QED  BY <1>1, <1>5, <1>9, <1>10, Kept DEF MgetInv

\* The end of the bulk that the client is getting.
LEMMA RestOfBulkKeeps ==
  ASSUME MgetInv, over = "no", NEW b \in Backends, NEW u \in 1..Full(b),
         ReplyReceived(b, u), par[b] # 0
  PROVE  MgetInv'
<1> DEFINE w == [World EXCEPT !.io[b] = "none"]
           v == BackendReadyToReply([w EXCEPT !.rcv[b] = u], b, TRUE, TRUE)
<1>1. Keyed /\ owners \in Queries
  BY Zenon DEF MgetInv
<1>2. PICK e : Sound(World, e, out)
  BY Zenon DEF MgetInv
<1>3. /\ Sound(w, e, out) /\ w.rcv = World.rcv /\ w.par = World.par
      /\ w.over = World.over /\ w.io[b] = "none" /\ w.writing = World.writing
  BY <1>1, <1>2, IoSound
<1>4. prefix = "done" /\ first = TRUE
  BY WorldIs, Zenon DEF MgetInv, Began
<1>5. World.io[b] = "read" /\ World.par[b] > World.rcv[b]
  <2>1. World.io[b] = "read" /\ World.par[b] # 0
    BY WorldIs, Zenon DEF ReplyReceived
  <2> QED  BY <1>2, <2>1, Zenon DEF Sound, Account
<1>6. World.writing = NoWrite
  <2>1. InFront(World, b)
    <3>1. World.rcv[b] \in Nat /\ World.par[b] \in Nat /\ Level(World, e[0], b)
      BY <1>2, Numbers, Zenon DEF Sound
    <3> QED  BY <1>5, <3>1 DEF Level
  <2>2. World.writing # NoWrite => World.io[World.writing.from] = "none"
                                   /\ InFront(World, World.writing.from)
    BY <1>2, Zenon DEF Sound, Written, Busy
  <2> QED  BY <1>5, <2>1, <2>2 DEF InFront
<1>7. Become(v) /\ UNCHANGED <<owners, first, prefix, out>>
  <2>1. [World EXCEPT !.io[b] = "none", !.rcv[b] = u] = [w EXCEPT !.rcv[b] = u]
    BY Zenon DEF World
  <2> QED  BY <1>4, <2>1, Zenon DEF ReplyReceived
<1>8. w.over = "no" /\ w.par[b] > w.rcv[b] /\ w.writing = NoWrite /\ u > w.rcv[b]
  BY <1>3, <1>5, <1>6, WorldIs, Zenon DEF ReplyReceived
<1> HIDE DEF w
<1>9. \E f : Sound(v, f, out)
  BY <1>1, <1>3, <1>8, RestLemma, Zenon
<1> HIDE DEF v
<1>10. Began(v, prefix)
  BY <1>4 DEF Began
<1> QED  BY <1>1, <1>4, <1>7, <1>9, <1>10, Kept DEF MgetInv

LEMMA ReadFailedKeeps ==
  ASSUME MgetInv, over = "no", NEW b \in Backends, ReadFailed(b)
  PROVE  MgetInv'
<1> DEFINE w == [World EXCEPT !.io[b] = "none"]
<1>1. Keyed /\ owners \in Queries
  BY Zenon DEF MgetInv
<1>2. PICK e : Sound(World, e, out)
  BY Zenon DEF MgetInv
<1>3. World.io[b] = "read"
  BY WorldIs, Zenon DEF ReadFailed
<1>4. CASE b = replying_backend
  <2> DEFINE v == Abort(w)
  <2>1. /\ Sound(w, e, out) /\ w \in Worlds /\ w.rcv = World.rcv /\ w.par = World.par
        /\ w.io[b] = "none" /\ \A c \in Backends : c # b => w.io[c] = World.io[c]
    BY <1>1, <1>2, IoSound
  <2>2. Become(v) /\ UNCHANGED <<owners, first, prefix, out>>
    BY <1>4, Zenon DEF ReadFailed
  <2> HIDE DEF w
  <2>3. Sound(v, e, out)
    BY <1>1, <2>1, AbortSound, Zenon
  <2>4. v.io = w.io /\ v.rcv = w.rcv /\ v.par = w.par
    BY <2>1, Zenon DEF Abort, Worlds
  <2> HIDE DEF v
  <2>5. Began(v, prefix)
    BY <2>1, <2>4 DEF MgetInv, Began
  <2> QED  BY <1>1, <2>2, <2>3, <2>5, Kept DEF MgetInv
<1>5. CASE b # replying_backend
  <2>1. World.replying # b
    BY <1>5, WorldIs, Zenon
  <2>2. World.rcv[b] \in Nat /\ World.par[b] \in Nat /\ Level(World, e[0], b)
        /\ Account(World, e[0], b)
    BY <1>2, Numbers, Zenon DEF Sound
  <2>3. World.par[b] = 0
    BY <1>3, <2>1, <2>2 DEF Account, Level
  <2> QED  BY <1>5, <2>3, WorldIs, NilBulksKeep, Zenon DEF ReadFailed
<1> QED  BY <1>4, <1>5

LEMMA ReplyReceivedKeeps ==
  ASSUME MgetInv, over = "no", NEW b \in Backends, NEW u \in 1..Full(b),
         ReplyReceived(b, u)
  PROVE  MgetInv'
BY FirstUnitsKeep, RestOfBulkKeeps, Zenon

\* An assert that holds changes nothing.
LEMMA CheckHolds ==
  ASSUME NEW w \in Worlds, w.failed = FALSE, NEW holds \in BOOLEAN, holds
  PROVE  Check(w, holds) = w
BY Zenon DEF Check, Worlds

LEMMA PrefixWrittenKeeps ==
  ASSUME MgetInv, over = "no", PrefixWritten
  PROVE  MgetInv'
<1> DEFINE v == NextBackendStartReply(World)
<1>1. Keyed /\ owners \in Queries /\ first \in BOOLEAN
  BY Zenon DEF MgetInv
<1>2. PICK e : Sound(World, e, out)
  BY Zenon DEF MgetInv
<1>3. World \in Worlds /\ World.failed = FALSE /\ World.over = "no"
  BY <1>2, WorldIs DEF Sound
<1>4. Become(v) /\ UNCHANGED <<owners, first, out>> /\ prefix' = "done"
  <2> DEFINE holds == waiting_reply_queue # <<>>
  <2>1. holds \in BOOLEAN /\ holds
    BY <1>2, <1>3, WorldIs, Zenon DEF Sound, Ending
  <2>2. Check(World, holds) = World
    <3> HIDE DEF holds
    <3> QED  BY <1>3, <2>1, CheckHolds, Zenon
  <2> QED  BY <2>2, Zenon DEF PrefixWritten
<1>5. \A c \in Backends : /\ World.par[c] = 0
                          /\ World.io[c] = "read" => World.rcv[c] = 0
  BY Zenon DEF MgetInv, Began, PrefixWritten
<1>6. World.writing = NoWrite
  <2> SUFFICES ASSUME World.writing # NoWrite PROVE FALSE
    BY Zenon
  <2> DEFINE c == World.writing.from
  <2>1. c \in Backends /\ World.par[c] > 0
    BY <1>2, Zenon DEF Sound, Written, Busy
  <2>2. World.par[c] = 0
    BY <1>5, <2>1, Zenon
  <2> HIDE DEF c
  <2> QED  BY <2>1, <2>2
<1>7. ASSUME NEW c \in Backends, World.rcv[c] > World.par[c]
      PROVE  World.io[c] = "none"
  <2>1. World.io[c] \in {"query", "read", "none"}
    BY <1>3, Fields, Zenon DEF Ios
  <2>2. World.io[c] = "query" => World.rcv[c] = 0
    BY <1>2, Zenon DEF Sound, Account
  <2>3. World.rcv[c] # 0
    BY <1>3, <1>5, <1>7, Numbers
  <2> QED  BY <1>5, <2>1, <2>2, <2>3
<1>8. \E f : Sound(v, f, out)
  BY <1>1, <1>2, <1>3, <1>6, <1>7, NextLemma, Zenon
<1> HIDE DEF v
<1>9. Began(v, prefix')
  BY <1>4, Zenon DEF Began
<1>10. first' <=> prefix' # "no"
  BY <1>4 DEF MgetInv, PrefixWritten
<1> QED  BY <1>1, <1>4, <1>8, <1>9, <1>10, Kept

LEMMA OnWriteReplyFinishedKeeps ==
  ASSUME MgetInv, over = "no", OnWriteReplyFinished
  PROVE  MgetInv'
<1> DEFINE b == writing.from
           v == IF par[b] <= rcv[b] THEN RotateReplyingBackend(Rid(World))
                ELSE TryReadMoreReply(Freed(World), b)
<1>1. Keyed /\ owners \in Queries /\ first \in BOOLEAN
  BY Zenon DEF MgetInv
<1>2. PICK e : Sound(World, e, out)
  BY Zenon DEF MgetInv
<1>3. /\ World \in Worlds /\ World.failed = FALSE /\ World.over = "no"
      /\ World.writing # NoWrite
  BY <1>2, WorldIs DEF Sound, OnWriteReplyFinished
<1>4. b \in Backends /\ InFront(World, b) /\ b = World.replying /\ World.par[b] > 0
  BY <1>2, <1>3, WorldIs, Zenon DEF Sound, Written, Busy
<1>5. prefix = "done"
  <2>1. World.par[b] # 0
    BY <1>3, <1>4, Numbers
  <2> HIDE DEF b
  <2> QED  BY <1>4, <2>1, Zenon DEF MgetInv, Began
<1>6. /\ out' = Appended(World, out) /\ Become(v)
      /\ UNCHANGED <<owners, first, prefix>>
  <2> DEFINE holds == /\ waiting_reply_queue # <<>>
                      /\ b = waiting_reply_queue[1].b
                      /\ b = replying_backend
             w == [Check(World, holds) EXCEPT !.writing = NoWrite]
  <2>1. holds \in BOOLEAN /\ holds
    BY <1>4, WorldIs, Zenon DEF InFront
  <2>2. w = Freed(World)
    <3>1. Check(World, holds) = World
      <4> HIDE DEF holds
      <4> QED  BY <1>3, <2>1, CheckHolds, Zenon
    <3> QED  BY <3>1, Zenon DEF Freed
  <2>3. w.waiting = World.waiting
    BY <1>3, <2>2, Zenon DEF Freed, Worlds
  <2>4. [w EXCEPT !.waiting = IF w.waiting[1].n = 0 THEN Tail(@) ELSE @] = Rid(World)
    BY <2>2, <2>3, Zenon DEF Rid
  <2>5. out' = Appended(World, out)
    BY WorldIs, Zenon DEF OnWriteReplyFinished, Appended
  <2>6. Become(IF par[b] <= rcv[b]
               THEN RotateReplyingBackend(
                      [w EXCEPT !.waiting = IF w.waiting[1].n = 0 THEN Tail(@) ELSE @])
               ELSE TryReadMoreReply(w, b))
    BY Zenon DEF OnWriteReplyFinished
  <2>7. Become(v)
    BY <2>2, <2>4, <2>6, Zenon
  <2> QED  BY <2>5, <2>7, Zenon DEF OnWriteReplyFinished
<1>7. \E f : Sound(v, f, out')
  <2>1. World.writing.from = b /\ World.par = par /\ World.rcv = rcv
    BY WorldIs, Zenon
  <2>2. CASE par[b] <= rcv[b]
    <3>1. v = RotateReplyingBackend(Rid(World))
      BY <2>2, Zenon
    <3>2. World.par[World.writing.from] <= World.rcv[World.writing.from]
      BY <2>1, <2>2, Zenon
    <3> HIDE DEF v, b
    <3> QED  BY <1>1, <1>2, <1>3, <1>6, <3>1, <3>2, RotateLemma, Zenon
  <2>3. CASE ~(par[b] <= rcv[b])
    <3>1. v = TryReadMoreReply(Freed(World), World.writing.from)
      BY <2>1, <2>3
    <3>2. World.rcv[b] \in Nat /\ World.par[b] \in Nat
      BY <1>3, <1>4, Numbers, Zenon
    <3>3. World.par[World.writing.from] > World.rcv[World.writing.from]
      BY <2>1, <2>3, <3>2
    <3> HIDE DEF v, b
    <3> QED  BY <1>1, <1>2, <1>3, <1>6, <3>1, <3>3, ReadOnLemma, SMTT(30)
  <2> QED  BY <2>2, <2>3, Zenon
<1> HIDE DEF v
<1>8. Began(v, prefix')
  BY <1>5, <1>6 DEF Began
<1> QED  BY <1>1, <1>6, <1>7, <1>8, Kept, SMTT(30) DEF MgetInv

LEMMA StartWriteReplyKeeps ==
  ASSUME MgetInv, StartWriteReply
  PROVE  MgetInv'
<1>1. Keyed /\ owners \in Queries
  BY Zenon DEF MgetInv
<1>2. PICK e : Sound(World, e, out)
  BY Zenon DEF MgetInv
<1>3. Began(World, prefix')
  BY Zenon DEF MgetInv, Began, StartWriteReply
<1>4. Sound(World, e, out') /\ Become(World) /\ UNCHANGED owners
  BY <1>2, Zenon DEF StartWriteReply
<1> QED  BY <1>1, <1>3, <1>4, Kept DEF StartWriteReply

LEMMA NextKeeps ==
  ASSUME MgetInv, [Next]_vars
  PROVE  MgetInv'
<1>1. CASE UNCHANGED vars
  <2>1. /\ World' = World /\ UNCHANGED <<owners, first, prefix, out>>
    BY <1>1, Zenon DEF vars, World
  <2>2. PICK e : Sound(World, e, out)
    BY Zenon DEF MgetInv
  <2>3. Become(World) /\ Sound(World, e, out') /\ Began(World, prefix')
    BY <1>1, <2>1, <2>2, WorldIs, SMTT(30) DEF Become, MgetInv, vars
  <2> QED  BY <2>1, <2>3, Kept, Zenon DEF MgetInv
<1>2. CASE Next
  <2>1. over = "no"
    BY <1>2, Zenon DEF Next
  <2>2. ASSUME NEW b \in Backends, QueryWritten(b) PROVE MgetInv'
    BY <2>1, <2>2, QueryWrittenKeeps, Zenon
  <2>3. ASSUME NEW b \in Backends, ConnectFailed(b) PROVE MgetInv'
    BY <2>1, <2>3, ConnectFailedKeeps, Zenon
  <2>4. ASSUME NEW b \in Backends, WriteFailed(b) PROVE MgetInv'
    BY <2>4, AbortKeeps, Zenon DEF WriteFailed
  <2>5. ASSUME NEW b \in Backends, NEW u \in 1..Full(b), ReplyReceived(b, u)
        PROVE  MgetInv'
    BY <2>1, <2>5, ReplyReceivedKeeps
  <2>6. ASSUME NEW b \in Backends, ReadFailed(b) PROVE MgetInv'
    BY <2>1, <2>6, ReadFailedKeeps, Zenon
  <2>7. CASE PrefixWritten
    BY <2>1, <2>7, PrefixWrittenKeeps, Zenon
  <2>8. CASE OnWriteReplyFinished
    BY <2>1, <2>8, OnWriteReplyFinishedKeeps, Zenon
  <2>9. CASE WriteReplyFailed \/ ClientFails
    BY <2>9, AbortKeeps, Zenon DEF WriteReplyFailed, ClientFails
  <2>10. CASE StartWriteReply
    BY <2>10, StartWriteReplyKeeps, Zenon
  <2> QED  BY <1>2, <2>2, <2>3, <2>4, <2>5, <2>6, <2>7, <2>8, <2>9, <2>10,
    SMTT(30) DEF Next
<1> QED  BY <1>1, <1>2, Zenon
=============================================================================
