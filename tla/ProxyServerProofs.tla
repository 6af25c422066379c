-------------------------- MODULE ProxyServerProofs --------------------------
(***************************************************************************)
(* Proofs about module ProxyServer, for any number of workers, files, keys *)
(* and clients: a worker has a locator before a query looks a key up, and  *)
(* the last locator that was posted is the one every worker comes to use.  *)
(*                                                                         *)
(* Both rest on the order of a worker's queue of handlers.  A worker that  *)
(* has no locator has one at the head of its queue, since Run posts it     *)
(* before the thread starts; and of the locators in a queue the one nearest *)
(* to its end is the last that was loaded.                                 *)
(*                                                                         *)
(* The locator itself, KeyDistributer's LocateCacheNode, is consistent     *)
(* hashing for every pair of continuums and every hash.                    *)
(*                                                                         *)
(* The pool that a worker keeps its backend connections in, BackendPool,   *)
(* comes last.                                                             *)
(***************************************************************************)
EXTENDS ProxyServer, BackendPool, WellFoundedInduction, TLAPS

Elements(s) == {s[i] : i \in DOMAIN s}

IsQueue(s) == s \in Seq(Elements(s))

IsLocator(handler) == handler[1] = "locator"

\* The place of a queue behind which there is no other locator.
LastLocator(s, i) ==
  i \in DOMAIN s /\ IsLocator(s[i]) /\ \A j \in DOMAIN s : j > i => ~IsLocator(s[j])

\* With the handlers s to come, a locator of file g will be followed by one of
\* file f, or g is f and none will follow.
ComesTo(s, g, f) ==
  IF \E i \in DOMAIN s : IsLocator(s[i])
  THEN \A i \in DOMAIN s : LastLocator(s, i) => s[i][3] = f
  ELSE g = f

\* The file that the worker's locator comes from once its queue is empty.
Upcoming(w) == ComesTo(queue[w], source[w], loaded)

\* The locator comes first.
Served(w) ==
  key_locator_[w] = NoLocator => queue[w] # <<>> /\ IsLocator(queue[w][1])

\* Every worker will use the last locator that was posted.
LatestLocatorWins == \A w \in Workers : thread[w] # "none" => Upcoming(w)

ServerInv ==
  /\ queue = [w \in Workers |-> queue[w]]
  /\ key_locator_ = [w \in Workers |-> key_locator_[w]]
  /\ thread = [w \in Workers |-> thread[w]]
  /\ source = [w \in Workers |-> source[w]]
  /\ main = "start" =>
       loaded = file /\ \A w \in Workers : queue[w] = <<>> /\ thread[w] = "none"
  /\ \A w \in Workers : IsQueue(queue[w])
  /\ \A w \in Workers : thread[w] # "none" => Served(w)
  /\ LatestLocatorWins
  /\ dead # "locator"

-----------------------------------------------------------------------------
(* Queues.                                                                 *)

LEMMA SeqElement ==
  ASSUME NEW S, NEW s \in Seq(S), NEW i \in 1..Len(s)
  PROVE  s[i] \in S
OBVIOUS

LEMMA SeqLen ==
  ASSUME NEW S, NEW s \in Seq(S)
  PROVE  /\ Len(s) \in Nat /\ s \in [1..Len(s) -> S] /\ DOMAIN s = 1..Len(s)
         /\ s # <<>> => Len(s) # 0
OBVIOUS

LEMMA SeqAppend ==
  ASSUME NEW S, NEW s \in Seq(S), NEW e \in S
  PROVE  /\ Append(s, e) \in Seq(S) /\ Len(Append(s, e)) = Len(s) + 1
         /\ \A i \in 1..Len(s) : Append(s, e)[i] = s[i]
         /\ Append(s, e)[Len(s) + 1] = e
OBVIOUS

LEMMA SeqTail ==
  ASSUME NEW S, NEW s \in Seq(S), s # <<>>
  PROVE  /\ Tail(s) \in Seq(S) /\ Len(Tail(s)) = Len(s) - 1 /\ Head(s) = s[1]
         /\ \A i \in 1..Len(Tail(s)) : Tail(s)[i] = s[i + 1]
OBVIOUS

LEMMA SeqFunction ==
  ASSUME NEW S, NEW n \in Nat, NEW f \in [1..n -> S]
  PROVE  f \in Seq(S)
OBVIOUS

LEMMA Appended ==
  ASSUME NEW s, IsQueue(s), NEW e
  PROVE  /\ IsQueue(Append(s, e)) /\ Append(s, e) # <<>>
         /\ Len(s) \in Nat /\ DOMAIN s = 1..Len(s)
         /\ DOMAIN Append(s, e) = 1..(Len(s) + 1)
         /\ \A i \in DOMAIN s : Append(s, e)[i] = s[i]
         /\ Append(s, e)[Len(s) + 1] = e
<1> DEFINE S == Elements(s) \cup {e}
           t == Append(s, e)
<1>1. s \in Seq(S) /\ e \in S
  <2>1. s \in Seq(Elements(s))
    BY Zenon DEF IsQueue
  <2> QED  BY <2>1
<1> HIDE DEF S
<1>2. /\ t \in Seq(S) /\ Len(t) = Len(s) + 1 /\ Len(s) \in Nat
      /\ \A i \in 1..Len(s) : t[i] = s[i]
      /\ t[Len(s) + 1] = e
  BY <1>1, SeqAppend, SeqLen
<1>3. DOMAIN s = 1..Len(s) /\ DOMAIN t = 1..(Len(s) + 1)
  BY <1>1, <1>2, SeqLen, Zenon
<1>4. t # <<>>
  BY <1>2, <1>3
<1>5. Len(t) \in Nat /\ t \in [1..Len(t) -> Elements(t)]
  BY <1>2, <1>3, SeqLen, Zenon DEF Elements
<1>6. IsQueue(t)
  <2> HIDE DEF t
  <2> QED  BY <1>5, SeqFunction, Zenon DEF IsQueue
<1> QED  BY <1>2, <1>3, <1>4, <1>6, Zenon

LEMMA Taken ==
  ASSUME NEW s, IsQueue(s), s # <<>>
  PROVE  /\ IsQueue(Tail(s)) /\ Head(s) = s[1]
         /\ Len(s) \in Nat \ {0} /\ DOMAIN s = 1..Len(s)
         /\ DOMAIN Tail(s) = 1..(Len(s) - 1)
         /\ \A i \in DOMAIN Tail(s) : Tail(s)[i] = s[i + 1]
<1> DEFINE S == Elements(s)
           t == Tail(s)
<1>1. s \in Seq(S)
  BY Zenon DEF IsQueue
<1> HIDE DEF S
<1>2. /\ Len(s) \in Nat \ {0} /\ DOMAIN s = 1..Len(s)
  BY <1>1, SeqLen, Zenon
<1>3. /\ t \in Seq(S) /\ Head(s) = s[1] /\ Len(t) = Len(s) - 1
      /\ \A i \in 1..Len(t) : t[i] = s[i + 1]
  BY <1>1, <1>2, SeqTail, Zenon
<1>4. DOMAIN t = 1..(Len(s) - 1) /\ Len(t) \in Nat
  BY <1>3, SeqLen, Zenon
<1>5. t \in [1..Len(t) -> Elements(t)]
  BY <1>3, <1>4, SeqLen, Zenon DEF Elements
<1>6. IsQueue(t)
  BY <1>4, <1>5, SeqFunction, Zenon DEF IsQueue
<1> QED  BY <1>2, <1>3, <1>4, <1>6, Zenon

-----------------------------------------------------------------------------
(* Steps.                                                                  *)

LEMMA InitInv == Init => ServerInv
<1> SUFFICES ASSUME Init PROVE ServerInv
  BY Zenon
<1>1. /\ queue = [w \in Workers |-> <<>>]
      /\ key_locator_ = [w \in Workers |-> NoLocator]
      /\ thread = [w \in Workers |-> "none"]
      /\ source = [w \in Workers |-> Unreadable] /\ dead = "no" /\ loaded = file
  BY Zenon DEF Init
<1>2. IsQueue(<<>>)
  BY DEF IsQueue
<1>3. \A w \in Workers : queue[w] = <<>> /\ thread[w] = "none" /\ IsQueue(queue[w])
  BY <1>1, <1>2, Zenon
<1>4. /\ queue = [w \in Workers |-> queue[w]]
      /\ key_locator_ = [w \in Workers |-> key_locator_[w]]
      /\ thread = [w \in Workers |-> thread[w]]
      /\ source = [w \in Workers |-> source[w]]
  BY <1>1, Zenon
<1> QED  BY <1>1, <1>3, <1>4, Zenon DEF ServerInv, LatestLocatorWins

\* A step that leaves the queues and the locators alone.
LEMMA OtherStep ==
  ASSUME ServerInv, UNCHANGED <<queue, key_locator_, source, loaded>>,
         dead' # "locator", main' = "start" => main = "start" /\ file' = file,
         thread' = [w \in Workers |-> thread'[w]],
         \A w \in Workers : thread'[w] = "none" <=> thread[w] = "none"
  PROVE  ServerInv'
<1>1. \A w \in Workers : thread'[w] # "none" => Served(w)'
  BY Zenon DEF ServerInv, Served
<1>2. LatestLocatorWins'
  BY Zenon DEF ServerInv, LatestLocatorWins, Upcoming
<1> QED  BY <1>1, <1>2, Zenon DEF ServerInv

\* OnLocatorUpdated: the new locator is behind all others, and a worker
\* without handlers has it at the head of its queue.
LEMMA PostedStep ==
  ASSUME ServerInv, NEW locator, OnLocatorUpdated(locator), loaded' = file,
         UNCHANGED <<key_locator_, source>>, dead' # "locator", main' # "start",
         thread' = [w \in Workers |-> thread'[w]],
         \/ main = "start"
         \/ \A w \in Workers : thread'[w] # "none" => thread[w] # "none"
  PROVE  ServerInv'
<1> DEFINE e == <<"locator", locator, file>>
<1>1. queue' = [w \in Workers |-> Append(queue[w], e)]
  BY Zenon DEF OnLocatorUpdated
<1>2. \A w \in Workers : queue'[w] = Append(queue[w], e)
  BY <1>1, Zenon
<1>3. queue' = [w \in Workers |-> queue'[w]]
  BY <1>1, Zenon
<1>4. IsLocator(e) /\ e[3] = file
  BY Zenon DEF IsLocator
<1> HIDE DEF e
<1>5. ASSUME NEW w \in Workers
      PROVE  IsQueue(queue'[w]) /\ (thread'[w] # "none" => Served(w)') /\ Upcoming(w)'
  <2> DEFINE s == queue[w]
             t == queue'[w]
  <2>1. IsQueue(s) /\ t = Append(s, e)
    BY <1>2, Zenon DEF ServerInv
  <2>2. /\ IsQueue(t) /\ t # <<>> /\ Len(s) \in Nat /\ DOMAIN s = 1..Len(s)
        /\ DOMAIN t = 1..(Len(s) + 1)
        /\ \A i \in DOMAIN s : t[i] = s[i]
        /\ t[Len(s) + 1] = e
    BY <2>1, Appended
  <2>3. s = <<>> => Len(s) = 0
    OBVIOUS
  <2> HIDE DEF s, t
  <2>4. \A i \in DOMAIN t : LastLocator(t, i) => i = Len(s) + 1
    BY <1>4, <2>2 DEF LastLocator
  <2>5. Upcoming(w)'
    <3>1. Len(s) + 1 \in DOMAIN t
      BY <2>2
    <3>2. \E i \in DOMAIN t : IsLocator(t[i])
      BY <1>4, <2>2, <3>1, Zenon
    <3>3. \A i \in DOMAIN t : LastLocator(t, i) => t[i][3] = loaded'
      BY <1>4, <2>2, <2>4, Zenon
    <3> QED  BY <3>2, <3>3, Zenon DEF Upcoming, ComesTo, t
  <2>6. ASSUME thread'[w] # "none"  PROVE Served(w)'
    <3>1. s = <<>> \/ Served(w)
      BY <2>6, Zenon DEF ServerInv, s
    <3>2. CASE s = <<>>
      <4>1. IsLocator(t[1])
        BY <1>4, <2>2, <2>3, <3>2
      <4> QED  BY <2>2, <4>1, Zenon DEF Served, t
    <3>3. CASE s # <<>> /\ Served(w)
      <4>1. s \in Seq(Elements(s))
        BY <2>1, Zenon DEF IsQueue, s
      <4>2. Len(s) \in Nat \ {0}
        BY <3>3, <4>1
      <4>3. t[1] = s[1]
        BY <2>2, <4>2
      <4> QED  BY <2>2, <3>3, <4>3, Zenon DEF Served, s, t
    <3> QED  BY <3>1, <3>2, <3>3, Zenon
  <2> QED  BY <2>2, <2>5, <2>6, Zenon DEF t
<1> QED  BY <1>3, <1>5, Zenon DEF ServerInv, LatestLocatorWins

\* The queue of one worker changes and keeps its last locator.
LEMMA WorkerStepInv ==
  ASSUME ServerInv, NEW v \in Workers, NEW t, IsQueue(t),
         queue' = [queue EXCEPT ![v] = t],
         main' = main, main # "start", thread' = thread, loaded' = loaded,
         dead' # "locator",
         key_locator_' = [w \in Workers |-> key_locator_'[w]],
         source' = [w \in Workers |-> source'[w]],
         \A w \in Workers : w # v =>
           key_locator_'[w] = key_locator_[w] /\ source'[w] = source[w],
         thread[v] # "none" =>
           /\ key_locator_'[v] = NoLocator => t # <<>> /\ IsLocator(t[1])
           /\ ComesTo(t, source'[v], loaded)
  PROVE  ServerInv'
<1>1. /\ queue' = [w \in Workers |-> queue'[w]]
      /\ \A w \in Workers : queue'[w] = IF w = v THEN t ELSE queue[w]
  BY Zenon DEF ServerInv
<1>2. \A w \in Workers : IsQueue(queue'[w])
  BY <1>1, Zenon DEF ServerInv
<1>3. ASSUME NEW w \in Workers, thread[w] # "none"
      PROVE  Served(w)' /\ Upcoming(w)'
  <2>1. CASE w = v
    BY <1>1, <1>3, <2>1, Zenon DEF Served, Upcoming
  <2>2. CASE w # v
    <3>1. queue'[w] = queue[w] /\ key_locator_'[w] = key_locator_[w]
          /\ source'[w] = source[w]
      BY <1>1, <2>2, Zenon
    <3>2. Served(w) /\ Upcoming(w)
      BY <1>3, Zenon DEF ServerInv, LatestLocatorWins
    <3> QED  BY <3>1, <3>2, Zenon DEF Served, Upcoming
  <2> QED  BY <2>1, <2>2, Zenon
<1> QED  BY <1>1, <1>2, <1>3, Zenon DEF ServerInv, LatestLocatorWins

\* A handler has been taken: the locators that are left are those behind it.
LEMMA TakenLocators ==
  ASSUME NEW s, IsQueue(s), s # <<>>, NEW f,
         NEW g, IsLocator(Head(s)) => g = Head(s)[3], ComesTo(s, g, f)
  PROVE  ComesTo(Tail(s), g, f)
<1> DEFINE t == Tail(s)
<1>1. /\ Head(s) = s[1] /\ Len(s) \in Nat \ {0} /\ DOMAIN s = 1..Len(s)
      /\ DOMAIN t = 1..(Len(s) - 1)
      /\ \A i \in DOMAIN t : t[i] = s[i + 1]
  BY Taken, Zenon
<1> HIDE DEF t
<1>2. \A i \in DOMAIN t : i + 1 \in DOMAIN s
  BY <1>1
<1>3. \A j \in DOMAIN s : j = 1 \/ (j - 1 \in DOMAIN t /\ t[j - 1] = s[j])
  BY <1>1
<1>4. CASE \E i \in DOMAIN t : IsLocator(t[i])
  <2>1. \E i \in DOMAIN s : IsLocator(s[i])
    BY <1>1, <1>2, <1>4, Zenon
  <2>2. ASSUME NEW i \in DOMAIN t, LastLocator(t, i)  PROVE t[i][3] = f
    <3>1. i \in Nat \ {0} /\ i + 1 \in DOMAIN s /\ IsLocator(s[i + 1])
      BY <1>1, <2>2 DEF LastLocator
    <3>2. ASSUME NEW j \in DOMAIN s, j > i + 1  PROVE ~IsLocator(s[j])
      <4>1. j - 1 \in DOMAIN t /\ t[j - 1] = s[j] /\ j - 1 > i
        BY <1>1, <1>3, <3>1, <3>2
      <4> QED  BY <2>2, <4>1, Zenon DEF LastLocator
    <3>3. LastLocator(s, i + 1)
      BY <3>1, <3>2, Zenon DEF LastLocator
    <3> QED  BY <1>1, <2>1, <3>1, <3>3, Zenon DEF ComesTo
  <2> QED  BY <1>4, <2>2, Zenon DEF ComesTo, t
<1>5. CASE ~\E i \in DOMAIN t : IsLocator(t[i])
  <2>1. \A j \in DOMAIN s : j # 1 => ~IsLocator(s[j])
    BY <1>3, <1>5, Zenon
  <2>2. g = f
    <3>1. CASE IsLocator(s[1])
      <4>1. LastLocator(s, 1)
        BY <1>1, <2>1, <3>1 DEF LastLocator
      <4> QED  BY <1>1, <3>1, <4>1 DEF ComesTo
    <3>2. CASE ~IsLocator(s[1])
      BY <2>1, <3>2, Zenon DEF ComesTo
    <3> QED  BY <3>1, <3>2, Zenon
  <2> QED  BY <1>5, <2>2, Zenon DEF ComesTo, t
<1> QED  BY <1>4, <1>5, Zenon

LEMMA NextInv == ServerInv /\ [Next]_vars => ServerInv'
<1> SUFFICES ASSUME ServerInv, [Next]_vars PROVE ServerInv'
  BY Zenon
<1>1. CASE UNCHANGED vars
  <2>1. UNCHANGED <<queue, key_locator_, source, loaded, dead, main, thread, file>>
    BY <1>1, Zenon DEF vars
  <2> QED  BY <2>1, OtherStep, Zenon DEF ServerInv
<1>2. CASE Run
  <2>1. /\ UNCHANGED <<key_locator_, source, dead, file, loaded>> /\ main = "start"
        /\ main' = "run" /\ OnLocatorUpdated(clusters_)
        /\ thread' = [w \in Workers |-> "loop"]
    BY <1>2, Zenon DEF Run, config
  <2>2. thread' = [w \in Workers |-> thread'[w]]
    BY <2>1, Zenon
  <2>3. loaded' = file /\ dead' # "locator"
    BY <2>1, Zenon DEF ServerInv
  <2> QED  BY <2>1, <2>2, <2>3, PostedStep, Zenon
<1>3. CASE OnSighup
  <2> DEFINE p == ReloadCulsters(context_, file)
             clusters == Cleared(clusters_) \o p.clusters
  <2>1. /\ UNCHANGED <<key_locator_, source, thread, main>> /\ main = "run"
        /\ dead' = (IF p.undefined THEN "cluster" ELSE dead)
        /\ IF p.ok /\ clusters # <<>>
           THEN OnLocatorUpdated(clusters) /\ loaded' = file
           ELSE UNCHANGED <<queue, loaded>>
    BY <1>3, Zenon DEF OnSighup
  <2> HIDE DEF p, clusters
  <2>2. dead' # "locator"
    BY <2>1, Zenon DEF ServerInv
  <2>3. CASE p.ok /\ clusters # <<>>
    BY <2>1, <2>2, <2>3, PostedStep, Zenon DEF ServerInv
  <2>4. CASE ~(p.ok /\ clusters # <<>>)
    BY <2>1, <2>2, <2>4, OtherStep, Zenon DEF ServerInv
  <2> QED  BY <2>3, <2>4, Zenon
<1>4. CASE \/ Stop \/ Joined \/ HandleAccept \/ AcceptFails
           \/ \E f \in Files : EditFile(f)
           \/ \E signal \in {"HUP", "TERM"} : OnSignal(signal)
  <2>1. /\ UNCHANGED <<queue, key_locator_, source, loaded, dead, thread>>
        /\ main' # "start"
    BY <1>4, Zenon DEF Stop, Joined, HandleAccept, AcceptFails, EditFile, OnSignal,
                config, pool
  <2> QED  BY <2>1, OtherStep, Zenon DEF ServerInv
<1>5. ASSUME NEW w \in Workers, Loop(w) \/ RunReturns(w)
      PROVE  ServerInv'
  <2>1. PICK x : thread' = [thread EXCEPT ![w] = x] /\ x # "none"
    BY <1>5, Zenon DEF Loop, RunReturns
  <2>2. /\ thread' = [u \in Workers |-> thread'[u]]
        /\ \A u \in Workers : thread'[u] = "none" <=> thread[u] = "none"
    <3>1. thread[w] # "none"
      BY <1>5, Zenon DEF Loop, RunReturns
    <3> QED  BY <2>1, <3>1, Zenon DEF ServerInv
  <2>3. UNCHANGED <<queue, key_locator_, source, loaded, dead, main, file>>
    BY <1>5, Zenon DEF Loop, RunReturns, config
  <2> QED  BY <2>2, <2>3, OtherStep, Zenon DEF ServerInv
<1>6. ASSUME NEW w \in Workers, SetLocator(w)
      PROVE  ServerInv'
  <2> DEFINE s == queue[w]
  <2>1. /\ thread[w] = "run" /\ s # <<>> /\ IsLocator(Head(s))
        /\ UNCHANGED <<main, thread, loaded, dead>>
        /\ key_locator_' = [key_locator_ EXCEPT ![w] = PointerTo(Head(s)[2])]
        /\ source' = [source EXCEPT ![w] = Head(s)[3]]
        /\ queue' = [queue EXCEPT ![w] = Tail(s)]
    BY <1>6, Zenon DEF SetLocator, IsLocator, config
  <2>2. main # "start" /\ IsQueue(s) /\ Upcoming(w)
    BY <2>1, Zenon DEF ServerInv, LatestLocatorWins
  <2>3. IsQueue(Tail(s))
    BY <2>1, <2>2, Taken, Zenon
  <2>4. /\ key_locator_' = [u \in Workers |-> key_locator_'[u]]
        /\ source' = [u \in Workers |-> source'[u]]
        /\ key_locator_'[w] = PointerTo(Head(s)[2]) /\ source'[w] = Head(s)[3]
        /\ \A u \in Workers : u # w =>
             key_locator_'[u] = key_locator_[u] /\ source'[u] = source[u]
    BY <2>1, Zenon DEF ServerInv
  <2>5. key_locator_'[w] # NoLocator
    BY <2>4 DEF PointerTo, NoLocator
  <2>6. ComesTo(s, source'[w], loaded)
    <3>1. 1 \in DOMAIN s /\ IsLocator(s[1])
      BY <2>1, <2>2, Taken
    <3> QED  BY <2>2, <3>1, Zenon DEF Upcoming, ComesTo
  <2> HIDE DEF s
  <2>7. ComesTo(Tail(s), source'[w], loaded)
    BY <2>1, <2>2, <2>4, <2>6, TakenLocators, Zenon
  <2>8. dead' # "locator"
    BY <2>1, Zenon DEF ServerInv
  <2> QED  BY <2>1, <2>2, <2>3, <2>4, <2>5, <2>7, <2>8, WorkerStepInv, Zenon
<1>7. ASSUME NEW w \in Workers, NEW key \in Keys, HandleQuery(w, key)
      PROVE  ServerInv'
  <2> DEFINE s == queue[w]
  <2>1. /\ thread[w] = "run" /\ s # <<>> /\ Head(s)[1] = "query"
        /\ UNCHANGED <<main, thread, loaded, key_locator_, source>>
        /\ queue' = [queue EXCEPT ![w] = Tail(s)]
        /\ key_locator_[w] # NoLocator => dead' # "locator"
    BY <1>7, Zenon DEF HandleQuery, config
  <2>2. main # "start" /\ IsQueue(s) /\ Upcoming(w) /\ Served(w)
    BY <2>1, Zenon DEF ServerInv, LatestLocatorWins
  <2>3. IsQueue(Tail(s)) /\ Head(s) = s[1]
    BY <2>1, <2>2, Taken, Zenon
  <2>4. ~IsLocator(Head(s))
    BY <2>1, Zenon DEF IsLocator
  <2>5. key_locator_[w] # NoLocator
    BY <2>2, <2>3, <2>4, Zenon DEF Served
  <2>6. ComesTo(s, source[w], loaded)
    BY <2>2, Zenon DEF Upcoming
  <2> HIDE DEF s
  <2>7. ComesTo(Tail(s), source[w], loaded)
    BY <2>1, <2>2, <2>4, <2>6, TakenLocators, Zenon
  <2>8. /\ key_locator_' = [u \in Workers |-> key_locator_'[u]]
        /\ source' = [u \in Workers |-> source'[u]]
    BY <2>1, Zenon DEF ServerInv
  <2> QED  BY <2>1, <2>2, <2>3, <2>5, <2>7, <2>8, WorkerStepInv, Zenon
<1>8. ASSUME NEW c \in DOMAIN clients, QueryArrives(c)
      PROVE  ServerInv'
  <2> DEFINE w == clients[c]
             s == queue[w]
             t == Append(s, <<"query">>)
  <2>1. /\ main # "start" /\ queue' = [queue EXCEPT ![w] = t]
        /\ UNCHANGED <<main, thread, loaded, key_locator_, source, dead>>
    BY <1>8, Zenon DEF QueryArrives, config
  <2>2. CASE w \notin Workers
    <3>1. queue' = queue
      BY <2>1, <2>2, Zenon DEF ServerInv
    <3> QED  BY <2>1, <3>1, OtherStep, Zenon DEF ServerInv
  <2>3. CASE w \in Workers
    <3>1. IsQueue(s)
      BY <2>3, Zenon DEF ServerInv
    <3>2. /\ IsQueue(t) /\ t # <<>> /\ Len(s) \in Nat /\ DOMAIN s = 1..Len(s)
          /\ DOMAIN t = 1..(Len(s) + 1)
          /\ \A i \in DOMAIN s : t[i] = s[i]
          /\ t[Len(s) + 1] = <<"query">>
      BY <3>1, Appended, Zenon
    <3>3. ~IsLocator(<<"query">>)
      BY Zenon DEF IsLocator
    <3>4. \A i \in DOMAIN t : IsLocator(t[i]) <=> i \in DOMAIN s /\ IsLocator(s[i])
      BY <3>2, <3>3
    <3>5. \A i \in DOMAIN s : i \in DOMAIN t
      BY <3>2
    <3>6. s # <<>> => 1 \in DOMAIN s
      BY <3>1, Taken
    <3>7. thread[w] # "none" => Served(w) /\ Upcoming(w)
      BY <2>3, Zenon DEF ServerInv, LatestLocatorWins
    <3>8. /\ key_locator_' = [u \in Workers |-> key_locator_'[u]]
          /\ source' = [u \in Workers |-> source'[u]] /\ dead' # "locator"
      BY <2>1, Zenon DEF ServerInv
    <3>9. thread[w] # "none" /\ key_locator_[w] = NoLocator =>
            t # <<>> /\ IsLocator(t[1])
      BY <3>2, <3>6, <3>7, Zenon DEF Served
    <3>10. thread[w] # "none" => ComesTo(s, source[w], loaded)
      BY <3>7, Zenon DEF Upcoming
    <3> HIDE DEF s, t
    <3>11. \A i \in DOMAIN t : LastLocator(t, i) => LastLocator(s, i) /\ t[i] = s[i]
      BY <3>2, <3>4, <3>5, Zenon DEF LastLocator
    <3>12. (\E i \in DOMAIN t : IsLocator(t[i])) <=> (\E i \in DOMAIN s : IsLocator(s[i]))
      BY <3>4, <3>5, Zenon
    <3>13. thread[w] # "none" => ComesTo(t, source[w], loaded)
      BY <3>10, <3>11, <3>12 DEF LastLocator, ComesTo
    <3> QED  BY <2>1, <2>3, <3>2, <3>8, <3>9, <3>13, WorkerStepInv, Zenon
  <2> QED  BY <2>2, <2>3, Zenon
<1>9. CASE RunFails
  <2>1. /\ UNCHANGED <<key_locator_, source, dead, file, loaded, thread>>
        /\ main = "start" /\ main' = "terminated"
        /\ IF clusters_ = <<>> THEN UNCHANGED queue ELSE OnLocatorUpdated(clusters_)
    BY <1>9, Zenon DEF RunFails, config
  <2>2. CASE clusters_ = <<>>
    BY <2>1, <2>2, OtherStep, Zenon DEF ServerInv
  <2>3. CASE clusters_ # <<>>
    <3>1. loaded' = file /\ dead' # "locator" /\ thread' = [w \in Workers |-> thread'[w]]
      BY <2>1, Zenon DEF ServerInv
    <3> QED  BY <2>1, <2>3, <3>1, PostedStep, Zenon
  <2> QED  BY <2>2, <2>3, Zenon
<1> QED  BY <1>1, <1>2, <1>3, <1>4, <1>5, <1>6, <1>7, <1>8, <1>9, Zenon
         DEF Next, MainStep, WorkerStep

-----------------------------------------------------------------------------
(* The theorems.                                                           *)

\* The queues stay in order, whatever is posted and whenever it is taken.
THEOREM ServerInvariant == Spec => []ServerInv
<1> QED  BY InitInv, NextInv, PTL DEF Spec

\* Run posts the locator before it starts the threads and accepts clients:
\* no query finds its worker without one.
THEOREM LocatorIsThere == Spec => []LocatorBeforeQuery
<1>1. ServerInv => LocatorBeforeQuery
  BY Zenon DEF ServerInv, LocatorBeforeQuery
<1> QED  BY <1>1, ServerInvariant, PTL

\* However SIGHUPs and queries interleave, the locator that a worker ends up
\* with is that of the last reload OnSighup has accepted.
THEOREM LastReloadWins == Spec => []LatestLocatorWins
<1>1. ServerInv => LatestLocatorWins
  BY Zenon DEF ServerInv
<1> QED  BY <1>1, ServerInvariant, PTL

-----------------------------------------------------------------------------
(* Consistent hashing.                                                     *)

\* The hashes of the points are numbers.
LEMMA HashesAreNat ==
  ASSUME NEW cps \in Seq(CachePoint), NEW j \in DOMAIN cps
  PROVE  cps[j].hash_point \in Nat
<1>1. j \in 1..Len(cps)
  OBVIOUS
<1>2. cps[j] \in CachePoint
  BY <1>1, SeqElement, Zenon
<1> QED  BY <1>2, Zenon DEF CachePoint

\* A set of numbers has a least one.
LEMMA Least ==
  ASSUME NEW T, T \subseteq Nat, T # {}
  PROVE  \E i \in T : \A j \in T : ~ (j < i)
<1>1. PICK i \in T : \A j \in T : ~ (<<j, i>> \in OpToRel(<, Nat))
  BY WFMin, NatLessThanWellFounded, Zenon
<1>2. \A j \in T : ~ (j < i)
  BY <1>1, Zenon DEF OpToRel
<1> QED  BY <1>2, Zenon

\* std::lower_bound finds the points at or after the hash if there are any.
LEMMA LowerBoundExists ==
  ASSUME NEW cps \in Seq(CachePoint), NEW hash \in Nat,
         NEW k \in DOMAIN cps, cps[k].hash_point >= hash
  PROVE  \E i \in DOMAIN cps : IsLowerBound(cps, hash, i)
<1> DEFINE T == {i \in DOMAIN cps : cps[i].hash_point >= hash}
<1>1. T \subseteq Nat /\ T # {}
  OBVIOUS
<1>2. PICK i \in T : \A j \in T : ~ (j < i)
  <2> HIDE DEF T
  <2> QED  BY <1>1, Least, Zenon
<1>3. i \in T /\ \A j \in T : ~ (j < i)
  BY <1>2, Zenon
<1>4. \A j \in DOMAIN cps : cps[j].hash_point \in Nat
  BY HashesAreNat, Zenon
<1>5. IsLowerBound(cps, hash, i)
  BY <1>3, <1>4 DEF IsLowerBound
<1> QED  BY <1>5, Zenon

\* Every hash has an owner unless the continuum is empty.
LEMMA OwnerExists ==
  ASSUME NEW cps \in Seq(CachePoint), NEW hash \in Nat, cps # <<>>
  PROVE  \E i \in DOMAIN cps : Owns(cps, hash, i)
<1>1. CASE \E i \in DOMAIN cps : IsLowerBound(cps, hash, i)
  BY <1>1, Zenon DEF LocateCacheNode, Owns
<1>2. CASE ~ \E i \in DOMAIN cps : IsLowerBound(cps, hash, i)
  <2>1. \A j \in DOMAIN cps : cps[j].hash_point \in Nat
    BY HashesAreNat, Zenon
  <2>2. \A j \in DOMAIN cps : cps[j].hash_point < hash
    BY <1>2, <2>1, LowerBoundExists
  <2>3. 1 \in DOMAIN cps
    OBVIOUS
  <2> QED  BY <1>2, <2>2, <2>3, Zenon DEF LocateCacheNode, Owns
<1> QED  BY <1>1, <1>2, Zenon

\* The owner is the first point at or after the hash, or the first of all.
LEMMA OwnerIsFirst ==
  ASSUME NEW cps \in Seq(CachePoint), Sorted(cps), NEW hash \in Nat,
         NEW i \in DOMAIN cps, Owns(cps, hash, i), NEW k \in DOMAIN cps
  PROVE  IF cps[i].hash_point >= hash
         THEN cps[k].hash_point >= hash => cps[i].hash_point <= cps[k].hash_point
         ELSE cps[k].hash_point < hash /\ cps[i].hash_point <= cps[k].hash_point
<1>1. i \in Nat /\ k \in Nat /\ i >= 1 /\ k >= 1
  OBVIOUS
<1>2. cps[i].hash_point \in Nat /\ cps[k].hash_point \in Nat
  BY HashesAreNat, Zenon
<1>3. i < k => cps[i].hash_point <= cps[k].hash_point
  BY Zenon DEF Sorted
<1>4. CASE IsLowerBound(cps, hash, i)
  <2>1. cps[i].hash_point >= hash /\ (k < i => cps[k].hash_point < hash)
    BY <1>4, Zenon DEF IsLowerBound
  <2> QED  BY <1>1, <1>2, <1>3, <2>1
<1>5. CASE i = 1 /\ \A j \in DOMAIN cps : cps[j].hash_point < hash
  <2>1. cps[i].hash_point < hash /\ cps[k].hash_point < hash
    BY <1>5, Zenon
  <2>2. i = k \/ i < k
    BY <1>1, <1>5
  <2> QED  BY <1>2, <1>3, <2>1, <2>2
<1> QED  BY <1>4, <1>5, Zenon DEF Owns

\* A change of the continuum moves a key only away from a point that is gone,
\* to a point that is new, or between two points at the same place, whatever
\* the hash function, the weights and the number of backends: LocateCacheNode
\* is consistent hashing.
THEOREM ConsistentHashing ==
  ASSUME NEW old \in Seq(CachePoint), Sorted(old),
         NEW new \in Seq(CachePoint), Sorted(new), NEW hash \in Nat
  PROVE  Explained(old, new, hash)
<1>1. CASE old = <<>> /\ new = <<>>
  BY <1>1, Zenon DEF Explained
<1>2. CASE old = <<>> /\ new # <<>>
  <2>1. PICK j \in DOMAIN new : Owns(new, hash, j)
    BY <1>2, OwnerExists, Zenon
  <2>2. new[j] \in PointsOf(new) \ PointsOf(old)
    BY <1>2 DEF PointsOf
  <2> QED  BY <2>1, <2>2, Zenon DEF Explained, Owns
<1>3. CASE old # <<>> /\ new = <<>>
  <2>1. PICK i \in DOMAIN old : Owns(old, hash, i)
    BY <1>3, OwnerExists, Zenon
  <2>2. old[i] \in PointsOf(old) \ PointsOf(new)
    BY <1>3 DEF PointsOf
  <2> QED  BY <2>1, <2>2, Zenon DEF Explained, Owns
<1>4. CASE old # <<>> /\ new # <<>>
  <2>1. PICK i \in DOMAIN old : Owns(old, hash, i)
    BY <1>4, OwnerExists, Zenon
  <2>2. PICK j \in DOMAIN new : Owns(new, hash, j)
    BY <1>4, OwnerExists, Zenon
  <2>3. old[i] \in PointsOf(old) /\ new[j] \in PointsOf(new)
    BY Zenon DEF PointsOf
  <2>4. CASE old[i] \notin PointsOf(new) \/ new[j] \notin PointsOf(old)
    BY <2>1, <2>2, <2>3, <2>4, Zenon DEF Explained, Owns
  <2>5. CASE old[i] \in PointsOf(new) /\ new[j] \in PointsOf(old)
    <3>1. PICK m \in DOMAIN new : new[m] = old[i]
      BY <2>5, Zenon DEF PointsOf
    <3>2. PICK n \in DOMAIN old : old[n] = new[j]
      BY <2>5, Zenon DEF PointsOf
    <3>3. /\ \A k \in DOMAIN old : old[k].hash_point \in Nat
          /\ \A k \in DOMAIN new : new[k].hash_point \in Nat
      BY HashesAreNat, Zenon
    <3>4. old[i].hash_point = new[j].hash_point
      <4>1. IF old[i].hash_point >= hash
            THEN new[j].hash_point >= hash => old[i].hash_point <= new[j].hash_point
            ELSE new[j].hash_point < hash /\ old[i].hash_point <= new[j].hash_point
        BY <2>1, <3>2, OwnerIsFirst, Zenon
      <4>2. IF new[j].hash_point >= hash
            THEN old[i].hash_point >= hash => new[j].hash_point <= old[i].hash_point
            ELSE old[i].hash_point < hash /\ new[j].hash_point <= old[i].hash_point
        BY <2>2, <3>1, OwnerIsFirst, Zenon
      <4>3. old[i].hash_point \in Nat /\ new[j].hash_point \in Nat
        BY <3>3, Zenon
      <4> QED  BY <4>1, <4>2, <4>3
    <3>5. CASE old[i].endpoint = new[j].endpoint
      BY <2>1, <2>2, <3>5, Zenon DEF Explained, Owns
    <3>6. CASE old[i].endpoint # new[j].endpoint
      BY <2>1, <2>2, <3>4, <3>6, Zenon DEF Explained
    <3> QED  BY <3>5, <3>6, Zenon
  <2> QED  BY <2>4, <2>5, Zenon
<1> QED  BY <1>1, <1>2, <1>3, <1>4, Zenon

-----------------------------------------------------------------------------
(* The pool of backend connections: PoolInv is an inductive invariant of   *)
(* BackendPool, for any number of connections, endpoints and commands and  *)
(* any limit.                                                              *)

\* The empty pool.
LEMMA InitPool == PoolInit => PoolInv
  <1> SUFFICES ASSUME PoolInit PROVE PoolInv
    BY Zenon
  <1>1. PoolTypeOK
    BY DEF PoolInit, PoolTypeOK
  <1>2. \A ep \in PoolEndpoints : conn_map[ep] = <<>> /\ Len(conn_map[ep]) = 0
    BY Zenon DEF PoolInit
  <1>3. IdleInv
    BY <1>2 DEF IdleInv
  <1>4. ActiveInv /\ NoLeak
    BY Zenon DEF PoolInit, ActiveInv, NoLeak
  <1>5. IdleBounded
    BY <1>2, PoolAssumption DEF IdleBounded
  <1> QED
    BY <1>1, <1>2, <1>3, <1>4, <1>5, Zenon DEF PoolInv

\* A queue without its head.
LEMMA TailFacts ==
  ASSUME NEW S, NEW q \in Seq(S), q # <<>>
  PROVE  /\ Tail(q) \in Seq(S) /\ Len(q) \in Nat /\ Len(q) > 0
         /\ Len(Tail(q)) = Len(q) - 1
         /\ \A i \in 1..Len(Tail(q)) : i + 1 \in 1..Len(q) /\ Tail(q)[i] = q[i + 1]
         /\ Head(q) = q[1] /\ Head(q) \in S
  OBVIOUS

\* A queue with one more element.
LEMMA AppendFacts ==
  ASSUME NEW S, NEW q \in Seq(S), NEW c \in S
  PROVE  /\ Append(q, c) \in Seq(S) /\ Len(q) \in Nat
         /\ Len(Append(q, c)) = Len(q) + 1
         /\ \A i \in 1..Len(q) : Append(q, c)[i] = q[i]
         /\ Append(q, c)[Len(q) + 1] = c
  OBVIOUS

\* Allocate takes the head of a queue.
LEMMA ReusePool ==
  ASSUME PoolInv, NEW u \in Users, NEW c \in Conns, NEW ep \in PoolEndpoints,
         Reuse(u, c, ep)
  PROVE  PoolInv'
  <1> DEFINE q == conn_map[ep]
  <1>1. q \in Seq(Conns) /\ q # <<>> /\ c = Head(q)
    BY Zenon DEF Reuse, PoolInv, PoolTypeOK
  <1>2. /\ Tail(q) \in Seq(Conns) /\ Len(q) \in Nat /\ Len(q) > 0
        /\ Len(Tail(q)) = Len(q) - 1
        /\ \A i \in 1..Len(Tail(q)) :
             i + 1 \in 1..Len(q) /\ Tail(q)[i] = q[i + 1]
        /\ c = q[1]
    BY <1>1, TailFacts, Zenon
  <1>3. /\ active_conns[c] = NoEp /\ remote[c] = ep /\ c \notin finished
        /\ \A j \in 1..Len(q) : q[j] = c => 1 = j
    BY <1>2 DEF PoolInv, IdleInv
  <1>4. /\ conn_map' = [conn_map EXCEPT ![ep] = Tail(q)]
        /\ active_conns' = [active_conns EXCEPT ![c] = ep]
        /\ held' = [held EXCEPT ![u] = held[u] \cup {c}]
        /\ UNCHANGED <<known, remote, finished, no_recycle>>
    BY Zenon DEF Reuse, Take
  <1>5. PoolTypeOK'
    BY <1>2, <1>4, Zenon DEF PoolInv, PoolTypeOK
  <1>6. /\ \A e \in PoolEndpoints : conn_map'[e] = IF e = ep THEN Tail(q)
                                                         ELSE conn_map[e]
        /\ \A d \in Conns : active_conns'[d] = IF d = c THEN ep
                                                        ELSE active_conns[d]
        /\ \A v \in Users : held'[v] = IF v = u THEN held[u] \cup {c}
                                                ELSE held[v]
    BY <1>4, Zenon DEF PoolInv, PoolTypeOK
  <1> HIDE DEF q
  <1>7. IdleInv'
    <2> SUFFICES ASSUME NEW e \in PoolEndpoints, NEW i \in 1..Len(conn_map'[e])
                 PROVE  LET d == conn_map'[e][i] IN
                        /\ active_conns'[d] = NoEp /\ remote'[d] = e
                        /\ d \notin finished'
                        /\ \A j \in 1..Len(conn_map'[e]) :
                             conn_map'[e][j] = d => i = j
      BY Zenon DEF IdleInv
    <2>1. CASE e = ep
      <3>1. /\ i \in 1..Len(Tail(q)) /\ conn_map'[e][i] = q[i + 1]
            /\ i + 1 \in 1..Len(q) /\ conn_map'[e] = Tail(q)
            /\ conn_map[e] = q
        BY <1>2, <1>6, <2>1, Zenon DEF q
      <3>2. q[i + 1] # c
        BY <1>2, <1>3, <3>1
      <3>3. /\ active_conns[q[i + 1]] = NoEp /\ remote[q[i + 1]] = e
            /\ q[i + 1] \notin finished
            /\ \A j \in 1..Len(q) : q[j] = q[i + 1] => i + 1 = j
        BY <2>1, <3>1 DEF PoolInv, IdleInv
      <3>4. q[i + 1] \in Conns
        BY <1>1, <3>1 DEF q
      <3>5. active_conns'[q[i + 1]] = NoEp
        BY <1>6, <3>2, <3>3, <3>4, Zenon
      <3>6. \A j \in 1..Len(Tail(q)) : Tail(q)[j] = q[i + 1] => i = j
        BY <1>2, <3>1, <3>3
      <3> QED
        BY <1>4, <3>1, <3>3, <3>5, <3>6
    <2>2. CASE e # ep
      <3>1. conn_map'[e] = conn_map[e]
        BY <1>6, <2>2, Zenon
      <3>2. LET d == conn_map[e][i] IN
            /\ active_conns[d] = NoEp /\ remote[d] = e /\ d \notin finished
            /\ \A j \in 1..Len(conn_map[e]) : conn_map[e][j] = d => i = j
        BY <3>1, Zenon DEF PoolInv, IdleInv
      <3>3. conn_map[e][i] \in Conns /\ conn_map[e][i] # c
        <4>1. conn_map[e] \in Seq(Conns) /\ i \in 1..Len(conn_map[e])
          BY <3>1, Zenon DEF PoolInv, PoolTypeOK
        <4> QED
          BY <1>3, <2>2, <3>2, <4>1
      <3>4. active_conns'[conn_map[e][i]] = NoEp
        BY <1>6, <3>2, <3>3, Zenon
      <3>5. remote' = remote /\ finished' = finished
        BY <1>4, Zenon
      <3> QED
        BY <3>1, <3>2, <3>4, <3>5, Zenon
    <2> QED
      BY <2>1, <2>2, Zenon
  <1>8. ActiveInv'
    <2>1. \A d \in Conns :
            /\ active_conns'[d] # NoEp => active_conns'[d] = remote'[d]
            /\ d \in finished' => active_conns'[d] # NoEp
      BY <1>3, <1>4, <1>6, PoolAssumption DEF PoolInv, ActiveInv
    <2>2. \A v \in Users : c \notin held[v]
      BY <1>3, Zenon DEF PoolInv, ActiveInv
    <2>3. \A v \in Users : held[v] \in SUBSET Conns
      BY Zenon DEF PoolInv, PoolTypeOK
    <2>4. \A v \in Users : \A d \in held'[v] :
            /\ active_conns'[d] # NoEp
            /\ \A w \in Users : d \in held'[w] => v = w
      BY <1>6, <2>2, <2>3, PoolAssumption DEF PoolInv, ActiveInv
    <2> QED
      BY <2>1, <2>4, Zenon DEF ActiveInv
  <1>9. NoLeak'
    <2> SUFFICES ASSUME NEW d \in Conns, remote'[d] # NoEp
                 PROVE  (\E v \in Users : d \in held'[v]) \/ d \in Idle(remote[d])'
      BY Zenon DEF NoLeak
    <2>0. remote' = remote /\ remote[d] # NoEp
      BY <1>4, Zenon
    <2> SUFFICES ASSUME \A v \in Users : d \notin held'[v]
                 PROVE  \E i \in 1..Len(conn_map'[remote[d]]) :
                          d = conn_map'[remote[d]][i]
      BY <2>0, Zenon DEF Idle
    <2>1. CASE d = c \/ \E v \in Users : d \in held[v]
      BY <1>6, <2>1, Zenon
    <2>2. CASE d # c /\ d \in Idle(remote[d])
      <3>1. PICK i \in 1..Len(conn_map[remote[d]]) : d = conn_map[remote[d]][i]
        BY <2>2, Zenon DEF Idle
      <3>2. remote[d] \in PoolEndpoints
        BY <2>0, Zenon DEF PoolInv, PoolTypeOK
      <3>3. CASE remote[d] = ep
        <4>1. conn_map[ep] = q /\ i \in 1..Len(q) /\ d = q[i]
          BY <3>1, <3>3, Zenon DEF q
        <4>2. i # 1
          BY <1>2, <2>2, <4>1, Zenon
        <4>3. i - 1 \in 1..Len(Tail(q)) /\ Tail(q)[i - 1] = q[(i - 1) + 1]
                /\ (i - 1) + 1 = i
          BY <1>2, <4>1, <4>2
        <4>4. d = Tail(q)[i - 1]
          BY <4>1, <4>3, Zenon
        <4>5. conn_map'[remote[d]] = Tail(q)
          BY <1>6, <3>3, Zenon
        <4> QED
          BY <4>3, <4>4, <4>5, Zenon
      <3>4. CASE remote[d] # ep
        BY <1>6, <3>1, <3>2, <3>4, Zenon
      <3> QED
        BY <3>3, <3>4, Zenon
    <2> QED
      BY <2>0, <2>1, <2>2, Zenon DEF PoolInv, NoLeak
  <1>10. IdleBounded'
    <2> SUFFICES ASSUME NEW e \in PoolEndpoints
                 PROVE  Len(conn_map'[e]) <= (IF MaxIdle = 0 THEN 1 ELSE MaxIdle)
      BY Zenon DEF IdleBounded
    <2>1. Len(conn_map[e]) <= (IF MaxIdle = 0 THEN 1 ELSE MaxIdle)
      BY Zenon DEF PoolInv, IdleBounded
    <2>2. CASE e = ep
      <3>1. conn_map'[e] = Tail(q) /\ conn_map[e] = q
        BY <1>6, <2>2, Zenon DEF q
      <3> QED
        BY <1>2, <2>1, <3>1, PoolAssumption
    <2>3. CASE e # ep
      BY <1>6, <2>1, <2>3, Zenon
    <2> QED
      BY <2>2, <2>3, Zenon
  <1>11. \A e \in PoolEndpoints \ known' : conn_map'[e] = <<>>
    BY <1>1, <1>4, <1>6, Zenon DEF PoolInv, q
  <1> QED
    BY <1>5, <1>7, <1>8, <1>9, <1>10, <1>11, Zenon DEF PoolInv

\* Allocate makes a new connection.
LEMMA CreatePool ==
  ASSUME PoolInv, NEW u \in Users, NEW c \in Conns, NEW ep \in PoolEndpoints,
         Create(u, c, ep)
  PROVE  PoolInv'
  <1>1. /\ remote[c] = NoEp /\ remote' = [remote EXCEPT ![c] = ep]
        /\ active_conns' = [active_conns EXCEPT ![c] = ep]
        /\ held' = [held EXCEPT ![u] = held[u] \cup {c}]
        /\ UNCHANGED <<conn_map, known, finished, no_recycle>>
    BY Zenon DEF Create, Take
  <1>2. PoolTypeOK'
    BY <1>1, Zenon DEF PoolInv, PoolTypeOK
  <1>3. /\ \A d \in Conns :
             /\ active_conns'[d] = IF d = c THEN ep ELSE active_conns[d]
             /\ remote'[d] = IF d = c THEN ep ELSE remote[d]
        /\ \A v \in Users : held'[v] = IF v = u THEN held[u] \cup {c}
                                                ELSE held[v]
    BY <1>1, Zenon DEF PoolInv, PoolTypeOK
  <1>4. active_conns[c] = NoEp
    BY <1>1, Zenon DEF PoolInv, ActiveInv
  <1>5. IdleInv'
    <2> SUFFICES ASSUME NEW e \in PoolEndpoints, NEW i \in 1..Len(conn_map[e])
                 PROVE  LET d == conn_map[e][i] IN
                        /\ active_conns'[d] = NoEp /\ remote'[d] = e
                        /\ d \notin finished
                        /\ \A j \in 1..Len(conn_map[e]) :
                             conn_map[e][j] = d => i = j
      BY <1>1 DEF IdleInv
    <2>1. LET d == conn_map[e][i] IN
          /\ active_conns[d] = NoEp /\ remote[d] = e /\ d \notin finished
          /\ \A j \in 1..Len(conn_map[e]) : conn_map[e][j] = d => i = j
      BY Zenon DEF PoolInv, IdleInv
    <2>2. conn_map[e] \in Seq(Conns)
      BY Zenon DEF PoolInv, PoolTypeOK
    <2>3. conn_map[e][i] \in Conns /\ conn_map[e][i] # c
      BY <1>1, <2>1, <2>2, PoolAssumption
    <2> QED
      BY <1>3, <2>1, <2>3, Zenon
  <1>6. ActiveInv'
    <2>1. \A d \in Conns :
            /\ active_conns'[d] # NoEp => active_conns'[d] = remote'[d]
            /\ d \in finished' => active_conns'[d] # NoEp
      BY <1>1, <1>3, PoolAssumption DEF PoolInv, ActiveInv
    <2>2. \A v \in Users : c \notin held[v] /\ held[v] \in SUBSET Conns
      BY <1>4, Zenon DEF PoolInv, ActiveInv, PoolTypeOK
    <2>3. \A v \in Users : \A d \in held'[v] :
            /\ active_conns'[d] # NoEp
            /\ \A w \in Users : d \in held'[w] => v = w
      BY <1>3, <2>2, PoolAssumption DEF PoolInv, ActiveInv
    <2> QED
      BY <2>1, <2>3, Zenon DEF ActiveInv
  <1>7. NoLeak'
    BY <1>1, <1>3 DEF PoolInv, NoLeak, Idle
  <1>8. IdleBounded' /\ \A e \in PoolEndpoints \ known' : conn_map'[e] = <<>>
    BY <1>1, Zenon DEF PoolInv, IdleBounded
  <1> QED
    BY <1>2, <1>5, <1>6, <1>7, <1>8, Zenon DEF PoolInv

\* A connection finishes its reply, or must not be recycled.
LEMMA UsePool ==
  ASSUME PoolInv, NEW c \in Conns, Serve(c) \/ Fail(c)
  PROVE  PoolInv'
  <1>1. /\ finished' \in SUBSET Conns /\ no_recycle' \in SUBSET Conns
        /\ \A d \in finished' : d \in finished \/ active_conns[d] # NoEp
        /\ UNCHANGED <<conn_map, known, active_conns, remote, held>>
    BY Zenon DEF Serve, Fail, PoolInv, PoolTypeOK
  <1>2. PoolTypeOK'
    BY <1>1, Zenon DEF PoolInv, PoolTypeOK
  <1>3. IdleInv'
    BY <1>1 DEF PoolInv, IdleInv
  <1>4. ActiveInv'
    BY <1>1, Zenon DEF PoolInv, ActiveInv
  <1>5. NoLeak' /\ IdleBounded'
    BY <1>1, Zenon DEF PoolInv, NoLeak, Idle, IdleBounded
  <1> QED
    BY <1>1, <1>2, <1>3, <1>4, <1>5, Zenon DEF PoolInv

\* Release of a connection that it closes.
LEMMA ClosePool ==
  ASSUME PoolInv, NEW u \in Users, NEW c \in held[u], active_conns[c] # NoEp,
         held' = [held EXCEPT ![u] = held[u] \ {c}],
         active_conns' = [active_conns EXCEPT ![c] = NoEp], Close(c)
  PROVE  PoolInv'
  <1>1. /\ c \in Conns /\ remote' = [remote EXCEPT ![c] = NoEp]
        /\ finished' = finished \ {c} /\ no_recycle' = no_recycle \ {c}
        /\ UNCHANGED <<conn_map, known>>
    BY Zenon DEF Close, PoolInv, PoolTypeOK
  <1>2. PoolTypeOK'
    BY <1>1, Zenon DEF PoolInv, PoolTypeOK
  <1>3. /\ \A d \in Conns :
             /\ active_conns'[d] = IF d = c THEN NoEp ELSE active_conns[d]
             /\ remote'[d] = IF d = c THEN NoEp ELSE remote[d]
        /\ \A v \in Users : held'[v] = IF v = u THEN held[u] \ {c} ELSE held[v]
    BY <1>1, Zenon DEF PoolInv, PoolTypeOK
  <1>4. IdleInv'
    <2> SUFFICES ASSUME NEW e \in PoolEndpoints, NEW i \in 1..Len(conn_map[e])
                 PROVE  LET d == conn_map[e][i] IN
                        /\ active_conns'[d] = NoEp /\ remote'[d] = e
                        /\ d \notin finished'
                        /\ \A j \in 1..Len(conn_map[e]) :
                             conn_map[e][j] = d => i = j
      BY <1>1 DEF IdleInv
    <2>1. LET d == conn_map[e][i] IN
          /\ active_conns[d] = NoEp /\ remote[d] = e /\ d \notin finished
          /\ \A j \in 1..Len(conn_map[e]) : conn_map[e][j] = d => i = j
      BY Zenon DEF PoolInv, IdleInv
    <2>2. conn_map[e] \in Seq(Conns)
      BY Zenon DEF PoolInv, PoolTypeOK
    <2>3. conn_map[e][i] \in Conns /\ conn_map[e][i] # c
      BY <2>1, <2>2
    <2> QED
      BY <1>1, <1>3, <2>1, <2>3, Zenon
  <1>5. ActiveInv'
    <2>1. \A d \in Conns :
            /\ active_conns'[d] # NoEp => active_conns'[d] = remote'[d]
            /\ d \in finished' => active_conns'[d] # NoEp
      BY <1>1, <1>3 DEF PoolInv, ActiveInv
    <2>2. \A v \in Users : held[v] \in SUBSET Conns
      BY Zenon DEF PoolInv, PoolTypeOK
    <2>3. \A v \in Users : \A d \in held'[v] : d \in held[v] /\ d # c
      BY <1>3 DEF PoolInv, ActiveInv
    <2>4. \A v \in Users : \A d \in held'[v] :
            /\ active_conns'[d] # NoEp
            /\ \A w \in Users : d \in held'[w] => v = w
      BY <1>3, <2>2, <2>3, SMTT(30) DEF PoolInv, ActiveInv
    <2> QED
      BY <2>1, <2>4, Zenon DEF ActiveInv
  <1>6. NoLeak'
    BY <1>1, <1>3 DEF PoolInv, NoLeak, Idle
  <1>7. IdleBounded' /\ \A e \in PoolEndpoints \ known' : conn_map'[e] = <<>>
    BY <1>1, Zenon DEF PoolInv, IdleBounded
  <1> QED
    BY <1>2, <1>4, <1>5, <1>6, <1>7, Zenon DEF PoolInv

\* Release of a connection that it pools.
LEMMA PushPool ==
  ASSUME PoolInv, NEW u \in Users, NEW c \in held[u], NEW ep \in PoolEndpoints,
         ep = active_conns[c], HasRoom(ep),
         held' = [held EXCEPT ![u] = held[u] \ {c}],
         active_conns' = [active_conns EXCEPT ![c] = NoEp], Push(c, ep)
  PROVE  PoolInv'
  <1> DEFINE q == conn_map[ep]
  <1>1. /\ c \in Conns /\ q \in Seq(Conns)
        /\ ep # NoEp /\ remote[c] = ep
    BY PoolAssumption, Zenon DEF PoolInv, PoolTypeOK, ActiveInv
  <1>2. /\ conn_map' = [conn_map EXCEPT ![ep] = Append(q, c)]
        /\ known' = known \cup {ep} /\ finished' = finished \ {c}
        /\ remote' = remote /\ no_recycle' = no_recycle
    BY Zenon DEF Push
  <1>3. /\ Append(q, c) \in Seq(Conns) /\ Len(q) \in Nat
        /\ Len(Append(q, c)) = Len(q) + 1
        /\ \A i \in 1..Len(q) : Append(q, c)[i] = q[i]
        /\ Append(q, c)[Len(q) + 1] = c
    BY <1>1, AppendFacts
  <1>4. PoolTypeOK'
    BY <1>2, <1>3, Zenon DEF PoolInv, PoolTypeOK
  <1>5. /\ \A e \in PoolEndpoints : conn_map'[e] = IF e = ep THEN Append(q, c)
                                                         ELSE conn_map[e]
        /\ \A d \in Conns : active_conns'[d] = IF d = c THEN NoEp
                                                        ELSE active_conns[d]
        /\ \A v \in Users : held'[v] = IF v = u THEN held[u] \ {c} ELSE held[v]
    BY <1>1, <1>2, Zenon DEF PoolInv, PoolTypeOK
  <1>6. \A e \in PoolEndpoints : \A i \in 1..Len(conn_map[e]) :
          LET d == conn_map[e][i] IN
          /\ d \in Conns /\ d # c
          /\ active_conns[d] = NoEp /\ remote[d] = e /\ d \notin finished
          /\ \A j \in 1..Len(conn_map[e]) : conn_map[e][j] = d => i = j
    <2> SUFFICES ASSUME NEW e \in PoolEndpoints, NEW i \in 1..Len(conn_map[e])
                 PROVE  LET d == conn_map[e][i] IN
                        /\ d \in Conns /\ d # c
                        /\ active_conns[d] = NoEp /\ remote[d] = e
                        /\ d \notin finished
                        /\ \A j \in 1..Len(conn_map[e]) :
                             conn_map[e][j] = d => i = j
      BY Zenon
    <2>1. LET d == conn_map[e][i] IN
          /\ active_conns[d] = NoEp /\ remote[d] = e /\ d \notin finished
          /\ \A j \in 1..Len(conn_map[e]) : conn_map[e][j] = d => i = j
      BY Zenon DEF PoolInv, IdleInv
    <2>2. conn_map[e] \in Seq(Conns)
      BY Zenon DEF PoolInv, PoolTypeOK
    <2> QED
      BY <1>1, <2>1, <2>2
  <1>7. IdleInv'
    <2> SUFFICES ASSUME NEW e \in PoolEndpoints, NEW i \in 1..Len(conn_map'[e])
                 PROVE  LET d == conn_map'[e][i] IN
                        /\ active_conns'[d] = NoEp /\ remote'[d] = e
                        /\ d \notin finished'
                        /\ \A j \in 1..Len(conn_map'[e]) :
                             conn_map'[e][j] = d => i = j
      BY Zenon DEF IdleInv
    <2>1. CASE e # ep
      <3>1. conn_map'[e] = conn_map[e]
        BY <1>5, <2>1, Zenon
      <3>2. LET d == conn_map[e][i] IN
            /\ d \in Conns /\ d # c
            /\ active_conns[d] = NoEp /\ remote[d] = e /\ d \notin finished
            /\ \A j \in 1..Len(conn_map[e]) : conn_map[e][j] = d => i = j
        BY <1>6, <3>1, Zenon
      <3>3. active_conns'[conn_map[e][i]] = NoEp
        BY <1>5, <3>2, Zenon
      <3>4. remote' = remote /\ conn_map[e][i] \notin finished'
        BY <1>2, <3>2, Zenon
      <3> QED
        BY <3>1, <3>2, <3>3, <3>4, Zenon
    <2>2. CASE e = ep
      <3>1. conn_map'[e] = Append(q, c) /\ conn_map[e] = q
        BY <1>5, <2>2, Zenon
      <3> HIDE DEF q
      <3>2. \A j \in 1..Len(q) :
              /\ q[j] \in Conns /\ q[j] # c /\ active_conns[q[j]] = NoEp
              /\ remote[q[j]] = e /\ q[j] \notin finished
              /\ \A k \in 1..Len(q) : q[k] = q[j] => j = k
        BY <1>6, <3>1, Zenon
      <3>3. i \in 1..Len(q) \/ i = Len(q) + 1
        BY <1>3, <3>1
      <3>4. CASE i \in 1..Len(q)
        <4>1. conn_map'[e][i] = q[i]
          BY <1>3, <3>1, <3>4, Zenon
        <4>2. active_conns'[q[i]] = NoEp /\ remote'[q[i]] = e
                /\ q[i] \notin finished'
          BY <1>2, <1>5, <3>2, <3>4, Zenon
        <4>3. ASSUME NEW j \in 1..Len(Append(q, c)), Append(q, c)[j] = q[i]
              PROVE  i = j
          BY <1>3, <3>2, <3>4, <4>3, SMTT(30)
        <4> QED
          BY <3>1, <4>1, <4>2, <4>3, Zenon
      <3>5. CASE i = Len(q) + 1
        <4>1. conn_map'[e][i] = c
          BY <1>3, <3>1, <3>5, Zenon
        <4>2. active_conns'[c] = NoEp /\ remote'[c] = e /\ c \notin finished'
          BY <1>1, <1>2, <1>5, <2>2, Zenon
        <4>3. ASSUME NEW j \in 1..Len(Append(q, c)), Append(q, c)[j] = c
              PROVE  i = j
          BY <1>3, <3>2, <3>5, <4>3
        <4> QED
          BY <3>1, <4>1, <4>2, <4>3, Zenon
      <3> QED
        BY <3>3, <3>4, <3>5, Zenon
    <2> QED
      BY <2>1, <2>2, Zenon
  <1>8. ActiveInv'
    <2>1. \A d \in Conns :
            /\ active_conns'[d] # NoEp => active_conns'[d] = remote'[d]
            /\ d \in finished' => active_conns'[d] # NoEp
      BY <1>2, <1>5, Zenon DEF PoolInv, ActiveInv
    <2>2. \A v \in Users : held[v] \in SUBSET Conns
      BY Zenon DEF PoolInv, PoolTypeOK
    <2>3. \A v \in Users : \A d \in held'[v] : d \in held[v] /\ d # c
      BY <1>5 DEF PoolInv, ActiveInv
    <2>4. \A v \in Users : \A d \in held'[v] :
            /\ active_conns'[d] # NoEp
            /\ \A w \in Users : d \in held'[w] => v = w
      BY <1>5, <2>2, <2>3 DEF PoolInv, ActiveInv
    <2> QED
      BY <2>1, <2>4, Zenon DEF ActiveInv
  <1>9. NoLeak'
    <2> SUFFICES ASSUME NEW d \in Conns, remote[d] # NoEp
                 PROVE  \/ \E v \in Users : d \in held'[v]
                        \/ \E i \in 1..Len(conn_map'[remote[d]]) :
                             d = conn_map'[remote[d]][i]
      BY <1>2 DEF NoLeak, Idle
    <2>1. CASE d = c
      <3>1. Len(q) + 1 \in 1..Len(Append(q, c))
        BY <1>3
      <3>2. conn_map'[ep] = Append(q, c)
        BY <1>5, Zenon
      <3> QED
        BY <1>1, <1>3, <2>1, <3>1, <3>2, Zenon
    <2>2. CASE d # c /\ \E v \in Users : d \in held[v]
      BY <1>5, <2>2
    <2>3. CASE d \in Idle(remote[d])
      <3>1. PICK i \in 1..Len(conn_map[remote[d]]) : d = conn_map[remote[d]][i]
        BY <2>3, Zenon DEF Idle
      <3>2. remote[d] \in PoolEndpoints
        BY Zenon DEF PoolInv, PoolTypeOK
      <3>3. CASE remote[d] = ep
        <4>1. i \in 1..Len(q) /\ d = q[i] /\ conn_map'[remote[d]] = Append(q, c)
          BY <1>5, <3>1, <3>3, Zenon
        <4>2. i \in 1..Len(Append(q, c)) /\ Append(q, c)[i] = d
          <5> HIDE DEF q
          <5>1. i \in Nat /\ i >= 1 /\ i <= Len(q) + 1
            BY <1>3, <4>1
          <5>2. Append(q, c)[i] = d
            BY <1>3, <4>1, Zenon
          <5> QED
            BY <1>3, <5>1, <5>2
        <4> QED
          BY <4>1, <4>2, Zenon
      <3>4. CASE remote[d] # ep
        BY <1>5, <3>1, <3>2, <3>4, Zenon
      <3> QED
        BY <3>3, <3>4, Zenon
    <2> QED
      BY <2>1, <2>2, <2>3, Zenon DEF PoolInv, NoLeak
  <1>10. IdleBounded'
    <2> SUFFICES ASSUME NEW e \in PoolEndpoints
                 PROVE  Len(conn_map'[e]) <= (IF MaxIdle = 0 THEN 1 ELSE MaxIdle)
      BY Zenon DEF IdleBounded
    <2>1. CASE e = ep
      <3>1. Len(q) = 0 \/ Len(q) < MaxIdle
        BY DEF HasRoom, PoolInv
      <3>2. conn_map'[e] = Append(q, c)
        BY <1>5, <2>1, Zenon
      <3> HIDE DEF q
      <3> QED
        BY <1>3, <3>1, <3>2, PoolAssumption, SMTT(30)
    <2>2. CASE e # ep
      BY <1>5, <2>2, Zenon DEF PoolInv, IdleBounded
    <2> QED
      BY <2>1, <2>2, Zenon
  <1>11. \A e \in PoolEndpoints \ known' : conn_map'[e] = <<>>
    BY <1>2, <1>5, Zenon DEF PoolInv
  <1> QED
    BY <1>4, <1>7, <1>8, <1>9, <1>10, <1>11, Zenon DEF PoolInv

\* Every step of the pool keeps PoolInv.
LEMMA NextPool == PoolInv /\ [PoolNext]_poolVars => PoolInv'
  <1> SUFFICES ASSUME PoolInv, [PoolNext]_poolVars PROVE PoolInv'
    BY Zenon
  <1>1. CASE UNCHANGED poolVars
    BY <1>1 DEF poolVars, PoolInv, PoolTypeOK, IdleInv, ActiveInv, NoLeak, Idle,
                IdleBounded
  <1>2. ASSUME NEW u \in Users, NEW c \in Conns, Release(u, c) PROVE PoolInv'
    <2> USE <1>2
    <2>1. /\ c \in held[u] /\ active_conns[c] # NoEp
          /\ active_conns[c] \in PoolEndpoints
          /\ held' = [held EXCEPT ![u] = held[u] \ {c}]
          /\ active_conns' = [active_conns EXCEPT ![c] = NoEp]
      BY Zenon DEF Release, PoolInv, ActiveInv, PoolTypeOK
    <2>2. CASE recyclable(c) /\ HasRoom(active_conns[c])
      <3>1. Push(c, active_conns[c])
        BY <2>1, <2>2, Zenon DEF Release
      <3> QED
        BY <2>1, <2>2, <3>1, PushPool, Zenon
    <2>3. CASE ~(recyclable(c) /\ HasRoom(active_conns[c]))
      <3>1. Close(c)
        BY <2>1, <2>3, SMTT(30) DEF Release
      <3> QED
        BY <2>1, <3>1, ClosePool, Zenon
    <2> QED
      BY <2>2, <2>3, Zenon
  <1> QED
    BY <1>1, <1>2, ReusePool, CreatePool, UsePool, Zenon DEF PoolNext, Allocate

\* The inductive invariant of the pool.
THEOREM PoolInvariant == PoolSpec => []PoolInv
  BY InitPool, NextPool, PTL DEF PoolSpec

\* A connection serves one command at a time.
THEOREM EveryConnectionHasOneOwner == PoolSpec => []OneOwner
  <1>1. PoolInv => OneOwner
    <2> SUFFICES ASSUME PoolInv, NEW u \in Users, NEW c \in held[u]
                 PROVE  /\ active_conns[c] = remote[c] /\ remote[c] # NoEp
                        /\ \A v \in Users \ {u} : c \notin held[v]
                        /\ \A ep \in PoolEndpoints : c \notin Idle(ep)
      BY Zenon DEF OneOwner
    <2>1. c \in Conns
      BY Zenon DEF PoolInv, PoolTypeOK
    <2>2. active_conns[c] # NoEp /\ active_conns[c] = remote[c]
      BY <2>1, Zenon DEF PoolInv, ActiveInv
    <2> QED
      BY <2>2 DEF PoolInv, ActiveInv, IdleInv, Idle
  <1> QED
    BY <1>1, PoolInvariant, PTL

\* No connection is lost: one that exists is held by a command or waits in an
\* idle queue, whatever BackendConnPool::Release does.
THEOREM NoConnectionIsLost == PoolSpec => []NoLeak
  <1>1. PoolInv => NoLeak
    BY Zenon DEF PoolInv
  <1> QED
    BY <1>1, PoolInvariant, PTL

\* The idle queues keep the bound that BackendConnPool::Release gives them.
THEOREM IdleQueuesAreBounded == PoolSpec => []IdleBounded
  <1>1. PoolInv => IdleBounded
    BY Zenon DEF PoolInv
  <1> QED
    BY <1>1, PoolInvariant, PTL
=============================================================================
