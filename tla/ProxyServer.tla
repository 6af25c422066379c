---------------------------- MODULE ProxyServer ----------------------------
(***************************************************************************)
(* The process: the main thread accepts clients and handles signals        *)
(* (src/proxy/proxy_server.cc), and the workers, each a thread with its    *)
(* own queue of handlers, serve the clients that were dealt out to them    *)
(* (src/proxy/worker_pool.cc).  SIGHUP loads the clusters of the           *)
(* configuration file again and posts the new key locator to the workers;  *)
(* SIGINT and SIGTERM stop the process.                                    *)
(*                                                                         *)
(* A client is the worker it belongs to; of its queries only the lookup of *)
(* the key is kept.  What an administrator and the clients may do is       *)
(* bounded by MaxEdits, MaxSignals, MaxClients and MaxQueries.             *)
(***************************************************************************)
EXTENDS KeyLocator, Config, FiniteSets

CONSTANTS Concurrency, Files, Keys, MaxEdits, MaxSignals, MaxClients, MaxQueries

ASSUME ConcurrencyAssumption == Concurrency \in Nat \ {0}

Workers == 1..Concurrency

\* A locator does not change once it is initialized: it is represented by the
\* clusters it was initialized with.  Before there is one: NoLocator.
NoLocator == <<>>
PointerTo(clusters) == <<clusters>>
LocatorOf(pointer) == Initialize(pointer[1])

\* What a start makes of every file.
Starts == [f \in Files |-> InitializeConfig(f)]

VARIABLES
  file, edits,        \* the configuration file, and how often it was changed
  context_, clusters_,
  main,               \* "start", "run", "joining", "exited" or "terminated"
  posted, signals,    \* handlers posted to the main io_context_; their number
  accepting,          \* the worker of the client being accepted, 0 for none
  next_worker_,
  clients,            \* the worker of every accepted client
  queue,              \* the handlers of every worker's io_context_:
                      \* <<"locator", locator, file>> or <<"query">>
  io_stopped, stopped_,
  thread,             \* "none", "loop" (at while(!stopped)), "run" or "done"
  key_locator_,
  queries,            \* number of queries sent so far
  loaded, source,     \* the files of the last locator posted and of every
                      \* worker's locator
  dead                \* "no", or what a query has missed, "locator" or
                      \* "continuum", or a reload: "cluster"

vars == <<file, edits, context_, clusters_, main, posted, signals, accepting,
          next_worker_, clients, queue, io_stopped, stopped_, thread,
          key_locator_, source, queries, loaded, dead>>

config == <<file, edits, context_, clusters_, loaded>>
pool == <<queue, io_stopped, stopped_, thread, key_locator_, source, queries, dead>>

Init ==
  /\ file \in {f \in Files : Starts[f].ok} /\ edits = 0
  /\ context_ = Starts[file].context /\ clusters_ = Starts[file].clusters
  /\ main = "start" /\ posted = <<>> /\ signals = 0
  /\ accepting = 0 /\ next_worker_ = 1 /\ clients = <<>>
  /\ queue = [w \in Workers |-> <<>>]
  /\ io_stopped = FALSE /\ stopped_ = FALSE
  /\ thread = [w \in Workers |-> "none"]
  /\ key_locator_ = [w \in Workers |-> NoLocator]
  /\ queries = 0 /\ dead = "no"
  /\ loaded = file /\ source = [w \in Workers |-> Unreadable]

\* Mutant of OnLocatorUpdated: one worker is left out.
LocatorUpdatedButOne(locator) ==
  queue' = [w \in Workers |->
              IF w = Concurrency THEN queue[w]
              ELSE Append(queue[w], <<"locator", locator, file>>)]

OnLocatorUpdated(locator) ==
  queue' = [w \in Workers |->
              Append(queue[w], <<"locator", locator, file>>)]

\* StartAccept: the next client is made for the next worker.
StartAccept ==
  /\ accepting' = next_worker_
  /\ next_worker_' = (next_worker_ % Concurrency) + 1

\* Mutant of Run: the workers start, and the locator is left to a reload.
RunUnposted ==
  /\ main = "start"
  /\ main' = "run" /\ StartAccept
  /\ thread' = [w \in Workers |-> "loop"]
  /\ UNCHANGED <<config, posted, signals, clients, queue, io_stopped,
                 stopped_, key_locator_, source, queries, dead>>

\* Run, up to its loop.
Run ==
  /\ main = "start" /\ clusters_ # <<>>
  /\ main' = "run"
  /\ OnLocatorUpdated(clusters_)
  /\ thread' = [w \in Workers |-> "loop"]
  /\ StartAccept
  /\ UNCHANGED <<config, posted, signals, clients, io_stopped, stopped_,
                 key_locator_, source, queries, dead>>

\* Run returns early: there is no cluster, or the address cannot be listened
\* on.  ~ProxyServer calls Stop, and the join of a thread that was never
\* started throws out of the destructor, which terminates the process.
RunFails ==
  /\ main = "start"
  /\ IF clusters_ = <<>> THEN UNCHANGED queue ELSE OnLocatorUpdated(clusters_)
  /\ stopped_' = TRUE /\ io_stopped' = TRUE
  /\ main' = "terminated"
  /\ UNCHANGED <<config, posted, signals, accepting, next_worker_, clients,
                 thread, key_locator_, source, queries, dead>>

\* The administrator replaces the configuration file.
EditFile(f) ==
  /\ main = "run" /\ edits < MaxEdits /\ f # file
  /\ file' = f /\ edits' = edits + 1
  /\ UNCHANGED <<context_, clusters_, loaded, main, posted, signals,
                 accepting, next_worker_, clients, pool>>

\* SignalWatcher::OnSignal posts the handler to the main thread.
OnSignal(signal) ==
  /\ main = "run" /\ signals < MaxSignals
  /\ posted' = Append(posted, signal) /\ signals' = signals + 1
  /\ UNCHANGED <<config, main, accepting, next_worker_, clients, pool>>

\* The handler of SIGHUP.  After a load that is undefined the model stops.
OnSighup ==
  /\ main = "run" /\ posted # <<>> /\ Head(posted) = "HUP"
  /\ LET p == ReloadCulsters(context_, file)
         clusters == Cleared(clusters_) \o p.clusters
     IN
     /\ context_' = p.context /\ clusters_' = clusters
     /\ IF p.ok /\ clusters # <<>>
        THEN OnLocatorUpdated(clusters) /\ loaded' = file
        ELSE UNCHANGED <<queue, loaded>>
     /\ dead' = IF p.undefined THEN "cluster" ELSE dead
  /\ posted' = Tail(posted)
  /\ UNCHANGED <<file, edits, main, signals, accepting, next_worker_, clients,
                 io_stopped, stopped_, thread, key_locator_, source, queries>>

\* Mutant of Stop: the io_contexts of the workers are not stopped.
StopMainOnly ==
  /\ main = "run" /\ posted # <<>> /\ Head(posted) = "TERM"
  /\ main' = "joining" /\ posted' = <<>> /\ accepting' = 0
  /\ stopped_' = TRUE
  /\ UNCHANGED <<config, signals, next_worker_, clients, queue, io_stopped,
                 thread, key_locator_, source, queries, dead>>

\* The handler of SIGINT and SIGTERM: Stop, up to the joins.  What else is
\* posted to the main thread is dropped.
Stop ==
  /\ main = "run" /\ posted # <<>> /\ Head(posted) = "TERM"
  /\ main' = "joining" /\ posted' = <<>> /\ accepting' = 0
  /\ stopped_' = TRUE /\ io_stopped' = TRUE
  /\ UNCHANGED <<config, signals, next_worker_, clients, queue, thread,
                 key_locator_, source, queries, dead>>

\* The joins of StopDispatching; Run and main return.
Joined ==
  /\ main = "joining" /\ \A w \in Workers : thread[w] = "done"
  /\ main' = "exited"
  /\ UNCHANGED <<config, posted, signals, accepting, next_worker_, clients, pool>>

\* HandleAccept: the client that StartAccept has made starts to read.
HandleAccept ==
  /\ main = "run" /\ accepting # 0 /\ Len(clients) < MaxClients
  /\ clients' = Append(clients, accepting)
  /\ StartAccept
  /\ UNCHANGED <<config, main, posted, signals, pool>>

\* HandleAccept with an error: the client is dropped, and no other accepted.
AcceptFails ==
  /\ main = "run" /\ accepting # 0
  /\ accepting' = 0
  /\ UNCHANGED <<config, main, posted, signals, next_worker_, clients, pool>>

\* A query arrives, and its HandleRead waits in the queue of the worker.
QueryArrives(c) ==
  /\ main \in {"run", "joining"} /\ queries < MaxQueries
  /\ queue' = [queue EXCEPT ![clients[c]] =
                 Append(@, <<"query">>)]
  /\ queries' = queries + 1
  /\ UNCHANGED <<config, main, posted, signals, accepting, next_worker_,
                 clients, io_stopped, stopped_, thread, key_locator_, source, dead>>

-----------------------------------------------------------------------------
(* The worker threads.                                                     *)

\* while(!stopped): into io_context_.run(), or out of the thread.
Loop(w) ==
  /\ thread[w] = "loop"
  /\ thread' = [thread EXCEPT ![w] = IF stopped_ THEN "done" ELSE "run"]
  /\ UNCHANGED <<config, main, posted, signals, accepting, next_worker_,
                 clients, queue, io_stopped, stopped_, key_locator_, source, queries, dead>>

\* run() returns once the io_context is stopped.
RunReturns(w) ==
  /\ thread[w] = "run" /\ io_stopped
  /\ thread' = [thread EXCEPT ![w] = "loop"]
  /\ UNCHANGED <<config, main, posted, signals, accepting, next_worker_,
                 clients, queue, io_stopped, stopped_, key_locator_, source, queries, dead>>

\* The handler that OnLocatorUpdated has posted.
SetLocator(w) ==
  /\ thread[w] = "run" /\ ~io_stopped /\ queue[w] # <<>> /\ Head(queue[w])[1] = "locator"
  /\ key_locator_' = [key_locator_ EXCEPT ![w] = PointerTo(Head(queue[w])[2])]
  /\ source' = [source EXCEPT ![w] = Head(queue[w])[3]]
  /\ queue' = [queue EXCEPT ![w] = Tail(@)]
  /\ UNCHANGED <<config, main, posted, signals, accepting, next_worker_,
                 clients, io_stopped, stopped_, thread, queries, dead>>

\* A command looks its key up.
HandleQuery(w, key) ==
  /\ thread[w] = "run" /\ ~io_stopped /\ queue[w] # <<>> /\ Head(queue[w])[1] = "query"
  /\ dead' = CASE key_locator_[w] = NoLocator -> "locator"
                [] Locate(LocatorOf(key_locator_[w]), key) = "null" -> "continuum"
                [] OTHER -> "no"
  /\ queue' = [queue EXCEPT ![w] = Tail(@)]
  /\ UNCHANGED <<config, main, posted, signals, accepting, next_worker_,
                 clients, io_stopped, stopped_, thread, key_locator_, source, queries>>

MainStep == Run \/ RunFails \/ OnSighup \/ Stop \/ Joined

WorkerStep(w) ==
  Loop(w) \/ RunReturns(w) \/ SetLocator(w) \/ \E key \in Keys : HandleQuery(w, key)

Next ==
  /\ dead = "no"
  /\ \/ MainStep
     \/ \E f \in Files : EditFile(f)
     \/ \E signal \in {"HUP", "TERM"} : OnSignal(signal)
     \/ HandleAccept
     \/ AcceptFails
     \/ \E c \in DOMAIN clients : QueryArrives(c)
     \/ \E w \in Workers : WorkerStep(w)

Spec == Init /\ [][Next]_vars

\* The main thread takes a posted handler: OnSighup or Stop.
HandlePosted ==
  main = "run" /\ posted # <<>> /\ posted' \in {Tail(posted), <<>>}

\* A worker takes a query's handler: HandleQuery with some key.
TakeQuery(w) ==
  /\ thread[w] = "run" /\ ~io_stopped /\ queue[w] # <<>> /\ Head(queue[w])[1] = "query"
  /\ queue' = [queue EXCEPT ![w] = Tail(@)]

\* The threads run, and handlers do not block.
FairSpec ==
  /\ Spec
  /\ WF_vars(dead = "no" /\ (Run \/ RunFails \/ Joined))
  /\ WF_posted(dead = "no" /\ HandlePosted)
  /\ \A w \in Workers :
       /\ WF_vars(dead = "no" /\ (Loop(w) \/ RunReturns(w) \/ SetLocator(w)))
       /\ WF_queue(dead = "no" /\ TakeQuery(w))

-----------------------------------------------------------------------------
(* Properties.                                                             *)

\* The variables' types and bounds; the queues of handlers included.
TypeOK ==
  /\ file \in Files /\ loaded \in Files /\ edits \in 0..MaxEdits
  /\ main \in {"start", "run", "joining", "exited", "terminated"}
  /\ posted \in Seq({"HUP", "TERM"}) /\ signals \in 0..MaxSignals
  /\ accepting \in 0..Concurrency /\ next_worker_ \in Workers
  /\ clients \in Seq(Workers) /\ queries \in 0..MaxQueries
  /\ \A w \in Workers : \A i \in DOMAIN queue[w] :
       queue[w][i][1] = "query" \/ queue[w][i][3] \in Files
  /\ io_stopped \in BOOLEAN /\ stopped_ \in BOOLEAN
  /\ thread \in [Workers -> {"none", "loop", "run", "done"}]
  /\ source \in [Workers -> Files \cup {Unreadable}]
  /\ dead \in {"no", "locator", "continuum", "cluster"}

\* A worker has its locator before its first query looks a key up: the
\* locator is posted before the threads start and the first client is
\* accepted.
LocatorBeforeQuery == dead # "locator"

\* The endpoints that a file gives a namespace, read off its lines: those of
\* the first cluster of the protocol that names it.
Block(f, i) == {j \in DOMAIN f : j <= i /\ \A k \in (j + 1)..i : f[k] # <<"cluster", "{">>}
Names(f, protocol, ns) ==
  {c \in DOMAIN f :
     /\ f[c] = <<"cluster", "{">>
     /\ \E i, j \in DOMAIN f :
          /\ i > c /\ c \in Block(f, i) /\ f[i] = <<"protocol", protocol>>
          /\ j > c /\ c \in Block(f, j) /\ f[j][1] = "namespace"
          /\ \E k \in 2..Len(f[j]) : f[j][k] = ns}
Configured(f, protocol, ns) ==
  {f[i][2] : i \in {j \in DOMAIN f :
     /\ f[j][1] = "backend"
     /\ \E c \in Names(f, protocol, ns) :
          c \in Block(f, j) /\ \A d \in Names(f, protocol, ns) : c <= d}}
Owners == [f \in Files, key \in Keys |->
             Configured(f, key.protocol,
                        IF key.prefix = "" \/ key.prefix_length > max_namespace_length
                        THEN "_" ELSE key.prefix)]

\* Whatever was loaded before, a worker sends every key to a backend that the
\* file its locator came from gives the key's namespace: a reload is as good
\* as a restart, and a load that failed half-way leaves no trace.
RoutedAsConfigured ==
  \A w \in Workers : key_locator_[w] # NoLocator =>
    LET locator == LocatorOf(key_locator_[w]) IN
    \A key \in Keys : Locate(locator, key) \in Owners[source[w], key]

\* Every key finds a cluster: "_" stands for the default namespace.
DefaultNamespaceServes == dead # "continuum"

\* Consistent hashing across reloads: a new locator moves a key that stays in
\* its namespace only away from points that are gone, to points that are new,
\* or between points at the same place.
KeysMoveLittle ==
  [][\A w \in Workers : key_locator_[w] # NoLocator /\ key_locator_'[w] # key_locator_[w] =>
       LET old == LocatorOf(key_locator_[w])
           new == LocatorOf(key_locator_'[w])
       IN \A key \in Keys :
            LET n == KeyNamespace(key) IN
            n \in DOMAIN old /\ n \in DOMAIN new =>
              Explained(old[n], new[n], key.hash)]_vars

\* A file that a restart would take.
Good(f) == Starts[f].ok /\ Starts[f].clusters # <<>>

\* SIGHUP takes every file that a restart would take, unless an earlier load
\* has ended inside of a block: the failures of other loads are forgotten.
ReloadTakesFile ==
  [][posted # <<>> /\ posted' = Tail(posted) /\ Head(posted) = "HUP"
       /\ Good(file) /\ context_ = <<>>
         => \A w \in Workers : Len(queue'[w]) = Len(queue[w]) + 1]_vars

\* The same in every context.  It does not hold: context_ outlives a load.
ReloadTakesEveryFile ==
  [][posted # <<>> /\ posted' = Tail(posted) /\ Head(posted) = "HUP" /\ Good(file)
         => \A w \in Workers : Len(queue'[w]) = Len(queue[w]) + 1]_vars

\* Whatever blocks earlier loads have left open, the reload of a file that a
\* restart would take is never undefined: ApplyClusterTokens refuses the file
\* before it reaches for the last of no clusters.
ReloadIsDefined == dead = "cluster" => ~Good(file)

\* Every worker comes to use the last locator that was posted.
WorkersConverge ==
  []<>(main # "run" \/ dead # "no" \/ \A w \in Workers : source[w] = loaded)

\* A signal to stop ends all threads and then the process.
ServerStops ==
  [](main = "joining" => <>(main = "exited" \/ dead # "no"))
=============================================================================
