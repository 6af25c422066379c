# A TLA+ model of yarmproxy

yarmproxy (`src/proxy`) is a proxy for redis and memcached. Clients pipeline
requests over one connection; the proxy parses them, finds the backend of every
key by consistent hashing, forwards queries and replies without copying them,
and answers every client in the order of its requests. This directory holds
TLA+ models of its parts, configurations that check them with TLC on small
instances, and proofs checked with TLAPS.

    tlc -workers 2 -config MCPipeline.cfg MCPipeline     # a run
    tlapm BackendConnProofs.tla                          # a proof

`PROJECT.json` lists components, runs, theorems and hazards, and maps every
definition to the lines it translates.

## 1. The system

**Threads.** The main thread (`proxy_server.cc`) accepts clients, handles
signals and deals clients out to workers in turn. A worker (`worker_pool.cc`)
is one thread with one boost::asio `io_context`, one pool of backend connections, one
allocator and a pointer to the current key locator. All handlers of a
worker run one after the other, so a handler is atomic with respect to the
other handlers of its worker; what interleaves is the order of completions,
failures, timers and posted handlers. Only the main thread and a worker really
run at once (reload, accept, allocation of a client's buffer).

| Part | State | Operations | Talks to |
|---|---|---|---|
| Read buffer | processed, received and parsed offsets; recycle lock | receive, parse, process, lock, unlock, recycle | client and backend connections |
| Backend connection | socket, two timers and their flags, reading/complete/no-recycle flags, buffer | write query, connect, read reply, time out, abort, reset, close | commands, pool |
| Backend pool | idle queue per endpoint, map of active connections | allocate, release | commands |
| Client connection | buffer, queue of active commands, reading/writing flags, two timers | read, parse, write reply, rotate, abort | commands, worker |
| Commands | per kind: subqueries, waiting queues, counters of keys and replies | start and continue the query, backend callbacks, start and continue the reply | client, backends, pool, locator |
| Key locator | continuum per protocol and namespace | initialize, locate | commands, configuration |
| Configuration | clusters, context of the parser | initialize, reload | server |
| Server, workers | posted handlers, threads, stop flags | run, accept, SIGHUP, SIGINT, SIGTERM, join | all |
| Allocator | free slabs of the reserved space | alloc, release | connections |

**What makes it hard.** Data are forwarded in place, so a buffer must not be
compacted under an outstanding read or write: a lock counter is shared
by the read of the client, all queries being written from its buffer and the
write of replies. asio's `cancel` does not stop a handler that is already
queued, so a timer may fire after it was cancelled. A multi-key command has several
backends, each of which may be fast, slow, cut into pieces or broken; one reply
has to come of it, at its turn. Queries may be larger than the buffer, so
commands start before their query has been received. The configuration is
replaced while workers use it.

**What must hold.** Replies come in order, complete, from the right backend,
never mixed; connections are reused only when clean, owned by one command, never
lost; asserts hold (they are compiled into the release build); no connection or
command waits for nothing; a reload is as good as a restart and moves few keys;
the process stops when told to.

## 2. Modules

| Module | Models | Notes |
|---|---|---|
| `ReadBuffer` | `read_buffer.h/.cc` | records and operators; `base` counts the bytes recycled away, so that a position in the stream is `base + offset` |
| `BackendConn` | `backend_conn.cc`, the callbacks of `command.cc` | one connection and one command after another; one action per handler; `stale` holds timer handlers that were queued before they were cancelled |
| `BackendPool` | `backend_pool.cc` | any number of commands, connections and endpoints; a connection is reduced to "finished" and "no_recycle" |
| `Pipeline` | `client_conn.cc`, `command.cc`, `redis_set_command.cc`, `stats_command.cc`, `error_command.cc`, the parser's progress in `redis_protocol.h` | requests are lengths: of the first line, of what creates the command, of its values |
| `FifoReplies` | (abstract) | what a pipelining client relies on; `Pipeline` implements it |
| `MemcGet` | `memc_get_command.cc` | replies are sequences of VALUE and END items |
| `RedisMget` | `redis_mget_command.cc` | a reply is a header and two units per bulk, cut anywhere |
| `RedisDel` | `redis_del_command.cc` | keys arrive in several reads; the sum of the answers |
| `RedisMset` | `redis_mset_command.cc` | pairs and values arrive in several reads; the tail subquery |
| `RedisProtocol` | `redis_protocol.h` | pure operators on a sequence of bytes: bulks, bulk arrays, their sizes and counts |
| `Parsing` | `CreateCommand` and `ParseReply` of `command.cc`, the constructors and `ProcessUnparsedPart` of the commands | one query or reply, byte by byte, cut by reads anywhere; behind the received bytes lies any byte an earlier use has left |
| `KeyDistributer`, `KeyLocator` | `key_distributer.cc`, `key_locator.cc` | pure operators; the hash is a constant |
| `Config` | `config.cc` | a file is a sequence of tokenized lines; pure operators on clusters and context |
| `ProxyServer` | `proxy_server.cc`, `worker_pool.cc`, `signal_watcher.cc` | composes locator and configuration with the threads |
| `Allocator` | `allocator.cc` | the one data structure that two threads change: `Alloc` is three steps |
| `*Proofs`, `*Steps` | | theorems, see section 5 |
| `MC*` | | constants for TLC |

An action is a whole handler, the calls it makes included. The command modules
describe a handler as a function from one state record to the next, so that nested calls (a
callback that settles a subquery, releases its connection and rotates the
command) read in the order of the code. asserts set a variable `failed`,
which `NoAssertFails` forbids. Definitions that end in words such as
`Unlocked`, `AtOnce` or `Early` and are marked "Mutant of" are deliberately wrong
variants, unused by the specifications; each shows that a property can fail.

Abstractions: except in `Parsing`, bytes are counts, and the modules of the
commands take for granted that lengths and bulks are counted right, which
`Parsing` shows; in `Parsing` one letter stands for all names of a command type; log output, statistics and the wording of
replies are left out; a subquery's segments are written one after the other
without a choice in between and are one write in the multi-key modules; the buffer
limit and the client's shutdown are treated in `Pipeline` and `BackendConn` and
left out of the multi-key modules. `BackendPool!Release` uses the endpoint that the
code reads through a reference to an erased map node; nothing is allocated
before the lookup, so its value is taken to be unchanged.

## 3. Runs

| Run | Question | Bounds |
|---|---|---|
| `backend_conn` | Does a connection that serves command after command keep its buffer in place under I/O, keep replies apart and complete, go back to the pool clean, and end every command, with late timers, errors and aborts at every step? | buffer of 6 bytes; replies of 1, 5 and 13 bytes: one line, one that fits, one that needs recycling twice |
| `backend_pool` | Has every connection one owner, is none lost, and are the idle queues bounded? | 4 connections, 2 commands, 2 endpoints, limit 2, so that queues overflow; symmetric in connections and commands |
| `pipeline` | Does a connection implement `FifoReplies`, keep queries in place, never wait for nothing and end every command? | buffer of 9 bytes, 3 active commands instead of 16, scripts of up to 4 requests, so that the queue fills up and values exceed the buffer |
| `memc_get` | One END, last; every value; no interleaving; the command ends | 3 backends, 0 to 2 values each; END comes with the last value |
| `memc_get_lone_end` | The same with an END that comes alone: the rest of the reply is lost (violated, see section 4) | 2 backends, 1 value |
| `redis_mget` | Values in the order of the keys; asserts; a connection is marked complete exactly when it is; the command ends unless a read stops between two bulks | 5 queries of 1 to 4 keys over 1 to 3 backends, backends that come up again |
| `redis_del` | The reply is the sum of all answers, sent last; asserts; locks; the command ends | queries of 1 to 4 keys over 2 backends, cut into reads in every way |
| `redis_mset` | The reply waits for every pair; the subquery of an unfinished value waits for its rest even if its backend failed; asserts; the command ends | queries of 1 to 3 pairs over 2 backends, four cuts per pair |
| `proxy_server` | Locators before queries; routing by a file that was loaded as a whole; consistent hashing across reloads; good files are taken while no block has been left open, and never reach for the last of no clusters; workers converge; the server stops | 2 workers, 9 files, 2 edits, 2 signals, 1 client, 1 query, 3 backends with up to 2 points each, two of them at the same place |
| `proxy_server_default` | Does every key find a cluster? (violated, see section 4) | 1 worker, no reload |
| `parsing` | Does the code find the commands, keys, sizes and counts that were sent, as soon as they can be known, and the end of every reply? | 34 queries and replies of up to 84 bytes with empty, one- and two-digit payloads full of CR, LF and `$`, cut at every byte; 3 bytes that may lie behind; a buffer of 40 bytes |
| `allocator_race` | Is a slab used once? (violated, see section 4) | 2 slabs |

The bounds are small, but each instance reaches the cases it is about: with
one more unit than a limit the limit is hit, with two backends a fast one
overtakes a slow one, with one reload a worker holds an old locator. `ConnInv` and `PoolInv` (section 5) and the `TypeOK` of every module hold on the same
instances; apart from the `TypeOK` of `BackendConn` they are left out of the configurations, and
can be added to their INVARIANTS. Deadlock checking is
off where the modelled command, connection or process may end, and on
for the connection and the pool, which go on for ever.

**Fairness.** `FairSpec` assumes that outstanding operations come to an end.
The code arms a timer with every operation on a backend, with every write to a
client and with every read from one, so one of completion, failure and timeout
comes; no success is ever assumed. For a command behind others, the modules of single commands assume
that the ones ahead end, which `EveryCommandEnds` of `Pipeline` shows of the
single-backend commands and `CommandEnds` of each other module of its own kind. `ProxyServer` assumes that
threads run and handlers return. Where a handler's computation is long, fairness is
stated of its effect on the queue (`HandlePosted`, `TakeQuery`): the queue shrinks exactly when
the handler runs.

## 4. Where code and documentation disagree

Three disagreements are runs of the project. Each was read off a TLC
counterexample and then followed through the source.

- `memc_get_lone_end` (`memc_get_command.cc:124`, `:218`): if a backend's `END`
  arrives alone while its values are still being written, the backend is rotated
  away twice, and the command ends without what a waiting backend has still to
  give: its values, if it has any, and the `END`. In TLC's trace the waiting backend
  has no value and the client misses the `END`; `src/test/memcached/get5.sh:13` counts the
  values and `:22` the lines with an `END`.
- `proxy_server_default` (`key_locator.cc:69`): the default namespace is stored
  as `r/` or `m/` and looked up as `0/` or `1/`, so a key with a prefix that no cluster
  names has no continuum, against `yarmproxy.conf:32`.
- `allocator_race` (`allocator.cc:27`): clients are constructed in the main
  thread, which takes buffers from the worker's allocator while the worker does.

The following ones have a configuration that shows them, but no run in
`PROJECT.json`; the passing runs are stated for the cases that exclude them.

| Configuration | Property violated | What happens |
|---|---|---|
| `MCBackendConn_stale.cfg` | `CancelledTimerTakesNoAction` | a timer handler queued before its wait was cancelled (`backend_conn.cc:234`) finds the flag of a newer wait and aborts the connection |
| `MCBackendPool_zero.cfg` | `IdleWithinLimit` | with `max_idle_backends` 0 the first connection is pooled all the same (`backend_pool.cc:58`) |
| `MCPipeline_header.cfg` | `IdleConnectionCloses` | a SET whose value header is cut by two reads leaves a connection without read, write or timer (`client_conn.cc:231`) |
| `MCPipeline_eof.cfg` | `IdleConnectionCloses` | a client that shuts down inside a query leaves command and connection behind (`client_conn.cc:200`) |
| `MCPipeline_full.cfg` | `ReadKeepsConnection` | when two thirds of the buffer hold an incomplete query, no read is started before the last command is popped (`client_conn.cc:114`), and the connection goes away |
| `MCRedisMget_boundary.cfg` | `ReplyMovesOn` | a read that ends exactly between two bulks is the last one (`redis_mget_command.cc:177`) |
| `MCProxyServer_reload.cfg` | `ReloadTakesEveryFile` | a reload refused inside of a cluster leaves its context behind, and the corrected file is refused (`config.cc:275`) |
| `MCParsing_gets.cfg` | `ParsedAsSent` | the loop over the keys of a memcached get starts behind `get ` (`memc_get_command.cc:27`), so `gets k`, listed in `src/README.md`, has an empty key before `k` |
| `MCParsing_stats.cfg` | `ParsedAsSent` | without a blank the name of a memcached command is the line with its CR LF (`command.cc:131`), so the `yarmstats` of `src/test/memcached/yarmstats.sh:1` is unsupported |
| `MCAllocator_short.cfg` | `SlabsFit` | a reserved space smaller than a buffer is used as one slab (`allocator.cc:15`), against `yarmproxy.conf:26`; with sizes as recommended (`MCAllocator.cfg`) `SlabsFit` holds |

The context that a load leaves behind is part of `proxy_server`: its files are also refused inside of a
cluster and of its backends, and one leaves a worker block open, after which a reload passes over every line.
`ReloadTakesFile` is stated for reloads that start outside of every block. A reload that goes on in an
open cluster has emptied `clusters_`, and a line such as `protocol` then changes `clusters_.back()`
(`config.cc:206`), which is undefined: `dead` becomes "cluster" and the behaviour ends there. In the run a file
that has lost its first line does this; `ReloadIsDefined` says that no file a restart would
take does, because `ApplyClusterTokens` refuses its first line.

If `Run` returns early, without clusters or because it cannot listen, `~ProxyServer` joins threads that
were never started, and the exception terminates the process (`RunFails`); the repository says
nothing about such a start.

A memcached set of an empty value is refused by the code (`body_bytes <= 2`,
`command.cc:243`); `Parsing` counts it among the queries that are not served.

## 5. Proofs

TLC checks the instances above; the theorems hold for every value of the
constants.

- **`BackendConnProofs`** assumes of the constants only that an error reply fits in the
  buffer and the first line of every reply in two thirds of it (the `ASSUME`s of
  `ReadBuffer` and `BackendConn`; a longer line is never parsed, because the code stops
  reading at two thirds). The safety properties are not inductive. `ConnInv`
  strengthens them: each flag says which operation is outstanding, the lock
  counts those operations (`Locks`), a write to the client is the last part
  processed (`Sending`), a query is written only with an empty buffer
  (`Querying`), the bytes in the buffer and on the wire add up to one reply
  (`Receiving`), an error reply replaces all others (`Failed`), and a pooled
  connection is clean. `ConnInvariant` proves it inductive, action by action, from the lemmas
  on offsets the module begins with. From it follow `TypeCorrect`, `IoStaysInPlace`,
  `PooledConnectionsAreClean`, `RotationAssertHolds`, and the action properties
  `RepliesAreNeverMixed` and `RotationIsComplete`.
- **The pool**, at the end of `ProxyServerProofs`, for any sets of connections, commands and
  endpoints and any limit. `PoolInv` adds to ownership that a queue holds
  a connection once and only under its own endpoint; this is what makes a
  reused connection the property of one command. `EveryConnectionHasOneOwner`,
  `NoConnectionIsLost` and `IdleQueuesAreBounded` follow.
- **`RedisDelProofs`**, for any number of keys and backends. Assumed of the
  queries (`QueriesAssumption`) is only that each has a key. `DelInv` says for every
  subquery which of write, read and release is ahead of it, that the lock counts the
  writes, which keys the subqueries hold together, and that a reply is held back by whatever is
  pending. Its proof follows a handler through the operators it calls: one
  lemma per operator, on one state record. `DelAssertsHold`,
  `DelLockIsPerQuery` and `DelSumIsComplete` follow. The last one says that the number
  replied is the sum over all backends of what each answered, and nothing of one that failed: a
  second invariant keeps the partial sum equal to the sum over the backends whose
  replies have been taken, by induction over the number of backends.
- **`RedisMsetProofs`**, along the same lines. `MsetInv` also follows the
  tail, the one subquery whose value may still be on its way: all bytes before it belong to
  whole pairs, a failed backend stays with it until the value has come, and the next
  pairs are taken only then. `MsetAssertsHold`, `MsetReplyIsLast` and `MsetTailWaits` follow.
- **`ProxyServerProofs`**, for any number of workers, files and signals. `ServerInv` describes
  the queue of handlers posted to a worker: a worker without locator has one
  at the head of its queue, and the last one in the queue, or else the one in use,
  is that of the last accepted file. `LocatorIsThere` and `LastReloadWins` follow; the
  latter is the safety half of `WorkersConverge`.
  `ConsistentHashing` is about the locator itself, for all sorted continuums and
  all hashes: if a key moves, the point that owned it is gone, the point that
  owns it now is new, or the two are at the same place. The last case is real: `std::sort` compares
  hashes alone (`key_distributer.h:36`), and with weights in the tens of thousands 32-bit hashes
  may collide. `KeysMoveLittle` checks the same of running workers.
- **`MemcGetSteps`, `MemcGetProofs`**, for any set of backends and any numbers of values, under the
  hypothesis `~LoneEnd` that END comes with the last value (with an END alone the
  properties are false, section 4). `GetInv` says that every backend that has
  replied has its turn or waits for it until all of its reply is on its way,
  that no other backend is in line, that `completed` counts the backends whose replies
  have been received, and what of a backend's reply is ready, being written or
  given to the client. `EndIsLast`, `BackendsInTurn` and `ReplyIsComplete` follow;
  the last one needs a second invariant that counts the values of each backend in
  what the client has got, in what is ready and in what is to come.
- **`RedisMgetSteps`, `RedisMgetProofs`**, for MGETs of any keys over any backends and replies cut
  anywhere. Assumed of the queries (`QueriesAssumption`) is that each has a
  key. The queue of the code holds runs of keys, and which keys a run stands for is
  nowhere in the state. `MgetInv` says that there are places `e` in the list of keys
  where the runs end: `e[0]` keys have been parsed and run `j` stands for the
  keys after `e[j-1]` up to `e[j]`. From `e[0]` follow the bulks that
  are parsed in every backend's reply (`Account`), which of them has been handed on
  (`Level`) and how many units the client has got (`Written`); the one exception is
  a bulk whose end has not been received. That the constructor's queue has such places
  is shown by induction over the keys (`RunsStandForKeys`). One lemma per operator and
  one per action lead to `MgetInvariant`; `QueueAssertsHold`, `MgetValuesInOrder` and
  `MgetCompleteExact` follow.

The library's induction theorems take an operator as a parameter and cannot be used with
the installed provers. Where a proof needs induction it is stated for a set of
numbers (`InductionUpTo` in `RedisMgetProofs`), from the theorem that a nonempty set of numbers has a
least element.

Only model-checked: all liveness (fairness and ENABLED are beyond the prover),
`Pipeline` and its implementation of `FifoReplies`,
routing across reloads, the parsers and the allocator. What the folds and the recursive operators
compute (the building of a continuum, the parsing of a file or of a query)
is checked on instances.

## 6. Not modelled

- The hash function's bits (`doobs_hash.cc`): its values are a constant.
- Logging (`logging.cc` and the third-party `loguru`, a third of all lines),
  process setup (`utils.cc`, `main.cc`), error names: I/O and text without
  state the other parts depend on.
- The statistics counters and their text: they are only shown.
- The static caches of query prefixes in `redis_del_command.cc:31` and
  `redis_mset_command.cc:37`, which all workers grow without a lock. Two
  insertions at once into a `std::map` are undefined and the code defines no set of outcomes
  to choose from; run by one thread, the caches are pure functions of the
  number of keys.
- Messages against the protocols: `Parsing` covers well-formed queries and
  replies, and queries the proxy does not serve. A bulk's length is taken to fit the
  integers that hold it.
- Signals arrive between handlers; a signal handler that
  interrupts a thread inside of asio's queue is below the level of the model.
- An accept that fails ends accepting for good; `AcceptFails` models it, and
  nothing in the repository says what should happen.

## 7. Plan

Done, in this order: buffer and backend connection with their proofs, the pool
with its proofs, the pipeline and its abstract specification, the four
multi-key commands, locator, configuration and server, allocator, the proofs of
DEL, MSET and the server, the parsers of both protocols, the proofs of the memcached get and
of MGET.

Next:

1. a composition of pool, connection and a multi-key command, in which a
   released connection serves the next command of another client;
2. the recycle lock across a client's buffer with multi-key commands in a
   pipeline, and the buffer's limit for them;
3. an inductive invariant and proof for `Pipeline` (`QueriesInPlace`,
   `NoAssertFails`), and from it the refinement of `FifoReplies` step by step;
4. routing across reloads (`RoutedAsConfigured`) by induction over sets of numbers.
