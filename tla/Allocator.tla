----------------------------- MODULE Allocator -----------------------------
(***************************************************************************)
(* The buffers of one worker (src/proxy/allocator.cc): slabs of a reserved *)
(* space while there are free ones, and buffers from the heap otherwise.   *)
(*                                                                         *)
(* The worker's thread makes and destroys backend connections and destroys *)
(* clients; the main thread makes the clients, of every worker, in         *)
(* ProxyServer::StartAccept, and destroys one if accept fails.  Nothing    *)
(* orders the two, so Alloc is three steps on free_slabs_: empty(),        *)
(* *begin() and erase(begin()).  On an empty set *begin() reads the        *)
(* header node, where a null pointer is found, and erase(begin()) ends the *)
(* process.  Insert and erase are atomic here: what a race between them    *)
(* does to the tree itself is left out.                                    *)
(*                                                                         *)
(* Addresses count from the start of the reserved space.                   *)
(***************************************************************************)
EXTENDS Integers, FiniteSets
LOCAL INSTANCE FiniteSetsExt

CONSTANTS
  Threads,      \* the worker's and the main thread
  Sizes,        \* the pairs [buffer_size, reserved_space_size]
  MaxBuffers    \* buffers a thread takes at a time

VARIABLES
  sizes,        \* the configured pair
  free_slabs_,
  pc,           \* "idle", "begin" or "erase", for every thread
  slab,         \* the local variable of Alloc
  buffers,      \* the slabs of the connections that each thread has made
  heap,         \* the number of buffers from the heap
  crashed

vars == <<sizes, free_slabs_, pc, slab, buffers, heap, crashed>>

Null == -1

\* Mutant of Slabs: a slab at the very end of the space.
SlabsPastEnd(s) ==
  {p \in 0..s.reserved_space_size : p % s.buffer_size = 0}

\* The loop of the constructor; there are no slabs in a space of size 0.
Slabs(s) ==
  {p \in 0..(s.reserved_space_size - 1) : p % s.buffer_size = 0}

Init ==
  /\ sizes \in Sizes
  /\ free_slabs_ = Slabs(sizes)
  /\ pc = [t \in Threads |-> "idle"]
  /\ slab = [t \in Threads |-> Null]
  /\ buffers = [t \in Threads |-> {}]
  /\ heap = 0 /\ crashed = FALSE

\* Alloc: the test of empty().
Alloc(t) ==
  /\ pc[t] = "idle" /\ Cardinality(buffers[t]) < MaxBuffers
  /\ IF free_slabs_ = {}
     THEN heap < MaxBuffers /\ heap' = heap + 1 /\ UNCHANGED pc
     ELSE pc' = [pc EXCEPT ![t] = "begin"] /\ UNCHANGED heap
  /\ UNCHANGED <<sizes, free_slabs_, slab, buffers, crashed>>

\* Alloc: slab = *free_slabs_.begin().
Begin(t) ==
  /\ pc[t] = "begin"
  /\ slab' = [slab EXCEPT ![t] = IF free_slabs_ = {} THEN Null ELSE Min(free_slabs_)]
  /\ pc' = [pc EXCEPT ![t] = "erase"]
  /\ UNCHANGED <<sizes, free_slabs_, buffers, heap, crashed>>

\* Alloc: free_slabs_.erase(free_slabs_.begin()), and the return.
Erase(t) ==
  /\ pc[t] = "erase"
  /\ IF free_slabs_ = {}
     THEN crashed' = TRUE /\ UNCHANGED <<free_slabs_, buffers>>
     ELSE /\ free_slabs_' = free_slabs_ \ {Min(free_slabs_)}
          /\ buffers' = [buffers EXCEPT ![t] = @ \cup {slab[t]}]
          /\ UNCHANGED crashed
  /\ pc' = [pc EXCEPT ![t] = "idle"]
  /\ slab' = [slab EXCEPT ![t] = Null]
  /\ UNCHANGED <<sizes, heap>>

\* Release of a slab; the clients of the main thread may be destroyed by the
\* worker's, which releases what it did not allocate.
Release(t, owner, p) ==
  /\ pc[t] = "idle" /\ p \in buffers[owner]
  /\ buffers' = [buffers EXCEPT ![owner] = @ \ {p}]
  /\ free_slabs_' = IF p >= 0 /\ p < sizes.reserved_space_size
                    THEN free_slabs_ \cup {p} ELSE free_slabs_
  /\ UNCHANGED <<sizes, pc, slab, heap, crashed>>

\* Release of a buffer from the heap.
ReleaseHeap(t) ==
  /\ pc[t] = "idle" /\ heap > 0 /\ heap' = heap - 1
  /\ UNCHANGED <<sizes, free_slabs_, pc, slab, buffers, crashed>>

Next ==
  /\ ~crashed
  /\ \E t \in Threads :
       \/ Alloc(t) \/ Begin(t) \/ Erase(t) \/ ReleaseHeap(t)
       \/ \E owner \in Threads, p \in Slabs(sizes) : Release(t, owner, p)

Spec == Init /\ [][Next]_vars

-----------------------------------------------------------------------------
(* Properties.                                                             *)

\* The types of the variables.
TypeOK ==
  /\ sizes \in Sizes
  /\ free_slabs_ \subseteq Slabs(sizes)
  /\ slab \in [Threads -> Slabs(sizes) \cup {Null}]
  /\ buffers \in [Threads -> SUBSET (Slabs(sizes) \cup {Null})]
  /\ pc \in [Threads -> {"idle", "begin", "erase"}]
  /\ heap \in 0..MaxBuffers /\ crashed \in BOOLEAN

\* A slab that is handed out has room for a whole buffer: buffer_size bytes
\* from its start are inside the reserved space.
SlabsFit ==
  \A t \in Threads : \A p \in buffers[t] \ {Null} :
    p + sizes.buffer_size <= sizes.reserved_space_size

\* No two connections of a worker have the same buffer.
OneOwner ==
  \A t, u \in Threads : t # u => (buffers[t] \cap buffers[u]) \ {Null} = {}
=============================================================================
