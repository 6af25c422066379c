---------------------------- MODULE BackendPool -----------------------------
(***************************************************************************)
(* BackendConnPool (src/proxy/backend_pool.cc): one per worker, used only  *)
(* by the worker's own thread.  Commands take connections with Allocate    *)
(* and give them back with Release, which keeps a recyclable connection in *)
(* the idle queue of its endpoint and closes any other.  What a connection *)
(* does while a command has it is module BackendConn; here it is reduced   *)
(* to the two facts Release asks about.                                    *)
(***************************************************************************)
EXTENDS Naturals, Sequences

CONSTANTS
  Conns,      \* addresses of BackendConn objects
  PoolEndpoints,
  Users,      \* commands
  MaxIdle,    \* worker_max_idle_backends()
  NoEp        \* "no endpoint"

ASSUME PoolAssumption == MaxIdle \in Nat /\ NoEp \notin PoolEndpoints

VARIABLES
  conn_map,      \* the idle queues, by endpoint
  known,         \* endpoints that have an entry in conn_map_
  active_conns,  \* active_conns_: the endpoint of every active connection
  remote,        \* remote_endpoint_ of every connection that exists
  finished,      \* connections with a complete, completely relayed reply
  no_recycle,    \* connections with no_recycle_ set
  held           \* the connections each command has a pointer to

poolVars == <<conn_map, known, active_conns, remote, finished, no_recycle, held>>

PoolInit ==
  /\ conn_map = [ep \in PoolEndpoints |-> <<>>]
  /\ known = {}
  /\ active_conns = [c \in Conns |-> NoEp]
  /\ remote = [c \in Conns |-> NoEp]
  /\ finished = {} /\ no_recycle = {}
  /\ held = [u \in Users |-> {}]

Idle(ep) == {conn_map[ep][i] : i \in 1..Len(conn_map[ep])}

\* The command u takes a connection to ep: the oldest idle one or a new one.
Take(u, c, ep) ==
  /\ active_conns' = [active_conns EXCEPT ![c] = ep]
  /\ held' = [held EXCEPT ![u] = held[u] \cup {c}]

\* Mutant of Reuse: the connection stays in the queue (front without pop).
ReuseWithoutPop(u, c, ep) ==
  /\ conn_map[ep] # <<>> /\ c = Head(conn_map[ep])
  /\ Take(u, c, ep)
  /\ UNCHANGED <<conn_map, known, remote, finished, no_recycle>>

Reuse(u, c, ep) ==
  /\ conn_map[ep] # <<>> /\ c = Head(conn_map[ep])
  /\ conn_map' = [conn_map EXCEPT ![ep] = Tail(conn_map[ep])]
  /\ Take(u, c, ep)
  /\ UNCHANGED <<known, remote, finished, no_recycle>>

Create(u, c, ep) ==
  /\ conn_map[ep] = <<>> /\ remote[c] = NoEp
  /\ remote' = [remote EXCEPT ![c] = ep]
  /\ Take(u, c, ep)
  /\ UNCHANGED <<conn_map, known, finished, no_recycle>>

Allocate(u, c, ep) == Reuse(u, c, ep) \/ Create(u, c, ep)

\* The connection has relayed a whole reply.
Serve(c) ==
  /\ active_conns[c] # NoEp
  /\ finished' = finished \cup {c}
  /\ UNCHANGED <<conn_map, known, active_conns, remote, no_recycle, held>>

\* set_no_recycle(): an error or a timeout.  A timer handler that was queued
\* before the connection was released may do it to an idle connection.
Fail(c) ==
  /\ remote[c] # NoEp
  /\ no_recycle' = no_recycle \cup {c}
  /\ UNCHANGED <<conn_map, known, active_conns, remote, finished, held>>

\* Mutant of Close: the connection is dropped without being closed.
CloseForgotten(c) == UNCHANGED <<conn_map, known, remote, finished, no_recycle>>

\* BackendConn::Close; the last pointer goes and the object is destroyed.
Close(c) ==
  /\ remote' = [remote EXCEPT ![c] = NoEp]
  /\ finished' = finished \ {c} /\ no_recycle' = no_recycle \ {c}
  /\ UNCHANGED <<conn_map, known>>

\* BackendConn::Reset and the push.
Push(c, ep) ==
  /\ conn_map' = [conn_map EXCEPT ![ep] = Append(conn_map[ep], c)]
  /\ known' = known \cup {ep}
  /\ finished' = finished \ {c}
  /\ UNCHANGED <<remote, no_recycle>>

\* Mutant of HasRoom: room is left for one connection too many.
HasRoomForOneMore(ep) == ep \notin known \/ Len(conn_map[ep]) <= MaxIdle

\* The limit is looked at only when the endpoint already has a queue.
HasRoom(ep) == ep \notin known \/ Len(conn_map[ep]) < MaxIdle

recyclable(c) == c \in finished /\ c \notin no_recycle

\* The command gives its pointer up and releases the connection.  The code
\* reads ep through a reference to the erased map node; nothing is allocated
\* before it is looked up, so the model takes its value as it was.
Release(u, c) ==
  /\ c \in held[u]
  /\ held' = [held EXCEPT ![u] = held[u] \ {c}]
  /\ LET ep == active_conns[c] IN
     IF ep = NoEp
     THEN UNCHANGED <<conn_map, known, active_conns, remote, finished,
                      no_recycle>>
     ELSE /\ active_conns' = [active_conns EXCEPT ![c] = NoEp]
          /\ IF recyclable(c) /\ HasRoom(ep) THEN Push(c, ep) ELSE Close(c)

PoolNext ==
  \/ \E u \in Users, c \in Conns, ep \in PoolEndpoints : Allocate(u, c, ep)
  \/ \E c \in Conns : Serve(c)
  \/ \E c \in Conns : Fail(c)
  \/ \E u \in Users, c \in Conns : Release(u, c)

PoolSpec == PoolInit /\ [][PoolNext]_poolVars

-----------------------------------------------------------------------------
(* Properties.                                                             *)

\* The variables' types.
PoolTypeOK ==
  /\ conn_map \in [PoolEndpoints -> Seq(Conns)] /\ known \in SUBSET PoolEndpoints
  /\ active_conns \in [Conns -> PoolEndpoints \cup {NoEp}]
  /\ remote \in [Conns -> PoolEndpoints \cup {NoEp}]
  /\ finished \in SUBSET Conns /\ no_recycle \in SUBSET Conns
  /\ held \in [Users -> SUBSET Conns]

\* Connections in queues are distinct, inactive and in the queue of their
\* own endpoint.
IdleInv ==
  \A ep \in PoolEndpoints : \A i \in 1..Len(conn_map[ep]) :
    LET c == conn_map[ep][i] IN
    /\ active_conns[c] = NoEp /\ remote[c] = ep /\ c \notin finished
    /\ \A j \in 1..Len(conn_map[ep]) : conn_map[ep][j] = c => i = j

\* An active connection exists and is active for its own endpoint, and the
\* commands share no connection.
ActiveInv ==
  /\ \A c \in Conns :
       /\ active_conns[c] # NoEp => active_conns[c] = remote[c]
       /\ c \in finished => active_conns[c] # NoEp
  /\ \A u \in Users : \A c \in held[u] :
       /\ active_conns[c] # NoEp
       /\ \A v \in Users : c \in held[v] => u = v

\* A connection serves one command at a time: what a command holds is held
\* by no other command and waits in no queue, so Allocate never hands it
\* out again (the assert in Allocate) and Release always finds it.
OneOwner ==
  \A u \in Users : \A c \in held[u] :
    /\ active_conns[c] = remote[c] /\ remote[c] # NoEp
    /\ \A v \in Users \ {u} : c \notin held[v]
    /\ \A ep \in PoolEndpoints : c \notin Idle(ep)

\* A connection that exists is held by a command or waits in a queue:
\* neither Allocate nor Release loses one.
NoLeak ==
  \A c \in Conns : remote[c] # NoEp =>
    (\E u \in Users : c \in held[u]) \/ c \in Idle(remote[c])

\* The limit of worker_max_idle_backends, as the code keeps it: the first
\* connection of an endpoint is pooled whatever the limit is.
IdleBounded ==
  \A ep \in PoolEndpoints :
    Len(conn_map[ep]) <= (IF MaxIdle = 0 THEN 1 ELSE MaxIdle)

\* The inductive invariant behind the properties above.
PoolInv ==
  /\ PoolTypeOK /\ IdleInv /\ ActiveInv /\ NoLeak /\ IdleBounded
  /\ \A ep \in PoolEndpoints \ known : conn_map[ep] = <<>>

\* "max idle connections per backend of one woker" (yarmproxy.conf).
IdleWithinLimit == \A ep \in PoolEndpoints : Len(conn_map[ep]) <= MaxIdle
=============================================================================
