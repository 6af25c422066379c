------------------------------ MODULE MemcGet -------------------------------
(***************************************************************************)
(* A memcached "get" of several keys (src/proxy/memc_get_command.cc): one  *)
(* subquery per backend, in parallel, and the replies of the backends      *)
(* forwarded one backend after the other.  Every backend ends its reply    *)
(* with END; only that of the last backend may reach the client.           *)
(*                                                                         *)
(* Replies are abstracted to their VALUE blocks and terminators.  The      *)
(* segments of a subquery are written one by one without another choice,   *)
(* and count as one write.  Buffers have room: their limit is the subject  *)
(* of module BackendConn.                                                  *)
(***************************************************************************)
EXTENDS Naturals, Sequences, FiniteSets

CONSTANTS
  Backends,   \* the backends that own the keys (subqueries_)
  MaxValues,  \* VALUE blocks in the reply of one backend
  LoneEnd,    \* may END arrive after all VALUE blocks have been read?
  None

ASSUME BackendsAssumption ==
  IsFiniteSet(Backends) /\ None \notin Backends /\ MaxValues \in Nat

VARIABLES
  values,     \* VALUE blocks each backend has in store
  first,      \* client_conn_->IsFirstCommand(this)
  io,         \* operation outstanding on each backend
  owed,       \* VALUE blocks each backend has not sent yet
  seen,       \* backends with has_read_some_reply_
  complete,   \* backends with reply_recv_complete_
  bad,        \* backends with no_recycle_
  ready,      \* parsed and unprocessed items in each backend's buffer
  writing,    \* the write to the client (is_writing_reply_): [from, items]
  received_reply_backends, last_backend, replying_backend,
  waiting_reply_queue, completed_backends,
  lock,       \* this command's part of the client buffer's lock count
  over,       \* "no", "done" (rotated away) or "aborted"
  out         \* what the client has got: pairs <<backend, item>>

vars == <<values, first, io, owed, seen, complete, bad, ready, writing,
          received_reply_backends, last_backend, replying_backend,
          waiting_reply_queue, completed_backends, lock, over, out>>

NoWrite == [from |-> None, items |-> <<>>]

N == Cardinality(Backends)

\* The constructor and StartWriteQuery: every subquery takes a lock on the
\* client's buffer and is written at once.
Init ==
  /\ values \in [Backends -> 0..MaxValues] /\ owed = values
  /\ first \in BOOLEAN
  /\ io = [b \in Backends |-> "query"] /\ lock = N
  /\ seen = {} /\ complete = {} /\ bad = {}
  /\ ready = [b \in Backends |-> <<>>] /\ writing = NoWrite
  /\ received_reply_backends = {} /\ last_backend = None
  /\ replying_backend = None /\ waiting_reply_queue = <<>>
  /\ completed_backends = 0 /\ over = "no" /\ out = <<>>

\* The fields the forwarding logic works on.
World ==
  [ready |-> ready, writing |-> writing, complete |-> complete,
   received |-> received_reply_backends, last |-> last_backend,
   replying |-> replying_backend, waiting |-> waiting_reply_queue,
   completed |-> completed_backends, over |-> over]

Become(w) ==
  /\ ready' = w.ready /\ writing' = w.writing /\ complete' = w.complete
  /\ received_reply_backends' = w.received /\ last_backend' = w.last
  /\ replying_backend' = w.replying /\ waiting_reply_queue' = w.waiting
  /\ completed_backends' = w.completed /\ over' = w.over

finished(w, b) == b \in w.complete /\ w.ready[b] = <<>>

Push(w, b, items) == [w EXCEPT !.ready[b] = @ \o items]

TryWriteReply(w, b) ==
  IF w.writing # NoWrite \/ w.ready[b] = <<>>
  THEN w
  ELSE [w EXCEPT !.writing = [from |-> b, items |-> w.ready[b]],
                 !.ready[b] = <<>>]

\* Mutant of TryMarkLastBackend: the first backend is taken for the last.
MarkFirstBackend(w, b) ==
  [w EXCEPT !.received = @ \cup {b}, !.last = IF @ = None THEN b ELSE @]

TryMarkLastBackend(w, b) ==
  [w EXCEPT !.received = @ \cup {b},
            !.last = IF b \notin w.received /\ w.received \cup {b} = Backends
                     THEN b ELSE @]

\* How many waiting backends, from the front, have nothing to forward.
Skipped(w) ==
  CHOOSE k \in 0..Len(w.waiting) :
    /\ \A i \in 1..k : finished(w, w.waiting[i])
    /\ k < Len(w.waiting) => ~finished(w, w.waiting[k + 1])

\* NextBackendStartReply and RotateReplyingBackend call each other until a
\* backend with something to forward, or no backend, is found.
NextBackendStartReply(w) ==
  LET k == Skipped(w)
      rest == SubSeq(w.waiting, k + 1, Len(w.waiting))
      w1 == [w EXCEPT !.completed = @ + k]
  IN IF k > 0 /\ w1.completed >= N
     THEN [w1 EXCEPT !.over = "done"]
     ELSE IF rest = <<>>
     THEN [w1 EXCEPT !.waiting = <<>>, !.replying = None]
     ELSE TryWriteReply([w1 EXCEPT !.waiting = Tail(rest), !.replying = Head(rest)],
                        Head(rest))

RotateReplyingBackend(w) ==
  LET w1 == [w EXCEPT !.completed = @ + 1] IN
  IF w1.completed < N THEN NextBackendStartReply(w1)
                      ELSE [w1 EXCEPT !.over = "done"]

Enqueue(w, b) ==
  IF \E i \in DOMAIN w.waiting : w.waiting[i] = b
  THEN w ELSE [w EXCEPT !.waiting = Append(@, b)]

\* Mutant of BackendReadyToReply: a backend that is replying is not left to
\* finish.
ReadyAtOnce(w, b) ==
  IF first
  THEN LET w1 == [w EXCEPT !.replying = b] IN
       IF finished(w1, b) THEN RotateReplyingBackend(w1)
                          ELSE TryWriteReply(w1, b)
  ELSE Enqueue(w, b)

BackendReadyToReply(w, b) ==
  IF first /\ w.replying \in {None, b}
  THEN LET w1 == [w EXCEPT !.replying = b] IN
       IF finished(w1, b) THEN RotateReplyingBackend(w1)
                          ELSE TryWriteReply(w1, b)
  ELSE Enqueue(w, b)

\* Mutant of ErrorItems: the last backend has nothing to say either.
NoErrorItems(w, b) == <<>>

\* What stands in for the reply of a backend that has failed.
ErrorItems(w, b) ==
  IF b # w.last THEN <<>> ELSE IF N > 1 THEN <<"END">> ELSE <<"ERROR">>

OnBackendRecoverableError(w, b) ==
  LET w1 == TryMarkLastBackend(w, b)
      w2 == Push(w1, b, ErrorItems(w1, b))
  IN BackendReadyToReply([w2 EXCEPT !.complete = @ \cup {b}], b)

Abort ==
  /\ over' = "aborted"
  /\ UNCHANGED <<values, first, io, owed, seen, complete, bad, ready, writing,
                 received_reply_backends, last_backend, replying_backend,
                 waiting_reply_queue, completed_backends, lock, out>>

-----------------------------------------------------------------------------

\* OnWriteQueryFinished, success, for the last segment.
QueryWritten(b) ==
  /\ io[b] = "query"
  /\ io' = [io EXCEPT ![b] = "read"] /\ lock' = lock - 1
  /\ Become(World)
  /\ UNCHANGED <<values, first, owed, seen, bad, out>>

\* OnWriteQueryFinished, E_CONNECT.
ConnectFailed(b) ==
  /\ io[b] = "query"
  /\ io' = [io EXCEPT ![b] = "none"] /\ lock' = lock - 1
  /\ bad' = bad \cup {b}
  /\ Become(OnBackendRecoverableError(World, b))
  /\ UNCHANGED <<values, first, owed, seen, out>>

\* OnWriteQueryFinished with any other error, timeouts included.
WriteFailed(b) == io[b] = "query" /\ Abort

\* OnBackendReplyReceived, success: n more VALUE blocks, and END with them
\* if "end".  END is kept for the client only if this is the last backend.
\* n = 0 without END: part of a line.
ReplyReceived(b, n, end) ==
  /\ io[b] = "read"
  /\ n <= owed[b] /\ (end => n = owed[b])
  /\ end /\ n = 0 => LoneEnd \/ values[b] = 0
  /\ ~end => LoneEnd \/ n < owed[b]
  /\ owed' = [owed EXCEPT ![b] = @ - n]
  /\ seen' = seen \cup {b}
  /\ LET w1 == TryMarkLastBackend(World, b)
         items == [i \in 1..n |-> "VALUE"]
                    \o (IF end /\ b = w1.last THEN <<"END">> ELSE <<>>)
         w2 == [Push(w1, b, items) EXCEPT
                  !.complete = IF end THEN @ \cup {b} ELSE @]
     IN /\ Become(BackendReadyToReply(w2, b))
        /\ io' = [io EXCEPT ![b] = IF end THEN "none" ELSE "read"]
  /\ UNCHANGED <<values, first, bad, lock, out>>

\* OnBackendReplyReceived with an error, a timeout or a malformed reply.
ReadFailed(b) ==
  /\ io[b] = "read"
  /\ \/ b \in seen /\ Abort
     \/ Abort    \* malformed: has_read_some_reply_ is set by then
     \/ /\ b \notin seen
        /\ io' = [io EXCEPT ![b] = "none"] /\ bad' = bad \cup {b}
        /\ Become(OnBackendRecoverableError(World, b))
        /\ UNCHANGED <<values, first, owed, seen, lock, out>>

\* Command::OnWriteReplyFinished, success.
OnWriteReplyFinished ==
  /\ writing # NoWrite
  /\ out' = out \o [i \in DOMAIN writing.items |->
                      <<writing.from, writing.items[i]>>]
  /\ LET b == writing.from
         w == [World EXCEPT !.writing = NoWrite]
     IN Become(IF finished(w, b) THEN RotateReplyingBackend(w)
                                 ELSE TryWriteReply(w, b))
  /\ UNCHANGED <<values, first, io, owed, seen, bad, lock>>

\* The write to the client fails or times out.
WriteReplyFailed == writing # NoWrite /\ Abort

\* A read from the client fails or times out.
ClientFails == Abort

\* Mutant of StartWriteReply: only replies that are still to come are looked
\* at.
StartWaiting ==
  /\ ~first /\ first' = TRUE
  /\ Become(World)
  /\ UNCHANGED <<values, io, owed, seen, bad, lock, out>>

\* RotateReplyingCommand makes this command the first: StartWriteReply.
StartWriteReply ==
  /\ ~first /\ first' = TRUE
  /\ Become(NextBackendStartReply(World))
  /\ UNCHANGED <<values, io, owed, seen, bad, lock, out>>

Next ==
  /\ over = "no"
  /\ \/ \E b \in Backends : QueryWritten(b)
     \/ \E b \in Backends : ConnectFailed(b)
     \/ \E b \in Backends : WriteFailed(b)
     \/ \E b \in Backends, n \in 0..MaxValues, end \in BOOLEAN :
          ReplyReceived(b, n, end)
     \/ \E b \in Backends : ReadFailed(b)
     \/ OnWriteReplyFinished
     \/ WriteReplyFailed
     \/ ClientFails
     \/ StartWriteReply

Spec == Init /\ [][Next]_vars

\* A timer ends every operation on a backend and every write to the client;
\* the commands ahead end too.
Timeout ==
  /\ over = "no"
  /\ \/ \E b \in Backends : WriteFailed(b)
     \/ \E b \in Backends : ReadFailed(b)
     \/ WriteReplyFailed

FairSpec ==
  Spec /\ WF_vars(Timeout) /\ WF_vars(over = "no" /\ StartWriteReply)

-----------------------------------------------------------------------------
(* Properties.                                                             *)

Items == {"VALUE", "END", "ERROR"}

\* The variables' types.
TypeOK ==
  /\ values \in [Backends -> 0..MaxValues] /\ owed \in [Backends -> 0..MaxValues]
  /\ first \in BOOLEAN /\ io \in [Backends -> {"query", "read", "none"}]
  /\ seen \subseteq Backends /\ complete \subseteq Backends
  /\ bad \subseteq Backends /\ received_reply_backends \subseteq Backends
  /\ ready \in [Backends -> Seq(Items)]
  /\ writing.from \in Backends \cup {None} /\ writing.items \in Seq(Items)
  /\ last_backend \in Backends \cup {None}
  /\ replying_backend \in Backends \cup {None}
  /\ waiting_reply_queue \in Seq(Backends)
  /\ Len(waiting_reply_queue) <= N
  /\ completed_backends \in 0..N /\ lock \in 0..N
  /\ over \in {"no", "done", "aborted"} /\ out \in Seq(Backends \X Items)

\* Nothing follows a terminator: END is the last line the client gets for
\* this command, whichever backend was first or last and whichever failed
\* (TryMarkLastBackend and ParseReply).
NothingAfterEnd ==
  \A i \in DOMAIN out : out[i][2] # "VALUE" => i = Len(out)

\* A command that is rotated away has given the client every VALUE block of
\* every backend that did not fail, and one terminator ("expected_end_lines"
\* and "expected_value_lines" in test/memcached/get5.sh).
ReplyComplete ==
  over = "done" =>
    /\ out # <<>> /\ out[Len(out)][2] # "VALUE"
    /\ \A b \in Backends :
         Cardinality({i \in DOMAIN out : out[i] = <<b, "VALUE">>})
           = (IF b \in bad THEN 0 ELSE values[b])

\* The VALUE blocks of two backends are never interleaved, nor is a block
\* of a backend forwarded once another has been completed.
BackendsNotInterleaved ==
  \A i, j, k \in DOMAIN out :
    i < j /\ j < k /\ out[i][1] = out[k][1] => out[j][1] = out[i][1]

\* The command ends, with its reply or with the connection, even if the
\* client's own timer never fires.
CommandEnds == <>(over # "no")
=============================================================================
