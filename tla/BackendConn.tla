---------------------------- MODULE BackendConn -----------------------------
(***************************************************************************)
(* One backend connection (src/proxy/backend_conn.cc) serving one          *)
(* single-backend command after another (the default callbacks of          *)
(* src/proxy/command.cc, used by RedisBasicCommand and MemcBasicCommand),  *)
(* together with the part of BackendConnPool that decides whether the      *)
(* connection is reused.  The query is complete when the command starts.   *)
(*                                                                         *)
(* All handlers run on the single thread of a worker's io_context, so each *)
(* is one action.  A handler whose operation was started while an expired  *)
(* timer was already queued runs after that timer's handler ("behind").    *)
(*                                                                         *)
(* The reply of len bytes starts with a line of head bytes that tells its  *)
(* length; a status or integer reply is one line (head = len).             *)
(***************************************************************************)
EXTENDS ReadBuffer

CONSTANTS
  Replies,    \* the replies a backend may give: records [len, head]
  ErrorLen    \* length of the error reply the proxy makes up

ASSUME RepliesAssumption ==
  /\ Replies # {}
  /\ \A r \in Replies : /\ DOMAIN r = {"len", "head"}
                        /\ r.len \in Nat /\ r.head \in 1..r.len
                        \* the first line fits in two thirds of the buffer
                        /\ (r.head - 1) * 3 < BufferSize * 2
  /\ ErrorLen \in 1..BufferSize

VARIABLES
  where,                  \* "active" | "idle" (pooled) | "gone" (closed)
  open,                   \* socket_.is_open()
  aborted,                \* aborted_
  no_recycle,             \* no_recycle_
  is_reading_reply,       \* is_reading_reply_
  reply_recv_complete,    \* reply_recv_complete_
  buf,                    \* *buffer_
  pending,                \* outstanding operations on the backend's socket
  rd,                     \* where the outstanding read will store its bytes
  canceled,               \* read_timer_canceled_, write_timer_canceled_
  armed, expired,         \* timers waiting / with their handler queued
  stale,                  \* queued timer handlers whose wait was cancelled
  behind,                 \* operations started behind a queued timer handler
  first,                  \* client_conn_->IsFirstCommand(command)
  is_writing_reply,       \* Command::is_writing_reply_
  has_written_some_reply, \* Command::has_written_some_reply_
  cw,                     \* memory the outstanding write to the client reads
  reply, stream,          \* the backend's reply; what the buffer holds of
  wire,                   \* reply bytes the backend still owes
  sent                    \* bytes of this command's reply the client has got

connVars == <<open, aborted, no_recycle, is_reading_reply, reply_recv_complete>>
timerVars == <<canceled, armed, expired, stale, behind>>
cmdVars == <<first, is_writing_reply, has_written_some_reply, cw, sent>>
vars == <<where, connVars, buf, pending, rd, timerVars, cmdVars, reply, stream,
          wire>>

Timers == {"read", "write"}
Ops == {"connect", "write", "post", "read", "client"}
NoIo == [base |-> 0, off |-> 0, len |-> 0]

Init ==
  /\ where = "gone" /\ buf = EmptyBuffer /\ pending = {} /\ rd = NoIo
  /\ open = FALSE /\ aborted = FALSE /\ no_recycle = FALSE
  /\ is_reading_reply = FALSE /\ reply_recv_complete = FALSE
  /\ canceled = {} /\ armed = {} /\ expired = {} /\ stale = {} /\ behind = {}
  /\ first = FALSE /\ is_writing_reply = FALSE
  /\ has_written_some_reply = FALSE /\ cw = NoIo /\ sent = 0
  /\ reply \in Replies /\ stream = "reply" /\ wire = 0

-----------------------------------------------------------------------------
(* Timers.  cancel() and expires_after() remove a waiting timer but not a  *)
(* handler that is already queued: that handler still runs with success.   *)

\* Operations started while a timer handler is queued complete behind it.
Queue(started) ==
  behind' = IF expired' = {} THEN {} ELSE (behind \cup started) \cap pending'

May(op) == op \in pending /\ op \notin behind

\* UpdateTimer, and the clearing of the timer's flag that goes with it.
UpdateTimer(t) ==
  /\ armed' = armed \cup {t}
  /\ canceled' = canceled \ {t}
  /\ stale' = stale \cup (expired \cap {t})
  /\ UNCHANGED expired

CancelTimer(t) ==
  /\ armed' = armed \ {t}
  /\ canceled' = canceled \cup {t}
  /\ stale' = stale \cup (expired \cap {t})
  /\ UNCHANGED expired

\* The deadline passes and the timer's handler joins the queue.
Expire(t) ==
  /\ t \in armed
  /\ armed' = armed \ {t}
  /\ expired' = expired \cup {t}
  /\ UNCHANGED <<where, connVars, buf, pending, rd, canceled, stale, behind,
                 cmdVars, reply, stream, wire>>

-----------------------------------------------------------------------------
(* Pieces of handlers.                                                     *)

\* Mutant of finished: whether the reply is complete is not asked.
finished_when_written(b) == unprocessed_bytes(b) = 0

finished(b) == reply_recv_complete /\ unprocessed_bytes(b) = 0

\* Command::TryWriteReply starts writing whatever is parsed and received;
\* "idle" says that is_writing_reply_ is false at the time of the call.
CanWriteReply(b, isFirst, idle) == isFirst /\ idle /\ unprocessed_bytes(b) > 0

TryWriteReply(b, isFirst, idle) ==
  /\ cw' = IF CanWriteReply(b, isFirst, idle)
           THEN [base |-> b.base, off |-> b.processed,
                 len |-> unprocessed_bytes(b)]
           ELSE IF idle THEN NoIo ELSE cw
  /\ is_writing_reply' = (CanWriteReply(b, isFirst, idle) \/ ~idle)
  /\ has_written_some_reply' =
       (CanWriteReply(b, isFirst, idle) \/ has_written_some_reply)

AfterTryWrite(b, isFirst, idle) ==
  IF CanWriteReply(b, isFirst, idle)
  THEN update_processed_bytes(inc_recycle_lock(b), unprocessed_bytes(b))
  ELSE b

ClientOp(b, isFirst, idle) ==
  IF CanWriteReply(b, isFirst, idle) THEN {"client"} ELSE {}

\* BackendConn::ReadReply, with the target of its async_read_some.
ReadReply(b) ==
  /\ is_reading_reply' = TRUE
  /\ buf' = inc_recycle_lock(b)
  /\ rd' = [base |-> b.base, off |-> b.received, len |-> free_space_size(b)]

\* Mutant of TryReadMoreReply: read on after a complete reply.
TryReadAlways(b, complete, reading) ==
  IF ~reading /\ has_much_free_space(b)
  THEN ReadReply(b)
  ELSE /\ is_reading_reply' = reading
       /\ buf' = b
       /\ rd' = IF reading THEN rd ELSE NoIo

\* BackendConn::TryReadMoreReply
TryReadMoreReply(b, complete, reading) ==
  IF ~complete /\ ~reading /\ has_much_free_space(b)
  THEN ReadReply(b)
  ELSE /\ is_reading_reply' = reading
       /\ buf' = b
       /\ rd' = IF reading THEN rd ELSE NoIo

\* Command::ParseRedisSimpleReply and ParseMemcSimpleReply on a well-formed
\* reply: nothing until its first line is there, then the whole of it, even
\* the part that has not been received.
ParseReply(b) ==
  IF unparsed_received_bytes(b) = 0 \/ b.base + b.received < reply.head
  THEN b
  ELSE update_parsed_bytes(b, reply.len)

ParsedAll(b) == b.parsed = b.received

\* BackendConn::Close and the destruction of the connection.
Gone ==
  /\ where' = "gone" /\ buf' = EmptyBuffer /\ pending' = {} /\ rd' = NoIo
  /\ open' = FALSE /\ aborted' = FALSE /\ no_recycle' = FALSE
  /\ is_reading_reply' = FALSE /\ reply_recv_complete' = FALSE
  /\ canceled' = {} /\ armed' = {} /\ expired' = {} /\ stale' = {}
  /\ behind' = {} /\ wire' = 0

\* BackendConn::Reset and the push onto the idle queue.
Pool ==
  /\ where' = "idle" /\ buf' = EmptyBuffer /\ pending' = {} /\ rd' = NoIo
  /\ is_reading_reply' = FALSE /\ reply_recv_complete' = FALSE
  /\ canceled' = {} /\ behind' = {}
  /\ UNCHANGED <<open, aborted, no_recycle, armed, expired, stale, wire>>

\* Mutant of recyclable: ask only for the error flag.
recyclable_without_finished(b) == ~no_recycle

recyclable(b) == ~no_recycle /\ finished(b)

\* The command is destroyed: BackendConnPool::Release closes the connection
\* unless it is recyclable and the idle queue has room for it.
Release(b) ==
  /\ (recyclable(b) /\ Pool) \/ Gone
  /\ first' = FALSE /\ is_writing_reply' = FALSE
  /\ has_written_some_reply' = FALSE /\ cw' = NoIo
  /\ UNCHANGED <<reply, stream>>

\* Mutant of BackendErrorRecoverable: every error gets an error reply.
AlwaysRecoverable == TRUE

BackendErrorRecoverable == ~has_written_some_reply

\* Command::OnBackendRecoverableError: the buffer is overwritten with an
\* error reply.
OnBackendRecoverableError ==
  LET b == SetReplyData(ErrorLen) IN
  /\ BackendErrorRecoverable
  /\ buf' = AfterTryWrite(b, first, ~is_writing_reply)
  /\ TryWriteReply(b, first, ~is_writing_reply)
  /\ pending' = ClientOp(b, first, ~is_writing_reply)
  /\ reply_recv_complete' = TRUE /\ no_recycle' = TRUE
  /\ is_reading_reply' = FALSE /\ rd' = NoIo
  /\ stream' = "error"
  /\ Queue({"client"})
  /\ UNCHANGED <<where, first, reply, wire, sent>>

\* An unrecoverable error aborts the client, which destroys the command.
AbortClient == ~BackendErrorRecoverable /\ Release(buf) /\ UNCHANGED sent

-----------------------------------------------------------------------------
(* The handlers.                                                           *)

\* A command takes the connection from the pool, or a new one, and writes
\* its query: BackendConnPool::Allocate, Command::StartWriteQuery,
\* BackendConn::WriteQuery.
StartWriteQuery(r, isFirst) ==
  /\ where # "active"
  /\ where' = "active" /\ reply' = r /\ first' = isFirst
  /\ stream' = "reply" /\ sent' = 0
  /\ \/ /\ aborted
        /\ pending' = {"post"}
        /\ UNCHANGED <<open, wire, canceled, armed, expired, stale>>
     \/ /\ ~aborted /\ ~open
        /\ pending' = {"connect"} /\ open' = TRUE
        /\ UpdateTimer("write")
        /\ UNCHANGED wire
     \/ /\ ~aborted /\ open
        /\ pending' = {"write"} /\ wire' = wire + r.len
        /\ UpdateTimer("write")
        /\ UNCHANGED open
  /\ Queue(pending')
  /\ UNCHANGED <<aborted, no_recycle, is_reading_reply, reply_recv_complete,
                 buf, rd, is_writing_reply, has_written_some_reply, cw>>

\* BackendConn::HandleConnect, success: go on to write the query.
HandleConnect ==
  /\ May("connect")
  /\ pending' = (pending \ {"connect"}) \cup {"write"}
  /\ wire' = wire + reply.len
  /\ UpdateTimer("write") /\ Queue({"write"})
  /\ UNCHANGED <<where, connVars, buf, rd, cmdVars, reply, stream>>

\* HandleConnect or HandleWrite with an error, or the handler WriteQuery
\* posts for an aborted connection: OnWriteQueryFinished(error).
QueryFailed(op) ==
  /\ op \in {"connect", "write", "post"} /\ May(op)
  /\ IF op = "post" THEN UNCHANGED <<armed, canceled, stale, expired>>
                    ELSE CancelTimer("write")
  /\ open' = FALSE /\ UNCHANGED aborted
  /\ OnBackendRecoverableError

\* BackendConn::HandleWrite, success: OnWriteQueryFinished starts reading.
HandleWrite ==
  /\ May("write")
  /\ pending' = (pending \ {"write"}) \cup {"read"}
  /\ ReadReply(buf)
  /\ armed' = (armed \ {"write"}) \cup {"read"}
  /\ canceled' = (canceled \cup {"write"}) \ {"read"}
  /\ stale' = stale \cup expired
  /\ UNCHANGED expired
  /\ Queue({"read"})
  /\ UNCHANGED <<where, open, aborted, no_recycle, reply_recv_complete,
                 cmdVars, reply, stream, wire>>

\* BackendConn::HandleRead with n bytes: OnBackendReplyReceived parses them,
\* starts a write if the command is the first, and reads on.
HandleRead(n) ==
  /\ May("read")
  /\ n \in 1..wire /\ n <= rd.len
  /\ LET b1 == ParseReply(dec_recycle_lock(update_received_bytes(buf, n)))
         b2 == AfterTryWrite(b1, first, ~is_writing_reply)
         complete == reply_recv_complete \/ ParsedAll(b1)
         more == ~complete /\ has_much_free_space(b2)
     IN /\ wire' = wire - n
        /\ reply_recv_complete' = complete
        /\ TryWriteReply(b1, first, ~is_writing_reply)
        /\ TryReadMoreReply(b2, complete, FALSE)
        /\ pending' = (pending \ {"read"})
                        \cup ClientOp(b1, first, ~is_writing_reply)
                        \cup (IF more THEN {"read"} ELSE {})
        /\ IF more THEN UpdateTimer("read") ELSE CancelTimer("read")
        /\ Queue({"read"} \cup ClientOp(b1, first, ~is_writing_reply))
  /\ UNCHANGED <<where, open, aborted, no_recycle, first, reply, stream, sent>>

\* HandleRead with an error, and ParseReply rejecting the reply (E_PROTOCOL,
\* which leaves the socket open).
ReadFailed(closes) ==
  /\ May("read")
  /\ closes \/ buf.parsed = 0
  /\ \/ /\ CancelTimer("read")
        /\ open' = (open /\ ~closes) /\ UNCHANGED aborted
        /\ OnBackendRecoverableError
     \/ AbortClient

\* BackendConn::Abort at the end of OnTimeout(t).
Abort(t) ==
  /\ aborted' = TRUE /\ open' = FALSE
  /\ armed' = {} /\ canceled' = Timers
  /\ expired' = expired \ {t} /\ stale' = (stale \cup expired) \ {t}

\* BackendConn::OnTimeout: nothing for an aborted connection or a timer
\* whose flag says cancelled; otherwise the error callback, then Abort.
OnTimeout(t) ==
  /\ t \in expired
  /\ \/ /\ aborted \/ t \in canceled
        /\ expired' = expired \ {t} /\ stale' = stale \ {t}
        /\ UNCHANGED <<where, connVars, buf, pending, rd, canceled, armed,
                       cmdVars, reply, stream, wire>>
        /\ Queue({})
     \/ /\ ~aborted /\ t \notin canceled /\ where = "active"
        /\ \/ Abort(t) /\ OnBackendRecoverableError
           \/ AbortClient
     \/ /\ ~aborted /\ t \notin canceled /\ where = "idle"
        /\ Abort(t) /\ no_recycle' = TRUE /\ is_reading_reply' = FALSE
        /\ UNCHANGED <<where, reply_recv_complete, buf, pending, rd, cmdVars,
                       reply, stream, wire>>
        /\ Queue({})

\* The commands ahead of this one have been answered: RotateReplyingCommand
\* calls StartWriteReply.
StartWriteReply ==
  /\ where = "active" /\ ~first
  /\ first' = TRUE
  /\ TryWriteReply(buf, TRUE, ~is_writing_reply)
  /\ buf' = AfterTryWrite(buf, TRUE, ~is_writing_reply)
  /\ pending' = pending \cup ClientOp(buf, TRUE, ~is_writing_reply)
  /\ UNCHANGED <<where, connVars, rd, canceled, armed, expired, stale, reply,
                 stream, wire, sent>>
  /\ Queue(ClientOp(buf, TRUE, ~is_writing_reply))

\* Command::OnWriteReplyFinished, success: read on and write on, or, at the
\* end of the reply, RotateReplyingBackend destroys the command.
OnWriteReplyFinished ==
  /\ May("client")
  /\ sent' = sent + cw.len
  /\ LET b1 == dec_recycle_lock(buf)
         more == ~reply_recv_complete /\ ~is_reading_reply
                   /\ has_much_free_space(b1)
         b2 == AfterTryWrite(b1, first, TRUE)
     IN \/ finished(b1) /\ Release(b1)
        \/ /\ ~finished(b1)
           /\ TryWriteReply(b1, first, TRUE)
           /\ TryReadMoreReply(b2, reply_recv_complete, is_reading_reply)
           /\ pending' = (pending \ {"client"}) \cup ClientOp(b1, first, TRUE)
                           \cup (IF more THEN {"read"} ELSE {})
           /\ IF more THEN UpdateTimer("read")
                      ELSE UNCHANGED <<armed, canceled, expired, stale>>
           /\ Queue(ClientOp(b1, first, TRUE)
                      \cup (IF more THEN {"read"} ELSE {}))
           /\ UNCHANGED <<where, open, aborted, no_recycle,
                          reply_recv_complete, first, reply, stream, wire>>

\* The client fails, closes or times out at any moment: ClientConnection's
\* Abort destroys the command.
ClientAbort == where = "active" /\ Release(buf) /\ UNCHANGED sent

Next ==
  \/ \E r \in Replies, isFirst \in BOOLEAN : StartWriteQuery(r, isFirst)
  \/ HandleConnect
  \/ \E op \in Ops : QueryFailed(op)
  \/ HandleWrite
  \/ \E n \in 1..BufferSize : HandleRead(n)
  \/ \E closes \in BOOLEAN : ReadFailed(closes)
  \/ \E t \in Timers : Expire(t)
  \/ \E t \in Timers : OnTimeout(t)
  \/ StartWriteReply
  \/ OnWriteReplyFinished
  \/ ClientAbort

Spec == Init /\ [][Next]_vars

\* Each outstanding operation on a backend has a timer, each write to the
\* client too (its expiry is a ClientAbort), so one of completion, failure
\* and timeout always comes.  StartWriteReply comes because the same holds
\* of the commands ahead.
Progress ==
  \/ HandleConnect \/ HandleWrite \/ OnWriteReplyFinished
  \/ \E op \in Ops : QueryFailed(op)
  \/ \E n \in 1..BufferSize : HandleRead(n)
  \/ \E closes \in BOOLEAN : ReadFailed(closes)
  \/ \E t \in Timers : OnTimeout(t)

FairSpec == Spec /\ WF_vars(Progress) /\ WF_vars(StartWriteReply)

-----------------------------------------------------------------------------
(* Properties.                                                             *)

Regions == [base : Nat, off : Nat, len : Nat]

\* The variables' types.
TypeOK ==
  /\ where \in {"active", "idle", "gone"}
  /\ open \in BOOLEAN /\ aborted \in BOOLEAN /\ no_recycle \in BOOLEAN
  /\ is_reading_reply \in BOOLEAN /\ reply_recv_complete \in BOOLEAN
  /\ buf \in ReadBuffers
  /\ pending \in SUBSET Ops /\ behind \in SUBSET Ops
  /\ rd \in Regions /\ cw \in Regions
  /\ canceled \in SUBSET Timers /\ armed \in SUBSET Timers
  /\ expired \in SUBSET Timers /\ stale \in SUBSET Timers
  /\ first \in BOOLEAN /\ is_writing_reply \in BOOLEAN
  /\ has_written_some_reply \in BOOLEAN
  /\ reply \in Replies /\ stream \in {"reply", "error"}
  /\ wire \in Nat /\ sent \in Nat

\* No compaction moves the buffer under an outstanding operation
\* (recycle_lock_count_ in ReadBuffer::try_recycle_buffer): the bytes an
\* outstanding read delivers land exactly at received_offset_ and fit, and
\* the bytes an outstanding write to the client sends are still the ones
\* that follow what the client has got.
IoInPlace ==
  /\ "read" \in pending =>
       rd.base = buf.base /\ rd.off = buf.received
         /\ rd.off + rd.len <= BufferSize
  /\ "client" \in pending =>
       cw.base = buf.base /\ cw.base + cw.off = sent
         /\ cw.off + cw.len <= buf.received

\* The conjuncts of the inductive invariant ConnInv below.
NotActive ==
  where # "active" =>
    /\ pending = {} /\ buf = EmptyBuffer /\ wire = 0
    /\ ~is_reading_reply /\ ~reply_recv_complete
    /\ ~is_writing_reply /\ ~has_written_some_reply

Locks ==
  /\ "read" \in pending <=> is_reading_reply
  /\ "client" \in pending <=> is_writing_reply
  /\ buf.lock = (IF is_reading_reply THEN 1 ELSE 0)
                  + (IF is_writing_reply THEN 1 ELSE 0)

Sending ==
  /\ is_writing_reply =>
       has_written_some_reply /\ first /\ cw.off + cw.len = buf.processed
  /\ where = "active" =>
       /\ ~is_writing_reply => sent = buf.base + buf.processed
       /\ ~has_written_some_reply => sent = 0

Querying ==
  /\ \A op \in {"connect", "write", "post"} : op \in pending =>
       /\ pending = {op} /\ where = "active"
       /\ buf = EmptyBuffer /\ stream = "reply"
       /\ ~has_written_some_reply /\ ~reply_recv_complete
  /\ "connect" \in pending \/ "post" \in pending => wire = 0

Receiving ==
  where = "active" /\ stream = "reply" =>
    /\ "connect" \notin pending /\ "post" \notin pending =>
         wire + buf.base + buf.received = reply.len
    /\ \/ buf.base + buf.parsed = reply.len
       \/ buf.base = 0 /\ buf.parsed = 0
    /\ reply_recv_complete =>
         /\ ~is_reading_reply /\ buf.parsed = buf.received
         /\ buf.base + buf.parsed = reply.len

Failed ==
  where = "active" /\ stream = "error" =>
    /\ reply_recv_complete /\ no_recycle /\ ~is_reading_reply
    /\ buf.base = 0 /\ buf.parsed = ErrorLen /\ buf.received = ErrorLen
    /\ is_writing_reply => buf.processed = ErrorLen

\* While the buffer holds the backend's reply, the bytes received and the
\* bytes the backend owes add up to it, the parser is at its start or its
\* end, and the client has got everything before processed_offset_ except
\* what is being written (the relay of BackendConn::HandleRead,
\* Command::TryWriteReply and Command::OnWriteReplyFinished).
ConnInv ==
  /\ TypeOK /\ WellFormed(buf) /\ IoInPlace /\ NotActive /\ Locks /\ Sending
  /\ Querying /\ Receiving /\ Failed

\* The client never gets a piece of the backend's reply followed by the
\* proxy's error text: the buffer is only overwritten before anything was
\* sent (Command::BackendErrorRecoverable).
RepliesNeverMixed ==
  [][stream' # stream => stream = "error" \/ (sent = 0 /\ "client" \notin pending)]_vars

\* A connection is pooled only when the backend owes no byte of an earlier
\* reply and no operation is outstanding, so that the next command cannot
\* get another command's reply (BackendConn::recyclable).
PooledClean ==
  where = "idle" => wire = 0 /\ pending = {} /\ buf = EmptyBuffer

\* assert(!backend->buffer()->recycle_locked()) in OnWriteReplyFinished:
\* when the last piece of a reply is being written nothing else uses the
\* buffer.
NoLockAtRotation ==
  "client" \in pending /\ finished(buf) => buf.lock = 1

\* A command that ends without a client abort has delivered its reply
\* completely, the backend's or the proxy's.
CompleteOnRotation ==
  [][OnWriteReplyFinished /\ where' # "active"
       => sent' = (IF stream = "error" THEN ErrorLen ELSE reply.len)]_vars

\* Every command ends: no state of its connection waits for nothing.
CommandEnds == where = "active" ~> where # "active"

\* "timer was cancelled, take no action." (backend_conn.cc, OnTimeout): the
\* handler of a wait that was cancelled never aborts the connection.
CancelledTimerTakesNoAction ==
  [][\A t \in stale : OnTimeout(t) => aborted' = aborted /\ where' = where]_vars
=============================================================================
