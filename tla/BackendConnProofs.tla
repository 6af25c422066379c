------------------------- MODULE BackendConnProofs --------------------------
(***************************************************************************)
(* What the operations of ReadBuffer do to the stream positions of the     *)
(* three offsets, for every buffer size: compaction (try_recycle_buffer)   *)
(* moves the window over the stream but no offset over the data.           *)
(*                                                                         *)
(* ConnInv is an inductive invariant of BackendConn, for every buffer      *)
(* size, every set of replies and every error reply that fits the buffer.  *)
(***************************************************************************)
EXTENDS BackendConn, TLAPS

-----------------------------------------------------------------------------
(* The read buffer.                                                        *)

\* b and c have their offsets at the same bytes of the stream.
SamePositions(b, c) ==
  /\ c.base + c.processed = b.base + b.processed
  /\ c.base + c.received = b.base + b.received
  /\ c.base + c.parsed = b.base + b.parsed

\* try_recycle_buffer keeps the order of the offsets and their positions in
\* the stream, and does nothing at all while the buffer is locked.
LEMMA RecycleLemma ==
  ASSUME NEW b, WellFormed(b)
  PROVE  /\ WellFormed(try_recycle_buffer(b))
         /\ SamePositions(b, try_recycle_buffer(b))
         /\ try_recycle_buffer(b).lock = b.lock
         /\ try_recycle_buffer(b).base >= b.base
         /\ b.lock > 0 => try_recycle_buffer(b) = b
  <1> DEFINE d == [processed |-> 0, received |-> b.received - b.processed,
                  parsed |-> b.parsed - b.processed, lock |-> b.lock,
                  base |-> b.base + b.processed]
  <1>1. b.processed \in Nat /\ b.received \in Nat /\ b.parsed \in Nat
          /\ b.lock \in Nat /\ b.base \in Nat /\ BufferSize \in Nat
    BY BufferSizeAssumption, Zenon DEF WellFormed, ReadBuffers
  <1>2. CASE try_recycle_buffer(b) = b
    BY <1>1, <1>2 DEF SamePositions
  <1>3. CASE b.lock = 0 /\ try_recycle_buffer(b) = d
    <2>1. /\ d \in ReadBuffers
          /\ d.processed = 0 /\ d.received = b.received - b.processed
          /\ d.parsed = b.parsed - b.processed /\ d.lock = b.lock
          /\ d.base = b.base + b.processed
      BY <1>1 DEF WellFormed, ReadBuffers
    <2> QED
      BY <1>1, <1>3, <2>1 DEF WellFormed, SamePositions
  <1> QED
    BY <1>1, <1>2, <1>3, Zenon DEF try_recycle_buffer

\* dec_recycle_lock gives up one lock and otherwise only recycles.
LEMMA DecLemma ==
  ASSUME NEW b, WellFormed(b), b.lock > 0
  PROVE  /\ WellFormed(dec_recycle_lock(b))
         /\ SamePositions(b, dec_recycle_lock(b))
         /\ dec_recycle_lock(b).lock = b.lock - 1
         /\ b.lock > 1 => dec_recycle_lock(b) = [b EXCEPT !.lock = b.lock - 1]
  <1> DEFINE c == [b EXCEPT !.lock = b.lock - 1]
  <1>1. WellFormed(c) /\ SamePositions(b, c) /\ c.lock = b.lock - 1
    BY DEF WellFormed, SamePositions, ReadBuffers
  <1>2. /\ WellFormed(try_recycle_buffer(c))
        /\ SamePositions(c, try_recycle_buffer(c))
        /\ try_recycle_buffer(c).lock = c.lock
        /\ c.lock > 0 => try_recycle_buffer(c) = c
    BY <1>1, RecycleLemma, Zenon
  <1>3. SamePositions(b, try_recycle_buffer(c))
    BY <1>1, <1>2, Zenon DEF SamePositions
  <1>4. b.lock \in Nat
    BY Zenon DEF WellFormed, ReadBuffers
  <1> QED
    BY <1>1, <1>2, <1>3, <1>4 DEF dec_recycle_lock

\* update_processed_bytes moves processed_offset_ by n and, under a lock,
\* nothing else.
LEMMA ProcessedLemma ==
  ASSUME NEW b, WellFormed(b), NEW n \in Nat, n <= unprocessed_bytes(b)
  PROVE  LET c == update_processed_bytes(b, n) IN
         /\ WellFormed(c)
         /\ c.lock = b.lock
         /\ c.base + c.processed = b.base + b.processed + n
         /\ c.base + c.received = b.base + b.received
         /\ c.base + c.parsed = b.base + b.parsed
         /\ b.lock > 0 => c = [b EXCEPT !.processed = b.processed + n]
  <1> DEFINE d == [b EXCEPT !.processed = b.processed + n]
  <1>1. /\ WellFormed(d) /\ d.lock = b.lock
        /\ d.processed = b.processed + n
        /\ d.base = b.base /\ d.received = b.received /\ d.parsed = b.parsed
    BY DEF WellFormed, ReadBuffers, unprocessed_bytes
  <1>2. /\ WellFormed(try_recycle_buffer(d))
        /\ SamePositions(d, try_recycle_buffer(d))
        /\ try_recycle_buffer(d).lock = d.lock
        /\ d.lock > 0 => try_recycle_buffer(d) = d
    BY <1>1, RecycleLemma, Zenon
  <1>3. b.base \in Nat /\ b.processed \in Nat
    BY Zenon DEF WellFormed, ReadBuffers
  <1> QED
    BY <1>1, <1>2, <1>3 DEF update_processed_bytes, SamePositions

\* inc_recycle_lock takes a lock and touches no offset.
LEMMA IncLemma ==
  ASSUME NEW b, WellFormed(b)
  PROVE  LET c == inc_recycle_lock(b) IN
         /\ WellFormed(c) /\ c.lock = b.lock + 1 /\ c.base = b.base
         /\ c.processed = b.processed /\ c.received = b.received
         /\ c.parsed = b.parsed
  BY DEF inc_recycle_lock, WellFormed, ReadBuffers

\* A read that fits the free space keeps the buffer well formed.
LEMMA ReceivedLemma ==
  ASSUME NEW b, WellFormed(b), NEW n \in Nat, b.received + n <= BufferSize
  PROVE  LET c == update_received_bytes(b, n) IN
         /\ WellFormed(c) /\ c.lock = b.lock /\ c.base = b.base
         /\ c.processed = b.processed /\ c.received = b.received + n
         /\ c.parsed = b.parsed
  BY BufferSizeAssumption DEF update_received_bytes, WellFormed, ReadBuffers

\* The parser may run ahead of the bytes received.
LEMMA ParsedLemma ==
  ASSUME NEW b, WellFormed(b), NEW n \in Nat
  PROVE  LET c == update_parsed_bytes(b, n) IN
         /\ WellFormed(c) /\ c.lock = b.lock /\ c.base = b.base
         /\ c.processed = b.processed /\ c.received = b.received
         /\ c.parsed = b.parsed + n
  BY DEF update_parsed_bytes, WellFormed, ReadBuffers

\* The offsets of a well-formed buffer are numbers.
LEMMA FieldsLemma ==
  ASSUME NEW b, WellFormed(b)
  PROVE  /\ b.processed \in Nat /\ b.received \in Nat /\ b.parsed \in Nat
         /\ b.lock \in Nat /\ b.base \in Nat
         /\ b.processed <= b.received /\ b.received <= BufferSize
         /\ b.processed <= b.parsed
  BY Zenon DEF WellFormed, ReadBuffers

-----------------------------------------------------------------------------
(* The connection.                                                         *)

\* The assumptions on the constants, as the provers use them.
LEMMA Facts ==
  /\ BufferSize \in Nat /\ BufferSize > 0
  /\ ErrorLen \in Nat /\ ErrorLen > 0 /\ ErrorLen <= BufferSize
  /\ \A r \in Replies : r.len \in Nat /\ r.len > 0 /\ r.head \in Nat
  BY BufferSizeAssumption, RepliesAssumption

\* What TypeOK says of the timers, and what the timer operators keep of it.
TimerTypes ==
  /\ canceled \in SUBSET Timers /\ armed \in SUBSET Timers
  /\ expired \in SUBSET Timers /\ stale \in SUBSET Timers

\* Arming or cancelling a timer keeps the timers well typed.
LEMMA TimerLemma ==
  ASSUME TimerTypes, NEW t \in Timers, UpdateTimer(t) \/ CancelTimer(t)
  PROVE  TimerTypes'
  BY Zenon DEF TimerTypes, UpdateTimer, CancelTimer

\* Queue keeps "behind" a set of operations.
LEMMA QueueLemma ==
  ASSUME pending' \in SUBSET Ops, NEW S, Queue(S)
  PROVE  behind' \in SUBSET Ops
  BY Zenon DEF Queue

\* What TryWriteReply makes of buffer b: one lock is taken and all that is
\* parsed and received handed on, or nothing is done.
HandedOn(b, c, can) ==
  /\ WellFormed(c) /\ c.base = b.base
  /\ c.received = b.received /\ c.parsed = b.parsed
  /\ unprocessed_bytes(b) \in Nat
  /\ can => /\ c.lock = b.lock + 1
            /\ c.processed = b.processed + unprocessed_bytes(b)
            /\ b.processed + unprocessed_bytes(b) <= b.received
  /\ ~can => c = b

\* TryWriteReply does what HandedOn says.
LEMMA TryWriteLemma ==
  ASSUME NEW b, WellFormed(b), NEW f \in BOOLEAN, NEW i \in BOOLEAN
  PROVE  HandedOn(b, AfterTryWrite(b, f, i), CanWriteReply(b, f, i))
  <1>1. /\ b.processed \in Nat /\ b.received \in Nat /\ b.parsed \in Nat
        /\ b.processed <= b.received /\ b.processed <= b.parsed
        /\ b.lock \in Nat
    BY FieldsLemma, Zenon
  <1>2. unprocessed_bytes(b) \in Nat
          /\ b.processed + unprocessed_bytes(b) <= b.received
    BY <1>1 DEF unprocessed_bytes
  <1>3. CASE CanWriteReply(b, f, i)
    <2> DEFINE d == inc_recycle_lock(b)
    <2>1. /\ WellFormed(d) /\ d.lock = b.lock + 1 /\ d.base = b.base
          /\ d.processed = b.processed /\ d.received = b.received
          /\ d.parsed = b.parsed
      BY IncLemma, Zenon
    <2>2. unprocessed_bytes(d) = unprocessed_bytes(b)
      BY <2>1, Zenon DEF unprocessed_bytes
    <2> DEFINE c == update_processed_bytes(d, unprocessed_bytes(b))
    <2>3. /\ WellFormed(c) /\ c.lock = d.lock
          /\ c = [d EXCEPT !.processed = d.processed + unprocessed_bytes(b)]
      BY <1>1, <1>2, <2>1, <2>2, ProcessedLemma
    <2>4. /\ c.base = b.base /\ c.received = b.received
          /\ c.parsed = b.parsed
          /\ c.processed = b.processed + unprocessed_bytes(b)
      BY <2>1, <2>3, Zenon DEF WellFormed, ReadBuffers
    <2>5. AfterTryWrite(b, f, i) = c
      BY <1>3, Zenon DEF AfterTryWrite
    <2> HIDE DEF c, d
    <2> QED
      BY <1>2, <1>3, <2>1, <2>3, <2>4, <2>5, Zenon DEF HandedOn
  <1>4. CASE ~CanWriteReply(b, f, i)
    BY <1>2, <1>4, Zenon DEF AfterTryWrite, HandedOn
  <1> QED
    BY <1>3, <1>4, Zenon

\* The initial state satisfies the invariant.
LEMMA InitInv == Init => ConnInv
  <1> SUFFICES ASSUME Init PROVE ConnInv
    BY Zenon
  <1> USE Facts DEF Init
  <1>1. TypeOK
    BY Zenon DEF TypeOK, EmptyBuffer, ReadBuffers, NoIo, Regions, Ops, Timers
  <1>2. WellFormed(buf)
    BY DEF WellFormed, EmptyBuffer, ReadBuffers
  <1>3. IoInPlace /\ NotActive /\ Locks /\ Sending
    BY DEF IoInPlace, NotActive, Locks, Sending, EmptyBuffer
  <1>4. Querying /\ Receiving /\ Failed
    BY Zenon DEF Querying, Receiving, Failed
  <1> QED
    BY <1>1, <1>2, <1>3, <1>4, Zenon DEF ConnInv

\* A complete reply leaves nothing on the wire unless it is an error reply.
LEMMA CompleteMeansRead ==
  ASSUME ConnInv, where = "active", reply_recv_complete, ~no_recycle
  PROVE  wire = 0
  <1>1. stream = "reply"
    BY Zenon DEF ConnInv, TypeOK, Failed
  <1>2. "connect" \notin pending /\ "post" \notin pending
    BY Zenon DEF ConnInv, Querying
  <1>3. /\ wire + buf.base + buf.received = reply.len
        /\ buf.base + buf.received = reply.len
    BY <1>1, <1>2, Zenon DEF ConnInv, Receiving
  <1>4. wire \in Nat /\ buf.base \in Nat /\ buf.received \in Nat
    BY FieldsLemma, Zenon DEF ConnInv, TypeOK
  <1> QED
    BY <1>3, <1>4

\* Destroying the command keeps the invariant, whether the connection is
\* pooled or closed.
LEMMA ReleaseInv ==
  ASSUME ConnInv, NEW b, Release(b), recyclable(b) => wire = 0,
         sent' \in Nat
  PROVE  ConnInv'
  <1>1. CASE Pool /\ wire = 0
    <2> USE <1>1 DEF Pool, Release
    <2>1. TypeOK'
      BY Zenon DEF ConnInv, TypeOK, EmptyBuffer, ReadBuffers, NoIo, Regions, Ops,
             Timers
    <2>2. WellFormed(buf)'
      BY Facts DEF WellFormed, EmptyBuffer, ReadBuffers
    <2>3. IoInPlace' /\ NotActive' /\ Locks' /\ Sending'
      BY DEF IoInPlace, NotActive, Locks, Sending, EmptyBuffer
    <2>4. Querying' /\ Receiving' /\ Failed'
      BY Zenon DEF Querying, Receiving, Failed
    <2> QED
      BY <2>1, <2>2, <2>3, <2>4, Zenon DEF ConnInv
  <1>2. CASE Gone
    <2> USE <1>2 DEF Gone, Release
    <2>1. TypeOK'
      BY Zenon DEF ConnInv, TypeOK, EmptyBuffer, ReadBuffers, NoIo, Regions, Ops,
             Timers
    <2>2. WellFormed(buf)'
      BY Facts DEF WellFormed, EmptyBuffer, ReadBuffers
    <2>3. IoInPlace' /\ NotActive' /\ Locks' /\ Sending'
      BY DEF IoInPlace, NotActive, Locks, Sending, EmptyBuffer
    <2>4. Querying' /\ Receiving' /\ Failed'
      BY Zenon DEF Querying, Receiving, Failed
    <2> QED
      BY <2>1, <2>2, <2>3, <2>4, Zenon DEF ConnInv
  <1> QED
    BY <1>1, <1>2, Zenon DEF Release

\* Replacing an unsent reply by an error reply keeps the invariant.
LEMMA ErrorInv ==
  ASSUME ConnInv, where = "active", OnBackendRecoverableError, TimerTypes',
         open' \in BOOLEAN, aborted' \in BOOLEAN
  PROVE  ConnInv'
  <1> DEFINE b == SetReplyData(ErrorLen)
  <1>1. /\ WellFormed(b) /\ b.lock = 0 /\ b.base = 0 /\ b.processed = 0
        /\ b.received = ErrorLen /\ b.parsed = ErrorLen
    BY Facts DEF SetReplyData, WellFormed, ReadBuffers
  <1>2. ~is_writing_reply /\ ~has_written_some_reply /\ sent = 0
    BY Zenon DEF OnBackendRecoverableError, BackendErrorRecoverable, ConnInv, Sending
  <1>3. first \in BOOLEAN /\ (~is_writing_reply) \in BOOLEAN
    BY Zenon DEF ConnInv, TypeOK
  <1>4. /\ unprocessed_bytes(b) = ErrorLen
        /\ CanWriteReply(b, first, ~is_writing_reply) <=> first
    BY <1>1, <1>2, Facts DEF unprocessed_bytes, CanWriteReply
  <1>5. /\ WellFormed(buf') /\ buf'.base = 0 /\ buf'.received = ErrorLen
        /\ buf'.parsed = ErrorLen
        /\ first => buf'.lock = 1 /\ buf'.processed = ErrorLen
        /\ ~first => buf'.lock = 0 /\ buf'.processed = 0
    <2> DEFINE c == AfterTryWrite(b, first, ~is_writing_reply)
    <2>1. /\ WellFormed(c) /\ c.base = b.base
          /\ c.received = b.received /\ c.parsed = b.parsed
          /\ CanWriteReply(b, first, ~is_writing_reply) =>
               /\ c.lock = b.lock + 1
               /\ c.processed = b.processed + unprocessed_bytes(b)
          /\ ~CanWriteReply(b, first, ~is_writing_reply) => c = b
      <3>1. HandedOn(b, c, CanWriteReply(b, first, ~is_writing_reply))
        BY <1>1, <1>3, TryWriteLemma, Zenon
      <3> HIDE DEF b, c
      <3> QED
        BY <3>1, Zenon DEF HandedOn
    <2>2. buf' = c
      BY Zenon DEF OnBackendRecoverableError
    <2> HIDE DEF c
    <2> QED
      BY <1>1, <1>4, <2>1, <2>2, Facts
  <1>6. /\ pending' = (IF first THEN {"client"} ELSE {})
        /\ is_writing_reply' = first /\ has_written_some_reply' = first
        /\ cw' = (IF first THEN [base |-> 0, off |-> 0, len |-> ErrorLen]
                           ELSE NoIo)
    BY <1>1, <1>2, <1>3, <1>4, Zenon
       DEF OnBackendRecoverableError, TryWriteReply, ClientOp
  <1> HIDE DEF b
  <1>7. /\ reply_recv_complete' = TRUE /\ no_recycle' = TRUE
        /\ is_reading_reply' = FALSE /\ rd' = NoIo /\ stream' = "error"
        /\ where' = "active" /\ first' = first /\ reply' = reply
        /\ wire' = wire /\ sent' = 0
    BY <1>2, Zenon DEF OnBackendRecoverableError
  <1>8. behind' \in SUBSET Ops
    BY <1>6, QueueLemma, Zenon DEF OnBackendRecoverableError, Ops
  <1>9. TypeOK'
    <2>1. buf' \in ReadBuffers
      BY <1>5, Zenon DEF WellFormed
    <2>2. cw' \in Regions /\ rd' \in Regions
      BY <1>6, <1>7, Facts, Zenon DEF Regions, NoIo
    <2>3. pending' \in SUBSET Ops
      BY <1>6, Zenon DEF Ops
    <2> QED
      BY <1>3, <1>6, <1>7, <1>8, <2>1, <2>2, <2>3, Zenon
         DEF ConnInv, TypeOK, TimerTypes
  <1>10. IoInPlace' /\ NotActive' /\ Locks' /\ Sending'
    BY <1>3, <1>5, <1>6, <1>7, Facts
       DEF IoInPlace, NotActive, Locks, Sending
  <1>11. Querying' /\ Receiving' /\ Failed'
    BY <1>5, <1>6, <1>7, Zenon DEF Querying, Receiving, Failed
  <1> QED
    BY <1>5, <1>9, <1>10, <1>11, Zenon DEF ConnInv

-----------------------------------------------------------------------------
(* One lemma per action.                                                   *)

\* A timer expires.
LEMMA ExpireInv ==
  ASSUME ConnInv, NEW t \in Timers, Expire(t)
  PROVE  ConnInv'
  <1> USE DEF Expire, ConnInv, connVars, cmdVars
  <1>1. TypeOK'
    BY DEF TypeOK, Timers
  <1>2. WellFormed(buf)' /\ IoInPlace' /\ NotActive' /\ Locks' /\ Sending'
    BY Zenon DEF WellFormed, IoInPlace, NotActive, Locks, Sending
  <1>3. Querying' /\ Receiving' /\ Failed'
    BY Zenon DEF Querying, Receiving, Failed
  <1> QED
    BY <1>1, <1>2, <1>3, Zenon

\* A command takes the connection.
LEMMA StartWriteQueryInv ==
  ASSUME ConnInv, NEW r \in Replies, NEW isFirst \in BOOLEAN,
         StartWriteQuery(r, isFirst)
  PROVE  ConnInv'
  <1>1. TimerTypes' /\ open' \in BOOLEAN
    BY TimerLemma, Zenon
       DEF StartWriteQuery, ConnInv, TypeOK, TimerTypes, Timers
  <1>2. /\ pending = {} /\ buf = EmptyBuffer /\ wire = 0
        /\ ~is_reading_reply /\ ~reply_recv_complete
        /\ ~is_writing_reply /\ ~has_written_some_reply
    BY Zenon DEF StartWriteQuery, ConnInv, NotActive
  <1>3. /\ where' = "active" /\ reply' = r /\ first' = isFirst
        /\ stream' = "reply" /\ sent' = 0
        /\ aborted' = aborted /\ no_recycle' = no_recycle
        /\ is_reading_reply' = is_reading_reply
        /\ reply_recv_complete' = reply_recv_complete
        /\ buf' = EmptyBuffer /\ rd' = rd /\ cw' = cw
        /\ is_writing_reply' = is_writing_reply
        /\ has_written_some_reply' = has_written_some_reply
    BY <1>2, Zenon DEF StartWriteQuery
  <1>4. \/ pending' = {"post"} /\ wire' = 0
        \/ pending' = {"connect"} /\ wire' = 0
        \/ pending' = {"write"} /\ wire' = r.len
    BY <1>2, Facts DEF StartWriteQuery
  <1>5. pending' \in SUBSET Ops /\ behind' \in SUBSET Ops
    BY <1>4, QueueLemma, Zenon DEF StartWriteQuery, Ops
  <1>6. TypeOK'
    BY <1>1, <1>3, <1>4, <1>5, Facts
       DEF ConnInv, TypeOK, TimerTypes, EmptyBuffer, ReadBuffers
  <1>7. WellFormed(buf)'
    BY <1>3, Facts DEF WellFormed, EmptyBuffer, ReadBuffers
  <1>8. IoInPlace' /\ NotActive' /\ Locks' /\ Sending'
    BY <1>2, <1>3, <1>4
       DEF IoInPlace, NotActive, Locks, Sending, EmptyBuffer
  <1>9. Querying' /\ Receiving' /\ Failed'
    BY <1>2, <1>3, <1>4, Facts
       DEF Querying, Receiving, Failed, EmptyBuffer
  <1> QED
    BY <1>6, <1>7, <1>8, <1>9, Zenon DEF ConnInv

\* The connect succeeds.
LEMMA HandleConnectInv ==
  ASSUME ConnInv, HandleConnect
  PROVE  ConnInv'
  <1>1. /\ pending = {"connect"} /\ where = "active" /\ buf = EmptyBuffer
        /\ stream = "reply" /\ wire = 0
        /\ ~has_written_some_reply /\ ~reply_recv_complete
    BY Zenon DEF HandleConnect, May, ConnInv, Querying
  <1>2. reply.len \in Nat /\ reply \in Replies
    BY Facts, Zenon DEF ConnInv, TypeOK
  <1>3. pending' = {"write"} /\ wire' = reply.len
    BY <1>1, <1>2 DEF HandleConnect
  <1>4. TimerTypes'
    BY TimerLemma, Zenon DEF HandleConnect, ConnInv, TypeOK, TimerTypes, Timers
  <1>5. behind' \in SUBSET Ops /\ pending' \in SUBSET Ops
    BY <1>3, QueueLemma, Zenon DEF HandleConnect, Ops
  <1>6. UNCHANGED <<where, connVars, buf, rd, cmdVars, reply, stream>>
    BY Zenon DEF HandleConnect
  <1>7. TypeOK'
    BY <1>2, <1>3, <1>4, <1>5, <1>6
       DEF ConnInv, TypeOK, TimerTypes, connVars, cmdVars
  <1>8. WellFormed(buf)' /\ IoInPlace' /\ NotActive' /\ Locks' /\ Sending'
    BY <1>1, <1>3, <1>6, Zenon
       DEF ConnInv, IoInPlace, NotActive, Locks, Sending, connVars, cmdVars
  <1>9. Querying' /\ Failed'
    BY <1>1, <1>3, <1>6, Zenon
       DEF ConnInv, Querying, Failed, connVars, cmdVars
  <1>10. Receiving'
    BY <1>1, <1>2, <1>3, <1>6
       DEF Receiving, EmptyBuffer, connVars, cmdVars
  <1> QED
    BY <1>7, <1>8, <1>9, <1>10, Zenon DEF ConnInv

\* The connect or the write of the query fails.
LEMMA QueryFailedInv ==
  ASSUME ConnInv, NEW op \in Ops, QueryFailed(op)
  PROVE  ConnInv'
  <1>1. where = "active"
    BY Zenon DEF QueryFailed, May, ConnInv, Querying
  <1>2. TimerTypes'
    BY TimerLemma, Zenon DEF QueryFailed, ConnInv, TypeOK, TimerTypes, Timers
  <1>3. open' \in BOOLEAN /\ aborted' \in BOOLEAN
    BY Zenon DEF QueryFailed, ConnInv, TypeOK
  <1> QED
    BY <1>1, <1>2, <1>3, ErrorInv, Zenon DEF QueryFailed

\* The query is written and the first read starts.
LEMMA HandleWriteInv ==
  ASSUME ConnInv, HandleWrite
  PROVE  ConnInv'
  <1>1. /\ pending = {"write"} /\ where = "active" /\ buf = EmptyBuffer
        /\ stream = "reply"
        /\ ~has_written_some_reply /\ ~reply_recv_complete
    BY Zenon DEF HandleWrite, May, ConnInv, Querying
  <1>2. ~is_writing_reply /\ ~is_reading_reply /\ WellFormed(buf)
    BY <1>1, Zenon DEF ConnInv, Locks
  <1>3. pending' = {"read"}
    BY <1>1, Zenon DEF HandleWrite
  <1>4. /\ is_reading_reply' = TRUE
        /\ WellFormed(buf') /\ buf'.lock = 1 /\ buf'.base = 0
        /\ buf'.processed = 0 /\ buf'.received = 0 /\ buf'.parsed = 0
        /\ rd' = [base |-> 0, off |-> 0, len |-> BufferSize]
    BY <1>1, <1>2, IncLemma, Facts
       DEF HandleWrite, ReadReply, EmptyBuffer, free_space_size
  <1>5. TimerTypes'
    BY Zenon DEF HandleWrite, ConnInv, TypeOK, TimerTypes, Timers
  <1>6. behind' \in SUBSET Ops /\ pending' \in SUBSET Ops
    BY <1>3, QueueLemma, Zenon DEF HandleWrite, Ops
  <1>7. /\ where' = where /\ open' = open /\ aborted' = aborted
        /\ no_recycle' = no_recycle /\ reply' = reply /\ stream' = stream
        /\ reply_recv_complete' = reply_recv_complete
        /\ UNCHANGED cmdVars /\ wire' = wire
    BY Zenon DEF HandleWrite
  <1>8. TypeOK'
    BY <1>3, <1>4, <1>5, <1>6, <1>7, Facts
       DEF ConnInv, TypeOK, TimerTypes, Regions, WellFormed, cmdVars
  <1>9. IoInPlace' /\ NotActive' /\ Locks'
    BY <1>1, <1>2, <1>3, <1>4, <1>7, Facts
       DEF IoInPlace, NotActive, Locks, cmdVars
  <1>10. Sending' /\ Querying' /\ Failed'
    BY <1>1, <1>2, <1>3, <1>4, <1>7, Zenon
       DEF ConnInv, Sending, Querying, Failed, cmdVars, EmptyBuffer
  <1>11. Receiving'
    BY <1>1, <1>3, <1>4, <1>7, Zenon
       DEF ConnInv, Receiving, cmdVars, EmptyBuffer
  <1> QED
    BY <1>4, <1>8, <1>9, <1>10, <1>11, Zenon DEF ConnInv

\* The client goes away.
LEMMA ClientAbortInv ==
  ASSUME ConnInv, ClientAbort
  PROVE  ConnInv'
  <1>1. recyclable(buf) => wire = 0
    BY CompleteMeansRead, Zenon DEF ClientAbort, recyclable, finished
  <1>2. sent' \in Nat
    BY Zenon DEF ClientAbort, ConnInv, TypeOK
  <1> QED
    BY <1>1, <1>2, ReleaseInv, Zenon DEF ClientAbort

\* An unrecoverable backend error aborts the client.
LEMMA AbortClientInv ==
  ASSUME ConnInv, where = "active", AbortClient
  PROVE  ConnInv'
  BY ClientAbortInv, Zenon DEF ClientAbort, AbortClient

\* A read fails, or its bytes are no reply.
LEMMA ReadFailedInv ==
  ASSUME ConnInv, NEW closes \in BOOLEAN, ReadFailed(closes)
  PROVE  ConnInv'
  <1>1. where = "active"
    BY Zenon DEF ReadFailed, May, ConnInv, NotActive
  <1>2. ASSUME CancelTimer("read"), OnBackendRecoverableError,
               open' = (open /\ ~closes), UNCHANGED aborted
        PROVE  ConnInv'
    <2>1. TimerTypes'
      BY <1>2, TimerLemma, Zenon DEF ConnInv, TypeOK, TimerTypes, Timers
    <2>2. open' \in BOOLEAN /\ aborted' \in BOOLEAN
      BY <1>2, Zenon DEF ConnInv, TypeOK
    <2> QED
      BY <1>1, <1>2, <2>1, <2>2, ErrorInv, Zenon
  <1> QED
    BY <1>1, <1>2, AbortClientInv, Zenon DEF ReadFailed

\* A timer handler runs, its wait cancelled or not.
LEMMA OnTimeoutInv ==
  ASSUME ConnInv, NEW t \in Timers, OnTimeout(t)
  PROVE  ConnInv'
  <1> USE DEF ConnInv
  <1>1. CASE aborted \/ t \in canceled
    <2>1. UNCHANGED <<where, connVars, buf, pending, rd, canceled, armed,
                      cmdVars, reply, stream, wire>>
      BY <1>1, Zenon DEF OnTimeout
    <2>2. behind' \in SUBSET Ops /\ expired' \in SUBSET Timers
            /\ stale' \in SUBSET Timers
      BY <1>1, <2>1, QueueLemma, Zenon DEF OnTimeout, TypeOK
    <2>3. TypeOK'
      BY <2>1, <2>2 DEF TypeOK, connVars, cmdVars
    <2>4. WellFormed(buf)' /\ IoInPlace' /\ NotActive' /\ Locks' /\ Sending'
      BY <2>1, Zenon DEF WellFormed, IoInPlace, NotActive, Locks, Sending, connVars,
                  cmdVars
    <2>5. Querying' /\ Receiving' /\ Failed'
      BY <2>1, Zenon DEF Querying, Receiving, Failed, connVars, cmdVars
    <2> QED
      BY <2>3, <2>4, <2>5, Zenon
  <1>2. CASE ~(aborted \/ t \in canceled) /\ where = "active"
    <2>1. ASSUME Abort(t), OnBackendRecoverableError PROVE ConnInv'
      <3>1. TimerTypes' /\ open' \in BOOLEAN /\ aborted' \in BOOLEAN
        BY <2>1, Zenon DEF Abort, TypeOK, TimerTypes
      <3> QED
        BY <1>2, <2>1, <3>1, ErrorInv, Zenon
    <2> QED
      BY <1>2, <2>1, AbortClientInv, Zenon DEF OnTimeout
  <1>3. CASE ~(aborted \/ t \in canceled) /\ where = "idle"
    <2>1. /\ UNCHANGED <<where, reply_recv_complete, buf, pending, rd, cmdVars,
                         reply, stream, wire>>
          /\ is_reading_reply' = FALSE /\ no_recycle' = TRUE
          /\ Abort(t) /\ Queue({})
      BY <1>3, Zenon DEF OnTimeout
    <2>2. behind' \in SUBSET Ops /\ TimerTypes'
      BY <2>1, QueueLemma, Zenon DEF TypeOK, TimerTypes, Abort
    <2>3. TypeOK'
      BY <2>1, <2>2, Zenon DEF TypeOK, TimerTypes, Abort, cmdVars
    <2>4. ~is_reading_reply
      BY <1>3, Zenon DEF NotActive
    <2>5. WellFormed(buf)' /\ IoInPlace' /\ NotActive' /\ Locks' /\ Sending'
      BY <1>3, <2>1, <2>4, Zenon
         DEF WellFormed, IoInPlace, NotActive, Locks, Sending, cmdVars
    <2>6. Querying' /\ Receiving' /\ Failed'
      BY <1>3, <2>1, Zenon DEF Querying, Receiving, Failed, cmdVars
    <2> QED
      BY <2>3, <2>5, <2>6, Zenon
  <1> QED
    BY <1>1, <1>2, <1>3, Zenon DEF OnTimeout

-----------------------------------------------------------------------------
(* HandleRead, StartWriteReply and OnWriteReplyFinished all relay: from a  *)
(* buffer b, with the operations "reading" and "~idle" still outstanding,  *)
(* they may start a write to the client and may start another read.        *)

Relay(b, idle, reading, more) ==
  /\ TryWriteReply(b, first', idle)
  /\ is_reading_reply' = (reading \/ more)
  /\ buf' = IF more THEN inc_recycle_lock(AfterTryWrite(b, first', idle))
                    ELSE AfterTryWrite(b, first', idle)
  /\ rd' \in Regions
  /\ more => rd' = [base |-> b.base, off |-> b.received,
                    len |-> BufferSize - b.received]
  /\ reading /\ ~more => rd' = rd
  /\ "read" \in pending' <=> reading \/ more
  /\ "client" \in pending' <=> (~idle \/ CanWriteReply(b, first', idle))
  /\ pending' \in SUBSET {"read", "client"}
  /\ behind' \in SUBSET Ops

\* What b, the operations outstanding on it and the new state of the reply
\* must satisfy for the relay to keep the invariant.
RelayReady(b, idle, reading) ==
  /\ WellFormed(b)
  /\ b.lock = (IF reading THEN 1 ELSE 0) + (IF idle THEN 0 ELSE 1)
  /\ reading => rd.base = b.base /\ rd.off = b.received
                  /\ rd.off + rd.len <= BufferSize
  /\ idle => sent' = b.base + b.processed
  /\ ~idle => /\ cw.base = b.base /\ cw.base + cw.off = sent'
              /\ cw.off + cw.len = b.processed
              /\ first' /\ has_written_some_reply
  /\ ~has_written_some_reply => sent' = 0
  /\ stream = "reply" =>
       /\ wire' + b.base + b.received = reply.len
       /\ b.base + b.parsed = reply.len \/ (b.base = 0 /\ b.parsed = 0)
       /\ reply_recv_complete' => /\ ~reading /\ b.parsed = b.received
                                  /\ b.base + b.parsed = reply.len
  /\ stream = "error" =>
       /\ reply_recv_complete' /\ no_recycle /\ ~reading
       /\ b.base = 0 /\ b.parsed = ErrorLen /\ b.received = ErrorLen
       /\ ~idle => b.processed = ErrorLen

\* A relay from a state that is ready for it keeps the invariant.
LEMMA RelayInv ==
  ASSUME ConnInv, where = "active", NEW b,
         NEW idle \in BOOLEAN, NEW reading \in BOOLEAN, NEW more \in BOOLEAN,
         RelayReady(b, idle, reading), Relay(b, idle, reading, more),
         more => ~reading /\ ~reply_recv_complete',
         TimerTypes', first' \in BOOLEAN, reply_recv_complete' \in BOOLEAN,
         wire' \in Nat, sent' \in Nat,
         UNCHANGED <<where, open, aborted, no_recycle, reply, stream>>
  PROVE  ConnInv'
  <1> DEFINE can == CanWriteReply(b, first', idle)
             c == AfterTryWrite(b, first', idle)
  <1>0. WellFormed(b)
    BY Zenon DEF RelayReady
  <1>1. /\ WellFormed(c) /\ c.base = b.base
        /\ c.received = b.received /\ c.parsed = b.parsed
        /\ unprocessed_bytes(b) \in Nat
        /\ can => /\ c.lock = b.lock + 1
                  /\ c.processed = b.processed + unprocessed_bytes(b)
                  /\ b.processed + unprocessed_bytes(b) <= b.received
        /\ ~can => c = b
    <2>1. HandedOn(b, c, can)
      BY <1>0, TryWriteLemma, Zenon
    <2> HIDE DEF c, can
    <2> QED
      BY <2>1, Zenon DEF HandedOn
  <1>2. /\ b.base \in Nat /\ b.processed \in Nat /\ b.received \in Nat
        /\ b.parsed \in Nat /\ b.processed <= b.received
        /\ b.received <= BufferSize /\ BufferSize \in Nat
    BY <1>0, FieldsLemma, Facts, Zenon
  <1>3. can => first' /\ idle
    BY Zenon DEF CanWriteReply
  <1>4. /\ cw' = IF can THEN [base |-> b.base, off |-> b.processed,
                              len |-> unprocessed_bytes(b)]
                 ELSE IF idle THEN NoIo ELSE cw
        /\ is_writing_reply' = (can \/ ~idle)
        /\ has_written_some_reply' = (can \/ has_written_some_reply)
    BY Zenon DEF Relay, TryWriteReply
  <1>5. can \in BOOLEAN
    BY Zenon DEF CanWriteReply
  <1>6. /\ WellFormed(buf') /\ buf'.base = b.base
        /\ buf'.received = b.received /\ buf'.parsed = b.parsed
        /\ buf'.processed = (IF can THEN b.processed + unprocessed_bytes(b)
                                    ELSE b.processed)
        /\ buf'.lock = (IF reading THEN 1 ELSE 0) + (IF idle THEN 0 ELSE 1)
                         + (IF can THEN 1 ELSE 0) + (IF more THEN 1 ELSE 0)
    <2>1. /\ c.lock = (IF reading THEN 1 ELSE 0) + (IF idle THEN 0 ELSE 1)
                         + (IF can THEN 1 ELSE 0)
          /\ c.processed = (IF can THEN b.processed + unprocessed_bytes(b)
                                   ELSE b.processed)
      <3>1. b.lock = (IF reading THEN 1 ELSE 0) + (IF idle THEN 0 ELSE 1)
        BY Zenon DEF RelayReady
      <3> HIDE DEF c, can
      <3>2. CASE can
        BY <1>1, <3>1, <3>2, Zenon
      <3>3. CASE ~can
        <4>1. c = b
          BY <1>1, <3>3, Zenon
        <4>2. b.lock + 0 = b.lock
          BY <3>1
        <4> QED
          BY <3>1, <3>3, <4>1, <4>2, Zenon
      <3> QED
        BY <3>2, <3>3, Zenon
    <2> HIDE DEF c, can
    <2>2. CASE more
      <3>1. buf' = inc_recycle_lock(c)
        BY <2>2, Zenon DEF Relay, c
      <3> QED
        <4>1. /\ WellFormed(buf') /\ buf'.lock = c.lock + 1
              /\ buf'.base = c.base /\ buf'.processed = c.processed
              /\ buf'.received = c.received /\ buf'.parsed = c.parsed
          BY <1>1, <3>1, IncLemma, Zenon
        <4> QED
          BY <1>1, <2>1, <2>2, <4>1, Zenon
    <2>3. CASE ~more
      <3>1. buf' = c
        BY <2>3, Zenon DEF Relay, c
      <3> QED
        BY <1>1, <2>1, <2>3, <3>1
    <2> QED
      BY <2>2, <2>3, Zenon
  <1>7. /\ "read" \in pending' <=> reading \/ more
        /\ "client" \in pending' <=> ~idle \/ can
        /\ pending' \in SUBSET {"read", "client"}
        /\ is_reading_reply' = (reading \/ more)
        /\ rd' \in Regions
        /\ more => rd' = [base |-> b.base, off |-> b.received,
                          len |-> BufferSize - b.received]
        /\ reading /\ ~more => rd' = rd
    BY Zenon DEF Relay
  <1> HIDE DEF c, can
  <1>8. TypeOK'
    <2>1. cw' \in Regions
      BY <1>1, <1>2, <1>4, Zenon DEF ConnInv, TypeOK, Regions, NoIo
    <2>2. rd' \in Regions
      BY <1>7, Zenon
    <2>3. pending' \in SUBSET Ops /\ behind' \in SUBSET Ops
      BY <1>7, Zenon DEF Ops, Relay
    <2>4. buf' \in ReadBuffers
      BY <1>6, Zenon DEF WellFormed
    <2>5. /\ is_writing_reply' \in BOOLEAN /\ is_reading_reply' \in BOOLEAN
          /\ has_written_some_reply' \in BOOLEAN
      BY <1>4, <1>7, Zenon
    <2> QED
      BY <2>1, <2>2, <2>3, <2>4, <2>5, Zenon DEF ConnInv, TypeOK, TimerTypes
  <1>9. IoInPlace'
    <2>1. ASSUME "read" \in pending'
          PROVE  rd'.base = buf'.base /\ rd'.off = buf'.received
                   /\ rd'.off + rd'.len <= BufferSize
      <3>1. buf'.base = b.base /\ buf'.received = b.received
        BY <1>6, Zenon
      <3>2. CASE more
        <4>1. /\ rd'.base = b.base /\ rd'.off = b.received
              /\ rd'.len = BufferSize - b.received
          BY <1>7, <3>2
        <4> QED
          BY <1>2, <3>1, <4>1
      <3>3. CASE ~more
        <4>1. reading /\ rd' = rd
          BY <1>7, <2>1, <3>3, Zenon
        <4> QED
          BY <3>1, <4>1, Zenon DEF RelayReady
      <3> QED
        BY <3>2, <3>3, Zenon
    <2>2. CASE can
      BY <1>1, <1>2, <1>3, <1>4, <1>6, <2>1, <2>2, Zenon DEF RelayReady, IoInPlace
    <2>3. CASE ~can
      BY <1>2, <1>4, <1>6, <1>7, <2>1, <2>3, Zenon DEF RelayReady, IoInPlace
    <2> QED
      BY <2>2, <2>3, Zenon
  <1>10. NotActive' /\ Locks'
    <2>1. NotActive'
      BY Zenon DEF NotActive
    <2>2. /\ "read" \in pending' <=> is_reading_reply'
          /\ "client" \in pending' <=> is_writing_reply'
      BY <1>4, <1>7, Zenon
    <2>3. (IF is_reading_reply' THEN 1 ELSE 0)
            = (IF reading THEN 1 ELSE 0) + (IF more THEN 1 ELSE 0)
      <3>1. is_reading_reply' <=> reading \/ more
        BY <1>7, Zenon
      <3>2. CASE more
        <4>1. ~reading /\ is_reading_reply'
          BY <3>1, <3>2, Zenon
        <4> QED
          BY <3>2, <4>1
      <3>3. CASE ~more
        <4>1. is_reading_reply' <=> reading
          BY <3>1, <3>3, Zenon
        <4> QED
          BY <3>3, <4>1
      <3> QED
        BY <3>2, <3>3, Zenon
    <2>4. (IF is_writing_reply' THEN 1 ELSE 0)
            = (IF idle THEN 0 ELSE 1) + (IF can THEN 1 ELSE 0)
      <3>1. is_writing_reply' <=> can \/ ~idle
        BY <1>4, Zenon
      <3>2. CASE can
        BY <1>3, <3>1, <3>2
      <3>3. CASE ~can
        BY <3>1, <3>3
      <3> QED
        BY <3>2, <3>3, Zenon
    <2>5. buf'.lock = (IF is_reading_reply' THEN 1 ELSE 0)
                        + (IF is_writing_reply' THEN 1 ELSE 0)
      <3>1. buf'.lock = (IF reading THEN 1 ELSE 0) + (IF idle THEN 0 ELSE 1)
                          + (IF can THEN 1 ELSE 0) + (IF more THEN 1 ELSE 0)
        BY <1>6, Zenon
      <3> QED
        BY <2>3, <2>4, <3>1
    <2> QED
      BY <2>1, <2>2, <2>5, Zenon DEF Locks
  <1>11. Sending'
    <2>1. CASE can
      BY <1>1, <1>2, <1>3, <1>4, <1>6, <2>1, Zenon DEF RelayReady, Sending
    <2>2. CASE ~can
      BY <1>2, <1>4, <1>6, <2>2, Zenon DEF RelayReady, Sending
    <2> QED
      BY <2>1, <2>2, Zenon
  <1>12. Querying'
    BY <1>7, Zenon DEF Querying
  <1>13. Receiving'
    BY <1>6, <1>7, Zenon DEF RelayReady, Receiving
  <1>14. Failed'
    <2>1. CASE can
      <3>1. b.received = b.parsed =>
              b.processed + unprocessed_bytes(b) = b.received
        BY <1>2 DEF unprocessed_bytes
      <3> QED
        BY <1>6, <1>7, <2>1, <3>1, Zenon DEF RelayReady, Failed
    <2>2. CASE ~can
      BY <1>4, <1>6, <1>7, <2>2, Zenon DEF RelayReady, Failed
    <2> QED
      BY <2>1, <2>2, Zenon
  <1> QED
    BY <1>6, <1>8, <1>9, <1>10, <1>11, <1>12, <1>13, <1>14, Zenon DEF ConnInv

\* The command becomes the first of its client.
LEMMA StartWriteReplyInv ==
  ASSUME ConnInv, StartWriteReply
  PROVE  ConnInv'
  <1> DEFINE idle == ~is_writing_reply
             can == CanWriteReply(buf, TRUE, idle)
  <1>1. /\ where = "active" /\ first' = TRUE /\ idle = TRUE
        /\ is_reading_reply \in BOOLEAN /\ pending \in SUBSET Ops
        /\ idle \in BOOLEAN /\ can \in BOOLEAN
    BY Zenon DEF StartWriteReply, ConnInv, TypeOK, Sending, CanWriteReply
  <1>2. /\ pending' = pending \cup ClientOp(buf, TRUE, idle)
        /\ pending' \in SUBSET Ops /\ TimerTypes'
    BY <1>1, Zenon DEF StartWriteReply, ConnInv, TypeOK, TimerTypes, ClientOp, Ops
  <1>3. behind' \in SUBSET Ops
    BY <1>2, QueueLemma, Zenon DEF StartWriteReply
  <1>4. CASE \E op \in {"connect", "write", "post"} : op \in pending
    <2>1. buf = EmptyBuffer
      BY <1>4, Zenon DEF ConnInv, Querying
    <2>2. ~can
      BY <2>1 DEF CanWriteReply, unprocessed_bytes, EmptyBuffer
    <2>3. /\ pending' = pending /\ buf' = buf /\ is_writing_reply' = FALSE
          /\ has_written_some_reply' = has_written_some_reply
          /\ cw' = NoIo
      BY <1>1, <1>2, <2>2, Zenon
         DEF StartWriteReply, TryWriteReply, AfterTryWrite, ClientOp, ConnInv,
             TypeOK
    <2>4. UNCHANGED <<where, connVars, rd, reply, stream, wire, sent>>
      BY Zenon DEF StartWriteReply
    <2>5. TypeOK'
      BY <1>1, <1>2, <1>3, <2>3, <2>4, Zenon
         DEF ConnInv, TypeOK, TimerTypes, connVars, NoIo, Regions
    <2>6. "client" \notin pending /\ "read" \notin pending
      BY <1>4 DEF ConnInv, Querying
    <2>7. WellFormed(buf)' /\ IoInPlace' /\ NotActive' /\ Locks' /\ Sending'
      BY <1>1, <2>3, <2>4, <2>6, Zenon
         DEF ConnInv, IoInPlace, NotActive, Locks, Sending, connVars
    <2>8. Querying' /\ Receiving' /\ Failed'
      BY <1>1, <2>3, <2>4, Zenon
         DEF ConnInv, Querying, Receiving, Failed, connVars
    <2> QED
      BY <2>5, <2>7, <2>8, Zenon DEF ConnInv
  <1>5. CASE pending \in SUBSET {"read", "client"}
    <2>1. RelayReady(buf, idle, is_reading_reply)
      BY <1>1, <1>5, Zenon
         DEF RelayReady, StartWriteReply, ConnInv, Locks, Sending, IoInPlace,
             Receiving, Failed, connVars
    <2>2. rd' = rd /\ rd' \in Regions
      BY Zenon DEF StartWriteReply, ConnInv, TypeOK
    <2>3. Relay(buf, idle, is_reading_reply, FALSE)
      BY <1>1, <1>2, <1>3, <1>5, <2>2, Zenon
         DEF Relay, StartWriteReply, connVars, ClientOp, ConnInv, Locks
    <2>4. /\ first' \in BOOLEAN /\ reply_recv_complete' \in BOOLEAN
          /\ wire' \in Nat /\ sent' \in Nat
          /\ UNCHANGED <<where, open, aborted, no_recycle, reply, stream>>
      BY <1>1, Zenon DEF StartWriteReply, connVars, ConnInv, TypeOK
    <2> QED
      BY <1>1, <1>2, <2>1, <2>3, <2>4, RelayInv, Zenon
  <1> QED
    BY <1>1, <1>4, <1>5, Zenon DEF Ops

\* Bytes of the reply arrive.
LEMMA HandleReadInv ==
  ASSUME ConnInv, NEW n \in 1..BufferSize, HandleRead(n)
  PROVE  ConnInv'
  <1> DEFINE idle == ~is_writing_reply
             c == update_received_bytes(buf, n)
             d == dec_recycle_lock(c)
             b == ParseReply(d)
             complete == reply_recv_complete \/ ParsedAll(b)
             e == AfterTryWrite(b, first, idle)
             more == ~complete /\ has_much_free_space(e)
  <1>1. /\ "read" \in pending /\ n \in Nat /\ n > 0 /\ n <= wire /\ n <= rd.len
        /\ wire \in Nat /\ rd.len \in Nat
    <2>1. wire \in Nat /\ rd \in Regions
      BY Zenon DEF ConnInv, TypeOK
    <2>2. rd.len \in Nat
      BY <2>1, Zenon DEF Regions
    <2>3. May("read") /\ n \in 1..wire /\ n <= rd.len
      BY Zenon DEF HandleRead
    <2>4. "read" \in pending
      BY <2>3, Zenon DEF May
    <2> HIDE DEF c, d, b, complete, e, more
    <2> QED
      BY <2>1, <2>2, <2>3, <2>4
  <1>2. /\ is_reading_reply /\ where = "active" /\ stream = "reply"
        /\ ~reply_recv_complete /\ pending \in SUBSET {"read", "client"}
    BY <1>1, Zenon DEF ConnInv, TypeOK, NotActive, Locks, Failed, Receiving, Querying,
                Ops
  <1>3. /\ idle \in BOOLEAN /\ first \in BOOLEAN /\ FALSE \in BOOLEAN
        /\ "client" \in pending <=> ~idle
    BY Zenon DEF ConnInv, TypeOK, Locks
  <1>4. /\ WellFormed(c) /\ c.lock = buf.lock /\ c.base = buf.base
        /\ c.processed = buf.processed /\ c.received = buf.received + n
        /\ c.parsed = buf.parsed
    <2>1. WellFormed(buf) /\ buf.received + n <= BufferSize
      BY <1>1, FieldsLemma, Facts DEF ConnInv, IoInPlace
    <2> QED
      BY <1>1, <2>1, ReceivedLemma, Zenon
  <1>5. c.lock = (IF idle THEN 1 ELSE 2)
    BY <1>2, <1>4 DEF ConnInv, Locks
  <1> HIDE DEF c
  <1>6. /\ WellFormed(d) /\ SamePositions(c, d) /\ d.lock = c.lock - 1
        /\ ~idle => d = [c EXCEPT !.lock = c.lock - 1]
    BY <1>4, <1>5, DecLemma
  <1>7. ~idle => d.base = c.base /\ d.processed = c.processed
    BY <1>4, <1>6, Zenon DEF WellFormed, ReadBuffers
  <1> HIDE DEF d
  <1>8. /\ d.base \in Nat /\ d.processed \in Nat /\ d.received \in Nat
        /\ d.parsed \in Nat /\ buf.base \in Nat /\ buf.received \in Nat
        /\ buf.parsed \in Nat /\ buf.processed \in Nat
        /\ buf.processed <= buf.parsed
        /\ reply.len \in Nat /\ reply.head \in Nat
    BY <1>6, FieldsLemma, Facts, Zenon DEF ConnInv, TypeOK
  <1>9. /\ d.base + d.processed = buf.base + buf.processed
        /\ d.base + d.received = buf.base + buf.received + n
        /\ d.base + d.parsed = buf.base + buf.parsed
    BY <1>4, <1>6, <1>8 DEF SamePositions
  <1>10. /\ wire + buf.base + buf.received = reply.len
         /\ buf.base + buf.parsed = reply.len \/ (buf.base = 0 /\ buf.parsed = 0)
    BY <1>2, Zenon DEF ConnInv, Receiving
  <1>11. \/ d.base + d.parsed = reply.len /\ b = d
         \/ d.base = 0 /\ d.parsed = 0 /\ b = d
         \/ d.base = 0 /\ d.parsed = 0 /\ b = update_parsed_bytes(d, reply.len)
    <2>1. b = d \/ (d.received > d.parsed /\ b = update_parsed_bytes(d, reply.len))
      BY <1>8, Zenon DEF ParseReply, unparsed_received_bytes
    <2> HIDE DEF b
    <2>2. d.base + d.parsed = reply.len \/ (d.base = 0 /\ d.parsed = 0)
      BY <1>8, <1>9, <1>10
    <2>3. d.base + d.received <= reply.len
      BY <1>1, <1>8, <1>9, <1>10
    <2>4. d.received > d.parsed => d.base + d.parsed # reply.len
      BY <1>8, <2>3
    <2> QED
      BY <2>1, <2>2, <2>4, Zenon
  <1>12. /\ WellFormed(b) /\ b.lock = d.lock /\ b.base = d.base
         /\ b.processed = d.processed /\ b.received = d.received
         /\ b.base + b.parsed = reply.len \/ (b.base = 0 /\ b.parsed = 0)
         /\ b.parsed \in Nat
    <2> DEFINE p == update_parsed_bytes(d, reply.len)
    <2>1. /\ WellFormed(p) /\ p.lock = d.lock /\ p.base = d.base
          /\ p.processed = d.processed /\ p.received = d.received
          /\ p.parsed = d.parsed + reply.len
      BY <1>6, <1>8, ParsedLemma, Zenon
    <2> HIDE DEF p
    <2>2. b = d \/ b = p
      BY <1>11, Zenon DEF p
    <2>3. CASE b = d
      BY <1>6, <1>8, <1>11, <2>1, <2>3, Zenon DEF p
    <2> HIDE DEF b
    <2>4. CASE b = p /\ d.base = 0 /\ d.parsed = 0
      <3>1. p.base = 0 /\ p.parsed = reply.len
        <4>1. p.base = d.base /\ p.parsed = d.parsed + reply.len
          BY <2>1, Zenon
        <4>2. d.base = 0 /\ d.parsed = 0 /\ reply.len \in Nat
          BY <1>8, <2>4, Zenon
        <4> QED
          BY <4>1, <4>2
      <3> QED
        BY <1>8, <2>1, <2>4, <3>1, Zenon
    <2> QED
      BY <1>11, <2>3, <2>4, Zenon DEF p
  <1> HIDE DEF b
  <1>13. complete => b.parsed = b.received /\ b.base + b.parsed = reply.len
    <2>1. complete => b.parsed = b.received
      BY <1>2, Zenon DEF ParsedAll
    <2>2. b.base + b.received = buf.base + buf.received + n
      BY <1>9, <1>12, Zenon
    <2>3. b.base + b.received > 0
      BY <1>1, <1>8, <2>2
    <2> HIDE DEF complete
    <2>4. b.parsed = b.received => ~(b.base = 0 /\ b.parsed = 0)
      BY <2>3
    <2> QED
      BY <1>12, <2>1, <2>4, Zenon
  <1>14. e.base = b.base /\ e.received = b.received
    <2>1. HandedOn(b, e, CanWriteReply(b, first, idle))
      BY <1>3, <1>12, TryWriteLemma, Zenon
    <2> HIDE DEF e
    <2> QED
      BY <2>1, Zenon DEF HandedOn
  <1>15. /\ wire' = wire - n /\ reply_recv_complete' = complete
         /\ TryWriteReply(b, first, idle)
         /\ TryReadMoreReply(e, complete, FALSE)
         /\ pending' = (pending \ {"read"}) \cup ClientOp(b, first, idle)
                         \cup (IF more THEN {"read"} ELSE {})
         /\ Queue({"read"} \cup ClientOp(b, first, idle))
         /\ UpdateTimer("read") \/ CancelTimer("read")
    BY Zenon DEF HandleRead, b, d, c
  <1>16. UNCHANGED <<where, open, aborted, no_recycle, first, reply, stream,
                     sent>>
    BY Zenon DEF HandleRead
  <1> HIDE DEF e, complete
  <1>17. TimerTypes'
    BY <1>15, TimerLemma, Zenon DEF ConnInv, TypeOK, TimerTypes, Timers
  <1>18. RelayReady(b, idle, FALSE)
    <2>1. idle => sent' = b.base + b.processed
      BY <1>2, <1>9, <1>12, <1>16, Zenon DEF ConnInv, Sending
    <2>2. ~idle => /\ cw.base = b.base /\ cw.base + cw.off = sent'
                   /\ cw.off + cw.len = b.processed
                   /\ first' /\ has_written_some_reply
      BY <1>3, <1>4, <1>7, <1>12, <1>16, Zenon DEF ConnInv, Sending, IoInPlace
    <2>3. ~has_written_some_reply => sent' = 0
      BY <1>2, <1>16, Zenon DEF ConnInv, Sending
    <2>4. wire' + b.base + b.received = reply.len
      <3>1. wire' = wire - n
        BY <1>15, Zenon
      <3>2. b.base = d.base /\ b.received = d.received
        BY <1>12, Zenon
      <3>3. d.base + d.received = buf.base + buf.received + n
        BY <1>9, Zenon
      <3>4. wire + buf.base + buf.received = reply.len
        BY <1>10, Zenon
      <3> HIDE DEF d
      <3> QED
        BY <1>1, <1>8, <3>1, <3>2, <3>3, <3>4
    <2>5. reply_recv_complete' => b.parsed = b.received
                                    /\ b.base + b.parsed = reply.len
      <3>1. reply_recv_complete' = complete
        BY <1>15, Zenon
      <3> QED
        BY <1>13, <3>1, Zenon
    <2>6. b.lock = (IF FALSE THEN 1 ELSE 0) + (IF idle THEN 0 ELSE 1)
      BY <1>5, <1>6, <1>12
    <2>7. /\ WellFormed(b) /\ stream = "reply"
          /\ b.base + b.parsed = reply.len \/ (b.base = 0 /\ b.parsed = 0)
      BY <1>2, <1>12, Zenon
    <2> HIDE DEF idle
    <2> QED
      BY <2>1, <2>2, <2>3, <2>4, <2>5, <2>6, <2>7, Zenon DEF RelayReady
  <1>19. Relay(b, idle, FALSE, more)
    <2>1. /\ "read" \in pending' <=> more
          /\ "client" \in pending' <=> (~idle \/ CanWriteReply(b, first', idle))
          /\ pending' \in SUBSET {"read", "client"}
      BY <1>2, <1>3, <1>15, <1>16, Zenon DEF ClientOp
    <2>2. behind' \in SUBSET Ops
      BY <1>15, <2>1, QueueLemma, Zenon DEF Ops
    <2>3. TryWriteReply(b, first', idle) /\ e = AfterTryWrite(b, first', idle)
      BY <1>15, <1>16, Zenon DEF e
    <2>4. CASE more
      <3>1. /\ is_reading_reply' = TRUE /\ buf' = inc_recycle_lock(e)
            /\ rd' = [base |-> e.base, off |-> e.received,
                      len |-> BufferSize - e.received]
        BY <1>15, <2>4, Zenon DEF TryReadMoreReply, ReadReply, free_space_size
      <3>2. b.base \in Nat /\ b.received \in Nat /\ BufferSize \in Nat
              /\ b.received <= BufferSize
        BY <1>12, FieldsLemma, Facts, Zenon
      <3>3. rd' \in Regions
        <4>1. /\ e.base \in Nat /\ e.received \in Nat
              /\ BufferSize - e.received \in Nat
          BY <1>14, <3>2
        <4> HIDE DEF more
        <4> QED
          BY <3>1, <4>1, Zenon DEF Regions
      <3> HIDE DEF more
      <3> QED
        BY <1>14, <2>1, <2>2, <2>3, <2>4, <3>1, <3>3, Zenon DEF Relay
    <2>5. CASE ~more
      <3>1. is_reading_reply' = FALSE /\ buf' = e /\ rd' = NoIo
        BY <1>15, <2>5, Zenon DEF TryReadMoreReply
      <3>2. rd' \in Regions
        BY <3>1, Zenon DEF Regions, NoIo
      <3> HIDE DEF more
      <3> QED
        BY <2>1, <2>2, <2>3, <2>5, <3>1, <3>2, Zenon DEF Relay
    <2> QED
      BY <2>4, <2>5, Zenon
  <1>20. /\ more => ~FALSE /\ ~reply_recv_complete'
         /\ more \in BOOLEAN /\ reply_recv_complete' \in BOOLEAN
         /\ first' \in BOOLEAN /\ wire' \in Nat /\ sent' \in Nat
    <2>1. wire' \in Nat
      BY <1>1, <1>15
    <2>2. first' \in BOOLEAN /\ sent' \in Nat
      BY <1>3, <1>16, Zenon DEF ConnInv, TypeOK
    <2>3. reply_recv_complete' = complete /\ complete \in BOOLEAN
      BY <1>2, <1>15, Zenon DEF complete, ParsedAll
    <2>4. more \in BOOLEAN /\ (more => ~complete)
      BY <2>3, Zenon DEF has_much_free_space
    <2> QED
      BY <2>1, <2>2, <2>3, <2>4, Zenon
  <1> HIDE DEF more
  <1> QED
    BY <1>2, <1>3, <1>16, <1>17, <1>18, <1>19, <1>20, RelayInv, Zenon

\* A piece of the reply has been written to the client.
LEMMA OnWriteReplyFinishedInv ==
  ASSUME ConnInv, OnWriteReplyFinished
  PROVE  ConnInv'
  <1> DEFINE b == dec_recycle_lock(buf)
             e == AfterTryWrite(b, first, TRUE)
             more == ~reply_recv_complete /\ ~is_reading_reply
                       /\ has_much_free_space(b)
  <1>1. /\ "client" \in pending /\ is_writing_reply /\ first
        /\ where = "active" /\ has_written_some_reply
        /\ pending \in SUBSET {"read", "client"}
    BY Zenon DEF OnWriteReplyFinished, May, ConnInv, TypeOK, Locks, Sending,
           NotActive, Querying, Ops
  <1>2. /\ cw.base \in Nat /\ cw.off \in Nat /\ cw.len \in Nat /\ sent \in Nat
        /\ rd \in Regions /\ is_reading_reply \in BOOLEAN
        /\ reply_recv_complete \in BOOLEAN /\ first \in BOOLEAN
        /\ wire \in Nat /\ TRUE \in BOOLEAN
    BY Zenon DEF ConnInv, TypeOK, Regions
  <1>3. /\ sent' = sent + cw.len /\ sent' \in Nat
        /\ sent' = buf.base + buf.processed
    <2>1. cw.base = buf.base /\ cw.base + cw.off = sent
            /\ cw.off + cw.len = buf.processed
      BY <1>1, Zenon DEF ConnInv, IoInPlace, Sending
    <2>2. sent' = sent + cw.len
      BY Zenon DEF OnWriteReplyFinished
    <2> QED
      BY <1>2, <2>1, <2>2
  <1>4. /\ buf.lock = (IF is_reading_reply THEN 2 ELSE 1) /\ WellFormed(buf)
        /\ "read" \in pending <=> is_reading_reply
    BY <1>1, <1>2 DEF ConnInv, Locks
  <1>5. /\ WellFormed(b) /\ SamePositions(buf, b) /\ b.lock = buf.lock - 1
        /\ is_reading_reply => b = [buf EXCEPT !.lock = buf.lock - 1]
    BY <1>2, <1>4, DecLemma
  <1>6. /\ b.base \in Nat /\ b.processed \in Nat /\ b.received \in Nat
        /\ b.parsed \in Nat /\ buf.base \in Nat /\ buf.received \in Nat
        /\ buf.parsed \in Nat /\ buf.processed \in Nat
        /\ b.received <= BufferSize /\ BufferSize \in Nat
    BY <1>4, <1>5, FieldsLemma, Facts, Zenon
  <1>7. /\ is_reading_reply => b.base = buf.base /\ b.received = buf.received
        /\ b.lock = (IF is_reading_reply THEN 1 ELSE 0)
    BY <1>4, <1>5 DEF WellFormed, ReadBuffers
  <1>8. /\ b.base + b.processed = buf.base + buf.processed
        /\ b.base + b.received = buf.base + buf.received
        /\ b.base + b.parsed = buf.base + buf.parsed
    BY <1>5, Zenon DEF SamePositions
  <1> HIDE DEF b
  <1>9. CASE Release(b)
    <2>1. recyclable(b) => wire = 0
      BY <1>1, CompleteMeansRead, Zenon DEF recyclable, finished
    <2> QED
      BY <1>3, <1>9, <2>1, ReleaseInv, Zenon
  <1>10. CASE /\ ~finished(b)
              /\ TryWriteReply(b, first, TRUE)
              /\ TryReadMoreReply(e, reply_recv_complete, is_reading_reply)
              /\ pending' = (pending \ {"client"}) \cup ClientOp(b, first, TRUE)
                              \cup (IF more THEN {"read"} ELSE {})
              /\ IF more THEN UpdateTimer("read")
                         ELSE UNCHANGED <<armed, canceled, expired, stale>>
              /\ Queue(ClientOp(b, first, TRUE)
                         \cup (IF more THEN {"read"} ELSE {}))
              /\ UNCHANGED <<where, open, aborted, no_recycle,
                             reply_recv_complete, first, reply, stream, wire>>
    <2>1. TimerTypes'
      BY <1>10, TimerLemma, Zenon DEF ConnInv, TypeOK, TimerTypes, Timers
    <2>2. stream = "reply"
      <3>1. stream = "error" =>
              /\ reply_recv_complete
              /\ b.processed = b.received /\ b.processed = b.parsed
        BY <1>1, <1>6, <1>8 DEF ConnInv, Failed
      <3>2. stream = "error" => finished(b)
        BY <1>6, <3>1 DEF finished, unprocessed_bytes
      <3> QED
        BY <1>10, <3>2, Zenon DEF ConnInv, TypeOK
    <2>3. RelayReady(b, TRUE, is_reading_reply)
      <3>1. /\ wire' + b.base + b.received = reply.len
            /\ b.base + b.parsed = reply.len \/ (b.base = 0 /\ b.parsed = 0)
            /\ reply_recv_complete' =>
                 /\ ~is_reading_reply /\ b.parsed = b.received
                 /\ b.base + b.parsed = reply.len
        <4>1. /\ wire + buf.base + buf.received = reply.len
              /\ buf.base + buf.parsed = reply.len
                   \/ (buf.base = 0 /\ buf.parsed = 0)
              /\ reply_recv_complete =>
                   /\ ~is_reading_reply /\ buf.parsed = buf.received
                   /\ buf.base + buf.parsed = reply.len
          BY <1>1, <2>2, Zenon DEF ConnInv, Receiving
        <4>2. wire' = wire /\ reply_recv_complete' = reply_recv_complete
          BY <1>10, Zenon
        <4>3. wire' + b.base + b.received = reply.len
          <5>1. wire \in Nat /\ wire' = wire
            BY <1>2, <4>2, Zenon
          <5>2. wire + buf.base + buf.received = reply.len
            BY <4>1, Zenon
          <5>3. b.base + b.received = buf.base + buf.received
            BY <1>8, Zenon
          <5> QED
            BY <1>6, <5>1, <5>2, <5>3
        <4>4. buf.base = 0 /\ buf.parsed = 0 => b.base = 0 /\ b.parsed = 0
          BY <1>6, <1>8
        <4>5. buf.parsed = buf.received => b.parsed = b.received
          BY <1>6, <1>8
        <4> QED
          BY <1>8, <4>1, <4>2, <4>3, <4>4, <4>5, Zenon
      <3>2. is_reading_reply => rd.base = b.base /\ rd.off = b.received
                                  /\ rd.off + rd.len <= BufferSize
        BY <1>4, <1>7, Zenon DEF ConnInv, IoInPlace
      <3>3. sent' = b.base + b.processed
        BY <1>3, <1>8, Zenon
      <3> QED
        BY <1>1, <1>5, <1>7, <2>2, <3>1, <3>2, <3>3 DEF RelayReady
    <2>4. e.base = b.base /\ e.received = b.received
      <3>1. HandedOn(b, e, CanWriteReply(b, first, TRUE))
        BY <1>2, <1>5, TryWriteLemma, Zenon
      <3> HIDE DEF b, e
      <3> QED
        BY <3>1, Zenon DEF HandedOn
    <2>5. more <=> ~reply_recv_complete /\ ~is_reading_reply
                     /\ has_much_free_space(e)
      BY <2>4, Zenon DEF has_much_free_space
    <2> HIDE DEF e
    <2>6. Relay(b, TRUE, is_reading_reply, more)
      <3>1. /\ "read" \in pending' <=> is_reading_reply \/ more
            /\ "client" \in pending' <=> CanWriteReply(b, first', TRUE)
            /\ pending' \in SUBSET {"read", "client"}
        BY <1>1, <1>4, <1>10, Zenon DEF ClientOp
      <3>2. behind' \in SUBSET Ops
        BY <1>10, <3>1, QueueLemma, Zenon DEF Ops
      <3>3. TryWriteReply(b, first', TRUE) /\ e = AfterTryWrite(b, first', TRUE)
        BY <1>10, Zenon DEF e
      <3>4. CASE more
        <4>1. /\ is_reading_reply' = TRUE /\ buf' = inc_recycle_lock(e)
              /\ rd' = [base |-> e.base, off |-> e.received,
                        len |-> BufferSize - e.received]
          BY <1>10, <2>5, <3>4, Zenon DEF TryReadMoreReply, ReadReply, free_space_size
        <4>2. rd' \in Regions
          <5>1. /\ e.base \in Nat /\ e.received \in Nat
                /\ BufferSize - e.received \in Nat
            BY <1>6, <2>4
          <5> HIDE DEF b, more
          <5> QED
            BY <4>1, <5>1, Zenon DEF Regions
        <4> HIDE DEF more
        <4> QED
          BY <2>4, <3>1, <3>2, <3>3, <3>4, <4>1, <4>2, Zenon DEF Relay
      <3>5. CASE ~more
        <4>1. /\ is_reading_reply' = is_reading_reply /\ buf' = e
              /\ rd' = IF is_reading_reply THEN rd ELSE NoIo
          BY <1>10, <2>5, <3>5, Zenon DEF TryReadMoreReply
        <4>2. rd' \in Regions
          BY <1>2, <4>1, Zenon DEF Regions, NoIo
        <4> HIDE DEF more
        <4> QED
          <5>1. /\ is_reading_reply' = (is_reading_reply \/ more)
                /\ is_reading_reply => rd' = rd
            BY <1>2, <3>5, <4>1, Zenon
          <5>2. buf' = IF more
                       THEN inc_recycle_lock(AfterTryWrite(b, first', TRUE))
                       ELSE AfterTryWrite(b, first', TRUE)
            BY <3>3, <3>5, <4>1, Zenon
          <5> QED
            BY <3>1, <3>2, <3>3, <3>5, <4>2, <5>1, <5>2, Zenon DEF Relay
      <3> QED
        BY <3>4, <3>5, Zenon
    <2>7. /\ more => ~is_reading_reply /\ ~reply_recv_complete'
          /\ more \in BOOLEAN /\ reply_recv_complete' \in BOOLEAN
          /\ first' \in BOOLEAN /\ wire' \in Nat
          /\ UNCHANGED <<where, open, aborted, no_recycle, reply, stream>>
      BY <1>2, <1>10, Zenon DEF has_much_free_space
    <2> HIDE DEF more
    <2> QED
      BY <1>1, <1>2, <1>3, <2>1, <2>3, <2>6, <2>7, RelayInv, Zenon
  <1> QED
    BY <1>9, <1>10, Zenon DEF OnWriteReplyFinished, b

-----------------------------------------------------------------------------
(* The theorems.                                                           *)

\* Every step of the connection keeps ConnInv.
LEMMA NextInv == ConnInv /\ [Next]_vars => ConnInv'
  <1> SUFFICES ASSUME ConnInv, [Next]_vars PROVE ConnInv'
    BY Zenon
  <1>1. CASE UNCHANGED vars
    <2>1. TypeOK'
      <3>1. TypeOK
        BY Zenon DEF ConnInv
      <3>2. /\ UNCHANGED <<connVars, timerVars, cmdVars>>
            /\ UNCHANGED <<where, buf, pending, rd, reply, stream, wire>>
        BY <1>1, Zenon DEF vars
      <3>3. /\ where' \in {"active", "idle", "gone"}
            /\ open' \in BOOLEAN /\ aborted' \in BOOLEAN
            /\ no_recycle' \in BOOLEAN /\ is_reading_reply' \in BOOLEAN
            /\ reply_recv_complete' \in BOOLEAN
        BY <3>1, <3>2, Zenon DEF TypeOK, connVars
      <3>4. /\ buf' \in ReadBuffers /\ pending' \in SUBSET Ops
            /\ behind' \in SUBSET Ops /\ rd' \in Regions
        BY <3>1, <3>2, Zenon DEF TypeOK, timerVars
      <3>5. TimerTypes'
        BY <3>1, <3>2, Zenon DEF TypeOK, timerVars, TimerTypes
      <3>6. /\ cw' \in Regions /\ first' \in BOOLEAN
            /\ is_writing_reply' \in BOOLEAN
            /\ has_written_some_reply' \in BOOLEAN /\ reply' \in Replies
            /\ stream' \in {"reply", "error"} /\ wire' \in Nat
            /\ sent' \in Nat
        BY <3>1, <3>2, Zenon DEF TypeOK, cmdVars
      <3> QED
        BY <3>3, <3>4, <3>5, <3>6, Zenon DEF TypeOK, TimerTypes
    <2>2. WellFormed(buf)' /\ IoInPlace' /\ NotActive' /\ Locks' /\ Sending'
      BY <1>1, Zenon
        DEF ConnInv, IoInPlace, NotActive, Locks, Sending, vars, connVars,
                  cmdVars
    <2>3. Querying' /\ Receiving' /\ Failed'
      BY <1>1, Zenon DEF ConnInv, Querying, Receiving, Failed, vars, connVars, cmdVars
    <2> QED
      BY <2>1, <2>2, <2>3, Zenon DEF ConnInv
  <1>2. CASE Next
    BY <1>2, StartWriteQueryInv, HandleConnectInv, QueryFailedInv,
       HandleWriteInv, HandleReadInv, ReadFailedInv, ExpireInv, OnTimeoutInv,
       StartWriteReplyInv, OnWriteReplyFinishedInv, ClientAbortInv, Zenon
       DEF Next
  <1> QED
    BY <1>1, <1>2, Zenon

\* The inductive invariant holds of every behaviour, so the lock count of
\* the buffer is the number of operations using it, and the bytes received,
\* parsed and sent account for the reply.
THEOREM ConnInvariant == Spec => []ConnInv
  BY InitInv, NextInv, PTL DEF Spec

\* Type correctness.
THEOREM TypeCorrect == Spec => []TypeOK
  <1>1. ConnInv => TypeOK
    BY Zenon DEF ConnInv
  <1> QED
    BY <1>1, ConnInvariant, PTL

\* No compaction of the buffer moves the bytes an outstanding read or write
\* uses.
THEOREM IoStaysInPlace == Spec => []IoInPlace
  <1>1. ConnInv => IoInPlace
    BY Zenon DEF ConnInv
  <1> QED
    BY <1>1, ConnInvariant, PTL

\* A pooled connection is clean: no byte of an earlier reply can reach the
\* next command.
THEOREM PooledConnectionsAreClean == Spec => []PooledClean
  <1>1. ConnInv => PooledClean
    BY Zenon DEF ConnInv, NotActive, PooledClean
  <1> QED
    BY <1>1, ConnInvariant, PTL

\* The assertion on the lock in Command::OnWriteReplyFinished never fails.
THEOREM RotationAssertHolds == Spec => []NoLockAtRotation
  <1>1. ConnInv => NoLockAtRotation
    <2> SUFFICES ASSUME ConnInv, "client" \in pending, finished(buf)
                 PROVE  buf.lock = 1
      BY Zenon DEF NoLockAtRotation
    <2>1. is_writing_reply /\ where = "active"
      BY Zenon DEF ConnInv, Locks, NotActive
    <2>2. reply_recv_complete
      BY Zenon DEF finished
    <2>3. ~is_reading_reply
      BY <2>1, <2>2, Zenon DEF ConnInv, TypeOK, Receiving, Failed
    <2> QED
      BY <2>1, <2>3 DEF ConnInv, Locks
  <1> QED
    BY <1>1, ConnInvariant, PTL

\* The client never gets a piece of a reply followed by an error text.
THEOREM RepliesAreNeverMixed == Spec => RepliesNeverMixed
  <1>1. ConnInv /\ [Next]_vars =>
          [stream' # stream =>
             stream = "error" \/ (sent = 0 /\ "client" \notin pending)]_vars
    <2> SUFFICES ASSUME ConnInv, Next, stream' # stream, stream # "error"
                 PROVE  sent = 0 /\ "client" \notin pending
      BY Zenon DEF vars
    <2>1. \/ OnBackendRecoverableError
          \/ \E r \in Replies, f \in BOOLEAN : StartWriteQuery(r, f)
      BY Zenon DEF Next, HandleConnect, QueryFailed, HandleWrite, HandleRead,
             ReadFailed, Expire, OnTimeout, StartWriteReply,
             OnWriteReplyFinished, ClientAbort, AbortClient, Release
    <2>2. stream' # "reply"
      BY Zenon DEF ConnInv, TypeOK
    <2>3. \A r \in Replies, f \in BOOLEAN :
            StartWriteQuery(r, f) => stream' = "reply"
      BY Zenon DEF StartWriteQuery
    <2>4. ~has_written_some_reply
      BY <2>1, <2>2, <2>3, Zenon
        DEF OnBackendRecoverableError, BackendErrorRecoverable
    <2>5. where = "active"
      BY <2>2, <2>3, Zenon
         DEF Next, HandleConnect, QueryFailed, HandleWrite, HandleRead,
             ReadFailed, Expire, OnTimeout, StartWriteReply, May,
             OnWriteReplyFinished, ClientAbort, ConnInv, NotActive
    <2> QED
      BY <2>4, <2>5, Zenon DEF ConnInv, Sending, Locks
  <1> QED
    BY <1>1, ConnInvariant, PTL DEF Spec, RepliesNeverMixed

\* A command that ends by rotation has delivered its whole reply.
THEOREM RotationIsComplete == Spec => CompleteOnRotation
  <1>1. ConnInv /\ [Next]_vars =>
          [OnWriteReplyFinished /\ where' # "active"
             => sent' = (IF stream = "error" THEN ErrorLen ELSE reply.len)]_vars
    <2> SUFFICES ASSUME ConnInv, OnWriteReplyFinished, where' # "active"
                 PROVE  sent' = (IF stream = "error" THEN ErrorLen
                                                     ELSE reply.len)
      BY Zenon DEF vars
    <2> DEFINE b == dec_recycle_lock(buf)
    <2>1. is_writing_reply /\ where = "active"
      BY Zenon DEF OnWriteReplyFinished, May, ConnInv, Locks, NotActive
    <2>2. finished(b)
      BY <2>1, Zenon DEF OnWriteReplyFinished
    <2>3. /\ cw.base = buf.base /\ cw.base + cw.off = sent
          /\ cw.off + cw.len = buf.processed /\ sent' = sent + cw.len
      BY <2>1, Zenon DEF OnWriteReplyFinished, ConnInv, Locks, IoInPlace, Sending
    <2>4. cw.base \in Nat /\ cw.off \in Nat /\ cw.len \in Nat
      BY Zenon DEF ConnInv, TypeOK, Regions
    <2>5. WellFormed(buf) /\ buf.lock > 0
      <3>1. buf.lock = (IF is_reading_reply THEN 1 ELSE 0) + 1
        BY <2>1, Zenon DEF ConnInv, Locks
      <3> QED
        BY <3>1 DEF ConnInv
    <2>6. WellFormed(b) /\ SamePositions(buf, b)
      BY <2>5, DecLemma, Zenon
    <2> HIDE DEF b
    <2>7. /\ b.base \in Nat /\ b.processed \in Nat /\ b.received \in Nat
          /\ b.parsed \in Nat /\ buf.base \in Nat /\ buf.processed \in Nat
          /\ buf.parsed \in Nat /\ buf.received \in Nat
      BY <2>5, <2>6, FieldsLemma, Zenon
    <2>8. sent' = b.base + b.processed
      <3>1. b.base + b.processed = buf.base + buf.processed
        BY <2>6, Zenon DEF SamePositions
      <3> QED
        BY <2>3, <2>4, <2>7, <3>1
    <2>9. CASE stream = "error"
      <3>1. buf.base = 0 /\ buf.processed = ErrorLen
        BY <2>1, <2>9, Zenon DEF ConnInv, Failed
      <3> QED
        BY <2>3, <2>4, <2>7, <2>9, <3>1, Facts
    <2>10. CASE stream = "reply"
      <3>1. buf.parsed = buf.received /\ buf.base + buf.parsed = reply.len
        BY <2>1, <2>2, <2>10, Zenon DEF ConnInv, Receiving, finished
      <3>2. b.parsed = b.received /\ b.base + b.parsed = reply.len
        <4>1. /\ b.base + b.received = buf.base + buf.received
              /\ b.base + b.parsed = buf.base + buf.parsed
          BY <2>6, Zenon DEF SamePositions
        <4> QED
          BY <2>7, <3>1, <4>1
      <3>3. b.processed = b.parsed
        BY <2>2, <2>7, <3>2 DEF finished, unprocessed_bytes
      <3> QED
        BY <2>8, <2>10, <3>2, <3>3, Zenon
    <2> QED
      BY <2>9, <2>10, Zenon DEF ConnInv, TypeOK
  <1> QED
    BY <1>1, ConnInvariant, PTL DEF Spec, CompleteOnRotation
=============================================================================
