------------------------------ MODULE Pipeline ------------------------------
(***************************************************************************)
(* One client connection (src/proxy/client_conn.cc) and the queue of its   *)
(* active commands (src/proxy/command.cc and the single-backend commands:  *)
(* basic, SET of redis, SET of memcached, stats, error).  A command is     *)
(* created as soon as enough of its query has arrived, writes its query to *)
(* its backend straight from the client's buffer, and its reply is written *)
(* to the client when the commands ahead of it are done.                   *)
(*                                                                         *)
(* The client's bytes are positions in a stream: request i occupies the    *)
(* bytes after the requests before it.  What happens inside the buffer of  *)
(* a backend connection is module BackendConn; here a reply is a number of *)
(* pieces that arrive one by one.                                          *)
(***************************************************************************)
EXTENDS ReadBuffer, Sequences, FiniteSets
LOCAL INSTANCE SequencesExt
LOCAL INSTANCE TLC

CONSTANTS
  Scripts,               \* what clients send: sequences of requests
  EofPoints(_),          \* where in a script the client may shut down
  kPipelineActiveLimit,
  ReplyLen               \* pieces of a backend's reply

(* A request is a record                                                   *)
(*   kind  : "basic", "set", "memcset", "stats", "error" (unsupported) or  *)
(*           "reject" (a memcached SET without a body);                    *)
(*   nl    : bytes up to the first newline;                                *)
(*   head  : bytes needed to create the command (for SET: up to the end of *)
(*           the key; for memcached's SET: the line);                      *)
(*   bulks : the parts behind the head: part k is parsed once hdr bytes of *)
(*           the request are there and ends at byte end.                   *)

VARIABLES
  script,      \* the requests of this client
  buf,         \* *buffer_
  reading,     \* is_reading_query_
  writing,     \* the write to the client: [req, n], or NoWrite
  q,           \* active_cmd_queue_
  next,        \* number of requests that have become commands, plus one
  aborted,     \* aborted_
  failed,      \* an assert of the code has failed
  eof, broken, \* the client has shut down its side; writes to it fail
  to, sent,    \* the request whose reply the client got last, and how
               \* many pieces of it
  done         \* replies the client has got completely

vars == <<script, buf, reading, writing, q, next, aborted, failed, eof, broken,
          to, sent, done>>

NoWrite == [req |-> 0, n |-> 0]
NoIo == [base |-> 0, off |-> 0, len |-> 0]

Size(r) == IF r.bulks = <<>> THEN r.head ELSE r.bulks[Len(r.bulks)].end

\* The stream position of the first byte of request i.
Start(i) == FoldLeft(LAMBDA sum, r : sum + Size(r), 0, SubSeq(script, 1, i - 1))

\* Of request r with n bytes received: the parts that cannot be parsed yet,
\* and where parsing stands.
AbsentBulks(r, n) == Cardinality({k \in DOMAIN r.bulks : n < r.bulks[k].hdr})

ParsedSize(r, absent) ==
  IF absent = Len(r.bulks) THEN r.head ELSE r.bulks[Len(r.bulks) - absent].end

Total == Start(Len(script) + 1)

Arrived == buf.base + buf.received

\* A handler works on a record w of the connection's fields.
World == [buf |-> buf, reading |-> reading, writing |-> writing, q |-> q,
          next |-> next, failed |-> failed, aborted |-> aborted]

Become(w) ==
  /\ buf' = w.buf /\ reading' = w.reading /\ writing' = w.writing
  /\ q' = w.q /\ next' = w.next /\ failed' = w.failed /\ aborted' = w.aborted

Back(w) == w.q[Len(w.q)]

Check(w, assertion) == [w EXCEPT !.failed = @ \/ ~assertion]

Init ==
  /\ script \in Scripts
  /\ buf = inc_recycle_lock(EmptyBuffer) /\ reading = TRUE  \* StartRead
  /\ writing = NoWrite /\ q = <<>> /\ next = 1
  /\ aborted = FALSE /\ failed = FALSE /\ eof = FALSE /\ broken = FALSE
  /\ to = 0 /\ sent = 0 /\ done = 0

-----------------------------------------------------------------------------
(* ClientConnection and Command, function by function.                     *)

TryReadMoreQuery(w) ==
  IF w.reading \/ ~has_much_free_space(w.buf)
  THEN w
  ELSE [w EXCEPT !.reading = TRUE, !.buf = inc_recycle_lock(w.buf)]

\* Abort destroys the commands, and with them their backends are released.
Abort(w) == [w EXCEPT !.aborted = TRUE, !.q = <<>>, !.reading = FALSE,
                      !.writing = NoWrite]

\* ClientConnection::WriteReply, with its assertion.
WriteReply(w, req, n) ==
  [Check(w, w.writing = NoWrite) EXCEPT !.writing = [req |-> req, n |-> n]]

\* Mutant of TryWriteReply: is_writing_reply_ is not looked at.
TryWriteOverlapping(w, i) ==
  LET c == w.q[i] IN
  IF c.got = c.put
  THEN w
  ELSE WriteReply([w EXCEPT !.q[i] = [c EXCEPT !.wr = TRUE, !.some = TRUE,
                                               !.put = c.got]],
                  c.req, c.got - c.put)

TryWriteReply(w, i) ==
  LET c == w.q[i] IN
  IF c.wr \/ c.got = c.put
  THEN w
  ELSE WriteReply([w EXCEPT !.q[i] = [c EXCEPT !.wr = TRUE, !.some = TRUE,
                                               !.put = c.got]],
                  c.req, c.got - c.put)

query_recv_complete(c) == c.complete

query_parsing_complete(c) == c.unparsed = 0

\* check_query_recv_complete of the two kinds of SET.
check_query_recv_complete(c, b) ==
  [c EXCEPT !.complete =
     @ \/ (parsed_unreceived_bytes(b) = 0 /\ query_parsing_complete(c))]

\* Replies that come from the proxy itself are one piece.
Pieces(c) == IF c.err \/ c.kind \in {"stats", "error"} THEN 1 ELSE ReplyLen

\* Mutant of WriteQuery: the client's buffer is not locked.
WriteQueryUnlocked(w, i) ==
  [w EXCEPT !.q[i] = [@ EXCEPT !.qw = [base |-> w.buf.base,
                                       off |-> w.buf.processed,
                                       len |-> unprocessed_bytes(w.buf)]]]

\* backend->WriteQuery with what is parsed, received and unprocessed.
WriteQuery(w, i) ==
  [w EXCEPT !.buf = inc_recycle_lock(w.buf),
            !.q[i] = [@ EXCEPT !.qw = [base |-> w.buf.base,
                                       off |-> w.buf.processed,
                                       len |-> unprocessed_bytes(w.buf)]]]

\* StatsCommand and ErrorCommand reply by themselves, in one piece.
RepliesItself(c) == c.kind \in {"stats", "error"}

\* Their StartWriteReply.
StartOwnReply(w) == WriteReply(w, w.q[1].req, 1)

\* StartWriteReply of the command that has become the first.
StartWriteReply(w) ==
  LET c == w.q[1] IN
  IF RepliesItself(c) THEN StartOwnReply(w)
  ELSE IF query_recv_complete(c) THEN TryWriteReply(w, 1) ELSE w

\* StartWriteQuery of StatsCommand and ErrorCommand, at the back of the queue.
StartOwnQuery(w) == IF Len(w.q) = 1 THEN StartOwnReply(w) ELSE w

\* StartWriteQuery of the command at the back.
StartWriteQuery(w) ==
  LET i == Len(w.q)
      c == check_query_recv_complete(w.q[i], w.buf) IN
  IF RepliesItself(c) THEN StartOwnQuery(w)
  ELSE WriteQuery([w EXCEPT !.q[i] = c], i)

NewCommand(i, kind, incomplete, unparsed) ==
  [req |-> i, kind |-> kind, complete |-> ~incomplete, unparsed |-> unparsed,
   qw |-> NoIo, err |-> FALSE, rd |-> FALSE, got |-> 0, put |-> 0,
   wr |-> FALSE, some |-> FALSE]

\* Command::CreateCommand on the "size" bytes after processed_offset_: the
\* number of bytes parsed and the new command; none are parsed while the
\* data do not tell what to do.
CreateCommand(w, size) ==
  LET r == script[w.next]
      absent == AbsentBulks(r, size)
      sets == r.kind \in {"set", "memcset"}
      none == [bytes |-> 0, cmd |-> NewCommand(w.next, "error", FALSE, 0)]
      error(n) == [none EXCEPT !.bytes = n]
  IN CASE size < r.nl -> IF size > BufferSize \div 2 THEN error(size) ELSE none
       [] size >= r.nl /\ size < r.head -> none
       [] size >= r.head /\ r.kind = "error" -> error(size)
       [] size >= r.head /\ r.kind = "reject" -> error(r.head)
       [] OTHER -> [bytes |-> ParsedSize(r, absent),
                    cmd |-> NewCommand(w.next, r.kind, sets, absent)]

RoomForCommand(w) == Len(w.q) < kPipelineActiveLimit

\* One round of the loop in ProcessUnparsedQuery; w.more is false once the
\* loop has been left.
ParseOne(w) ==
  IF ~(w.more /\ RoomForCommand(w) /\ unparsed_received_bytes(w.buf) > 0)
  THEN [w EXCEPT !.more = FALSE]
  ELSE LET new == CreateCommand(w, received_bytes(w.buf)) IN
       IF new.bytes = 0
       THEN [TryReadMoreQuery(w) EXCEPT !.more = FALSE]
       ELSE LET w1 == [w EXCEPT !.buf = update_parsed_bytes(@, new.bytes),
                                !.q = Append(@, new.cmd), !.next = @ + 1]
                w2 == StartWriteQuery(w1)
                b == update_processed_bytes(w2.buf, unprocessed_bytes(w2.buf))
            IN [w2 EXCEPT !.buf = b,
                          !.more = parsed_unreceived_bytes(b) = 0
                                     /\ query_parsing_complete(Back(w2))]

\* A round that goes on adds a command, so kPipelineActiveLimit are enough.
ProcessUnparsedQuery(w) ==
  LET start == [more |-> TRUE] @@ w
      round[n \in 0..kPipelineActiveLimit] ==
        IF n = 0 THEN start ELSE ParseOne(round[n - 1])
      end == round[kPipelineActiveLimit]
  IN [f \in DOMAIN w |-> end[f]]

\* Mutant of RotateReplyingCommand: the client is not read before the pop.
RotateWithoutRead(w) ==
  LET w2 == [w EXCEPT !.q = Tail(@)] IN
  IF w2.q = <<>> THEN w2
  ELSE LET w3 == StartWriteReply(w2) IN
       IF query_recv_complete(Back(w3)) THEN ProcessUnparsedQuery(w3)
       ELSE IF recycle_locked(w3.buf) THEN w3 ELSE TryReadMoreQuery(w3)

RotateReplyingCommand(w) ==
  LET w1 == IF Len(w.q) = 1 THEN TryReadMoreQuery(w) ELSE w
      w2 == [w1 EXCEPT !.q = Tail(@)]
  IN IF w2.q = <<>> THEN w2
     ELSE LET w3 == StartWriteReply(w2) IN
          IF query_recv_complete(Back(w3)) THEN ProcessUnparsedQuery(w3)
          ELSE IF recycle_locked(w3.buf) THEN w3 ELSE TryReadMoreQuery(w3)

\* RedisSetCommand::ParseUnparsedPart: parse the parts whose header is there.
ParseUnparsedPart(w) ==
  LET c == Back(w)
      r == script[c.req]
      absent == AbsentBulks(r, w.buf.base + w.buf.received - Start(c.req))
  IN [w EXCEPT !.buf = update_parsed_bytes(@, ParsedSize(r, absent)
                                                - ParsedSize(r, c.unparsed)),
               !.q[Len(w.q)].unparsed = absent]

\* Command::ContinueWriteQuery: the rest of the query goes to the backend,
\* or nowhere if the backend has failed.
ContinueWriteQuery(w) ==
  LET i == Len(w.q)
      c == check_query_recv_complete(w.q[i], w.buf)
      w1 == [w EXCEPT !.q[i] = c]
  IN IF ~c.err THEN WriteQuery(w1, i)
     ELSE IF query_recv_complete(c) /\ i = 1 THEN TryWriteReply(w1, i) ELSE w1

\* The tail of HandleRead after a piece of the query of a known command.
AfterContinue(w) ==
  LET w1 == ContinueWriteQuery(w)
      w2 == [w1 EXCEPT !.buf = update_processed_bytes(@, unprocessed_bytes(@))]
      c == Back(w2)
  IN IF parsed_unreceived_bytes(w2.buf) > 0
     THEN IF c.err /\ ~query_recv_complete(c) THEN TryReadMoreQuery(w2) ELSE w2
     ELSE IF query_parsing_complete(c) THEN ProcessUnparsedQuery(w2) ELSE w2

Received(w) ==
  LET known == w.q # <<>>
      w1 == IF known /\ ~query_recv_complete(Back(w)) THEN ParseUnparsedPart(w)
                                                      ELSE w
  IN IF parsed_unprocessed_bytes(w1.buf) > 0
     THEN AfterContinue(Check(w1, known))
     ELSE IF ~known \/ query_parsing_complete(Back(w1))
     THEN ProcessUnparsedQuery(w1) ELSE w1

\* Mutant of RecoverableError: the error is reported at once.
ErrorBeforeQuery(w, i) ==
  LET c == [w.q[i] EXCEPT !.err = TRUE, !.got = 1, !.put = 0, !.rd = FALSE]
      w1 == [w EXCEPT !.q[i] = c]
  IN IF i = 1 THEN TryWriteReply(w1, i) ELSE w1

\* Command::OnBackendRecoverableError
RecoverableError(w, i) ==
  LET c == [w.q[i] EXCEPT !.err = TRUE, !.got = 1, !.put = 0, !.rd = FALSE]
      w1 == [w EXCEPT !.q[i] = c]
  IN IF query_recv_complete(c) THEN IF i = 1 THEN TryWriteReply(w1, i) ELSE w1
     ELSE IF recycle_locked(w1.buf) THEN w1 ELSE TryReadMoreQuery(w1)

-----------------------------------------------------------------------------
(* The handlers.                                                           *)

\* ClientConnection::HandleRead with n bytes.
HandleRead(n) ==
  /\ reading /\ ~eof
  /\ n \in 1..(Total - Arrived) /\ n <= free_space_size(buf)
  /\ LET b == dec_recycle_lock(update_received_bytes(buf, n)) IN
     Become(Received([World EXCEPT !.reading = FALSE, !.buf = b]))
  /\ UNCHANGED <<script, eof, broken, to, sent, done>>

\* HandleRead with eof: the handler just returns.
HandleEof ==
  /\ reading /\ (eof \/ Arrived \in EofPoints(script))
  /\ eof' = TRUE
  /\ Become([World EXCEPT !.reading = FALSE])
  /\ UNCHANGED <<script, broken, to, sent, done>>

\* HandleRead with an error, or the timeout of a read or of a write.
ClientFails ==
  /\ reading \/ writing # NoWrite
  /\ Become(Abort(World))
  /\ UNCHANGED <<script, eof, broken, to, sent, done>>

\* Command::OnWriteQueryFinished, success.
QueryWritten(i) ==
  /\ q[i].qw # NoIo
  /\ LET c == [q[i] EXCEPT !.qw = NoIo, !.rd = query_recv_complete(q[i])]
         w == [Check(World, buf.lock > 0) EXCEPT
                 !.q[i] = c, !.buf = dec_recycle_lock(@)]
     IN Become(IF query_recv_complete(c) \/ recycle_locked(w.buf) THEN w
               ELSE TryReadMoreQuery(w))
  /\ UNCHANGED <<script, eof, broken, to, sent, done>>

\* OnWriteQueryFinished with an error of the connect or the write, which the
\* backend's timer makes certain to come if nothing else does.
QueryFailed(i) ==
  /\ q[i].qw # NoIo
  /\ Become(IF q[i].some THEN Abort(World)
            ELSE RecoverableError(
                   [Check(World, buf.lock > 0) EXCEPT
                      !.q[i] = [@ EXCEPT !.qw = NoIo],
                      !.buf = dec_recycle_lock(@)], i))
  /\ UNCHANGED <<script, eof, broken, to, sent, done>>

\* Command::OnBackendReplyReceived, success: the next piece of the reply.
ReplyReceived(i) ==
  /\ q[i].rd
  /\ LET c == [q[i] EXCEPT !.got = @ + 1, !.rd = q[i].got + 1 < Pieces(q[i])]
         w == [World EXCEPT !.q[i] = c]
     IN Become(IF i = 1 THEN TryWriteReply(w, i) ELSE w)
  /\ UNCHANGED <<script, eof, broken, to, sent, done>>

\* Mutant of ReplyFailed: no timer runs for the rest of a reply.
ReplyFailsAtFirst(i) ==
  /\ q[i].rd /\ ~q[i].some
  /\ Become(RecoverableError(World, i))
  /\ UNCHANGED <<script, eof, broken, to, sent, done>>

\* OnBackendReplyReceived with an error or a malformed reply.
ReplyFailed(i) ==
  /\ q[i].rd
  /\ Become(IF q[i].some THEN Abort(World) ELSE RecoverableError(World, i))
  /\ UNCHANGED <<script, eof, broken, to, sent, done>>

\* The command whose reply is being written.
Writer == CHOOSE i \in 1..Len(q) : q[i].req = writing.req

\* Mutant of finished: all that has arrived is taken for all there is.
finished_when_written(c) == RepliesItself(c) \/ c.put = c.got

finished(c) == RepliesItself(c) \/ (c.got = Pieces(c) /\ c.put = c.got)

\* Command::RotateReplyingBackend, with its assertion.
RotateReplyingBackend(w, c) == RotateReplyingCommand(Check(w, query_recv_complete(c)))

\* OnWriteReplyFinished of StatsCommand, whatever has become of the write.
StatsWritten(w, c) == RotateReplyingBackend(w, c)

\* OnWriteReplyFinished of ErrorCommand, whatever has become of the write.
ErrorWritten(w) == Abort(w)

\* OnWriteReplyFinished, success, of Command, StatsCommand, ErrorCommand.
OnWriteReplyFinished ==
  /\ writing # NoWrite /\ ~broken
  /\ LET c == q[Writer]
         w == [World EXCEPT !.writing = NoWrite, !.q[Writer].wr = FALSE]
     IN /\ done' = IF finished(c) THEN done + 1 ELSE done
        /\ to' = writing.req
        /\ sent' = writing.n + (IF to = writing.req THEN sent ELSE 0)
        /\ Become(CASE c.kind = "error" -> ErrorWritten(w)
                    [] c.kind = "stats" -> StatsWritten(w, c)
                    [] OTHER -> IF finished(c) THEN RotateReplyingBackend(w, c)
                                ELSE TryWriteReply(w, Writer))
  /\ UNCHANGED <<script, eof, broken>>

\* OnWriteReplyFinished with an error; StatsCommand does not look at it.
WriteReplyFailed ==
  /\ writing # NoWrite
  /\ broken' = TRUE
  /\ LET c == q[Writer]
         w == [World EXCEPT !.writing = NoWrite, !.q[Writer].wr = FALSE]
     IN Become(CASE c.kind = "error" -> ErrorWritten(w)
                 [] c.kind = "stats" -> StatsWritten(w, c)
                 [] OTHER -> Abort(w))
  /\ UNCHANGED <<script, eof, to, sent, done>>

Next ==
  \/ \E n \in 1..BufferSize : HandleRead(n)
  \/ HandleEof
  \/ ClientFails
  \/ \E i \in 1..Len(q) : QueryWritten(i)
  \/ \E i \in 1..Len(q) : QueryFailed(i)
  \/ \E i \in 1..Len(q) : ReplyReceived(i)
  \/ \E i \in 1..Len(q) : ReplyFailed(i)
  \/ OnWriteReplyFinished
  \/ WriteReplyFailed

Spec == Init /\ [][Next]_vars

\* Each outstanding operation has a timer (UpdateTimer of the client and of
\* the backends), so one that does not complete fails in the end.
Timeout ==
  \/ ClientFails
  \/ \E i \in 1..Len(q) : QueryFailed(i)
  \/ \E i \in 1..Len(q) : ReplyFailed(i)

FairSpec == Spec /\ WF_vars(Timeout)

-----------------------------------------------------------------------------
(* Properties.                                                             *)

\* ClientConnection lives while a handler or a command holds it.
Closed == aborted \/ (q = <<>> /\ ~reading /\ writing = NoWrite)

Commands ==
  [req : Nat, kind : {"basic", "set", "memcset", "stats", "error"},
   complete : BOOLEAN, unparsed : Nat, qw : [base : Nat, off : Nat, len : Nat],
   err : BOOLEAN, rd : BOOLEAN, got : 0..ReplyLen, put : 0..ReplyLen,
   wr : BOOLEAN, some : BOOLEAN]

\* The variables' types, and the order of the buffer's offsets.
TypeOK ==
  /\ script \in Scripts /\ ~aborted => WellFormed(buf)
  /\ reading \in BOOLEAN /\ aborted \in BOOLEAN /\ failed \in BOOLEAN
  /\ eof \in BOOLEAN /\ broken \in BOOLEAN
  /\ writing \in [req : Nat, n : 0..ReplyLen]
  /\ q \in Seq(Commands) /\ Len(q) <= kPipelineActiveLimit
  /\ next \in 1..(Len(script) + 1)
  /\ to \in 0..Len(script) /\ sent \in 0..ReplyLen
  /\ done \in 0..Len(script)

\* No assertion fails: two replies are never written at once (WriteReply),
\* no lock is given back that was not taken (dec_recycle_lock), parsed data
\* always have a command (HandleRead), and a reply ends only when its query
\* has been received (OnWriteReplyFinished).
NoAssertFails == ~failed

\* The bytes a backend is being sent stay where they are until they are
\* written, though reads, other queries and compaction share the buffer
\* (recycle_lock_count_), and no two queries overlap.
QueriesInPlace ==
  ~aborted =>
    /\ \A i \in DOMAIN q : q[i].qw # NoIo =>
         /\ q[i].qw.base = buf.base
         /\ q[i].qw.off + q[i].qw.len <= buf.processed
         /\ q[i].qw.base + q[i].qw.off >= Start(q[i].req)
         /\ q[i].qw.base + q[i].qw.off + q[i].qw.len <= Start(q[i].req + 1)
    /\ ~eof => buf.lock = Cardinality({i \in DOMAIN q : q[i].qw # NoIo})
                            + (IF reading THEN 1 ELSE 0)

\* "write_reply" starts only when the query has been received, also after a
\* connect error (comment in Command::OnWriteReplyFinished): otherwise the
\* rest of the query would be taken for the next command.
ReplyAfterQuery ==
  writing # NoWrite =>
    \/ q[Writer].kind = "error"
    \/ Arrived >= Start(writing.req + 1)

\* Somebody is always at work for the first command: its query or its reply
\* is under way, or the client is being read for the rest of its query; and
\* with no command the client is being read, unless it has shut down.
NeverStuck ==
  ~aborted =>
    IF q = <<>> THEN reading \/ eof
    ELSE \/ q[1].qw # NoIo \/ q[1].rd \/ writing # NoWrite
         \/ ~query_recv_complete(q[1]) /\ reading

\* The pipeline keeps its promise to the client: requests are taken in order
\* and answered in order, each with a complete reply of one origin (README:
\* "pipelined request processing").
Fifo == INSTANCE FifoReplies WITH
  Limit <- kPipelineActiveLimit, Sizes <- {1, ReplyLen},
  open <- ~aborted /\ ~broken,
  pending <- IF aborted \/ broken THEN <<>> ELSE [i \in DOMAIN q |-> q[i].req]

RepliesInOrder == Fifo!Spec

\* Every command that is created gets its reply or sees the connection fail.
MaxRequests == CHOOSE n \in {Len(s) : s \in Scripts} :
                 \A s \in Scripts : Len(s) <= n

EveryCommandEnds ==
  \A i \in 1..MaxRequests : next > i ~> done >= i \/ aborted \/ broken

\* "if there is no data, close the client connection on timeout"
\* (client_idle_timeout in yarmproxy.conf).
IdleConnectionCloses == <>Closed

\* "read before pop to avoid deref" (RotateReplyingCommand): a client that
\* neither failed nor shut down does not lose its connection.
ReadKeepsConnection == Closed => aborted \/ eof
=============================================================================
