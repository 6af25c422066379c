------------------------------ MODULE RedisDel ------------------------------
(***************************************************************************)
(* DEL, EXISTS and TOUCH (src/proxy/redis_del_command.cc): the keys that   *)
(* have arrived are sent to their backends, one subquery per backend and   *)
(* per read, while the rest of the query is still to come; the integers    *)
(* the backends answer are added up, and the last subquery to be settled   *)
(* carries the sum to the client.                                          *)
(*                                                                         *)
(* A key is two units of the query: a first part, with which it cannot be  *)
(* parsed, and its end.  The prefix and the segments of a subquery are     *)
(* written one by one without another choice and count as one write; a     *)
(* reply that comes in pieces changes nothing before its last piece.  The  *)
(* client's buffer has room and the client does not shut down: these are   *)
(* the subject of module Pipeline.                                         *)
(***************************************************************************)
EXTENDS Integers, Sequences, FiniteSets

CONSTANT Queries   \* the sequences of the backends that own the keys

\* A query has a key.
ASSUME QueriesAssumption ==
  \A s \in Queries : s \in Seq({s[i] : i \in DOMAIN s}) /\ s # <<>>

VARIABLES
  owners,     \* the backend of every key
  first,      \* client_conn_->IsFirstCommand(this)
  ahead,      \* a command ahead is writing its query from the same buffer
  reading,    \* is_reading_query_
  received,   \* units of the query received
  parsed,     \* keys parsed: unparsed_bulks_ is Len(owners) - parsed
  subs,       \* every subquery so far: [keys, io, answer]; a released one is
              \* no longer in pending_subqueries_
  total_del_count,
  lock,       \* this command's part of the client buffer's lock count
  replying_backend, writing,   \* indices of subqueries, 0 for none
  count,      \* the integer in the buffer of the replying backend
  over,       \* "no", "done" (rotated away) or "aborted"
  failed      \* an assert of the code has failed

vars == <<owners, first, ahead, reading, received, parsed, subs,
          total_del_count, lock, replying_backend, writing, count, over, failed>>

World ==
  [reading |-> reading, received |-> received, parsed |-> parsed,
   subs |-> subs, total |-> total_del_count, lock |-> lock,
   replying |-> replying_backend, writing |-> writing, count |-> count,
   over |-> over, failed |-> failed]

Become(w) ==
  /\ reading' = w.reading /\ received' = w.received /\ parsed' = w.parsed
  /\ subs' = w.subs /\ total_del_count' = w.total /\ lock' = w.lock
  /\ replying_backend' = w.replying /\ writing' = w.writing
  /\ count' = w.count /\ over' = w.over /\ failed' = w.failed

Check(w, assertion) == [w EXCEPT !.failed = @ \/ ~assertion]

Abort(w) == [w EXCEPT !.over = "aborted"]

query_recv_complete(w) == w.parsed = Len(owners)

pending_subqueries(w) == {b \in DOMAIN w.subs : w.subs[b].io # "released"}

recycle_locked(w, isAhead) == w.lock > 0 \/ isAhead \/ w.reading

\* The calls of TryReadMoreQuery, all guarded alike.
ReadIfUnlocked(w, isAhead) ==
  IF recycle_locked(w, isAhead) \/ query_recv_complete(w)
  THEN w ELSE [w EXCEPT !.reading = TRUE]

\* The endpoints S in the order of the map that ActivateWaitingSubquery runs
\* through.
Listed(S) ==
  CHOOSE q \in [1..Cardinality(S) -> S] :
    \A i, j \in DOMAIN q : q[i] = q[j] => i = j

\* PushSubquery for every new key, and ActivateWaitingSubquery.
PushSubqueries(w, upto) ==
  LET new == (w.parsed + 1)..upto
      eps == Listed({owners[k] : k \in new})
  IN [w EXCEPT
        !.parsed = upto,
        !.lock = @ + Len(eps),
        !.subs = @ \o [i \in DOMAIN eps |->
                         [keys |-> {k \in new : owners[k] = eps[i]},
                          io |-> "query", answer |-> 0]]]

\* The constructor and StartWriteQuery: at least one key is there.
Init ==
  /\ owners \in Queries
  /\ first \in BOOLEAN
  /\ ahead \in (IF first THEN {FALSE} ELSE BOOLEAN)
  /\ \E n \in 2..(2 * Len(owners)) :
       LET w == PushSubqueries(
                  [reading |-> FALSE, received |-> n, parsed |-> 0,
                   subs |-> <<>>, total |-> 0, lock |-> 0, replying |-> 0,
                   writing |-> 0, count |-> 0, over |-> "no", failed |-> FALSE],
                  n \div 2)
       IN /\ reading = w.reading /\ received = w.received /\ parsed = w.parsed
          /\ subs = w.subs /\ total_del_count = w.total /\ lock = w.lock
          /\ replying_backend = w.replying /\ writing = w.writing
          /\ count = w.count /\ over = w.over /\ failed = w.failed

TryWriteReply(w, b) == IF w.writing # 0 THEN w ELSE [w EXCEPT !.writing = b]

\* Mutant of IsLast: subqueries still to come are forgotten.
IsLastPending(w) == Cardinality(pending_subqueries(w)) = 1

IsLast(w) ==
  query_recv_complete(w) /\ Cardinality(pending_subqueries(w)) = 1

\* Mutant of Settle: the last subquery is released too.
SettleAll(w, b) ==
  IF IsLast(w)
  THEN LET w1 == [w EXCEPT !.subs[b].io = "released", !.count = w.total]
       IN IF first THEN TryWriteReply(w1, b) ELSE [w1 EXCEPT !.replying = b]
  ELSE [w EXCEPT !.subs[b].io = "released"]

\* The common end of OnBackendReplyReceived and OnBackendRecoverableError:
\* the last subquery gets the sum to carry (SetBackendReplyCount), any other
\* is released.
Settle(w, b) ==
  IF IsLast(w)
  THEN LET w1 == [w EXCEPT !.subs[b].io = "none", !.count = w.total]
       IN IF first THEN TryWriteReply(w1, b) ELSE [w1 EXCEPT !.replying = b]
  ELSE [w EXCEPT !.subs[b].io = "released"]

ParseReply(w, b, n) == [w EXCEPT !.total = @ + n, !.subs[b].answer = n]

-----------------------------------------------------------------------------

\* Mutant of QueryWritten: the lock is kept until the reply.
QueryWrittenLocked(b) ==
  /\ subs[b].io = "query"
  /\ Become([World EXCEPT !.subs[b].io = "reply"])
  /\ UNCHANGED <<owners, first, ahead>>

\* OnWriteQueryFinished, success, for the last segment.
QueryWritten(b) ==
  /\ subs[b].io = "query"
  /\ Become([World EXCEPT !.subs[b].io = "reply", !.lock = @ - 1])
  /\ UNCHANGED <<owners, first, ahead>>

\* OnWriteQueryFinished, E_CONNECT.
ConnectFailed(b) ==
  /\ subs[b].io = "query"
  /\ LET w == Settle(World, b) IN
     Become(ReadIfUnlocked([w EXCEPT !.lock = @ - 1], ahead))
  /\ UNCHANGED <<owners, first, ahead>>

\* OnWriteQueryFinished with any other error, timeouts included.
WriteFailed(b) ==
  /\ subs[b].io = "query"
  /\ Become(Abort(World))
  /\ UNCHANGED <<owners, first, ahead>>

\* Mutant of OnBackendReplyReceived: reading is left to other callbacks.
ReplyWithoutRead(b, n) ==
  /\ subs[b].io = "reply" /\ n \in 0..Cardinality(subs[b].keys)
  /\ Become(Settle(ParseReply(World, b, n), b))
  /\ UNCHANGED <<owners, first, ahead>>

\* OnBackendReplyReceived with a complete reply: n keys deleted.
OnBackendReplyReceived(b, n) ==
  /\ subs[b].io = "reply" /\ n \in 0..Cardinality(subs[b].keys)
  /\ Become(ReadIfUnlocked(Settle(ParseReply(World, b, n), b), ahead))
  /\ UNCHANGED <<owners, first, ahead>>

\* OnBackendReplyReceived with an error, a timeout or something else than an
\* integer.
ReplyFailed(b) ==
  /\ subs[b].io = "reply"
  /\ Become(Abort(World))
  /\ UNCHANGED <<owners, first, ahead>>

\* ClientConnection::HandleRead and ProcessUnparsedPart.
HandleRead(n) ==
  /\ reading /\ n \in 1..(2 * Len(owners) - received)
  /\ LET w == [World EXCEPT !.reading = FALSE, !.received = @ + n]
         upto == w.received \div 2
     IN Become(IF upto = parsed THEN ReadIfUnlocked(w, ahead)
                                ELSE PushSubqueries(w, upto))
  /\ UNCHANGED <<owners, first, ahead>>

\* The command ahead has written its query.
AheadWritten ==
  /\ ahead /\ ahead' = FALSE
  /\ Become(World)
  /\ UNCHANGED <<owners, first>>

\* RotateReplyingCommand makes this command the first: StartWriteReply, and
\* the read that the lock of a command ahead may have held up.
StartWriteReply ==
  /\ ~first /\ ~ahead /\ first' = TRUE
  /\ LET w == IF query_recv_complete(World) /\ replying_backend # 0
              THEN TryWriteReply(World, replying_backend) ELSE World
     IN Become(ReadIfUnlocked(w, FALSE))
  /\ UNCHANGED <<owners, ahead>>

\* Command::OnWriteReplyFinished and the destructor's assert.
OnWriteReplyFinished ==
  /\ writing # 0
  /\ LET w == Check(World, /\ query_recv_complete(World)
                           /\ Cardinality(pending_subqueries(World)) = 1)
     IN Become([w EXCEPT !.writing = 0, !.over = "done"])
  /\ UNCHANGED <<owners, first, ahead>>

\* The write of the reply, or a read from the client, fails or times out.
ClientFails ==
  /\ writing # 0 \/ reading
  /\ Become(Abort(World))
  /\ UNCHANGED <<owners, first, ahead>>

Next ==
  /\ over = "no"
  /\ \/ \E b \in DOMAIN subs : QueryWritten(b)
     \/ \E b \in DOMAIN subs : ConnectFailed(b)
     \/ \E b \in DOMAIN subs : WriteFailed(b)
     \/ \E b \in DOMAIN subs, n \in 0..Len(owners) : OnBackendReplyReceived(b, n)
     \/ \E b \in DOMAIN subs : ReplyFailed(b)
     \/ \E n \in 1..(2 * Len(owners)) : HandleRead(n)
     \/ AheadWritten
     \/ StartWriteReply
     \/ OnWriteReplyFinished
     \/ ClientFails

Spec == Init /\ [][Next]_vars

\* Every operation has a timer; the commands ahead end too.
Timeout ==
  /\ over = "no"
  /\ \/ \E b \in DOMAIN subs : WriteFailed(b)
     \/ \E b \in DOMAIN subs : ReplyFailed(b)
     \/ AheadWritten
     \/ StartWriteReply
     \/ ClientFails

FairSpec == Spec /\ WF_vars(Timeout)

-----------------------------------------------------------------------------
(* Properties.                                                             *)

\* The variables' types and bounds.
TypeOK ==
  /\ owners \in Queries /\ first \in BOOLEAN /\ ahead \in BOOLEAN
  /\ reading \in BOOLEAN /\ failed \in BOOLEAN
  /\ received \in 2..(2 * Len(owners)) /\ parsed \in 1..Len(owners)
  /\ subs \in Seq([keys : SUBSET (1..Len(owners)), answer : 0..Len(owners),
                   io : {"query", "reply", "none", "released"}])
  /\ total_del_count \in 0..Len(owners) /\ count \in 0..Len(owners)
  /\ lock \in 0..Len(owners)
  /\ replying_backend \in 0..Len(subs) /\ writing \in 0..Len(subs)
  /\ over \in {"no", "done", "aborted"}

\* The assert of the destructor holds, and that of OnWriteReplyFinished: when
\* the reply has been written one subquery is pending and the query has been
\* received.
NoAssertFails == ~failed

\* The reply is written once every key has been sent and every subquery is
\* answered or has failed to connect, and it is the last total.
ReplyIsLast ==
  writing # 0 =>
    /\ UNION {subs[b].keys : b \in DOMAIN subs} = 1..Len(owners)
    /\ \A b \in DOMAIN subs : subs[b].io \in {"none", "released"}
    /\ count = total_del_count

\* The sum of the answers of the subqueries s.
SumOfAnswers(s) ==
  LET upto[b \in 0..Len(s)] == IF b = 0 THEN 0 ELSE upto[b - 1] + s[b].answer
  IN upto[Len(s)]

\* The reply is the sum of the answers of all subqueries, none of which can
\* still be answered.
SumIsComplete == ReplyIsLast /\ (writing # 0 => count = SumOfAnswers(subs))

\* The client's buffer is locked for exactly the subqueries that are being
\* written from it.
LockPerQuery ==
  lock = Cardinality({b \in DOMAIN subs : subs[b].io = "query"})

\* The command ends, with its reply or with the connection.
CommandEnds == <>(over # "no")
=============================================================================
