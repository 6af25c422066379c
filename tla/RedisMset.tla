----------------------------- MODULE RedisMset ------------------------------
(***************************************************************************)
(* MSET (src/proxy/redis_mset_command.cc): like DEL, the pairs of key and  *)
(* value that have arrived are sent on while the rest of the query is      *)
(* still to come, but a pair is sent as soon as its value's length is      *)
(* known.  The subquery of the last such pair, tail_query_, goes on when   *)
(* the client has sent more.                                               *)
(*                                                                         *)
(* A pair is four units of the query: a first part, with which it cannot   *)
(* be parsed; the rest of the key and the value's header; two parts of the *)
(* value.  Writes of several segments, replies in several pieces, the      *)
(* buffer's limit and the client's shutdown are treated as in module       *)
(* RedisDel.                                                               *)
(***************************************************************************)
EXTENDS Integers, Sequences, FiniteSets

CONSTANT Queries   \* the sequences of the backends that own the pairs' keys

\* A query has a pair.
ASSUME QueriesAssumption ==
  \A s \in Queries : s \in Seq({s[i] : i \in DOMAIN s}) /\ s # <<>>

VARIABLES
  owners,     \* the backend of every pair
  first,      \* client_conn_->IsFirstCommand(this)
  ahead,      \* a command ahead is writing its query from the same buffer
  reading,    \* is_reading_query_
  received,   \* units of the query received
  parsed,     \* pairs parsed: unparsed_bulks_ is twice the others
  subs,       \* every subquery so far: [pairs, io, whole, error], whole being
              \* query_recv_complete_; a released one is no longer in
              \* pending_subqueries_
  tail_query, \* index of tail_query_
  lock,       \* this command's part of the client buffer's lock count
  replying_backend, writing,   \* indices of subqueries, 0 for none
  over,       \* "no", "done" (rotated away) or "aborted"
  failed      \* an assert of the code has failed

vars == <<owners, first, ahead, reading, received, parsed, subs, tail_query,
          lock, replying_backend, writing, over, failed>>

World ==
  [reading |-> reading, received |-> received, parsed |-> parsed,
   subs |-> subs, tail |-> tail_query, lock |-> lock,
   replying |-> replying_backend, writing |-> writing, over |-> over,
   failed |-> failed]

Become(w) ==
  /\ reading' = w.reading /\ received' = w.received /\ parsed' = w.parsed
  /\ subs' = w.subs /\ tail_query' = w.tail /\ lock' = w.lock
  /\ replying_backend' = w.replying /\ writing' = w.writing
  /\ over' = w.over /\ failed' = w.failed

Check(w, assertion) == [w EXCEPT !.failed = @ \/ ~assertion]

Abort(w) == [w EXCEPT !.over = "aborted"]

query_parsing_complete(w) == w.parsed = Len(owners)

query_recv_complete(w) == w.subs[w.tail].whole /\ query_parsing_complete(w)

\* parsed_unreceived_bytes() > 0
Unreceived(w) == 4 * w.parsed > w.received

pending_subqueries(w) == {b \in DOMAIN w.subs : w.subs[b].io # "released"}

recycle_locked(w, isAhead) == w.lock > 0 \/ isAhead \/ w.reading

TryReadMoreQuery(w) == [w EXCEPT !.reading = TRUE]

ReadIfUnlocked(w, isAhead) ==
  IF recycle_locked(w, isAhead) THEN w ELSE TryReadMoreQuery(w)

\* The endpoints S in the order of the map that ActivateWaitingSubquery runs
\* through.
Listed(S) ==
  CHOOSE q \in [1..Cardinality(S) -> S] :
    \A i, j \in DOMAIN q : q[i] = q[j] => i = j

TailOf(w, eps, upto) ==
  Len(w.subs) + CHOOSE i \in DOMAIN eps : eps[i] = owners[upto]

\* PushSubquery for every new pair, and ActivateWaitingSubquery.
PushSubqueries(w, upto) ==
  LET new == (w.parsed + 1)..upto
      eps == Listed({owners[k] : k \in new})
      tail == TailOf(w, eps, upto)
  IN [w EXCEPT
        !.parsed = upto,
        !.lock = @ + Len(eps),
        !.tail = tail,
        !.subs = @ \o [i \in DOMAIN eps |->
                         [pairs |-> {k \in new : owners[k] = eps[i]},
                          io |-> "query",
                          whole |-> Len(w.subs) + i # tail \/ 4 * upto <= w.received,
                          error |-> FALSE]]]

Parsable(n) == (n + 2) \div 4

\* The constructor and StartWriteQuery: the first value's header is there.
Init ==
  /\ owners \in Queries
  /\ first \in BOOLEAN
  /\ ahead \in (IF first THEN {FALSE} ELSE BOOLEAN)
  /\ \E n \in 2..(4 * Len(owners)) :
       LET w == PushSubqueries(
                  [reading |-> FALSE, received |-> n, parsed |-> 0,
                   subs |-> <<>>, tail |-> 0, lock |-> 0, replying |-> 0,
                   writing |-> 0, over |-> "no", failed |-> FALSE], Parsable(n))
       IN /\ reading = w.reading /\ received = w.received /\ parsed = w.parsed
          /\ subs = w.subs /\ tail_query = w.tail /\ lock = w.lock
          /\ replying_backend = w.replying /\ writing = w.writing
          /\ over = w.over /\ failed = w.failed

TryWriteReply(w, b) == IF w.writing # 0 THEN w ELSE [w EXCEPT !.writing = b]

\* Mutant of IsLast: pairs still to come are forgotten.
IsLastPending(w) == Cardinality(pending_subqueries(w)) = 1

IsLast(w) ==
  query_parsing_complete(w) /\ Cardinality(pending_subqueries(w)) = 1

\* Mutant of Settle: the last subquery is released too.
SettleAll(w, b) ==
  IF IsLast(w)
  THEN LET w1 == [w EXCEPT !.subs[b].io = "released"]
       IN IF first THEN TryWriteReply(w1, b) ELSE [w1 EXCEPT !.replying = b]
  ELSE [w EXCEPT !.subs[b].io = "released"]

\* The last subquery gives the client its reply, any other is released.
Settle(w, b) ==
  IF IsLast(w)
  THEN LET w1 == [w EXCEPT !.subs[b].io = "none"]
       IN IF first THEN TryWriteReply(w1, b) ELSE [w1 EXCEPT !.replying = b]
  ELSE [w EXCEPT !.subs[b].io = "released"]

\* Mutant of OnBackendRecoverableError: the rest of the tail is not awaited.
SettleErrorAtOnce(w, b) == Settle([w EXCEPT !.subs[b].error = TRUE], b)

\* A subquery whose data have not all come waits for them.
OnBackendRecoverableError(w, b) ==
  LET w1 == [w EXCEPT !.subs[b].error = TRUE] IN
  IF w.subs[b].whole THEN Settle(w1, b) ELSE [w1 EXCEPT !.subs[b].io = "none"]

\* ContinueWriteQuery, with the read HandleRead makes if it has no callback.
ContinueWriteQuery(w) ==
  LET t == w.tail
      w1 == IF Unreceived(w) THEN w ELSE [w EXCEPT !.subs[t].whole = TRUE]
  IN IF ~w1.subs[t].error
     THEN [Check(w1, w1.subs[t].io = "more") EXCEPT !.subs[t].io = "rest",
                                                    !.lock = @ + 1]
     ELSE IF w1.subs[t].whole THEN Settle(w1, t) ELSE TryReadMoreQuery(w1)

\* ProcessUnparsedPart, called unless all is parsed.
ProcessUnparsedPart(w, isAhead) ==
  IF query_parsing_complete(w) THEN w
  ELSE IF Parsable(w.received) = w.parsed THEN ReadIfUnlocked(w, isAhead)
  ELSE PushSubqueries(w, Parsable(w.received))

-----------------------------------------------------------------------------

\* Mutant of AfterWrite: reading is left to OnBackendReplyReceived.
AfterWriteNoRead(w, b) ==
  [w EXCEPT !.lock = @ - 1,
            !.subs[b].io = IF w.subs[b].whole THEN "reply" ELSE "more"]

\* The phases SENDING_MORE_QUERY and READING_MORE_QUERY once all segments are
\* written.
AfterWrite(w, b) ==
  LET w1 == [w EXCEPT !.lock = @ - 1,
                      !.subs[b].io = IF w.subs[b].whole THEN "reply" ELSE "more"]
  IN IF query_recv_complete(w1) THEN w1 ELSE ReadIfUnlocked(w1, ahead)

\* OnWriteQueryFinished, success.
QueryWritten(b) ==
  /\ subs[b].io \in {"query", "rest"}
  /\ Become(AfterWrite(World, b))
  /\ UNCHANGED <<owners, first, ahead>>

\* OnWriteQueryFinished, E_CONNECT: before anything has been written.
ConnectFailed(b) ==
  /\ subs[b].io = "query"
  /\ LET w == OnBackendRecoverableError(World, b)
         w1 == [w EXCEPT !.lock = @ - 1]
     IN Become(IF query_recv_complete(w1) THEN w1 ELSE ReadIfUnlocked(w1, ahead))
  /\ UNCHANGED <<owners, first, ahead>>

\* OnWriteQueryFinished with any other error, timeouts included.
WriteFailed(b) ==
  /\ subs[b].io \in {"query", "rest"}
  /\ Become(Abort(World))
  /\ UNCHANGED <<owners, first, ahead>>

\* OnBackendReplyReceived with a complete reply.
OnBackendReplyReceived(b) ==
  /\ subs[b].io = "reply"
  /\ LET w == Settle(World, b) IN
     Become(IF IsLast(World) \/ query_parsing_complete(w) THEN w
            ELSE ReadIfUnlocked(w, ahead))
  /\ UNCHANGED <<owners, first, ahead>>

\* OnBackendReplyReceived with an error, a timeout or a malformed reply.
ReplyFailed(b) ==
  /\ subs[b].io = "reply"
  /\ Become(Abort(World))
  /\ UNCHANGED <<owners, first, ahead>>

\* ClientConnection::HandleRead with n more units.
HandleRead(n) ==
  /\ reading /\ n \in 1..(4 * Len(owners) - received)
  /\ LET w == [World EXCEPT !.reading = FALSE, !.received = @ + n]
         w1 == IF Unreceived(World) THEN ContinueWriteQuery(w) ELSE w
     IN Become(IF Unreceived(w) THEN w1 ELSE ProcessUnparsedPart(w1, ahead))
  /\ UNCHANGED <<owners, first, ahead>>

\* The command ahead has written its query.
AheadWritten ==
  /\ ahead /\ ahead' = FALSE
  /\ Become(World)
  /\ UNCHANGED <<owners, first>>

\* RotateReplyingCommand makes this command the first: StartWriteReply, and
\* the read that the lock of a command ahead may have held up.
StartWriteReply ==
  /\ ~first /\ ~ahead /\ first' = TRUE
  /\ Become(IF ~query_recv_complete(World) THEN ReadIfUnlocked(World, FALSE)
            ELSE IF replying_backend = 0 THEN World
            ELSE TryWriteReply(World, replying_backend))
  /\ UNCHANGED <<owners, ahead>>

\* Command::OnWriteReplyFinished and the destructor's assert.
OnWriteReplyFinished ==
  /\ writing # 0
  /\ LET w == Check(World, /\ query_recv_complete(World)
                           /\ Cardinality(pending_subqueries(World)) = 1)
     IN Become([w EXCEPT !.writing = 0, !.over = "done"])
  /\ UNCHANGED <<owners, first, ahead>>

\* The write of the reply, or a read from the client, fails or times out.
ClientFails ==
  /\ writing # 0 \/ reading
  /\ Become(Abort(World))
  /\ UNCHANGED <<owners, first, ahead>>

Next ==
  /\ over = "no"
  /\ \/ \E b \in DOMAIN subs : QueryWritten(b)
     \/ \E b \in DOMAIN subs : ConnectFailed(b)
     \/ \E b \in DOMAIN subs : WriteFailed(b)
     \/ \E b \in DOMAIN subs : OnBackendReplyReceived(b)
     \/ \E b \in DOMAIN subs : ReplyFailed(b)
     \/ \E n \in 1..(4 * Len(owners)) : HandleRead(n)
     \/ AheadWritten
     \/ StartWriteReply
     \/ OnWriteReplyFinished
     \/ ClientFails

Spec == Init /\ [][Next]_vars

\* Every operation has a timer; the commands ahead end too.
Timeout ==
  /\ over = "no"
  /\ \/ \E b \in DOMAIN subs : WriteFailed(b)
     \/ \E b \in DOMAIN subs : ReplyFailed(b)
     \/ AheadWritten
     \/ StartWriteReply
     \/ ClientFails

FairSpec == Spec /\ WF_vars(Timeout)

-----------------------------------------------------------------------------
(* Properties.                                                             *)

\* The variables' types and bounds.
TypeOK ==
  /\ owners \in Queries /\ first \in BOOLEAN /\ ahead \in BOOLEAN
  /\ reading \in BOOLEAN /\ failed \in BOOLEAN
  /\ received \in 2..(4 * Len(owners)) /\ parsed \in 1..Len(owners)
  /\ subs \in Seq([pairs : SUBSET (1..Len(owners)), whole : BOOLEAN,
                   io : {"query", "more", "rest", "reply", "none", "released"},
                   error : BOOLEAN])
  /\ tail_query \in DOMAIN subs /\ lock \in 0..Len(owners)
  /\ replying_backend \in 0..Len(subs) /\ writing \in 0..Len(subs)
  /\ over \in {"no", "done", "aborted"}

\* The asserts hold: the phase in ContinueWriteQuery, the received query in
\* OnWriteReplyFinished, and the one pending subquery in the destructor.
NoAssertFails == ~failed

\* The reply is written once every pair has been received and sent, and
\* every subquery has been answered or has failed to connect.
ReplyIsLast ==
  writing # 0 =>
    /\ received = 4 * Len(owners)
    /\ UNION {subs[b].pairs : b \in DOMAIN subs} = 1..Len(owners)
    /\ \A b \in DOMAIN subs : subs[b].io \in {"none", "released"}

\* Only the tail may lack data, and it is never released before they have
\* come: they would be taken for the next query or sent to another backend.
TailWaits ==
  \A b \in DOMAIN subs :
    /\ ~subs[b].whole => b = tail_query /\ Unreceived(World)
    /\ subs[b].io \in {"reply", "released"} => subs[b].whole

\* The command ends, with its reply or with the connection.
CommandEnds == <>(over # "no")
=============================================================================
